------------------------ MODULE ArchiveLookupsProofs ------------------------
(***************************************************************************)
(* While nobody removes anything, the module archive cache keeps its       *)
(* promise: ArchiveStore implements ImmutableStore, for any number of      *)
(* invocations that look up, publish, update latest and are killed.        *)
(***************************************************************************)
EXTENDS ArchiveStoreProofs

NoRemovals == \A p \in Proc : Ops[p] \intersect RemoveOp = {}

-----------------------------------------------------------------------------
(* The inductive invariant.  What an invocation holds is its own and is    *)
(* not published; a staging directory is complete by the time it is sealed *)
(* (the parts of StageWhole follow the writes of Put); and an entry that   *)
(* was seen is still there with what was read from it.                     *)
Own   == \A p, q \in Proc : p # q /\ dir[p] # NoInode => dir[p] # dir[q]
Apart == \A p \in Proc, v \in Version : entry[v] # NoInode => entry[v] # dir[p]

HasZip          == {"hashZip", "writeHash", "writeVerification", "writeRevision", "seal", "rename"}
HasHash         == HasZip \ {"hashZip", "writeHash"}
HasVerification == HasHash \ {"writeVerification"}
HasRevision     == HasVerification \ {"writeRevision"}

StageWhole(p) ==
    /\ pc[p] \in HasZip => file[dir[p]]["zip"] = job[p].arch
    /\ pc[p] \in HasHash => file[dir[p]]["hash"] = job[p].arch
    /\ pc[p] \in HasVerification => file[dir[p]]["verification"] = job[p].arch
    /\ pc[p] \in HasRevision => file[dir[p]]["revision"] = RevisionOf(job[p].arch)

HasSeen(p) == \/ pc[p] \in GetLabel \ {"checkZip"}
              \/ pc[p] \in {"verify", "renameAlias", "createAlias"}
              \/ pc[p] = "mkdir" /\ job[p].op = "setLatest"
              \/ pc[p] = "idle" /\ IsLookup(p)

HasData   == {"readRevision", "readVerification", "matchVerification", "verify", "idle"}
HasRead   == {"readVerification", "matchVerification", "verify", "idle"}
HasAll    == {"matchVerification", "verify", "idle"}

ReadsSound(p) ==
    /\ HasSeen(p) => entry[job[p].ver] # NoInode
    /\ HasSeen(p) /\ pc[p] \in HasData => got[p].data = Read(job[p].ver, "zip")
    /\ HasSeen(p) /\ pc[p] \in HasRead => got[p].revision = Read(job[p].ver, "revision")
    /\ HasSeen(p) /\ pc[p] \in HasAll => got[p].verification = Read(job[p].ver, "verification")

Good(p) ==
    /\ job[p].op \notin RemoveOp
    /\ IsLookup(p) /\ pc[p] = "idle" => job[p].ver \in Version
    /\ StageWhole(p)
    /\ ReadsSound(p)

LookupInv ==
    /\ \A p \in Proc : Good(p)
    /\ Own
    /\ Apart
    /\ EntriesWhole
    /\ AliasResolves

-----------------------------------------------------------------------------
(* What a step of p leaves alone. *)
OthersSame(p) == Alone(p) /\ \A q \in Proc \ {p} : got'[q] = got[q]

EntriesSame ==
    \A v \in Version : entry[v] # NoInode =>
        entry'[v] = entry[v] /\ file'[entry[v]] = file[entry[v]]

Frame(p) ==
    /\ OthersSame(p)
    /\ EntriesSame
    /\ \A q \in Proc \ {p} : dir[q] # NoInode => file'[dir[q]] = file[dir[q]]

LEMMA SeenVersion ==
    ASSUME TypeInv, LookupInv, NEW p \in Proc, HasSeen(p)
    PROVE  job[p].ver \in Version /\ entry[job[p].ver] # NoInode
<1>1. Fits(pc[p], job[p], dir[p]) /\ Good(p)
  BY DEF TypeInv, LookupInv
<1>2. job[p].op # "removeModule"
  BY <1>1 DEF Good, RemoveOp
<1>3. job[p].ver \in Version
  BY <1>1, <1>2 DEF HasSeen, Fits, Good, GetLabel
<1> QED
  BY <1>1, <1>3 DEF Good, ReadsSound

LEMMA OthersGood ==
    ASSUME TypeInv, LookupInv, NEW p \in Proc, Frame(p), NEW q \in Proc, q # p
    PROVE  Good(q)'
<1>1. pc'[q] = pc[q] /\ job'[q] = job[q] /\ dir'[q] = dir[q] /\ got'[q] = got[q]
  BY DEF Frame, OthersSame, Alone
<1>2. Good(q) /\ Fits(pc[q], job[q], dir[q])
  BY DEF LookupInv, TypeInv
<1>3. StageWhole(q)'
  <2>1. pc[q] \in HasZip => dir[q] # NoInode
    BY <1>2 DEF Fits, HasZip, StageLabel
  <2>2. pc[q] \in HasZip => file'[dir[q]] = file[dir[q]]
    BY <2>1 DEF Frame
  <2>3. HasHash \subseteq HasZip /\ HasVerification \subseteq HasZip /\ HasRevision \subseteq HasZip
    BY DEF HasHash, HasVerification, HasRevision
  <2> QED
    BY <1>1, <1>2, <2>2, <2>3 DEF Good, StageWhole
<1>4. ReadsSound(q)'
  <2>1. HasSeen(q)' <=> HasSeen(q)
    BY <1>1 DEF HasSeen, IsLookup
  <2>2. CASE HasSeen(q)
    <3>1. /\ entry[job[q].ver] # NoInode
          /\ entry'[job[q].ver] = entry[job[q].ver]
          /\ file'[entry[job[q].ver]] = file[entry[job[q].ver]]
      BY <2>2, SeenVersion DEF Frame, EntriesSame
    <3> QED
      BY <1>1, <1>2, <2>1, <3>1 DEF Good, ReadsSound, Read
  <2>3. CASE ~HasSeen(q)
    BY <2>1, <2>3 DEF ReadsSound
  <2> QED
    BY <2>2, <2>3
<1> QED
  BY <1>1, <1>2, <1>3, <1>4 DEF Good, IsLookup

LEMMA Combine ==
    ASSUME TypeInv, LookupInv, NEW p \in Proc, Frame(p), Good(p)', Own', Apart', EntriesWhole', AliasResolves'
    PROVE  LookupInv' /\ Frame(p)
BY OthersGood DEF LookupInv

(* Steps that neither publish nor record latest. *)
LEMMA QuietKept ==
    ASSUME TypeInv, LookupInv, NEW p \in Proc, OthersSame(p), UNCHANGED <<entry, alias>>,
           dir'[p] \in {dir[p], NoInode} \union FreeInode,
           \A i \in Inode : i \notin {dir[p]} \union FreeInode => file'[i] = file[i],
           Good(p)'
    PROVE  LookupInv' /\ Frame(p)
<1>1. EntriesSame
  <2>1. ASSUME NEW v \in Version, entry[v] # NoInode PROVE file'[entry[v]] = file[entry[v]]
    <3>1. entry[v] \in Inode /\ entry[v] # dir[p] /\ entry[v] \notin FreeInode
      BY <2>1 DEF TypeInv, TreeTyped, LookupInv, Apart, FreeInode
    <3> QED
      BY <3>1
  <2> QED
    BY <2>1 DEF EntriesSame
<1>2. ASSUME NEW q \in Proc \ {p}, dir[q] # NoInode PROVE file'[dir[q]] = file[dir[q]]
  <2>1. dir[q] \in Inode /\ dir[q] # dir[p] /\ dir[q] \notin FreeInode
    BY <1>2 DEF TypeInv, ProgressTyped, LookupInv, Own, FreeInode
  <2> QED
    BY <2>1
<1>3. Own'
  <2>1. \A q \in Proc : q # p => dir'[q] = dir[q]
    BY DEF OthersSame, Alone
  <2>2. \A q \in Proc : dir[q] \notin FreeInode
    BY DEF FreeInode
  <2>3. ASSUME NEW q \in Proc, NEW r \in Proc, q # r, dir'[q] # NoInode PROVE dir'[q] # dir'[r]
    <3>1. CASE q = p
      BY <2>1, <2>2, <2>3, <3>1 DEF LookupInv, Own
    <3>2. CASE r = p
      BY <2>1, <2>2, <2>3, <3>2 DEF LookupInv, Own
    <3>3. CASE q # p /\ r # p
      BY <2>1, <2>3, <3>3 DEF LookupInv, Own
    <3> QED
      BY <3>1, <3>2, <3>3
  <2> QED
    BY <2>3 DEF Own
<1>4. Apart'
  <2>1. ASSUME NEW q \in Proc, NEW v \in Version, entry[v] # NoInode PROVE entry[v] # dir'[q]
    <3>1. entry[v] # dir[q] /\ entry[v] \notin FreeInode
      BY <2>1 DEF LookupInv, Apart, FreeInode
    <3> QED
      BY <2>1, <3>1 DEF OthersSame, Alone
  <2> QED
    BY <2>1 DEF Apart
<1>5. EntriesWhole'
  BY <1>1 DEF EntriesSame, LookupInv, EntriesWhole, Whole
<1>6. AliasResolves'
  BY DEF LookupInv, AliasResolves
<1> QED
  BY <1>1, <1>2, <1>3, <1>4, <1>5, <1>6, Combine DEF Frame

(* The same, for steps that change no file and take nothing. *)
LEMMA StillKept ==
    ASSUME TypeInv, LookupInv, NEW p \in Proc, OthersSame(p), UNCHANGED <<entry, file, alias>>,
           dir'[p] \in {dir[p], NoInode}, Good(p)'
    PROVE  LookupInv' /\ Frame(p)
BY QuietKept

LEMMA ReturnGood ==
    ASSUME TypeInv, NEW p \in Proc, NEW result, Return(p, result), ~(result = "ok" /\ IsLookup(p))
    PROVE  OthersSame(p) /\ dir'[p] = NoInode /\ Good(p)'
<1>1. /\ pc' = [pc EXCEPT ![p] = "idle"]
      /\ dir' = [dir EXCEPT ![p] = NoInode]
      /\ job' = [job EXCEPT ![p] = NoJob]
      /\ got' = [got EXCEPT ![p] = NoReads]
  BY DEF Return, Goto
<1>2. OthersSame(p) /\ dir'[p] = NoInode /\ pc'[p] = "idle" /\ job'[p].op = "none"
  BY <1>1 DEF OthersSame, Alone, TypeInv, ProgressTyped, NoJob
<1>3. ~IsLookup(p)' /\ ~HasSeen(p)'
  BY <1>2 DEF IsLookup, HasSeen, GetLabel
<1>4. StageWhole(p)' /\ ReadsSound(p)'
  BY <1>2, <1>3 DEF StageWhole, ReadsSound, HasZip, HasHash, HasVerification, HasRevision
<1> QED
  BY <1>2, <1>3, <1>4 DEF Good, RemoveOp

(* A step to a label at which nothing is claimed. *)
LEMMA GotoGood ==
    ASSUME TypeInv, LookupInv, NEW p \in Proc, NEW l, Goto(p, l), job' = job,
           l \in {"checkZip", "mktemp", "writeZip", "cleanup"} \/ (l = "mkdir" /\ job[p].op = "put")
    PROVE  pc'[p] = l /\ Good(p)'
<1>1. pc'[p] = l /\ job'[p] = job[p]
  BY DEF Goto, TypeInv, ProgressTyped
<1>2. ~HasSeen(p)'
  BY <1>1 DEF HasSeen, GetLabel
<1>3. StageWhole(p)' /\ ReadsSound(p)'
  BY <1>1, <1>2 DEF StageWhole, ReadsSound, HasZip, HasHash, HasVerification, HasRevision
<1> QED
  BY <1>1, <1>3 DEF Good, LookupInv

-----------------------------------------------------------------------------
(* Latest and Get. *)
LEMMA GetReturnsKept ==
    ASSUME TypeInv, LookupInv, NEW p \in Proc, NEW result, GetReturns(p, result), UNCHANGED fs,
           result = "ok" => pc[p] = "matchVerification" /\ Read(job[p].ver, "zip") = got[p].verification
    PROVE  LookupInv' /\ Frame(p)
<1>1. UNCHANGED <<entry, file, alias>>
  BY DEF fs
<1>2. CASE AfterGet(p, result) = "idle"
  <2>1. Return(p, result)
    BY <1>2 DEF GetReturns
  <2>2. ~(result = "ok" /\ IsLookup(p))
    BY <1>2 DEF AfterGet
  <2> QED
    BY <1>1, <2>1, <2>2, ReturnGood, StillKept
<1>3. CASE AfterGet(p, result) # "idle"
  <2>1. UNCHANGED <<job, dir>> /\ pc' = [pc EXCEPT ![p] = AfterGet(p, result)]
    BY <1>3 DEF GetReturns, Goto
  <2>2. OthersSame(p)
    <3>1. got' = got \/ got' = [got EXCEPT ![p] = NoReads]
      BY <1>3 DEF GetReturns
    <3> QED
      BY <2>1, <3>1 DEF OthersSame, Alone, TypeInv, ProgressTyped
  <2>3. Good(p)'
    <3>1. Good(p)
      BY DEF LookupInv
    <3>2. CASE AfterGet(p, result) = "verify"
      <4>1. IsLookup(p) /\ result = "ok" /\ UNCHANGED got
        BY <1>3, <3>2 DEF AfterGet, GetReturns
      <4>2. HasSeen(p) /\ pc[p] = "matchVerification"
        BY <4>1 DEF HasSeen, GetLabel
      <4>3. pc'[p] = "verify"
        BY <2>1, <3>2 DEF TypeInv, ProgressTyped
      <4>4. ReadsSound(p)'
        BY <1>1, <2>1, <3>1, <4>1, <4>2, <4>3 DEF Good, ReadsSound, Read, HasData, HasRead, HasAll
      <4>5. StageWhole(p)'
        BY <4>3 DEF StageWhole, HasZip, HasHash, HasVerification, HasRevision
      <4> QED
        BY <2>1, <3>1, <4>3, <4>4, <4>5 DEF Good, IsLookup
    <3>3. CASE AfterGet(p, result) # "verify" /\ job[p].op = "put"
      <4>1. AfterGet(p, result) \in {"cleanup", "mkdir"} /\ Goto(p, AfterGet(p, result))
        BY <1>3, <3>3 DEF AfterGet, GetReturns, IsLookup
      <4> QED
        BY <2>1, <3>3, <4>1, GotoGood
    <3>4. CASE AfterGet(p, result) # "verify" /\ job[p].op # "put"
      <4>1. job[p].op = "setLatest" /\ result = "ok" /\ AfterGet(p, result) = "mkdir"
        BY <1>3, <3>4 DEF AfterGet
      <4>2. pc'[p] = "mkdir" /\ HasSeen(p)
        BY <2>1, <4>1 DEF TypeInv, ProgressTyped, HasSeen, GetLabel
      <4>3. entry[job[p].ver] # NoInode
        BY <4>2, SeenVersion
      <4>4. ReadsSound(p)' /\ StageWhole(p)'
        BY <1>1, <2>1, <4>2, <4>3 DEF ReadsSound, StageWhole, HasData, HasRead, HasAll,
                                     HasZip, HasHash, HasVerification, HasRevision
      <4> QED
        BY <2>1, <3>1, <4>2, <4>4 DEF Good
    <3> QED
      BY <3>2, <3>3, <3>4
  <2> QED
    BY <1>1, <2>1, <2>2, <2>3, StillKept
<1> QED
  BY <1>2, <1>3

(* A read that passes. *)
LEMMA GetPasses ==
    ASSUME TypeInv, LookupInv, NEW p \in Proc, NEW next \in GetLabel,
           pc[p] \in GetLabel, Goto(p, next), UNCHANGED <<fs, job, dir>>,
           NEW reads, got' = [got EXCEPT ![p] = reads],
           entry[job[p].ver] # NoInode,
           next \in HasData => reads.data = Read(job[p].ver, "zip"),
           next \in HasRead => reads.revision = Read(job[p].ver, "revision"),
           next \in HasAll => reads.verification = Read(job[p].ver, "verification")
    PROVE  LookupInv' /\ Frame(p)
<1>1. UNCHANGED <<entry, file, alias>>
  BY DEF fs
<1>2. OthersSame(p) /\ pc'[p] = next /\ got'[p] = reads
  BY DEF Goto, OthersSame, Alone, TypeInv, ProgressTyped
<1>3. ReadsSound(p)'
  BY <1>1, <1>2 DEF ReadsSound, Read
<1>4. StageWhole(p)' /\ next # "idle"
  BY <1>2 DEF StageWhole, GetLabel, HasZip, HasHash, HasVerification, HasRevision
<1>5. Good(p)'
  BY <1>2, <1>3, <1>4 DEF LookupInv, Good
<1> QED
  BY <1>1, <1>2, <1>5, StillKept

LEMMA GetKept ==
    ASSUME TypeInv, LookupInv, NEW p \in Proc, Get(p) PROVE LookupInv' /\ Frame(p)
<1> DEFINE v == job[p].ver
<1>1. got[p] \in Reads /\ Good(p)
  BY DEF TypeInv, ProgressTyped, LookupInv
<1>2. pc[p] \in GetLabel \ {"checkZip"} => HasSeen(p) /\ entry[v] # NoInode
  BY SeenVersion DEF HasSeen
<1>3. ASSUME NEW at, NEW passes, NEW reads, NEW next, NEW failure \in {"notFound", "error"},
             GetStep(p, at, passes, reads, next, failure), ~passes
      PROVE  LookupInv' /\ Frame(p)
  BY <1>3, GetReturnsKept DEF GetStep
<1>4. CASE GetCheckZip(p)
  <2>1. CASE Read(v, "zip") # Absent
    <3>1. entry[v] # NoInode
      BY <2>1 DEF Read
    <3> QED
      BY <1>4, <2>1, <3>1, GetPasses DEF GetCheckZip, GetStep, GetLabel, HasData, HasRead, HasAll
  <2>2. CASE Read(v, "zip") = Absent
    BY <1>3, <1>4, <2>2 DEF GetCheckZip
  <2> QED
    BY <2>1, <2>2
<1>5. CASE GetReadHash(p)
  <2>1. CASE Read(v, "hash") # Absent
    BY <1>2, <1>5, <2>1, GetPasses DEF GetReadHash, GetStep, GetLabel, HasData, HasRead, HasAll
  <2>2. CASE Read(v, "hash") = Absent
    BY <1>3, <1>5, <2>2 DEF GetReadHash
  <2> QED
    BY <2>1, <2>2
<1>6. CASE GetMatchHash(p)
  <2>1. CASE Read(v, "zip") = got[p].hash
    BY <1>2, <1>6, <2>1, GetPasses DEF GetMatchHash, GetStep, GetLabel, HasData, HasRead, HasAll
  <2>2. CASE Read(v, "zip") # got[p].hash
    BY <1>3, <1>6, <2>2 DEF GetMatchHash
  <2> QED
    BY <2>1, <2>2
<1>7. CASE GetReadData(p)
  <2>1. CASE Read(v, "zip") # Absent
    <3>1. [got[p] EXCEPT !.data = Read(v, "zip")].data = Read(v, "zip")
      BY <1>1 DEF Reads
    <3> QED
      BY <1>2, <1>7, <2>1, <3>1, GetPasses DEF GetReadData, GetStep, GetLabel, HasData, HasRead, HasAll
  <2>2. CASE Read(v, "zip") = Absent
    BY <1>3, <1>7, <2>2 DEF GetReadData
  <2> QED
    BY <2>1, <2>2
<1>8. CASE GetReadRevision(p)
  <2> DEFINE reads == [got[p] EXCEPT !.revision = Read(v, "revision")]
  <2>1. HasSeen(p) /\ entry[v] # NoInode /\ pc[p] = "readRevision"
    BY <1>2, <1>8 DEF GetReadRevision, GetStep, GetLabel
  <2>2. reads.data = Read(v, "zip") /\ reads.revision = Read(v, "revision")
    BY <1>1, <2>1 DEF Reads, Good, ReadsSound, HasData
  <2> QED
    BY <1>8, <2>1, <2>2, GetPasses DEF GetReadRevision, GetStep, GetLabel, HasData, HasRead, HasAll
<1>9. CASE GetReadVerification(p)
  <2> DEFINE reads == [got[p] EXCEPT !.verification = Read(v, "verification")]
  <2>1. HasSeen(p) /\ entry[v] # NoInode /\ pc[p] = "readVerification"
    BY <1>2, <1>9 DEF GetReadVerification, GetStep, GetLabel
  <2>2. /\ reads.data = Read(v, "zip")
        /\ reads.revision = Read(v, "revision")
        /\ reads.verification = Read(v, "verification")
    BY <1>1, <2>1 DEF Reads, Good, ReadsSound, HasData, HasRead
  <2>3. CASE Read(v, "verification") # Absent
    BY <1>9, <2>1, <2>2, <2>3, GetPasses
       DEF GetReadVerification, GetStep, GetLabel, HasData, HasRead, HasAll
  <2>4. CASE Read(v, "verification") = Absent
    BY <1>3, <1>9, <2>4 DEF GetReadVerification
  <2> QED
    BY <2>3, <2>4
<1>10. CASE GetMatchVerification(p)
  BY <1>10, GetReturnsKept DEF GetMatchVerification
<1>11. CASE Cancelled(p)
  BY <1>11, GetReturnsKept DEF Cancelled
<1> QED
  BY <1>4, <1>5, <1>6, <1>7, <1>8, <1>9, <1>10, <1>11 DEF Get

(* What a lookup keeps from its separate reads of the entry's files is one *)
(* archive, the one that is stored.                                        *)
LEMMA SeenWhole ==
    ASSUME TypeInv, LookupInv, NEW p \in Proc, HasSeen(p), pc[p] \in HasAll
    PROVE  /\ got[p].data \in Archive
           /\ Whole(entry[job[p].ver], got[p].data)
           /\ got[p].data = Read(job[p].ver, "zip")
           /\ got[p].verification = got[p].data
           /\ got[p].revision = RevisionOf(got[p].data)
<1> DEFINE w == job[p].ver
<1>1. w \in Version /\ entry[w] # NoInode
  BY SeenVersion
<1>2. /\ got[p].data = Read(w, "zip")
      /\ got[p].revision = Read(w, "revision")
      /\ got[p].verification = Read(w, "verification")
  BY DEF LookupInv, Good, ReadsSound, HasAll, HasRead, HasData
<1>3. PICK a \in Archive : Whole(entry[w], a)
  BY <1>1 DEF LookupInv, EntriesWhole
<1>4. Read(w, "zip") = a /\ Read(w, "verification") = a /\ Read(w, "revision") = RevisionOf(a)
  BY <1>1, <1>3 DEF Read, Whole, File
<1> QED
  BY <1>2, <1>3, <1>4

(* The verification that an answer carries is the one it read.             *)
LEMMA AnswerSeen ==
    ASSUME TypeInv, LookupInv, NEW p \in Proc, Answer(p), pc[p] = "verify"
    PROVE  UNCHANGED <<job, got>>
<1>1. got[p].verification = got[p].data
  BY SeenWhole DEF HasSeen, HasAll
<1>2. got \in [Proc -> Reads]
  BY DEF TypeInv, ProgressTyped
<1>3. [got[p] EXCEPT !.verification = got[p].data] = got[p]
  BY <1>1, <1>2 DEF Reads
<1>4. got' = got
  BY <1>2, <1>3 DEF Answer
<1> QED
  BY <1>4 DEF Answer

LEMMA VerifyKept ==
    ASSUME TypeInv, LookupInv, NEW p \in Proc, Verify(p) PROVE LookupInv' /\ Frame(p)
<1>1. UNCHANGED <<entry, file, alias>> /\ pc[p] = "verify"
  BY VerifyCases DEF fs
<1>2. CASE Answer(p)
  <2>1. /\ pc' = [pc EXCEPT ![p] = "idle"]
        /\ dir' = [dir EXCEPT ![p] = NoInode]
        /\ UNCHANGED <<job, got>>
    BY <1>1, <1>2, AnswerSeen DEF Answer, Goto
  <2>2. OthersSame(p) /\ pc'[p] = "idle" /\ dir'[p] = NoInode
    BY <2>1 DEF OthersSame, Alone, TypeInv, ProgressTyped
  <2>3. HasSeen(p) /\ Good(p)
    BY <1>1 DEF HasSeen, LookupInv
  <2>4. ReadsSound(p)'
    BY <1>1, <2>1, <2>2, <2>3 DEF Good, ReadsSound, Read, HasData, HasRead, HasAll
  <2>5. StageWhole(p)'
    BY <2>2 DEF StageWhole, HasZip, HasHash, HasVerification, HasRevision
  <2>6. Good(p)'
    BY <2>1, <2>3, <2>4, <2>5, SeenVersion DEF Good
  <2> QED
    BY <1>1, <2>2, <2>6, StillKept
<1>3. CASE Return(p, "error")
  BY <1>1, <1>3, ReturnGood, StillKept
<1> QED
  BY <1>2, <1>3, VerifyCases

LEMMA ReadLatestKept ==
    ASSUME TypeInv, LookupInv, NEW p \in Proc, ReadLatest(p) PROVE LookupInv' /\ Frame(p)
<1>1. UNCHANGED <<entry, file, alias>>
  BY DEF ReadLatest, fs
<1>2. CASE alias = NoVersion
  BY <1>1, <1>2, ReturnGood, StillKept DEF ReadLatest
<1>3. CASE alias # NoVersion
  <2>1. /\ pc' = [pc EXCEPT ![p] = "checkZip"]
        /\ job' = [job EXCEPT ![p].ver = alias]
        /\ UNCHANGED <<dir, got>>
    BY <1>3 DEF ReadLatest, Goto
  <2>2. OthersSame(p) /\ pc'[p] = "checkZip" /\ job'[p].op = job[p].op
    BY <2>1 DEF OthersSame, Alone, TypeInv, ProgressTyped, Job
  <2>3. ~HasSeen(p)' /\ StageWhole(p)'
    BY <2>2 DEF HasSeen, GetLabel, StageWhole, HasZip, HasHash, HasVerification, HasRevision
  <2>4. Good(p)'
    BY <2>2, <2>3 DEF LookupInv, Good, ReadsSound
  <2> QED
    BY <1>1, <2>1, <2>2, <2>4, StillKept
<1> QED
  BY <1>2, <1>3

LEMMA StartKept ==
    ASSUME TypeInv, LookupInv, NoRemovals, NEW p \in Proc, Start(p) PROVE LookupInv' /\ Frame(p)
<1>1. PICK r \in Request : r.op \in Ops[p] /\ job' = [job EXCEPT ![p] = r] /\ Goto(p, FirstLabel(r.op))
  BY DEF Start
<1>2. r.op \notin RemoveOp
  BY <1>1 DEF NoRemovals
<1>3. FirstLabel(r.op) \in {"latest", "checkZip"}
  BY <1>2 DEF FirstLabel, RemoveOp
<1>4. OthersSame(p) /\ pc'[p] \in {"latest", "checkZip"} /\ job'[p] = r /\ UNCHANGED <<entry, file, alias, dir>>
  BY <1>1, <1>3 DEF Start, fs, Goto, OthersSame, Alone, TypeInv, ProgressTyped
<1>5. ~HasSeen(p)' /\ StageWhole(p)'
  BY <1>4 DEF HasSeen, GetLabel, StageWhole, HasZip, HasHash, HasVerification, HasRevision
<1>6. Good(p)'
  BY <1>2, <1>4, <1>5 DEF Good, ReadsSound
<1> QED
  BY <1>4, <1>6, StillKept

LEMMA CrashKept ==
    ASSUME TypeInv, LookupInv, NEW p \in Proc, Crash(p) PROVE LookupInv' /\ Frame(p)
<1>1. /\ pc' = [pc EXCEPT ![p] = "idle"]
      /\ dir' = [dir EXCEPT ![p] = NoInode]
      /\ job' = [job EXCEPT ![p] = NoJob]
      /\ got' = [got EXCEPT ![p] = NoReads]
      /\ UNCHANGED <<entry, file, alias>>
  BY DEF Crash, Goto, fs
<1>2. OthersSame(p) /\ dir'[p] = NoInode /\ pc'[p] = "idle" /\ job'[p].op = "none"
  BY <1>1 DEF OthersSame, Alone, TypeInv, ProgressTyped, NoJob
<1>3. ~IsLookup(p)' /\ ~HasSeen(p)'
  BY <1>2 DEF IsLookup, HasSeen, GetLabel
<1>4. Good(p)'
  BY <1>2, <1>3 DEF Good, RemoveOp, ReadsSound, StageWhole, HasZip, HasHash, HasVerification, HasRevision
<1> QED
  BY <1>1, <1>2, <1>4, StillKept

LEMMA MkdirKept ==
    ASSUME TypeInv, LookupInv, NEW p \in Proc, Mkdir(p) PROVE LookupInv' /\ Frame(p)
<1>1. UNCHANGED <<entry, file, alias, job, dir, got>> /\ pc[p] = "mkdir"
  BY DEF Mkdir
<1>2. OthersSame(p)
  BY DEF Mkdir, Goto, OthersSame, Alone, TypeInv, ProgressTyped
<1>3. CASE job[p].op = "put"
  BY <1>1, <1>2, <1>3, GotoGood, StillKept DEF Mkdir
<1>4. CASE job[p].op # "put"
  <2>1. pc'[p] = "createAlias"
    BY <1>4 DEF Mkdir, Goto, TypeInv, ProgressTyped
  <2>2. job[p].op = "setLatest"
    BY <1>1, <1>4 DEF TypeInv, Fits
  <2>3. entry[job[p].ver] # NoInode
    BY <1>1, <2>2, SeenVersion DEF HasSeen
  <2>4. ReadsSound(p)' /\ StageWhole(p)'
    BY <1>1, <2>1, <2>3 DEF ReadsSound, StageWhole, HasData, HasRead, HasAll,
                           HasZip, HasHash, HasVerification, HasRevision
  <2>5. Good(p)'
    BY <1>1, <2>1, <2>4 DEF LookupInv, Good
  <2> QED
    BY <1>1, <1>2, <2>5, StillKept
<1> QED
  BY <1>3, <1>4

-----------------------------------------------------------------------------
(* Put. *)
LEMMA StageDirectory ==
    ASSUME TypeInv, NEW p \in Proc, pc[p] \in StageLabel PROVE dir[p] \in Inode
BY StageFits DEF TypeInv, ProgressTyped, StageLabel

LEMMA PutFailsKept ==
    ASSUME TypeInv, LookupInv, NEW p \in Proc, PutFails(p), UNCHANGED <<entry, file, alias, job, dir, got>>
    PROVE  LookupInv' /\ Frame(p)
<1>1. OthersSame(p)
  BY DEF PutFails, Goto, OthersSame, Alone, TypeInv, ProgressTyped
<1>2. Good(p)'
  BY GotoGood DEF PutFails
<1> QED
  BY <1>1, <1>2, StillKept

(* Staging goes on: the next label claims no more than what is written.    *)
LEMMA StageKept ==
    ASSUME TypeInv, LookupInv, NEW p \in Proc, pc[p] \in StageLabel, NEW next \in StageLabel, Goto(p, next),
           UNCHANGED <<entry, alias, job, dir, got>>,
           \A i \in Inode : i # dir[p] => file'[i] = file[i],
           next \in HasZip => file'[dir[p]]["zip"] = job[p].arch,
           next \in HasHash => file'[dir[p]]["hash"] = job[p].arch,
           next \in HasVerification => file'[dir[p]]["verification"] = job[p].arch,
           next \in HasRevision => file'[dir[p]]["revision"] = RevisionOf(job[p].arch)
    PROVE  LookupInv' /\ Frame(p)
<1>1. OthersSame(p) /\ pc'[p] = next
  BY DEF Goto, OthersSame, Alone, TypeInv, ProgressTyped
<1>2. StageWhole(p)'
  BY <1>1 DEF StageWhole, RevisionOf
<1>3. ~HasSeen(p)' /\ next # "idle"
  BY <1>1 DEF HasSeen, StageLabel, GetLabel
<1>4. Good(p)'
  BY <1>1, <1>2, <1>3 DEF LookupInv, Good, ReadsSound
<1> QED
  BY <1>1, <1>4, QuietKept

LEMMA PutWriteKept ==
    ASSUME TypeInv, LookupInv, NEW p \in Proc,
           PutWriteZip(p) \/ PutWriteHash(p) \/ PutWriteVerification(p) \/ PutWriteRevision(p)
    PROVE  LookupInv' /\ Frame(p)
<1>1. pc[p] \in StageLabel /\ UNCHANGED <<entry, alias, job, dir, got>>
  BY DEF PutWriteZip, PutWriteHash, PutWriteVerification, PutWriteRevision, PutWrite, StageLabel
<1>2. dir[p] \in Inode /\ StageWhole(p) /\ file[dir[p]] \in [File -> Content]
  BY <1>1, StageDirectory DEF LookupInv, Good, TypeInv, TreeTyped
<1>3. CASE dir[p] \notin temp
  BY <1>3, PutFailsKept
     DEF PutWriteZip, PutWriteHash, PutWriteVerification, PutWriteRevision, PutWrite
<1>4. ASSUME NEW f \in File, NEW content, file' = [file EXCEPT ![dir[p]][f] = content]
      PROVE  /\ \A i \in Inode : i # dir[p] => file'[i] = file[i]
             /\ \A g \in File : file'[dir[p]][g] = IF g = f THEN content ELSE file[dir[p]][g]
  BY <1>2, <1>4 DEF TypeInv, TreeTyped
<1>5. /\ pc[p] \in HasZip => file[dir[p]]["zip"] = job[p].arch
      /\ pc[p] \in HasHash => file[dir[p]]["hash"] = job[p].arch
      /\ pc[p] \in HasVerification => file[dir[p]]["verification"] = job[p].arch
  BY <1>2 DEF StageWhole
<1>6. CASE PutWriteZip(p) /\ dir[p] \in temp
  <2>1. Goto(p, "hashZip") /\ file' = [file EXCEPT ![dir[p]]["zip"] = job[p].arch]
    BY <1>6 DEF PutWriteZip, PutWrite
  <2>2. file'[dir[p]]["zip"] = job[p].arch /\ \A i \in Inode : i # dir[p] => file'[i] = file[i]
    BY <1>4, <2>1 DEF File
  <2> QED
    BY <1>1, <2>1, <2>2, StageKept DEF StageLabel, HasHash, HasVerification, HasRevision, HasZip
<1>7. CASE PutWriteHash(p) /\ dir[p] \in temp
  <2>1. /\ Goto(p, "writeVerification")
        /\ file' = [file EXCEPT ![dir[p]]["hash"] = job[p].arch]
        /\ pc[p] \in HasZip
    BY <1>7 DEF PutWriteHash, PutWrite, HasZip
  <2>2. /\ file'[dir[p]]["zip"] = job[p].arch
        /\ file'[dir[p]]["hash"] = job[p].arch
        /\ \A i \in Inode : i # dir[p] => file'[i] = file[i]
    <3>1. \A g \in File : file'[dir[p]][g] = IF g = "hash" THEN job[p].arch ELSE file[dir[p]][g]
      BY <1>4, <2>1 DEF File
    <3>2. \A i \in Inode : i # dir[p] => file'[i] = file[i]
      BY <1>4, <2>1 DEF File
    <3> QED
      BY <1>5, <2>1, <3>1, <3>2 DEF File
  <2> QED
    BY <1>1, <2>1, <2>2, StageKept DEF StageLabel, HasHash, HasVerification, HasRevision, HasZip
<1>8. CASE PutWriteVerification(p) /\ dir[p] \in temp
  <2>1. /\ Goto(p, "writeRevision")
        /\ file' = [file EXCEPT ![dir[p]]["verification"] = job[p].arch]
        /\ pc[p] \in HasZip /\ pc[p] \in HasHash
    BY <1>8 DEF PutWriteVerification, PutWrite, HasZip, HasHash
  <2>2. /\ file'[dir[p]]["zip"] = job[p].arch
        /\ file'[dir[p]]["hash"] = job[p].arch
        /\ file'[dir[p]]["verification"] = job[p].arch
        /\ \A i \in Inode : i # dir[p] => file'[i] = file[i]
    BY <1>2, <1>4, <1>5, <2>1 DEF File
  <2> QED
    BY <1>1, <2>1, <2>2, StageKept DEF StageLabel, HasHash, HasVerification, HasRevision, HasZip
<1>9. CASE PutWriteRevision(p) /\ dir[p] \in temp
  <2>1. /\ Goto(p, "seal")
        /\ file' = [file EXCEPT ![dir[p]]["revision"] = RevisionOf(job[p].arch)]
        /\ pc[p] \in HasZip /\ pc[p] \in HasHash /\ pc[p] \in HasVerification
    BY <1>9 DEF PutWriteRevision, PutWrite, HasZip, HasHash, HasVerification
  <2>2. /\ file'[dir[p]]["zip"] = job[p].arch
        /\ file'[dir[p]]["hash"] = job[p].arch
        /\ file'[dir[p]]["verification"] = job[p].arch
        /\ file'[dir[p]]["revision"] = RevisionOf(job[p].arch)
        /\ \A i \in Inode : i # dir[p] => file'[i] = file[i]
    BY <1>2, <1>4, <1>5, <2>1 DEF File
  <2> QED
    BY <1>1, <2>1, <2>2, StageKept DEF StageLabel
<1> QED
  BY <1>3, <1>6, <1>7, <1>8, <1>9

LEMMA PutMkdirTempKept ==
    ASSUME TypeInv, LookupInv, NEW p \in Proc, PutMkdirTemp(p) PROVE LookupInv' /\ Frame(p)
<1>1. CASE vdir
  <2>1. PICK i \in FreeInode :
          /\ file' = [file EXCEPT ![i] = EmptyDir]
          /\ dir' = [dir EXCEPT ![p] = i]
          /\ Goto(p, "writeZip")
          /\ UNCHANGED <<entry, alias, job, got>>
    BY <1>1 DEF PutMkdirTemp
  <2>2. OthersSame(p) /\ dir'[p] = i
    BY <2>1 DEF Goto, OthersSame, Alone, TypeInv, ProgressTyped
  <2>3. \A j \in Inode : j \notin {dir[p]} \union FreeInode => file'[j] = file[j]
    BY <2>1 DEF TypeInv, TreeTyped
  <2>4. Good(p)'
    BY <2>1, GotoGood
  <2> QED
    BY <2>1, <2>2, <2>3, <2>4, QuietKept
<1>2. CASE ~vdir
  BY <1>2, ReturnGood, StillKept DEF PutMkdirTemp
<1> QED
  BY <1>1, <1>2

(* rename publishes only where nothing is stored yet. *)
LEMMA RenameTarget ==
    ASSUME LookupInv, NEW p \in Proc, job[p].ver \in Version, PutRename(p)
    PROVE  entry[job[p].ver] = NoInode
<1> DEFINE w == job[p].ver
<1>1. SUFFICES ASSUME entry[w] # NoInode PROVE FALSE
  OBVIOUS
<1>2. IsEmptyDir(entry[w])
  BY <1>1 DEF PutRename, CanRename
<1>3. PICK b \in Archive : Whole(entry[w], b)
  BY <1>1 DEF LookupInv, EntriesWhole
<1>4. file[entry[w]]["zip"] = b
  BY <1>3 DEF Whole, File
<1> QED
  BY <1>2, <1>4, ArchiveStoreAssumption DEF IsEmptyDir, File, ArchiveStoreAssumption

LEMMA PutRenameKept ==
    ASSUME TypeInv, LookupInv, NEW p \in Proc, PutRename(p) PROVE LookupInv' /\ Frame(p)
<1> DEFINE w == job[p].ver
           i == dir[p]
           a == job[p].arch
<1>1. /\ pc[p] = "rename"
      /\ entry' = [entry EXCEPT ![w] = i]
      /\ UNCHANGED <<file, alias>>
      /\ \E result : Return(p, result)
  BY DEF PutRename
<1>2. job[p].op = "put" /\ w \in Version /\ a \in Archive /\ i \in Inode /\ i # NoInode
  BY <1>1, StageDirectory, StageFits DEF TypeInv, Fits, StageLabel
<1>3. Whole(i, a)
  <2>1. file[i] \in [File -> Content]
    BY <1>2 DEF TypeInv, TreeTyped
  <2>2. /\ file[i]["zip"] = a
        /\ file[i]["hash"] = a
        /\ file[i]["verification"] = a
        /\ file[i]["revision"] = RevisionOf(a)
    BY <1>1 DEF LookupInv, Good, StageWhole, HasZip, HasHash, HasVerification, HasRevision
  <2>3. \A f \in File : file[i][f] = IF f = "revision" THEN RevisionOf(a) ELSE a
    BY <2>2 DEF File
  <2> QED
    BY <2>1, <2>3 DEF Whole
<1>4. entry[w] = NoInode
  BY <1>2, RenameTarget
<1>5. /\ entry'[w] = i
      /\ \A v \in Version : v # w => entry'[v] = entry[v]
  BY <1>1, <1>2 DEF TypeInv, TreeTyped
<1>6. OthersSame(p) /\ dir'[p] = NoInode /\ Good(p)'
  BY <1>1, <1>2, ReturnGood DEF IsLookup
<1>7. Frame(p)
  BY <1>1, <1>4, <1>5, <1>6 DEF Frame, EntriesSame
<1>8. Own'
  BY <1>6 DEF LookupInv, Own, OthersSame, Alone
<1>9. Apart'
  <2>1. ASSUME NEW q \in Proc, NEW v \in Version, entry'[v] # NoInode PROVE entry'[v] # dir'[q]
    <3>1. CASE q = p
      BY <1>6, <2>1, <3>1
    <3>2. CASE q # p /\ v = w
      <4>1. dir'[q] = dir[q]
        BY <1>6, <3>2 DEF OthersSame, Alone
      <4> QED
        BY <1>2, <1>5, <3>2, <4>1 DEF LookupInv, Own
    <3>3. CASE q # p /\ v # w
      <4>1. dir'[q] = dir[q] /\ entry'[v] = entry[v]
        BY <1>5, <1>6, <3>3 DEF OthersSame, Alone
      <4> QED
        BY <2>1, <4>1 DEF LookupInv, Apart
    <3> QED
      BY <3>1, <3>2, <3>3
  <2> QED
    BY <2>1 DEF Apart
<1>10. EntriesWhole'
  <2>1. ASSUME NEW v \in Version, entry'[v] # NoInode PROVE \E b \in Archive : Whole(entry[v], b)'
    <3>1. CASE v = w
      BY <1>1, <1>2, <1>3, <1>5, <3>1 DEF Whole
    <3>2. CASE v # w
      BY <1>1, <1>5, <2>1, <3>2 DEF LookupInv, EntriesWhole, Whole
    <3> QED
      BY <3>1, <3>2
  <2> QED
    BY <2>1 DEF EntriesWhole
<1>11. AliasResolves'
  <2>1. alias # NoVersion => alias \in Version
    BY DEF TypeInv, TreeTyped
  <2> QED
    BY <1>1, <1>2, <1>5, <2>1 DEF LookupInv, AliasResolves
<1> QED
  BY <1>6, <1>7, <1>8, <1>9, <1>10, <1>11, Combine

LEMMA PutKept ==
    ASSUME TypeInv, LookupInv, NEW p \in Proc, Put(p) PROVE LookupInv' /\ Frame(p)
<1>1. CASE PutMkdirTemp(p)
  BY <1>1, PutMkdirTempKept
<1>2. CASE PutWriteZip(p) \/ PutWriteHash(p) \/ PutWriteVerification(p) \/ PutWriteRevision(p)
  BY <1>2, PutWriteKept
<1>3. StageWhole(p)
  BY DEF LookupInv, Good
<1>4. CASE PutHashZip(p)
  <2>1. pc[p] = "hashZip" /\ UNCHANGED <<fs, job, dir, got>>
    BY <1>4 DEF PutHashZip, PutCheck
  <2>2. CASE PutFails(p)
    BY <2>1, <2>2, PutFailsKept DEF fs
  <2>3. CASE Goto(p, "writeHash")
    <3>1. file[dir[p]]["zip"] = job[p].arch
      BY <1>3, <2>1 DEF StageWhole, HasZip
    <3> QED
      BY <2>1, <2>3, <3>1, StageKept DEF fs, StageLabel, HasHash, HasVerification, HasRevision
  <2> QED
    BY <1>4, <2>2, <2>3 DEF PutHashZip, PutCheck
<1>5. CASE PutSeal(p)
  <2>1. pc[p] = "seal" /\ UNCHANGED <<fs, job, dir, got>>
    BY <1>5 DEF PutSeal, PutCheck
  <2>2. CASE PutFails(p)
    BY <2>1, <2>2, PutFailsKept DEF fs
  <2>3. CASE Goto(p, "rename")
    <3>1. /\ file[dir[p]]["zip"] = job[p].arch
          /\ file[dir[p]]["hash"] = job[p].arch
          /\ file[dir[p]]["verification"] = job[p].arch
          /\ file[dir[p]]["revision"] = RevisionOf(job[p].arch)
      BY <1>3, <2>1 DEF StageWhole, HasZip, HasHash, HasVerification, HasRevision
    <3> QED
      BY <2>1, <2>3, <3>1, StageKept DEF fs, StageLabel
  <2> QED
    BY <1>5, <2>2, <2>3 DEF PutSeal, PutCheck
<1>6. CASE PutRename(p)
  BY <1>6, PutRenameKept
<1>7. CASE PutRenameFails(p)
  <2>1. UNCHANGED <<entry, file, alias, job, dir, got>> /\ Goto(p, "checkZip")
    BY <1>7 DEF PutRenameFails, fs
  <2>2. OthersSame(p)
    BY <2>1 DEF Goto, OthersSame, Alone, TypeInv, ProgressTyped
  <2> QED
    BY <2>1, <2>2, GotoGood, StillKept
<1>8. CASE PutAborts(p)
  BY <1>8, PutFailsKept DEF PutAborts, fs
<1>9. CASE PutCleanup(p)
  <2>1. Return(p, out[p]) /\ UNCHANGED <<entry, alias>>
    BY <1>9 DEF PutCleanup
  <2>2. ~IsLookup(p)
    BY <1>9 DEF PutCleanup, TypeInv, Fits, StageLabel, IsLookup
  <2>3. \A i \in Inode : i # dir[p] => file'[i] = file[i]
    BY <1>9 DEF PutCleanup, TypeInv, TreeTyped
  <2>4. OthersSame(p) /\ dir'[p] = NoInode /\ Good(p)'
    BY <2>1, <2>2, ReturnGood
  <2> QED
    BY <2>1, <2>3, <2>4, QuietKept
<1> QED
  BY <1>1, <1>2, <1>4, <1>5, <1>6, <1>7, <1>8, <1>9 DEF Put

-----------------------------------------------------------------------------
LEMMA SetLatestKept ==
    ASSUME TypeInv, LookupInv, NEW p \in Proc, SetLatest(p) PROVE LookupInv' /\ Frame(p)
<1> DEFINE w == job[p].ver
<1>1. job[p].op = "setLatest" /\ w \in Version /\ entry[w] # NoInode
  <2>1. pc[p] \in {"createAlias", "renameAlias"}
    BY DEF SetLatest, SetLatestCreate, SetLatestRename, SetLatestCancelled
  <2>2. HasSeen(p)
    BY <2>1 DEF HasSeen
  <2> QED
    BY <2>1, <2>2, SeenVersion DEF TypeInv, Fits
<1>2. ~IsLookup(p)
  BY <1>1 DEF IsLookup
<1>3. CASE SetLatestCreate(p)
  <2>1. CASE vdir
    <3>1. PICK i \in FreeInode :
            /\ dir' = [dir EXCEPT ![p] = i]
            /\ Goto(p, "renameAlias")
            /\ UNCHANGED <<entry, file, alias, job, got>>
      BY <1>3, <2>1 DEF SetLatestCreate
    <3>2. OthersSame(p) /\ dir'[p] = i /\ pc'[p] = "renameAlias"
      BY <3>1 DEF Goto, OthersSame, Alone, TypeInv, ProgressTyped
    <3>3. ReadsSound(p)' /\ StageWhole(p)'
      BY <1>1, <3>1, <3>2 DEF ReadsSound, StageWhole, HasData, HasRead, HasAll,
                             HasZip, HasHash, HasVerification, HasRevision
    <3>4. Good(p)'
      BY <3>1, <3>2, <3>3 DEF LookupInv, Good
    <3> QED
      BY <3>1, <3>2, <3>4, QuietKept
  <2>2. CASE ~vdir
    BY <1>2, <1>3, <2>2, ReturnGood, StillKept DEF SetLatestCreate
  <2> QED
    BY <2>1, <2>2
<1>4. CASE SetLatestRename(p)
  <2>1. UNCHANGED <<entry, file>>
    BY <1>4 DEF SetLatestRename
  <2>2. OthersSame(p) /\ dir'[p] = NoInode /\ Good(p)'
    <3>1. PICK result \in {"ok", "error"} : Return(p, result)
      BY <1>4 DEF SetLatestRename
    <3> QED
      BY <1>2, <3>1, ReturnGood
  <2>3. CASE dir[p] \in aliasTemp
    <3>1. alias' = w
      BY <1>4, <2>3 DEF SetLatestRename
    <3>2. AliasResolves'
      BY <1>1, <2>1, <3>1 DEF AliasResolves
    <3>3. Frame(p)
      BY <2>1, <2>2 DEF Frame, EntriesSame
    <3>4. Own' /\ Apart'
      BY <2>1, <2>2 DEF LookupInv, Own, Apart, OthersSame, Alone
    <3>5. EntriesWhole'
      BY <2>1 DEF LookupInv, EntriesWhole, Whole
    <3> QED
      BY <2>2, <3>2, <3>3, <3>4, <3>5, Combine
  <2>4. CASE dir[p] \notin aliasTemp
    BY <1>4, <2>1, <2>2, <2>4, StillKept DEF SetLatestRename
  <2> QED
    BY <2>3, <2>4
<1>5. CASE SetLatestCancelled(p)
  BY <1>2, <1>5, ReturnGood, StillKept DEF SetLatestCancelled
<1> QED
  BY <1>3, <1>4, <1>5 DEF SetLatest

LEMMA NoRemoveStep ==
    ASSUME TypeInv, LookupInv, NEW p \in Proc, Remove(p) PROVE FALSE
<1>1. pc[p] \in {"measure", "walk", "unlink", "readAlias", "removeAlias", "removeVdir"}
  BY DEF Remove, RemoveMeasure, RemoveMeasureFails, RemoveName, RemoveFile, RemoveDirectory,
         RemoveModuleEnds, RemoveVersionWalked, RemoveReadAlias, RemoveAlias, RemoveVdirIfEmpty
<1>2. job[p].op \in RemoveOp
  BY <1>1 DEF TypeInv, Fits, RemoveOp
<1> QED
  BY <1>2 DEF LookupInv, Good

LEMMA LookupInit == Init => LookupInv
<1> SUFFICES ASSUME Init PROVE LookupInv
  OBVIOUS
<1>1. /\ \A p \in Proc : pc[p] = "idle" /\ job[p].op = "none" /\ dir[p] = NoInode
      /\ \A v \in Version : entry[v] = NoInode
      /\ alias = NoVersion
  BY DEF Init, NoJob
<1>2. ASSUME NEW p \in Proc PROVE Good(p)
  <2>1. ~IsLookup(p) /\ ~HasSeen(p)
    BY <1>1 DEF IsLookup, HasSeen, GetLabel
  <2> QED
    BY <1>1, <2>1 DEF Good, RemoveOp, ReadsSound, StageWhole, HasZip, HasHash, HasVerification, HasRevision
<1> QED
  BY <1>1, <1>2 DEF LookupInv, Own, Apart, EntriesWhole, AliasResolves

LEMMA LookupNext == NoRemovals /\ TypeInv /\ LookupInv /\ [Next]_vars => LookupInv'
<1> SUFFICES ASSUME NoRemovals, TypeInv, LookupInv, [Next]_vars PROVE LookupInv'
  OBVIOUS
<1>1. CASE UNCHANGED vars
  <2>1. \A p \in Proc : Good(p)'
    BY <1>1 DEF vars, LookupInv, Good, IsLookup, StageWhole, ReadsSound, HasSeen, Read
  <2>2. Own' /\ Apart' /\ EntriesWhole' /\ AliasResolves'
    BY <1>1 DEF vars, LookupInv, Own, Apart, EntriesWhole, Whole, AliasResolves
  <2> QED
    BY <2>1, <2>2 DEF LookupInv
<1>2. CASE Next
  BY <1>2, StartKept, CrashKept, ReadLatestKept, VerifyKept, MkdirKept, GetKept, PutKept,
     SetLatestKept, NoRemoveStep DEF Next
<1> QED
  BY <1>1, <1>2

LEMMA LookupAlways == ASSUME NoRemovals PROVE Spec => [](TypeInv /\ LookupInv)
<1>1. TypeInv /\ LookupInv /\ [Next]_vars => (TypeInv /\ LookupInv)'
  BY TypeNext, LookupNext
<1>2. Init => TypeInv /\ LookupInv
  BY TypeInit, LookupInit
<1> QED
  BY <1>1, <1>2, PTL DEF Spec

(* A version directory is always complete and of one archive, however many *)
(* publications race and wherever they are killed.                         *)
THEOREM PublicationWhole == ASSUME NoRemovals PROVE Spec => []EntriesWhole
<1>1. LookupInv => EntriesWhole
  BY DEF LookupInv
<1> QED
  BY <1>1, LookupAlways, PTL

(* The latest alias always leads to an archive.                            *)
THEOREM AliasAlwaysResolves == ASSUME NoRemovals PROVE Spec => []AliasResolves
<1>1. LookupInv => AliasResolves
  BY DEF LookupInv
<1> QED
  BY <1>1, LookupAlways, PTL

(* A successful lookup returns the bytes, the verification and the         *)
(* revision of the stored archive, though it reads them one by one, and    *)
(* none that go.sum has another hash for.                                  *)
THEOREM LookupsWhole == ASSUME NoRemovals PROVE Spec => []LookupWhole
<1>1. TypeInv /\ LookupInv /\ VouchInv => LookupWhole
  BY SeenWhole DEF LookupWhole, HasSeen, HasAll, VouchInv, Vouched
<1> QED
  BY <1>1, LookupAlways, VouchAlways, PTL

-----------------------------------------------------------------------------
(* The refinement: a publication stores, an alias rename records latest, a *)
(* verified lookup answers, and everything else is invisible but for the   *)
(* answer an invocation forgets when it starts again.                      *)
storedBar == [v \in Version |-> Read(v, "zip")]
AnswerOf(p) == IF pc[p] = "idle" /\ IsLookup(p) THEN got[p].data ELSE Absent
answerBar == [p \in Proc |-> AnswerOf(p)]

NoAnswer(p) == pc[p] = "idle" => ~IsLookup(p)

Silent(p) == UNCHANGED <<entry, alias>> /\ pc[p] # "idle" /\ NoAnswer(p)'

LEMMA ReturnSilent ==
    ASSUME TypeInv, NEW p \in Proc, NEW result, Return(p, result), ~(result = "ok" /\ IsLookup(p))
    PROVE  NoAnswer(p)'
BY DEF Return, TypeInv, ProgressTyped, NoJob, NoAnswer, IsLookup

LEMMA GotoSilent ==
    ASSUME TypeInv, NEW p \in Proc, NEW l, Goto(p, l), l # "idle" PROVE NoAnswer(p)'
BY DEF Goto, TypeInv, ProgressTyped, NoAnswer

LEMMA GetReturnsSilent ==
    ASSUME TypeInv, NEW p \in Proc, NEW result, GetReturns(p, result) PROVE NoAnswer(p)'
<1>1. CASE AfterGet(p, result) = "idle"
  <2>1. ~(result = "ok" /\ IsLookup(p))
    BY <1>1 DEF AfterGet
  <2> QED
    BY <1>1, <2>1, ReturnSilent DEF GetReturns
<1>2. CASE AfterGet(p, result) # "idle"
  BY <1>2, GotoSilent DEF GetReturns
<1> QED
  BY <1>1, <1>2

LEMMA GetSilent ==
    ASSUME TypeInv, NEW p \in Proc, Get(p) \/ ReadLatest(p) \/ Mkdir(p) PROVE Silent(p)
<1>1. ASSUME NEW at, NEW passes, NEW reads, NEW next, NEW failure, at # "idle", next # "idle",
             GetStep(p, at, passes, reads, next, failure)
      PROVE  Silent(p)
  <2>1. UNCHANGED <<entry, alias>> /\ pc[p] # "idle"
    BY <1>1 DEF GetStep, fs
  <2>2. CASE passes
    BY <1>1, <2>1, <2>2, GotoSilent DEF GetStep, Silent
  <2>3. CASE ~passes
    BY <1>1, <2>1, <2>3, GetReturnsSilent DEF GetStep, Silent
  <2> QED
    BY <2>2, <2>3
<1>2. CASE GetCheckZip(p)
  BY <1>1, <1>2 DEF GetCheckZip
<1>3. CASE GetReadHash(p)
  BY <1>1, <1>3 DEF GetReadHash
<1>4. CASE GetMatchHash(p)
  BY <1>1, <1>4 DEF GetMatchHash
<1>5. CASE GetReadData(p)
  BY <1>1, <1>5 DEF GetReadData
<1>6. CASE GetReadRevision(p)
  BY <1>1, <1>6 DEF GetReadRevision
<1>7. CASE GetReadVerification(p)
  BY <1>1, <1>7 DEF GetReadVerification
<1>8. CASE GetMatchVerification(p)
  BY <1>8, GetReturnsSilent DEF GetMatchVerification, fs, Silent
<1>9. CASE Cancelled(p)
  BY <1>9, GetReturnsSilent DEF Cancelled, fs, Silent
<1>10. CASE ReadLatest(p)
  <2>1. CASE alias = NoVersion
    BY <1>10, <2>1, ReturnSilent DEF ReadLatest, fs, Silent
  <2>2. CASE alias # NoVersion
    BY <1>10, <2>2, GotoSilent DEF ReadLatest, fs, Silent
  <2> QED
    BY <2>1, <2>2
<1>11. CASE Mkdir(p)
  BY <1>11, GotoSilent DEF Mkdir, Silent
<1> QED
  BY <1>2, <1>3, <1>4, <1>5, <1>6, <1>7, <1>8, <1>9, <1>10, <1>11 DEF Get

LEMMA PutSilent ==
    ASSUME TypeInv, NEW p \in Proc, Put(p), ~PutRename(p) PROVE Silent(p)
<1>1. UNCHANGED <<entry, alias>> /\ pc[p] # "idle"
  BY DEF Put, PutMkdirTemp, PutWriteZip, PutHashZip, PutWriteHash, PutWriteVerification,
         PutWriteRevision, PutSeal, PutRenameFails, PutAborts, PutCleanup, PutWrite, PutCheck, fs
<1>2. job[p].op = "put"
  <2>1. pc[p] \in StageLabel \union {"mktemp"}
    BY DEF Put, PutMkdirTemp, PutWriteZip, PutHashZip, PutWriteHash, PutWriteVerification,
           PutWriteRevision, PutSeal, PutRenameFails, PutAborts, PutCleanup, PutWrite, PutCheck, StageLabel
  <2> QED
    BY <2>1 DEF TypeInv, Fits
<1>3. \/ \E result : Return(p, result)
      \/ \E l : l # "idle" /\ Goto(p, l)
  BY DEF Put, PutMkdirTemp, PutWriteZip, PutHashZip, PutWriteHash, PutWriteVerification,
         PutWriteRevision, PutSeal, PutRenameFails, PutAborts, PutCleanup, PutWrite, PutCheck, PutFails
<1>4. NoAnswer(p)'
  BY <1>2, <1>3, ReturnSilent, GotoSilent DEF IsLookup
<1> QED
  BY <1>1, <1>4 DEF Silent

LEMMA SetLatestSilent ==
    ASSUME TypeInv, NEW p \in Proc, SetLatest(p)
    PROVE  pc[p] # "idle" /\ NoAnswer(p)' /\ UNCHANGED entry
<1>1. UNCHANGED entry /\ pc[p] \in {"createAlias", "renameAlias"}
  BY DEF SetLatest, SetLatestCreate, SetLatestRename, SetLatestCancelled
<1>2. ~IsLookup(p)
  BY <1>1 DEF TypeInv, Fits, IsLookup
<1>3. \/ \E result : Return(p, result)
      \/ \E l : l # "idle" /\ Goto(p, l)
  BY DEF SetLatest, SetLatestCreate, SetLatestRename, SetLatestCancelled
<1> QED
  BY <1>1, <1>2, <1>3, ReturnSilent, GotoSilent

LEMMA StoredSame ==
    ASSUME NEW p \in Proc, Frame(p), UNCHANGED entry PROVE UNCHANGED storedBar
<1>1. ASSUME NEW v \in Version PROVE Read(v, "zip")' = Read(v, "zip")
  BY DEF Frame, EntriesSame, Read
<1> QED
  BY <1>1 DEF storedBar

LEMMA AnswerChange ==
    ASSUME NEW p \in Proc, OthersSame(p)
    PROVE  answerBar' = [answerBar EXCEPT ![p] = AnswerOf(p)']
<1>1. ASSUME NEW q \in Proc, q # p PROVE AnswerOf(q)' = AnswerOf(q)
  BY <1>1 DEF OthersSame, Alone, AnswerOf, IsLookup
<1> QED
  BY <1>1 DEF answerBar

LEMMA AnswerSame ==
    ASSUME NEW p \in Proc, OthersSame(p), pc[p] # "idle", NoAnswer(p)' PROVE UNCHANGED answerBar
<1>1. AnswerOf(p) = Absent /\ AnswerOf(p)' = Absent
  BY DEF AnswerOf, NoAnswer
<1>2. ASSUME NEW q \in Proc PROVE AnswerOf(q)' = AnswerOf(q)
  BY <1>1 DEF OthersSame, Alone, AnswerOf, IsLookup
<1> QED
  BY <1>2 DEF answerBar

Promised == [Promise!Next]_<<storedBar, alias, answerBar>>

LEMMA SilentPromised ==
    ASSUME NEW p \in Proc, Frame(p), Silent(p) PROVE Promised
BY StoredSame, AnswerSame DEF Frame, Silent, Promised

LEMMA StartPromised ==
    ASSUME TypeInv, NEW p \in Proc, Frame(p), Start(p) PROVE Promised
<1>1. UNCHANGED storedBar /\ UNCHANGED alias
  BY StoredSame DEF Start, fs
<1>2. AnswerOf(p)' = Absent
  <2>1. pc'[p] # "idle"
    BY DEF Start, Goto, FirstLabel, TypeInv, ProgressTyped
  <2> QED
    BY <2>1 DEF AnswerOf
<1>3. Promise!Forget(p)
  BY <1>1, <1>2, AnswerChange DEF Frame, Promise!Forget, storedBar, answerBar, AnswerOf
<1> QED
  BY <1>3 DEF Promise!Next, Promised

LEMMA VerifyPromised ==
    ASSUME TypeInv, LookupInv, NEW p \in Proc, Frame(p), Verify(p) PROVE Promised
<1>1. UNCHANGED <<entry, alias>> /\ pc[p] = "verify"
  BY VerifyCases DEF fs
<1>2. CASE Answer(p)
  <2>1. IsLookup(p)
    BY <1>1 DEF TypeInv, Fits, IsLookup
  <2>2. pc'[p] = "idle" /\ UNCHANGED <<job, got>>
    BY <1>1, <1>2, AnswerSeen DEF Answer, Goto, TypeInv, ProgressTyped
  <2>3. /\ job[p].ver \in Version
        /\ got[p].data = storedBar[job[p].ver]
        /\ storedBar[job[p].ver] # Absent
    <3>1. HasSeen(p) /\ pc[p] \in HasAll
      BY <1>1 DEF HasSeen, HasAll
    <3>2. job[p].ver \in Version
      BY <3>1, SeenVersion
    <3>3. got[p].data = Read(job[p].ver, "zip") /\ got[p].data \in Archive
      BY <3>1, SeenWhole
    <3> QED
      BY <3>2, <3>3, ArchiveStoreAssumption DEF storedBar, ArchiveStoreAssumption
  <2>4. AnswerOf(p)' = got[p].data
    BY <2>1, <2>2 DEF AnswerOf, IsLookup
  <2>5. PICK w \in Version : w = job[p].ver
    BY <2>3
  <2>6. Promise!Answer(p, w)
    <3>1. answerBar' = [answerBar EXCEPT ![p] = storedBar[w]]
      BY <2>3, <2>4, <2>5, AnswerChange DEF Frame
    <3> QED
      BY <1>1, <2>3, <2>5, <3>1, StoredSame DEF Promise!Answer, storedBar, answerBar, AnswerOf
  <2> QED
    BY <2>6 DEF Promise!Next, Promised
<1>3. CASE Return(p, "error")
  <2>1. Silent(p)
    BY <1>1, <1>3, ReturnSilent DEF Silent
  <2> QED
    BY <2>1, SilentPromised
<1> QED
  BY <1>2, <1>3, VerifyCases

LEMMA RenamePromised ==
    ASSUME TypeInv, LookupInv, NEW p \in Proc, Frame(p), PutRename(p) PROVE Promised
<1>1. PICK w \in Version, a \in Archive : job[p].ver = w /\ job[p].arch = a
  BY StageFits DEF PutRename, StageLabel
<1>2. /\ pc[p] = "rename"
      /\ entry' = [entry EXCEPT ![w] = dir[p]]
      /\ UNCHANGED <<file, alias>>
      /\ \E result : Return(p, result)
  BY <1>1 DEF PutRename
<1>3. job[p].op = "put" /\ dir[p] \in Inode /\ dir[p] # NoInode
  BY <1>2, StageDirectory, StageFits DEF TypeInv, Fits, StageLabel
<1>4. file[dir[p]]["zip"] = a
  BY <1>1, <1>2 DEF LookupInv, Good, StageWhole, HasZip
<1>5. entry[w] = NoInode
  BY <1>1, RenameTarget
<1>6. Read(w, "zip") = Absent /\ Read(w, "zip")' = a
  BY <1>2, <1>3, <1>4, <1>5 DEF Read, TypeInv, TreeTyped
<1>7. \A v \in Version : v # w => Read(v, "zip")' = Read(v, "zip")
  BY <1>2 DEF Read, TypeInv, TreeTyped
<1>8. storedBar' = [storedBar EXCEPT ![w] = a] /\ storedBar[w] = Absent
  BY <1>6, <1>7 DEF storedBar
<1>9. UNCHANGED answerBar
  <2>1. NoAnswer(p)'
    BY <1>2, <1>3, ReturnSilent DEF IsLookup
  <2> QED
    BY <1>2, <2>1, AnswerSame DEF Frame
<1>10. Promise!Store(w, a)
  BY <1>2, <1>8, <1>9 DEF Promise!Store, storedBar, answerBar, AnswerOf
<1> QED
  BY <1>10 DEF Promise!Next, Promised

LEMMA SetLatestPromised ==
    ASSUME TypeInv, LookupInv, NEW p \in Proc, Frame(p), SetLatest(p) PROVE Promised
<1>1. UNCHANGED <<storedBar, answerBar>>
  BY SetLatestSilent, StoredSame, AnswerSame DEF Frame
<1>2. CASE UNCHANGED alias
  BY <1>1, <1>2 DEF Promised
<1>3. CASE ~UNCHANGED alias
  <2> DEFINE w == job[p].ver
  <2>1. alias' = w /\ pc[p] = "renameAlias"
    BY <1>3 DEF SetLatest, SetLatestCreate, SetLatestRename, SetLatestCancelled
  <2>2. w \in Version /\ entry[w] # NoInode
    BY <2>1, SeenVersion DEF HasSeen
  <2>3. storedBar[w] # Absent
    <3>1. PICK b \in Archive : Whole(entry[w], b)
      BY <2>2 DEF LookupInv, EntriesWhole
    <3>2. Read(w, "zip") = b
      BY <2>2, <3>1 DEF Read, Whole, File
    <3> QED
      BY <2>2, <3>2, ArchiveStoreAssumption DEF storedBar, ArchiveStoreAssumption
  <2>4. Promise!RecordLatest(w)
    BY <1>1, <2>1, <2>3 DEF Promise!RecordLatest, storedBar, answerBar, AnswerOf
  <2> QED
    BY <2>2, <2>4 DEF Promise!Next, Promised
<1> QED
  BY <1>2, <1>3

LEMMA CrashPromised ==
    ASSUME TypeInv, NEW p \in Proc, Frame(p), Crash(p) PROVE Promised
<1>1. Silent(p)
  BY DEF Crash, fs, Silent, NoAnswer, IsLookup, NoJob, TypeInv, ProgressTyped
<1> QED
  BY <1>1, SilentPromised

LEMMA NextPromised ==
    NoRemovals /\ TypeInv /\ LookupInv /\ [Next]_vars => Promised
<1> SUFFICES ASSUME NoRemovals, TypeInv, LookupInv, [Next]_vars PROVE Promised
  OBVIOUS
<1>1. CASE UNCHANGED vars
  <2>1. UNCHANGED <<storedBar, alias, answerBar>>
    BY <1>1 DEF vars, storedBar, Read, answerBar, AnswerOf, IsLookup
  <2> QED
    BY <2>1 DEF Promised
<1>2. CASE Next
  <2>1. PICK p \in Proc :
          \/ Start(p) \/ Crash(p) \/ ReadLatest(p) \/ Verify(p) \/ Mkdir(p)
          \/ Get(p) \/ Put(p) \/ SetLatest(p) \/ Remove(p)
    BY <1>2 DEF Next
  <2>2. LookupInv' /\ Frame(p)
    BY <2>1, StartKept, CrashKept, ReadLatestKept, VerifyKept, MkdirKept, GetKept, PutKept,
       SetLatestKept, NoRemoveStep
  <2>3. CASE Get(p) \/ ReadLatest(p) \/ Mkdir(p)
    BY <2>2, <2>3, GetSilent, SilentPromised
  <2>4. CASE Put(p)
    BY <2>2, <2>4, PutSilent, SilentPromised, RenamePromised
  <2>5. CASE Start(p) \/ Crash(p) \/ Verify(p) \/ SetLatest(p)
    BY <2>2, <2>5, StartPromised, CrashPromised, VerifyPromised, SetLatestPromised
  <2> QED
    BY <2>1, <2>3, <2>4, <2>5, NoRemoveStep
<1> QED
  BY <1>1, <1>2

LEMMA InitPromised == Init => Promise!Init
<1> SUFFICES ASSUME Init PROVE Promise!Init
  OBVIOUS
<1>1. \A v \in Version : Read(v, "zip") = Absent
  BY DEF Init, Read
<1>2. \A p \in Proc : ~IsLookup(p)
  BY DEF Init, IsLookup, NoJob
<1>3. alias = NoVersion
  BY DEF Init
<1> QED
  BY <1>1, <1>2, <1>3 DEF Promise!Init

(* The cache implements ImmutableStore while nobody removes anything: the  *)
(* first archive published for a version stays, latest names a stored      *)
(* version, and every answer is what is stored, for any number of          *)
(* concurrent and killed invocations.                                      *)
THEOREM CacheKeepsPromise == ASSUME NoRemovals PROVE Spec => KeepsPromise
<1>1. Init => Promise!Init
  BY InitPromised
<1>2. TypeInv /\ LookupInv /\ [Next]_vars =>
        [Promise!Next]_<<[v \in Version |-> Read(v, "zip")], alias,
                         [p \in Proc |-> IF pc[p] = "idle" /\ IsLookup(p) THEN got[p].data ELSE Absent]>>
  BY NextPromised DEF Promised, storedBar, answerBar, AnswerOf
<1> QED
  BY <1>1, <1>2, LookupAlways, PTL DEF Spec, KeepsPromise, Promise!Spec
=============================================================================
