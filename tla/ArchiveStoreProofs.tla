------------------------- MODULE ArchiveStoreProofs -------------------------
(***************************************************************************)
(* Theorems about ArchiveStore for any number of invocations, versions and *)
(* archives, and any size of the inode pool.                               *)
(***************************************************************************)
EXTENDS ArchiveStore, FiniteSetTheorems, TLAPS

Result == {"none", "ok", "notFound", "error", "crashed"}
Job    == [op : AllOps \union {"none"}, ver : Version \union {NoVersion}, arch : Content]
Reads  == [hash : Content, data : Content, revision : Content, verification : Content]
Walk   == [todo : SUBSET Name, target : Name, left : SUBSET File]

TreeTyped ==
    /\ vdir \in BOOLEAN
    /\ entry \in [Version -> Inode \union {NoInode}]
    /\ temp \subseteq Inode
    /\ file \in [Inode -> [File -> Content]]
    /\ alias \in Version \union {NoVersion}
    /\ aliasTemp \subseteq Inode

ProgressTyped ==
    /\ pc \in [Proc -> Label]
    /\ job \in [Proc -> Job]
    /\ dir \in [Proc -> Inode \union {NoInode}]
    /\ got \in [Proc -> Reads]
    /\ rm \in [Proc -> Walk]
    /\ out \in [Proc -> Result]

LEMMA TypeSplit == TypeOK <=> TreeTyped /\ ProgressTyped
BY DEF TypeOK, TreeTyped, ProgressTyped, Result, Job, Reads, Walk

LEMMA LinkedType == ASSUME TreeTyped PROVE Linked \subseteq Name
BY DEF TreeTyped, Linked, Name

LEMMA DirectoryAtType ==
    ASSUME TreeTyped, NEW n \in Name PROVE DirectoryAt(n) \in Inode \union {NoInode}
<1>1. CASE n[1] = "entry"
  <2>1. n[2] \in Version
    BY <1>1 DEF Name
  <2> QED
    BY <1>1, <2>1 DEF DirectoryAt, TreeTyped
<1>2. CASE n[1] = "temp" /\ n[2] \in temp
  BY <1>2 DEF DirectoryAt, TreeTyped
<1>3. CASE n[1] # "entry" /\ ~(n[1] = "temp" /\ n[2] \in temp)
  BY <1>3 DEF DirectoryAt
<1> QED
  BY <1>1, <1>2, <1>3

LEMMA ReadType ==
    ASSUME TreeTyped, NEW v \in Version, NEW f \in File PROVE Read(v, f) \in Content
BY DEF TreeTyped, Read, Content

LEMMA Constants ==
    /\ NoJob \in Job
    /\ NoReads \in Reads
    /\ NoWalk \in Walk
    /\ EmptyDir \in [File -> Content]
<1>1. NoJob \in Job /\ NoReads \in Reads
  BY DEF NoJob, Job, NoReads, Reads, Content
<1>2. NoWalk \in Walk
  BY DEF NoWalk, Walk, Name
<1>3. EmptyDir \in [File -> Content]
  BY DEF EmptyDir, Content
<1> QED
  BY <1>1, <1>2, <1>3

LEMMA ReturnType ==
    ASSUME ProgressTyped, NEW p \in Proc, NEW result \in Result, Return(p, result)
    PROVE  ProgressTyped'
<1> USE Constants DEF ProgressTyped
<1>1. pc' \in [Proc -> Label] /\ out' \in [Proc -> Result] /\ dir' \in [Proc -> Inode \union {NoInode}]
  BY DEF Return, Goto, Label
<1>2. rm' \in [Proc -> Walk]
  BY DEF Return
<1>3. job' \in [Proc -> Job] /\ got' \in [Proc -> Reads]
  <2>1. CASE result = "ok" /\ IsLookup(p)
    BY <2>1 DEF Return
  <2>2. CASE ~(result = "ok" /\ IsLookup(p))
    BY <2>2 DEF Return
  <2> QED
    BY <2>1, <2>2
<1> QED
  BY <1>1, <1>2, <1>3

LEMMA AfterGetLabel ==
    ASSUME NEW p, NEW result PROVE AfterGet(p, result) \in Label
BY DEF AfterGet, Label

LEMMA GetReturnsType ==
    ASSUME ProgressTyped, NEW p \in Proc, NEW result \in Result, GetReturns(p, result)
    PROVE  ProgressTyped'
<1>1. CASE AfterGet(p, result) = "idle"
  BY <1>1, ReturnType DEF GetReturns
<1>2. CASE AfterGet(p, result) # "idle"
  <2>1. pc' \in [Proc -> Label]
    BY <1>2, AfterGetLabel DEF GetReturns, Goto, ProgressTyped
  <2>2. out' \in [Proc -> Result]
    BY <1>2 DEF GetReturns, ProgressTyped, Result
  <2>3. got' \in [Proc -> Reads]
    BY <1>2, Constants DEF GetReturns, ProgressTyped
  <2>4. UNCHANGED <<job, dir, rm>>
    BY <1>2 DEF GetReturns
  <2> QED
    BY <2>1, <2>2, <2>3, <2>4 DEF ProgressTyped
<1> QED
  BY <1>1, <1>2

-----------------------------------------------------------------------------
(* Control: which job an invocation may have, and whether it holds a       *)
(* directory, at each label.                                               *)
GetLabel   == {"checkZip", "readHash", "matchHash", "readData", "readRevision",
               "readVerification", "matchVerification"}
StageLabel == {"writeZip", "hashZip", "writeHash", "writeVerification", "writeRevision",
               "seal", "rename", "cleanup"}
RemoveOp   == {"removeVersion", "removeModule"}

Fits(l, j, d) ==
    /\ l \notin {"idle", "latest"} /\ j.op # "removeModule" => j.ver \in Version
    /\ l # "idle" /\ j.op = "put" => j.arch \in Archive
    /\ l \in {"idle", "latest", "verify", "mkdir", "mktemp", "createAlias", "measure", "walk",
             "readAlias", "removeAlias", "removeVdir"} => d = NoInode
    /\ l \in StageLabel \union {"renameAlias", "unlink"} => d # NoInode
    /\ l = "latest" => j.op = "lookupLatest"
    /\ l = "verify" => j.op \in {"lookup", "lookupLatest"}
    /\ l \in GetLabel => j.op \notin RemoveOp /\ (j.op # "put" => d = NoInode)
    /\ l = "mkdir" => j.op \in {"put", "setLatest"}
    /\ l \in StageLabel \union {"mktemp"} => j.op = "put"
    /\ l \in {"createAlias", "renameAlias"} => j.op = "setLatest"
    /\ l \in {"measure", "walk", "unlink"} => j.op \in RemoveOp
    /\ l \in {"readAlias", "removeAlias", "removeVdir"} => j.op = "removeVersion"

TypeInv == TreeTyped /\ ProgressTyped /\ \A p \in Proc : Fits(pc[p], job[p], dir[p])

(* An action that leaves the others alone preserves TypeInv if it is       *)
(* well typed and fits for its own invocation.                             *)
Alone(p) == \A q \in Proc \ {p} : pc'[q] = pc[q] /\ job'[q] = job[q] /\ dir'[q] = dir[q]

LEMMA TypeInvAlone ==
    ASSUME TypeInv, NEW p \in Proc, Alone(p), TreeTyped', ProgressTyped',
           Fits(pc'[p], job'[p], dir'[p])
    PROVE  TypeInv'
<1>1. ASSUME NEW q \in Proc PROVE Fits(pc'[q], job'[q], dir'[q])
  BY DEF Alone, TypeInv
<1> QED
  BY <1>1 DEF TypeInv

LEMMA ReturnFits ==
    ASSUME TypeInv, NEW p \in Proc, NEW result \in Result, Return(p, result)
    PROVE  ProgressTyped' /\ Alone(p) /\ Fits(pc'[p], job'[p], dir'[p])
<1>1. ProgressTyped'
  BY ReturnType DEF TypeInv
<1>2. pc'[p] = "idle" /\ dir'[p] = NoInode
  BY DEF Return, Goto, TypeInv, ProgressTyped
<1>3. Fits(pc'[p], job'[p], dir'[p])
  BY <1>2 DEF Fits, GetLabel, StageLabel
<1>4. Alone(p)
  BY DEF Return, Goto, Alone, TypeInv, ProgressTyped
<1> QED
  BY <1>1, <1>3, <1>4

LEMMA VerifyCases ==
    ASSUME NEW p \in Proc, Verify(p)
    PROVE  /\ pc[p] = "verify" /\ UNCHANGED fs
           /\ \/ Return(p, "error")
              \/ Answer(p) /\ GoSum[job[p].ver] \in {Absent, got[p].data}
BY DEF Verify

LEMMA AnswerFits ==
    ASSUME TypeInv, NEW p \in Proc, Answer(p), pc[p] = "verify"
    PROVE  ProgressTyped' /\ Alone(p) /\ Fits(pc'[p], job'[p], dir'[p])
<1>1. got[p] \in Reads
  BY DEF TypeInv, ProgressTyped
<1>2. got' \in [Proc -> Reads]
  BY <1>1 DEF Answer, Reads, TypeInv, ProgressTyped
<1>3. ProgressTyped'
  BY <1>2, Constants DEF Answer, Goto, Label, Result, TypeInv, ProgressTyped
<1>4. pc'[p] = "idle" /\ dir'[p] = NoInode /\ Alone(p)
  BY DEF Answer, Goto, Alone, TypeInv, ProgressTyped
<1>5. Fits(pc'[p], job'[p], dir'[p])
  BY <1>4 DEF Fits, GetLabel, StageLabel
<1> QED
  BY <1>3, <1>4, <1>5

LEMMA GetReturnsFits ==
    ASSUME TypeInv, NEW p \in Proc, NEW result \in Result, GetReturns(p, result),
           pc[p] \in GetLabel \/ (pc[p] \in {"latest", "measure"} /\ result = "error")
    PROVE  ProgressTyped' /\ Alone(p) /\ Fits(pc'[p], job'[p], dir'[p])
<1>1. CASE AfterGet(p, result) = "idle"
  BY <1>1, ReturnFits DEF GetReturns
<1>2. CASE AfterGet(p, result) # "idle"
  <2>1. ProgressTyped'
    BY GetReturnsType DEF TypeInv
  <2>2. /\ pc' = [pc EXCEPT ![p] = AfterGet(p, result)]
        /\ UNCHANGED <<job, dir>>
    BY <1>2 DEF GetReturns, Goto
  <2>3. pc'[p] = AfterGet(p, result)
    BY <2>2 DEF TypeInv, ProgressTyped
  <2>4. Fits(AfterGet(p, result), job[p], dir[p])
    <3>1. Fits(pc[p], job[p], dir[p])
      BY DEF TypeInv
    <3>2. CASE IsLookup(p) /\ result = "ok"
      <4>1. AfterGet(p, result) = "verify" /\ pc[p] \in GetLabel
        BY <3>2 DEF AfterGet, IsLookup
      <4>2. job[p].op \in {"lookup", "lookupLatest"} /\ job[p].ver \in Version /\ dir[p] = NoInode
        BY <3>1, <3>2, <4>1 DEF Fits, GetLabel, IsLookup
      <4> QED
        BY <4>1, <4>2 DEF Fits, GetLabel, StageLabel
    <3>3. CASE ~(IsLookup(p) /\ result = "ok") /\ job[p].op = "put"
      <4>1. AfterGet(p, result) \in {"cleanup", "mkdir"}
        BY <1>2, <3>3 DEF AfterGet, IsLookup
      <4>2. AfterGet(p, result) = "cleanup" <=> dir[p] # NoInode
        BY <1>2, <3>3, <4>1 DEF AfterGet, IsLookup
      <4>3. pc[p] \in GetLabel
        BY <3>1, <3>3 DEF Fits, RemoveOp
      <4>4. job[p].ver \in Version /\ job[p].arch \in Archive
        BY <3>1, <3>3, <4>3 DEF Fits, GetLabel
      <4> QED
        BY <3>3, <4>1, <4>2, <4>4 DEF Fits, GetLabel, StageLabel, RemoveOp
    <3>4. CASE ~(IsLookup(p) /\ result = "ok") /\ job[p].op # "put"
      <4>1. AfterGet(p, result) = "mkdir" /\ job[p].op = "setLatest"
        BY <1>2, <3>4 DEF AfterGet, IsLookup
      <4>2. pc[p] \in GetLabel
        BY <3>1, <4>1 DEF Fits, RemoveOp
      <4>3. job[p].ver \in Version /\ dir[p] = NoInode
        BY <3>1, <4>1, <4>2 DEF Fits, GetLabel
      <4> QED
        BY <4>1, <4>3 DEF Fits, GetLabel, StageLabel, RemoveOp
    <3> QED
      BY <3>2, <3>3, <3>4
  <2> QED
    BY <2>1, <2>2, <2>3, <2>4 DEF Alone, TypeInv, ProgressTyped
<1> QED
  BY <1>1, <1>2

LEMMA GetStepTyped ==
    ASSUME TypeInv, NEW p \in Proc, NEW at \in GetLabel, NEW passes, NEW reads \in Reads,
           NEW next \in GetLabel, NEW failure \in Result,
           GetStep(p, at, passes, reads, next, failure)
    PROVE  TypeInv'
<1>1. TreeTyped'
  BY DEF GetStep, fs, TreeTyped, TypeInv
<1>2. CASE passes
  <2>1. pc' = [pc EXCEPT ![p] = next] /\ pc[p] = at /\ UNCHANGED <<job, dir, rm, out>>
    BY <1>2 DEF GetStep, Goto
  <2>2. got' \in [Proc -> Reads]
    BY <1>2 DEF GetStep, TypeInv, ProgressTyped
  <2>3. ProgressTyped'
    BY <2>1, <2>2 DEF TypeInv, ProgressTyped, GetLabel, Label
  <2>4. Fits(pc'[p], job'[p], dir'[p])
    BY <2>1 DEF TypeInv, ProgressTyped, Fits, GetLabel, StageLabel
  <2>5. Alone(p)
    BY <2>1 DEF Alone, TypeInv, ProgressTyped
  <2> QED
    BY <1>1, <2>3, <2>4, <2>5, TypeInvAlone
<1>3. CASE ~passes
  <2>1. GetReturns(p, failure) /\ pc[p] = at
    BY <1>3 DEF GetStep
  <2> QED
    BY <1>1, <2>1, GetReturnsFits, TypeInvAlone
<1> QED
  BY <1>2, <1>3

-----------------------------------------------------------------------------
(* The operations, one by one. *)
LEMMA GetTyped ==
    ASSUME TypeInv, NEW p \in Proc, Get(p) \/ Verify(p) \/ ReadLatest(p) PROVE TypeInv'
<1> DEFINE v == job[p].ver
<1>1. pc[p] \in GetLabel => v \in Version
  BY DEF TypeInv, Fits, GetLabel, RemoveOp
<1>2. ASSUME pc[p] \in GetLabel, NEW f \in File PROVE Read(v, f) \in Content
  BY <1>1, <1>2, ReadType DEF TypeInv
<1>3. got[p] \in Reads
  BY DEF TypeInv, ProgressTyped
<1>4. CASE GetCheckZip(p)
  BY <1>3, <1>4, GetStepTyped DEF GetCheckZip, GetLabel, Result
<1>5. CASE GetReadHash(p)
  <2>1. Read(v, "hash") \in Content
    BY <1>2, <1>5 DEF GetReadHash, GetStep, GetLabel, File
  <2>2. [got[p] EXCEPT !.hash = Read(v, "hash")] \in Reads
    BY <1>3, <2>1 DEF Reads
  <2> QED
    BY <1>5, <2>2, GetStepTyped DEF GetReadHash, GetLabel, Result
<1>6. CASE GetMatchHash(p)
  BY <1>3, <1>6, GetStepTyped DEF GetMatchHash, GetLabel, Result
<1>7. CASE GetReadData(p)
  <2>1. Read(v, "zip") \in Content
    BY <1>2, <1>7 DEF GetReadData, GetStep, GetLabel, File
  <2>2. [got[p] EXCEPT !.data = Read(v, "zip")] \in Reads
    BY <1>3, <2>1 DEF Reads
  <2> QED
    BY <1>7, <2>2, GetStepTyped DEF GetReadData, GetLabel, Result
<1>8. CASE GetReadRevision(p)
  <2>1. Read(v, "revision") \in Content
    BY <1>2, <1>8 DEF GetReadRevision, GetStep, GetLabel, File
  <2>2. [got[p] EXCEPT !.revision = Read(v, "revision")] \in Reads
    BY <1>3, <2>1 DEF Reads
  <2> QED
    BY <1>8, <2>2, GetStepTyped DEF GetReadRevision, GetLabel, Result
<1>9. CASE GetReadVerification(p)
  <2>1. Read(v, "verification") \in Content
    BY <1>2, <1>9 DEF GetReadVerification, GetStep, GetLabel, File
  <2>2. [got[p] EXCEPT !.verification = Read(v, "verification")] \in Reads
    BY <1>3, <2>1 DEF Reads
  <2> QED
    BY <1>9, <2>2, GetStepTyped DEF GetReadVerification, GetLabel, Result
<1>10. CASE GetMatchVerification(p)
  <2>1. PICK result \in {"ok", "error"} : GetReturns(p, result)
    BY <1>10 DEF GetMatchVerification
  <2>2. TreeTyped'
    BY <1>10 DEF GetMatchVerification, fs, TreeTyped, TypeInv
  <2> QED
    BY <1>10, <2>1, <2>2, GetReturnsFits, TypeInvAlone DEF GetMatchVerification, GetLabel, Result
<1>11. CASE Cancelled(p)
  <2>1. TreeTyped'
    BY <1>11 DEF Cancelled, fs, TreeTyped, TypeInv
  <2> QED
    BY <1>11, <2>1, GetReturnsFits, TypeInvAlone DEF Cancelled, GetLabel, Result
<1>12. CASE Verify(p)
  <2>1. TreeTyped'
    BY <1>12, VerifyCases DEF fs, TreeTyped, TypeInv
  <2>2. CASE Return(p, "error")
    BY <2>1, <2>2, ReturnFits, TypeInvAlone DEF Result
  <2>3. CASE Answer(p)
    BY <1>12, <2>1, <2>3, VerifyCases, AnswerFits, TypeInvAlone
  <2> QED
    BY <1>12, <2>2, <2>3, VerifyCases
<1>13. CASE ReadLatest(p)
  <2>1. TreeTyped'
    BY <1>13 DEF ReadLatest, fs, TreeTyped, TypeInv
  <2>2. CASE alias = NoVersion
    BY <1>13, <2>1, <2>2, ReturnFits, TypeInvAlone DEF ReadLatest, Result
  <2>3. CASE alias # NoVersion
    <3>1. /\ pc[p] = "latest"
          /\ job' = [job EXCEPT ![p].ver = alias]
          /\ pc' = [pc EXCEPT ![p] = "checkZip"]
          /\ UNCHANGED <<dir, got, rm, out>>
      BY <1>13, <2>3 DEF ReadLatest, Goto
    <3>2. alias \in Version
      BY <2>3 DEF TypeInv, TreeTyped
    <3>3. job' \in [Proc -> Job]
      BY <3>1, <3>2 DEF TypeInv, ProgressTyped, Job
    <3>4. ProgressTyped'
      BY <3>1, <3>3 DEF TypeInv, ProgressTyped, Label
    <3>5. pc'[p] = "checkZip" /\ job'[p].ver = alias /\ job'[p].op = job[p].op /\ dir'[p] = dir[p]
      BY <3>1 DEF TypeInv, ProgressTyped, Job
    <3>6. job[p].op = "lookupLatest" /\ dir[p] = NoInode
      BY <3>1 DEF TypeInv, Fits
    <3>7. Fits(pc'[p], job'[p], dir'[p])
      BY <3>2, <3>5, <3>6 DEF Fits, GetLabel, StageLabel, RemoveOp
    <3>8. Alone(p)
      BY <3>1 DEF Alone, TypeInv, ProgressTyped
    <3> QED
      BY <2>1, <3>4, <3>7, <3>8, TypeInvAlone
  <2> QED
    BY <2>2, <2>3
<1> QED
  BY <1>4, <1>5, <1>6, <1>7, <1>8, <1>9, <1>10, <1>11, <1>12, <1>13 DEF Get

(* A step of one invocation that keeps its job and goes on at another      *)
(* label.                                                                  *)
LEMMA GotoTyped ==
    ASSUME TypeInv, NEW p \in Proc, NEW l \in Label, Goto(p, l), UNCHANGED <<job, dir, got>>,
           TreeTyped', rm' \in [Proc -> Walk], out' \in [Proc -> Result],
           Fits(l, job[p], dir[p])
    PROVE  TypeInv'
<1>1. ProgressTyped'
  BY DEF Goto, TypeInv, ProgressTyped
<1>2. pc'[p] = l
  BY DEF Goto, TypeInv, ProgressTyped
<1>3. Alone(p)
  BY DEF Goto, Alone, TypeInv, ProgressTyped
<1> QED
  BY <1>1, <1>2, <1>3, TypeInvAlone

LEMMA PutFailsTyped ==
    ASSUME TypeInv, NEW p \in Proc, pc[p] \in StageLabel, PutFails(p), UNCHANGED <<job, dir, got, rm>>,
           TreeTyped'
    PROVE  TypeInv'
<1>1. Fits("cleanup", job[p], dir[p])
  <2>1. Fits(pc[p], job[p], dir[p])
    BY DEF TypeInv
  <2> QED
    BY <2>1 DEF Fits, StageLabel, GetLabel, RemoveOp
<1>2. out' \in [Proc -> Result] /\ rm' \in [Proc -> Walk]
  BY DEF PutFails, TypeInv, ProgressTyped, Result
<1> QED
  BY <1>1, <1>2, GotoTyped DEF PutFails, Label

LEMMA StageFits ==
    ASSUME TypeInv, NEW p \in Proc, pc[p] \in StageLabel, NEW l \in StageLabel
    PROVE  Fits(l, job[p], dir[p]) /\ dir[p] # NoInode /\ job[p].arch \in Archive /\ job[p].ver \in Version
<1>1. Fits(pc[p], job[p], dir[p])
  BY DEF TypeInv
<1> QED
  BY <1>1 DEF Fits, StageLabel, GetLabel, RemoveOp

LEMMA PutWriteTyped ==
    ASSUME TypeInv, NEW p \in Proc, NEW at \in StageLabel, NEW f \in File, NEW content \in Content,
           NEW next \in StageLabel, PutWrite(p, at, f, content, next)
    PROVE  TypeInv'
<1>1. pc[p] = at /\ UNCHANGED <<vdir, entry, temp, alias, aliasTemp, job, dir, got, rm>>
  BY DEF PutWrite
<1>2. CASE dir[p] \in temp
  <2>1. file' \in [Inode -> [File -> Content]]
    BY <1>2 DEF PutWrite, TypeInv, TreeTyped
  <2>2. TreeTyped'
    BY <1>1, <2>1 DEF TypeInv, TreeTyped
  <2>3. Goto(p, next) /\ UNCHANGED out
    BY <1>2 DEF PutWrite
  <2>4. Fits(next, job[p], dir[p])
    BY <1>1, StageFits
  <2> QED
    BY <1>1, <2>2, <2>3, <2>4, GotoTyped DEF TypeInv, ProgressTyped, StageLabel, Label
<1>3. CASE dir[p] \notin temp
  <2>1. PutFails(p) /\ UNCHANGED file
    BY <1>3 DEF PutWrite
  <2>2. TreeTyped'
    BY <1>1, <2>1 DEF TypeInv, TreeTyped
  <2> QED
    BY <1>1, <2>1, <2>2, PutFailsTyped
<1> QED
  BY <1>2, <1>3

LEMMA PutCheckTyped ==
    ASSUME TypeInv, NEW p \in Proc, NEW at \in StageLabel, NEW passes, NEW next \in StageLabel,
           PutCheck(p, at, passes, next)
    PROVE  TypeInv'
<1>1. pc[p] = at /\ UNCHANGED <<job, dir, got, rm>> /\ TreeTyped'
  BY DEF PutCheck, fs, TypeInv, TreeTyped
<1>2. CASE passes
  <2>1. Goto(p, next) /\ UNCHANGED out
    BY <1>2 DEF PutCheck
  <2>2. Fits(next, job[p], dir[p])
    BY <1>1, StageFits
  <2> QED
    BY <1>1, <2>1, <2>2, GotoTyped DEF TypeInv, ProgressTyped, StageLabel, Label
<1>3. CASE ~passes
  BY <1>1, <1>3, PutFailsTyped DEF PutCheck
<1> QED
  BY <1>2, <1>3

(* Taking an inode from the pool. *)
LEMMA TakeTyped ==
    ASSUME TypeInv, NEW p \in Proc, NEW i \in FreeInode, NEW l \in Label, Goto(p, l),
           dir' = [dir EXCEPT ![p] = i], UNCHANGED <<job, got, rm, out>>, TreeTyped',
           Fits(l, job[p], i)
    PROVE  TypeInv'
<1>1. i \in Inode
  BY DEF FreeInode
<1>2. ProgressTyped' /\ pc'[p] = l /\ dir'[p] = i /\ Alone(p)
  BY <1>1 DEF Goto, TypeInv, ProgressTyped, Alone
<1> QED
  BY <1>2, TypeInvAlone

LEMMA PutTyped ==
    ASSUME TypeInv, NEW p \in Proc, Put(p) PROVE TypeInv'
<1>1. CASE PutMkdirTemp(p)
  <2>1. pc[p] = "mktemp" /\ UNCHANGED <<vdir, entry, alias, aliasTemp>>
    BY <1>1 DEF PutMkdirTemp
  <2>2. CASE vdir
    <3>1. PICK i \in FreeInode :
            /\ temp' = temp \union {i}
            /\ file' = [file EXCEPT ![i] = EmptyDir]
            /\ dir' = [dir EXCEPT ![p] = i]
            /\ Goto(p, "writeZip")
            /\ UNCHANGED <<job, got, rm, out>>
      BY <1>1, <2>2 DEF PutMkdirTemp
    <3>2. i \in Inode /\ i # NoInode
      BY ArchiveStoreAssumption DEF ArchiveStoreAssumption, FreeInode
    <3>3. TreeTyped'
      BY <2>1, <3>1, <3>2, Constants DEF TypeInv, TreeTyped
    <3>4. Fits("mktemp", job[p], dir[p])
      BY <2>1 DEF TypeInv
    <3>5. Fits("writeZip", job[p], i)
      BY <3>2, <3>4 DEF Fits, StageLabel, GetLabel, RemoveOp
    <3> QED
      BY <3>1, <3>3, <3>5, TakeTyped DEF Label
  <2>3. CASE ~vdir
    <3>1. Return(p, "error") /\ UNCHANGED <<temp, file>>
      BY <1>1, <2>3 DEF PutMkdirTemp
    <3>2. TreeTyped'
      BY <2>1, <3>1 DEF TypeInv, TreeTyped
    <3> QED
      BY <3>1, <3>2, ReturnFits, TypeInvAlone DEF Result
  <2> QED
    BY <2>2, <2>3
<1>2. pc[p] \in StageLabel => job[p].arch \in Content /\ RevisionOf(job[p].arch) \in Content
  BY StageFits DEF StageLabel, Content, RevisionOf
<1>3. CASE PutWriteZip(p)
  BY <1>2, <1>3, PutWriteTyped DEF PutWriteZip, PutWrite, StageLabel, File
<1>4. CASE PutHashZip(p)
  BY <1>4, PutCheckTyped DEF PutHashZip, StageLabel
<1>5. CASE PutWriteHash(p)
  BY <1>2, <1>5, PutWriteTyped DEF PutWriteHash, PutWrite, StageLabel, File
<1>6. CASE PutWriteVerification(p)
  BY <1>2, <1>6, PutWriteTyped DEF PutWriteVerification, PutWrite, StageLabel, File
<1>7. CASE PutWriteRevision(p)
  BY <1>2, <1>7, PutWriteTyped DEF PutWriteRevision, PutWrite, StageLabel, File
<1>8. CASE PutSeal(p)
  BY <1>8, PutCheckTyped DEF PutSeal, StageLabel
<1>9. CASE PutRename(p)
  <2>1. entry' \in [Version -> Inode \union {NoInode}]
    BY <1>9 DEF PutRename, TypeInv, TreeTyped, ProgressTyped
  <2>2. TreeTyped'
    BY <1>9, <2>1 DEF PutRename, TypeInv, TreeTyped
  <2>3. PICK result \in {"ok", "error"} : Return(p, result)
    BY <1>9 DEF PutRename
  <2> QED
    BY <2>2, <2>3, ReturnFits, TypeInvAlone DEF Result
<1>10. CASE PutRenameFails(p)
  <2>1. TreeTyped' /\ UNCHANGED <<job, dir, got, rm, out>> /\ Goto(p, "checkZip") /\ pc[p] = "rename"
    BY <1>10 DEF PutRenameFails, fs, TypeInv, TreeTyped
  <2>2. Fits("rename", job[p], dir[p])
    BY <2>1 DEF TypeInv
  <2>3. Fits("checkZip", job[p], dir[p])
    BY <2>2 DEF Fits, StageLabel, GetLabel, RemoveOp
  <2> QED
    BY <2>1, <2>3, GotoTyped DEF TypeInv, ProgressTyped, Label
<1>11. CASE PutAborts(p)
  <2>1. TreeTyped' /\ pc[p] \in StageLabel
    BY <1>11 DEF PutAborts, fs, TypeInv, TreeTyped, StageLabel
  <2> QED
    BY <1>11, <2>1, PutFailsTyped DEF PutAborts
<1>12. CASE PutCleanup(p)
  <2>1. TreeTyped'
    BY <1>12, Constants DEF PutCleanup, TypeInv, TreeTyped
  <2>2. out[p] \in Result
    BY DEF TypeInv, ProgressTyped
  <2> QED
    BY <1>12, <2>1, <2>2, ReturnFits, TypeInvAlone DEF PutCleanup
<1> QED
  BY <1>1, <1>3, <1>4, <1>5, <1>6, <1>7, <1>8, <1>9, <1>10, <1>11, <1>12 DEF Put

LEMMA SetLatestTyped ==
    ASSUME TypeInv, NEW p \in Proc, Mkdir(p) \/ SetLatest(p) PROVE TypeInv'
<1>1. Fits(pc[p], job[p], dir[p])
  BY DEF TypeInv
<1>2. CASE Mkdir(p)
  <2> DEFINE l == IF job[p].op = "put" THEN "mktemp" ELSE "createAlias"
  <2>1. TreeTyped'
    BY <1>2 DEF Mkdir, TypeInv, TreeTyped
  <2>2. Fits(l, job[p], dir[p])
    BY <1>1, <1>2 DEF Mkdir, Fits, StageLabel, GetLabel, RemoveOp
  <2>3. l \in Label
    BY DEF Label
  <2> QED
    BY <1>2, <2>1, <2>2, <2>3, GotoTyped DEF Mkdir, TypeInv, ProgressTyped
<1>3. CASE SetLatestCreate(p)
  <2>1. CASE vdir
    <3>1. PICK i \in FreeInode :
            /\ aliasTemp' = aliasTemp \union {i}
            /\ dir' = [dir EXCEPT ![p] = i]
            /\ Goto(p, "renameAlias")
            /\ UNCHANGED <<job, got, rm, out>>
      BY <1>3, <2>1 DEF SetLatestCreate
    <3>2. i \in Inode /\ i # NoInode
      BY ArchiveStoreAssumption DEF ArchiveStoreAssumption, FreeInode
    <3>3. TreeTyped'
      BY <1>3, <3>1, <3>2 DEF SetLatestCreate, TypeInv, TreeTyped
    <3>4. Fits("renameAlias", job[p], i)
      BY <1>1, <1>3, <3>2 DEF SetLatestCreate, Fits, StageLabel, GetLabel, RemoveOp
    <3> QED
      BY <3>1, <3>3, <3>4, TakeTyped DEF Label
  <2>2. CASE ~vdir
    BY <1>3, <2>2, ReturnFits, TypeInvAlone DEF SetLatestCreate, TypeInv, TreeTyped, Result
  <2> QED
    BY <2>1, <2>2
<1>4. CASE SetLatestRename(p)
  <2>1. job[p].ver \in Version
    BY <1>1, <1>4 DEF SetLatestRename, Fits
  <2>2. TreeTyped'
    BY <1>4, <2>1 DEF SetLatestRename, TypeInv, TreeTyped
  <2>3. PICK result \in {"ok", "error"} : Return(p, result)
    BY <1>4 DEF SetLatestRename
  <2> QED
    BY <2>2, <2>3, ReturnFits, TypeInvAlone DEF Result
<1>5. CASE SetLatestCancelled(p)
  <2>1. TreeTyped'
    BY <1>5 DEF SetLatestCancelled, TypeInv, TreeTyped
  <2> QED
    BY <1>5, <2>1, ReturnFits, TypeInvAlone DEF SetLatestCancelled, Result
<1> QED
  BY <1>2, <1>3, <1>4, <1>5 DEF SetLatest

LEMMA StartTyped ==
    ASSUME TypeInv, NEW p \in Proc, Start(p) \/ Crash(p) PROVE TypeInv'
<1>1. TreeTyped'
  BY DEF Start, Crash, fs, TypeInv, TreeTyped
<1>2. Fits(pc[p], job[p], dir[p])
  BY DEF TypeInv
<1>3. CASE Start(p)
  <2>1. PICK r \in Request : job' = [job EXCEPT ![p] = r] /\ Goto(p, FirstLabel(r.op))
    BY <1>3 DEF Start
  <2>2. r \in Job
    BY <2>1 DEF Request, Job, AllOps, Content
  <2>3. FirstLabel(r.op) \in Label
    BY DEF FirstLabel, Label
  <2>4. ProgressTyped' /\ Alone(p) /\ pc'[p] = FirstLabel(r.op) /\ job'[p] = r /\ dir'[p] = dir[p]
    BY <1>3, <2>1, <2>2, <2>3, Constants DEF Start, Goto, TypeInv, ProgressTyped, Result, Alone
  <2>5. dir[p] = NoInode
    BY <1>2, <1>3 DEF Start, Fits
  <2>6. CASE r \in [op : {"put"}, ver : Version, arch : Archive]
    <3>1. r.op = "put" /\ r.ver \in Version /\ r.arch \in Archive /\ FirstLabel(r.op) = "checkZip"
      BY <2>6 DEF FirstLabel
    <3>2. Fits(FirstLabel(r.op), r, NoInode)
      BY <3>1 DEF Fits, StageLabel, GetLabel, RemoveOp
    <3> QED
      BY <1>1, <2>4, <2>5, <3>2, TypeInvAlone
  <2>7. CASE r \in [op : {"lookup", "setLatest", "removeVersion"}, ver : Version, arch : {Absent}]
    <3>1. /\ r.op \in {"lookup", "setLatest", "removeVersion"}
          /\ r.ver \in Version
          /\ FirstLabel(r.op) = IF r.op = "removeVersion" THEN "measure" ELSE "checkZip"
      BY <2>7 DEF FirstLabel
    <3>2. Fits(FirstLabel(r.op), r, NoInode)
      BY <3>1 DEF Fits, StageLabel, GetLabel, RemoveOp
    <3> QED
      BY <1>1, <2>4, <2>5, <3>2, TypeInvAlone
  <2>8. CASE r \in [op : {"lookupLatest", "removeModule"}, ver : {NoVersion}, arch : {Absent}]
    <3>1. /\ r.op \in {"lookupLatest", "removeModule"}
          /\ FirstLabel(r.op) = IF r.op = "removeModule" THEN "measure" ELSE "latest"
      BY <2>8 DEF FirstLabel
    <3>2. Fits(FirstLabel(r.op), r, NoInode)
      BY <3>1 DEF Fits, StageLabel, GetLabel, RemoveOp
    <3> QED
      BY <1>1, <2>4, <2>5, <3>2, TypeInvAlone
  <2> QED
    BY <2>1, <2>6, <2>7, <2>8 DEF Request
<1>4. CASE Crash(p)
  <2>1. ProgressTyped' /\ Alone(p) /\ pc'[p] = "idle" /\ dir'[p] = NoInode
    BY <1>4, Constants DEF Crash, Goto, TypeInv, ProgressTyped, Result, Label, Alone
  <2>2. Fits(pc'[p], job'[p], dir'[p])
    BY <2>1 DEF Fits, StageLabel, GetLabel
  <2> QED
    BY <1>1, <2>1, <2>2, TypeInvAlone
<1> QED
  BY <1>3, <1>4

(* The last step of a removal. *)
LEMMA RemoveEndsTyped ==
    ASSUME TypeInv, NEW p \in Proc, Goto(p, "idle"), pc[p] \in {"walk", "removeVdir"},
           vdir' = (vdir /\ Linked # {}), job' = [job EXCEPT ![p] = NoJob],
           rm' \in [Proc -> Walk], UNCHANGED <<entry, temp, file, alias, aliasTemp, dir, got>>,
           NEW result \in Result, out' = [out EXCEPT ![p] = result]
    PROVE  TypeInv'
<1>1. TreeTyped'
  BY DEF TypeInv, TreeTyped
<1>2. ProgressTyped' /\ Alone(p) /\ pc'[p] = "idle"
  BY Constants DEF TypeInv, ProgressTyped, Goto, Label, Alone
<1>3. dir'[p] = NoInode
  BY DEF TypeInv, Fits
<1>4. Fits(pc'[p], job'[p], dir'[p])
  BY <1>2, <1>3 DEF Fits, StageLabel, GetLabel
<1> QED
  BY <1>1, <1>2, <1>4, TypeInvAlone

LEMMA RemoveTyped ==
    ASSUME TypeInv, NEW p \in Proc, Remove(p) PROVE TypeInv'
<1> USE DEF TypeInv
<1>1. Fits(pc[p], job[p], dir[p])
  OBVIOUS
<1>2. CASE RemoveMeasure(p)
  <2> DEFINE names == IF job[p].op = "removeModule" THEN Linked
                      ELSE {<<"entry", job[p].ver>>} \intersect Linked
  <2>1. TreeTyped'
    BY <1>2 DEF RemoveMeasure, fs, TreeTyped
  <2>2. \/ Return(p, "notFound")
        \/ /\ rm' = [rm EXCEPT ![p].todo = names]
           /\ Goto(p, "walk")
           /\ UNCHANGED <<job, dir, got, out>>
    BY <1>2 DEF RemoveMeasure
  <2>3. CASE Return(p, "notFound")
    BY <2>1, <2>3, ReturnFits, TypeInvAlone DEF Result
  <2>4. CASE /\ rm' = [rm EXCEPT ![p].todo = names]
             /\ Goto(p, "walk")
             /\ UNCHANGED <<job, dir, got, out>>
    <3>1. names \in SUBSET Name
      BY LinkedType
    <3>2. rm' \in [Proc -> Walk]
      <4> HIDE DEF names
      <4> QED BY <2>4, <3>1 DEF ProgressTyped, Walk
    <3>3. Fits("walk", job[p], dir[p])
      BY <1>1, <1>2 DEF RemoveMeasure, Fits, StageLabel, GetLabel, RemoveOp
    <3> QED
      BY <2>1, <2>4, <3>2, <3>3, GotoTyped DEF ProgressTyped, Label
  <2> QED
    BY <2>2, <2>3, <2>4
<1>3. CASE RemoveMeasureFails(p)
  <2>1. TreeTyped'
    BY <1>3 DEF RemoveMeasureFails, fs, TreeTyped
  <2> QED
    BY <1>3, <2>1, ReturnFits, TypeInvAlone DEF RemoveMeasureFails, Result
<1>4. CASE RemoveName(p)
  <2>1. PICK n \in rm[p].todo : 
         LET i == DirectoryAt(n) IN
         IF i = NoInode
           THEN /\ rm' = [rm EXCEPT ![p].todo = @ \ {n}]
                /\ alias' = IF n[1] = "alias" THEN NoVersion ELSE alias
                /\ aliasTemp' = IF n[1] = "aliasTemp" THEN aliasTemp \ {n[2]} ELSE aliasTemp
                /\ UNCHANGED <<pc, dir>>
           ELSE /\ rm' = [rm EXCEPT ![p] = [todo |-> @.todo, target |-> n,
                                            left |-> {f \in File : file[i][f] # Absent}]]
                /\ dir' = [dir EXCEPT ![p] = i]
                /\ Goto(p, "unlink")
                /\ UNCHANGED <<alias, aliasTemp>>
    BY <1>4 DEF RemoveName
  <2>2. n \in Name
    BY <2>1 DEF ProgressTyped, Walk
  <2>3. DirectoryAt(n) \in Inode \union {NoInode}
    BY <2>2, DirectoryAtType
  <2>4. pc[p] = "walk" /\ UNCHANGED <<vdir, entry, temp, file, job, got, out>>
    BY <1>4 DEF RemoveName
  <2>5. TreeTyped'
    BY <2>1, <2>4 DEF TreeTyped
  <2>6. CASE DirectoryAt(n) = NoInode
    <3>1. UNCHANGED <<pc, dir, job, got, out>> /\ rm' = [rm EXCEPT ![p].todo = @ \ {n}]
      BY <2>1, <2>4, <2>6
    <3>2. ProgressTyped'
      BY <3>1 DEF ProgressTyped, Walk
    <3> QED
      BY <2>5, <3>1, <3>2
  <2>7. CASE DirectoryAt(n) # NoInode
    <3> DEFINE w == [todo |-> rm[p].todo, target |-> n,
                     left |-> {f \in File : file[DirectoryAt(n)][f] # Absent}]
    <3>1. rm' = [rm EXCEPT ![p] = w] /\ dir' = [dir EXCEPT ![p] = DirectoryAt(n)] /\ Goto(p, "unlink")
      BY <2>1, <2>7
    <3>2. w \in Walk
      BY <2>2 DEF ProgressTyped, Walk
    <3>3. ProgressTyped' /\ Alone(p) /\ pc'[p] = "unlink" /\ dir'[p] = DirectoryAt(n) /\ job'[p] = job[p]
      <4> HIDE DEF w
      <4> QED BY <2>3, <2>4, <3>1, <3>2 DEF Goto, Alone, ProgressTyped, Label
    <3>4. Fits("unlink", job[p], DirectoryAt(n))
      BY <1>1, <2>4, <2>7 DEF Fits, StageLabel, GetLabel, RemoveOp
    <3> QED
      BY <2>5, <3>3, <3>4, TypeInvAlone
  <2> QED
    BY <2>6, <2>7
<1>5. CASE RemoveFile(p)
  <2>1. PICK f \in rm[p].left :
          /\ file' = [file EXCEPT ![dir[p]][f] = Absent]
          /\ rm' = [rm EXCEPT ![p].left = @ \ {f}]
    BY <1>5 DEF RemoveFile
  <2>2. f \in File
    BY <2>1 DEF ProgressTyped, Walk
  <2>3. file' \in [Inode -> [File -> Content]]
    BY <2>1, <2>2 DEF TreeTyped, Content
  <2>4. UNCHANGED <<vdir, entry, temp, alias, aliasTemp, pc, job, dir, got, out>>
    BY <1>5 DEF RemoveFile
  <2>5. TreeTyped'
    BY <2>3, <2>4 DEF TreeTyped
  <2>6. ProgressTyped'
    BY <2>1, <2>4 DEF ProgressTyped, Walk
  <2> QED
    BY <2>4, <2>5, <2>6
<1>6. CASE RemoveDirectory(p)
  <2> DEFINE n == rm[p].target
             w == [NoWalk EXCEPT !.todo = rm[p].todo \ {n}]
  <2>1. TreeTyped'
    <3>1. UNCHANGED <<vdir, file, alias, aliasTemp>>
      BY <1>6 DEF RemoveDirectory
    <3>2. \/ UNCHANGED <<entry, temp>>
          \/ \E i \in Inode \union {NoInode} :
               /\ entry' = [v \in Version |-> IF entry[v] = i THEN NoInode ELSE entry[v]]
               /\ temp' = temp \ {i}
      <4>1. n \in Name
        BY DEF ProgressTyped, Walk
      <4>2. DirectoryAt(n) \in Inode \union {NoInode}
        BY <4>1, DirectoryAtType
      <4>3. CASE n \in rm[p].todo
        BY <1>6, <4>2, <4>3 DEF RemoveDirectory
      <4>4. CASE n \notin rm[p].todo
        BY <1>6, <4>4 DEF RemoveDirectory
      <4> QED
        BY <4>3, <4>4
    <3>3. entry' \in [Version -> Inode \union {NoInode}] /\ temp' \subseteq Inode
      BY <3>2 DEF TreeTyped
    <3> QED
      BY <3>1, <3>3 DEF TreeTyped
  <2>2. \/ Return(p, "error")
        \/ /\ Goto(p, "walk")
           /\ rm' = [rm EXCEPT ![p] = w]
           /\ dir' = [dir EXCEPT ![p] = NoInode]
           /\ UNCHANGED <<job, got, out>>
    BY <1>6 DEF RemoveDirectory
  <2>3. CASE Return(p, "error")
    BY <2>1, <2>3, ReturnFits, TypeInvAlone DEF Result
  <2>4. CASE /\ Goto(p, "walk")
             /\ rm' = [rm EXCEPT ![p] = w]
             /\ dir' = [dir EXCEPT ![p] = NoInode]
             /\ UNCHANGED <<job, got, out>>
    <3>1. w \in Walk
      BY Constants DEF ProgressTyped, Walk
    <3>2. ProgressTyped' /\ Alone(p) /\ pc'[p] = "walk" /\ dir'[p] = NoInode /\ job'[p] = job[p]
      <4> HIDE DEF w
      <4> QED BY <2>4, <3>1 DEF Goto, Alone, ProgressTyped, Label
    <3>3. Fits("walk", job[p], NoInode)
      BY <1>1, <1>6 DEF RemoveDirectory, Fits, StageLabel, GetLabel, RemoveOp
    <3> QED
      BY <2>1, <3>2, <3>3, TypeInvAlone
  <2> QED
    BY <2>2, <2>3, <2>4
<1>7. CASE RemoveModuleEnds(p)
  <2>1. WalkersLose(rm) \in [Proc -> Walk]
    BY DEF WalkersLose, ProgressTyped, Walk
  <2>2. rm' \in [Proc -> Walk]
    BY <1>7, <2>1, Constants DEF RemoveModuleEnds, ProgressTyped
  <2>3. PICK result \in Result : out' = [out EXCEPT ![p] = result]
    BY <1>7 DEF RemoveModuleEnds, Result
  <2> QED
    BY <1>7, <2>2, <2>3, RemoveEndsTyped DEF RemoveModuleEnds
<1>8. CASE RemoveVersionWalked(p)
  <2>1. TreeTyped' /\ UNCHANGED <<job, dir, got, rm, out>> /\ Goto(p, "readAlias")
    BY <1>8 DEF RemoveVersionWalked, fs, TreeTyped
  <2>2. Fits("readAlias", job[p], dir[p])
    BY <1>1, <1>8 DEF RemoveVersionWalked, Fits, StageLabel, GetLabel, RemoveOp
  <2> QED
    BY <2>1, <2>2, GotoTyped DEF ProgressTyped, Label
<1>9. CASE RemoveReadAlias(p)
  <2>1. TreeTyped' /\ UNCHANGED <<job, dir, got, rm, out>>
    BY <1>9 DEF RemoveReadAlias, fs, TreeTyped
  <2>2. PICK l \in {"removeAlias", "removeVdir"} : Goto(p, l)
    BY <1>9 DEF RemoveReadAlias
  <2>3. Fits(l, job[p], dir[p])
    BY <1>1, <1>9 DEF RemoveReadAlias, Fits, StageLabel, GetLabel, RemoveOp
  <2> QED
    BY <2>1, <2>2, <2>3, GotoTyped DEF ProgressTyped, Label
<1>10. CASE RemoveAlias(p)
  <2>1. TreeTyped' /\ UNCHANGED <<job, dir, got, rm, out>> /\ Goto(p, "removeVdir")
    BY <1>10 DEF RemoveAlias, TreeTyped
  <2>2. Fits("removeVdir", job[p], dir[p])
    BY <1>1, <1>10 DEF RemoveAlias, Fits, StageLabel, GetLabel, RemoveOp
  <2> QED
    BY <2>1, <2>2, GotoTyped DEF ProgressTyped, Label
<1>11. CASE RemoveVdirIfEmpty(p)
  <2>1. WalkersLose(rm) \in [Proc -> Walk]
    BY DEF WalkersLose, ProgressTyped, Walk
  <2>2. rm' \in [Proc -> Walk]
    BY <1>11, <2>1 DEF RemoveVdirIfEmpty, ProgressTyped
  <2> QED
    BY <1>11, <2>2, RemoveEndsTyped DEF RemoveVdirIfEmpty, Result
<1> QED
  BY <1>2, <1>3, <1>4, <1>5, <1>6, <1>7, <1>8, <1>9, <1>10, <1>11 DEF Remove

LEMMA TypeInit == Init => TypeInv
<1> SUFFICES ASSUME Init PROVE TypeInv
  OBVIOUS
<1>1. TreeTyped
  <2>1. entry \in [Version -> Inode \union {NoInode}] /\ vdir \in BOOLEAN
    BY DEF Init
  <2>2. file \in [Inode -> [File -> Content]]
    BY Constants DEF Init
  <2>3. alias \in Version \union {NoVersion} /\ temp \subseteq Inode /\ aliasTemp \subseteq Inode
    BY DEF Init
  <2> QED
    BY <2>1, <2>2, <2>3 DEF TreeTyped
<1>2. ProgressTyped
  <2>1. pc \in [Proc -> Label] /\ out \in [Proc -> Result]
    BY DEF Init, Label, Result
  <2>2. job \in [Proc -> Job]
    BY Constants DEF Init
  <2>3. got \in [Proc -> Reads]
    BY Constants DEF Init
  <2>4. rm \in [Proc -> Walk]
    BY Constants DEF Init
  <2>5. dir \in [Proc -> Inode \union {NoInode}]
    BY DEF Init
  <2> QED
    BY <2>1, <2>2, <2>3, <2>4, <2>5 DEF ProgressTyped
<1>3. ASSUME NEW p \in Proc PROVE Fits(pc[p], job[p], dir[p])
  <2>1. pc[p] = "idle" /\ dir[p] = NoInode
    BY DEF Init
  <2> QED
    BY <2>1 DEF Fits, StageLabel, GetLabel
<1> QED
  BY <1>1, <1>2, <1>3 DEF TypeInv

LEMMA TypeNext == TypeInv /\ [Next]_vars => TypeInv'
<1> SUFFICES ASSUME TypeInv, [Next]_vars PROVE TypeInv'
  OBVIOUS
<1>1. CASE UNCHANGED vars
  BY <1>1 DEF vars, TypeInv, TreeTyped, ProgressTyped, Content, Name, Linked
<1>2. CASE Next
  BY <1>2, StartTyped, GetTyped, SetLatestTyped, PutTyped, RemoveTyped DEF Next
<1> QED
  BY <1>1, <1>2

LEMMA TypeAlways == Spec => []TypeInv
BY TypeInit, TypeNext, PTL DEF Spec

(* Every variable keeps its type, for any number of invocations and any    *)
(* mix of lookups, publications, alias updates, removals and crashes: in   *)
(* particular an invocation never dereferences a directory it does not     *)
(* hold, and never publishes for a version it was not given.               *)
THEOREM TypeCorrect == Spec => []TypeOK
<1>1. TypeInv => TypeOK
  BY TypeSplit DEF TypeInv
<1> QED
  BY <1>1, TypeAlways, PTL

-----------------------------------------------------------------------------
(* No directory mixes two archives.  The inductive invariant adds that an  *)
(* invocation's staging directory is its own and holds its own archive.    *)
Staging(p) == job[p].op = "put" /\ dir[p] # NoInode

Holds(i, a) == \A f \in File : file[i][f] \in {a, Absent}

MixInv ==
    /\ NeverMixed
    /\ \A p \in Proc : Staging(p) => Holds(dir[p], job[p].arch)
    /\ \A p, q \in Proc : p # q /\ Staging(p) /\ Staging(q) => dir[p] # dir[q]

(* What every step but taking a staging directory does to p's own staging. *)
Keeps(p) == Alone(p) /\ (Staging(p)' => Staging(p) /\ job'[p] = job[p] /\ dir'[p] = dir[p])

OnlyClears == \A i \in Inode, f \in File : file'[i][f] \in {file[i][f], Absent}

LEMMA StagingType ==
    ASSUME TypeInv, NEW p \in Proc, Staging(p)
    PROVE  dir[p] \in Inode /\ job[p].arch \in Content
BY DEF TypeInv, ProgressTyped, Staging, Job

LEMMA DistinctKept ==
    ASSUME MixInv, NEW p \in Proc, Keeps(p)
    PROVE  \A q, r \in Proc : q # r /\ Staging(q)' /\ Staging(r)' => dir'[q] # dir'[r]
<1>1. ASSUME NEW q \in Proc, Staging(q)' PROVE Staging(q) /\ job'[q] = job[q] /\ dir'[q] = dir[q]
  BY <1>1 DEF Keeps, Alone, Staging
<1> QED
  BY <1>1 DEF MixInv

LEMMA MixKept ==
    ASSUME TypeInv, MixInv, NEW p \in Proc, Keeps(p), OnlyClears PROVE MixInv'
<1>1. NeverMixed'
  <2>1. ASSUME NEW i \in Inode PROVE \E a \in Content : \A f \in File : file'[i][f] \in {a, Absent}
    <3>1. PICK a \in Content : \A f \in File : file[i][f] \in {a, Absent}
      BY DEF MixInv, NeverMixed
    <3> QED
      BY <3>1 DEF OnlyClears
  <2> QED
    BY <2>1 DEF NeverMixed, Content
<1>2. ASSUME NEW q \in Proc, Staging(q)' PROVE Holds(dir[q], job[q].arch)'
  <2>1. Staging(q) /\ job'[q] = job[q] /\ dir'[q] = dir[q]
    BY <1>2 DEF Keeps, Alone, Staging
  <2>2. Holds(dir[q], job[q].arch) /\ dir[q] \in Inode
    BY <2>1, StagingType DEF MixInv
  <2> QED
    BY <2>1, <2>2 DEF OnlyClears, Holds
<1> QED
  BY <1>1, <1>2, DistinctKept DEF MixInv

LEMMA SameFiles == ASSUME UNCHANGED file PROVE OnlyClears
BY DEF OnlyClears

LEMMA ReturnKeeps ==
    ASSUME TypeInv, NEW p \in Proc, NEW result, Return(p, result) PROVE Keeps(p)
<1>1. Alone(p)
  BY DEF Return, Goto, Alone, TypeInv, ProgressTyped
<1>2. dir'[p] = NoInode
  BY DEF Return, TypeInv, ProgressTyped
<1> QED
  BY <1>1, <1>2 DEF Keeps, Staging

LEMMA GotoKeeps ==
    ASSUME TypeInv, NEW p \in Proc, NEW l, Goto(p, l), UNCHANGED <<job, dir>> PROVE Keeps(p)
BY DEF Goto, Alone, Keeps, Staging, TypeInv, ProgressTyped

LEMMA GetReturnsKeeps ==
    ASSUME TypeInv, NEW p \in Proc, NEW result, GetReturns(p, result) PROVE Keeps(p)
<1>1. CASE AfterGet(p, result) = "idle"
  BY <1>1, ReturnKeeps DEF GetReturns
<1>2. CASE AfterGet(p, result) # "idle"
  BY <1>2, GotoKeeps DEF GetReturns
<1> QED
  BY <1>1, <1>2

LEMMA GetStepKeeps ==
    ASSUME TypeInv, NEW p \in Proc, NEW at, NEW passes, NEW reads, NEW next, NEW failure,
           GetStep(p, at, passes, reads, next, failure)
    PROVE  Keeps(p) /\ UNCHANGED file
<1>1. CASE passes
  BY <1>1, GotoKeeps DEF GetStep, fs
<1>2. CASE ~passes
  BY <1>2, GetReturnsKeeps DEF GetStep, fs
<1> QED
  BY <1>1, <1>2

LEMMA ReadersKeep ==
    ASSUME TypeInv, NEW p \in Proc, Get(p) \/ Verify(p) \/ ReadLatest(p)
    PROVE  Keeps(p) /\ UNCHANGED file
<1>1. CASE GetCheckZip(p)
  BY <1>1, GetStepKeeps DEF GetCheckZip
<1>2. CASE GetReadHash(p)
  BY <1>2, GetStepKeeps DEF GetReadHash
<1>3. CASE GetMatchHash(p)
  BY <1>3, GetStepKeeps DEF GetMatchHash
<1>4. CASE GetReadData(p)
  BY <1>4, GetStepKeeps DEF GetReadData
<1>5. CASE GetReadRevision(p)
  BY <1>5, GetStepKeeps DEF GetReadRevision
<1>6. CASE GetReadVerification(p)
  BY <1>6, GetStepKeeps DEF GetReadVerification
<1>7. CASE GetMatchVerification(p)
  BY <1>7, GetReturnsKeeps DEF GetMatchVerification, fs
<1>8. CASE Cancelled(p)
  BY <1>8, GetReturnsKeeps DEF Cancelled, fs
<1>9. CASE Verify(p)
  <2>1. UNCHANGED file
    BY <1>9, VerifyCases DEF fs
  <2>2. Answer(p) => Alone(p) /\ dir'[p] = NoInode
    BY DEF Answer, Goto, Alone, TypeInv, ProgressTyped
  <2> QED
    BY <1>9, <2>1, <2>2, VerifyCases, ReturnKeeps DEF Keeps, Staging
<1>10. CASE ReadLatest(p)
  <2>1. UNCHANGED file
    BY <1>10 DEF ReadLatest, fs
  <2>2. CASE alias = NoVersion
    BY <1>10, <2>1, <2>2, ReturnKeeps DEF ReadLatest
  <2>3. CASE alias # NoVersion
    <3>1. /\ pc' = [pc EXCEPT ![p] = "checkZip"]
          /\ job' = [job EXCEPT ![p].ver = alias]
          /\ dir' = dir
      BY <1>10, <2>3 DEF ReadLatest, Goto
    <3>2. Alone(p)
      BY <3>1 DEF Alone, TypeInv, ProgressTyped
    <3>3. dir'[p] = NoInode
      BY <1>10, <3>1 DEF ReadLatest, TypeInv, Fits
    <3> QED
      BY <2>1, <3>2, <3>3 DEF Keeps, Staging
  <2> QED
    BY <2>2, <2>3
<1> QED
  BY <1>1, <1>2, <1>3, <1>4, <1>5, <1>6, <1>7, <1>8, <1>9, <1>10 DEF Get

LEMMA StartKeeps ==
    ASSUME TypeInv, NEW p \in Proc, Start(p) \/ Crash(p) \/ Mkdir(p)
    PROVE  Keeps(p) /\ UNCHANGED file
<1>1. CASE Start(p)
  <2>1. Alone(p)
    BY <1>1 DEF Start, Goto, Alone, TypeInv, ProgressTyped
  <2>2. dir'[p] = NoInode
    BY <1>1 DEF Start, TypeInv, Fits
  <2> QED
    BY <1>1, <2>1, <2>2 DEF Keeps, Staging, Start, fs
<1>2. CASE Crash(p)
  <2>1. Alone(p) /\ dir'[p] = NoInode
    BY <1>2 DEF Crash, Goto, Alone, TypeInv, ProgressTyped
  <2> QED
    BY <1>2, <2>1 DEF Keeps, Staging, Crash, fs
<1>3. CASE Mkdir(p)
  BY <1>3, GotoKeeps DEF Mkdir
<1> QED
  BY <1>1, <1>2, <1>3

LEMMA SetLatestKeeps ==
    ASSUME TypeInv, NEW p \in Proc, SetLatest(p) PROVE Keeps(p) /\ UNCHANGED file
<1>1. CASE SetLatestCreate(p)
  <2>1. CASE vdir
    <3>1. PICK i \in FreeInode :
            /\ dir' = [dir EXCEPT ![p] = i]
            /\ Goto(p, "renameAlias")
            /\ UNCHANGED job
      BY <1>1, <2>1 DEF SetLatestCreate
    <3>2. Alone(p)
      BY <3>1 DEF Goto, Alone, TypeInv, ProgressTyped
    <3>3. job'[p].op = "setLatest"
      BY <1>1, <3>1 DEF SetLatestCreate, TypeInv, Fits
    <3> QED
      BY <1>1, <3>2, <3>3 DEF Keeps, Staging, SetLatestCreate
  <2>2. CASE ~vdir
    BY <1>1, <2>2, ReturnKeeps DEF SetLatestCreate
  <2> QED
    BY <2>1, <2>2
<1>2. CASE SetLatestRename(p)
  BY <1>2, ReturnKeeps DEF SetLatestRename
<1>3. CASE SetLatestCancelled(p)
  BY <1>3, ReturnKeeps DEF SetLatestCancelled
<1> QED
  BY <1>1, <1>2, <1>3 DEF SetLatest

LEMMA RemoveKeeps ==
    ASSUME TypeInv, NEW p \in Proc, Remove(p) PROVE Keeps(p) /\ OnlyClears
<1>1. CASE RemoveMeasure(p)
  BY <1>1, ReturnKeeps, GotoKeeps, SameFiles DEF RemoveMeasure, fs
<1>2. CASE RemoveMeasureFails(p)
  BY <1>2, ReturnKeeps, SameFiles DEF RemoveMeasureFails, fs
<1>3. CASE RemoveName(p)
  <2>1. /\ UNCHANGED <<job, file>>
        /\ \/ UNCHANGED <<pc, dir>>
           \/ /\ Goto(p, "unlink")
              /\ \E i : dir' = [dir EXCEPT ![p] = i]
    BY <1>3 DEF RemoveName
  <2>2. Alone(p)
    BY <2>1 DEF Goto, Alone, TypeInv, ProgressTyped
  <2>3. job'[p].op # "put"
    BY <1>3, <2>1 DEF RemoveName, TypeInv, Fits, RemoveOp
  <2> QED
    BY <2>1, <2>2, <2>3, SameFiles DEF Keeps, Staging
<1>4. CASE RemoveFile(p)
  <2>1. UNCHANGED <<pc, job, dir>>
    BY <1>4 DEF RemoveFile
  <2>2. PICK f : file' = [file EXCEPT ![dir[p]][f] = Absent]
    BY <1>4 DEF RemoveFile
  <2>3. OnlyClears
    BY <2>2 DEF OnlyClears, TypeInv, TreeTyped
  <2> QED
    BY <2>1, <2>3 DEF Keeps, Alone, Staging
<1>5. CASE RemoveDirectory(p)
  <2>1. \/ Return(p, "error")
        \/ /\ Goto(p, "walk")
           /\ dir' = [dir EXCEPT ![p] = NoInode]
           /\ UNCHANGED job
    BY <1>5 DEF RemoveDirectory
  <2>2. CASE Return(p, "error")
    BY <1>5, <2>2, ReturnKeeps, SameFiles DEF RemoveDirectory
  <2>3. CASE Goto(p, "walk") /\ dir' = [dir EXCEPT ![p] = NoInode] /\ UNCHANGED job
    <3>1. Alone(p) /\ dir'[p] = NoInode
      BY <2>3 DEF Goto, Alone, TypeInv, ProgressTyped
    <3> QED
      BY <1>5, <3>1, SameFiles DEF Keeps, Staging, RemoveDirectory
  <2> QED
    BY <2>1, <2>2, <2>3
<1>6. CASE RemoveModuleEnds(p) \/ RemoveVdirIfEmpty(p)
  <2>1. UNCHANGED <<dir, file>> /\ Goto(p, "idle") /\ job' = [job EXCEPT ![p] = NoJob]
    BY <1>6 DEF RemoveModuleEnds, RemoveVdirIfEmpty
  <2>2. Alone(p)
    BY <2>1 DEF Goto, Alone, TypeInv, ProgressTyped
  <2>3. dir'[p] = NoInode
    BY <1>6, <2>1 DEF RemoveModuleEnds, RemoveVdirIfEmpty, TypeInv, Fits
  <2> QED
    BY <2>1, <2>2, <2>3, SameFiles DEF Keeps, Staging
<1>7. CASE RemoveVersionWalked(p) \/ RemoveReadAlias(p) \/ RemoveAlias(p)
  BY <1>7, GotoKeeps, SameFiles DEF RemoveVersionWalked, RemoveReadAlias, RemoveAlias, fs
<1> QED
  BY <1>1, <1>2, <1>3, <1>4, <1>5, <1>6, <1>7 DEF Remove

LEMMA PutMkdirTempMix ==
    ASSUME TypeInv, MixInv, NEW p \in Proc, PutMkdirTemp(p) PROVE MixInv'
<1>1. CASE vdir
  <2>1. PICK i \in FreeInode :
          /\ file' = [file EXCEPT ![i] = EmptyDir]
          /\ dir' = [dir EXCEPT ![p] = i]
          /\ Goto(p, "writeZip")
          /\ UNCHANGED job
    BY <1>1 DEF PutMkdirTemp
  <2>2. i \in Inode /\ \A q \in Proc : dir[q] # i
    BY DEF FreeInode
  <2>3. /\ file'[i] = EmptyDir
        /\ \A j \in Inode : j # i => file'[j] = file[j]
        /\ dir'[p] = i
        /\ \A q \in Proc : q # p => dir'[q] = dir[q]
    BY <2>1, <2>2 DEF TypeInv, TreeTyped, ProgressTyped
  <2>4. Absent \in Content /\ \A f \in File : file'[i][f] = Absent
    BY <2>3 DEF Content, EmptyDir
  <2>5. NeverMixed'
    <3>1. ASSUME NEW j \in Inode PROVE \E a \in Content : \A f \in File : file'[j][f] \in {a, Absent}
      <4>1. CASE j = i
        BY <2>4, <4>1
      <4>2. CASE j # i
        BY <2>3, <4>2 DEF MixInv, NeverMixed
      <4> QED
        BY <4>1, <4>2
    <3> QED
      BY <3>1 DEF NeverMixed, Content
  <2>6. ASSUME NEW q \in Proc, Staging(q)' PROVE Holds(dir[q], job[q].arch)'
    <3>1. CASE q = p
      BY <2>3, <2>4, <3>1 DEF Holds
    <3>2. CASE q # p
      <4>1. Staging(q) /\ dir'[q] = dir[q] /\ job'[q] = job[q]
        BY <2>1, <2>3, <2>6, <3>2 DEF Staging
      <4>2. dir[q] \in Inode /\ dir[q] # i /\ Holds(dir[q], job[q].arch)
        BY <2>2, <4>1, StagingType DEF MixInv
      <4> QED
        BY <2>3, <4>1, <4>2 DEF Holds
    <3> QED
      BY <3>1, <3>2
  <2>7. ASSUME NEW q \in Proc, NEW r \in Proc, q # r, Staging(q)', Staging(r)'
        PROVE  dir'[q] # dir'[r]
    <3>1. q # p => Staging(q)
      BY <2>1, <2>3, <2>7 DEF Staging
    <3>2. r # p => Staging(r)
      BY <2>1, <2>3, <2>7 DEF Staging
    <3> QED
      BY <2>2, <2>3, <2>7, <3>1, <3>2 DEF MixInv
  <2> QED
    BY <2>5, <2>6, <2>7 DEF MixInv
<1>2. CASE ~vdir
  <2>1. Return(p, "error") /\ UNCHANGED file
    BY <1>2 DEF PutMkdirTemp
  <2> QED
    BY <2>1, ReturnKeeps, SameFiles, MixKept
<1> QED
  BY <1>1, <1>2

LEMMA PutWriteMix ==
    ASSUME TypeInv, MixInv, NEW p \in Proc, NEW at \in StageLabel, NEW f \in File,
           NEW content \in {job[p].arch, Absent}, NEW next, PutWrite(p, at, f, content, next)
    PROVE  MixInv'
<1>1. Keeps(p)
  BY GotoKeeps DEF PutWrite, PutFails
<1>2. CASE dir[p] \in temp
  <2>1. file' = [file EXCEPT ![dir[p]][f] = content]
    BY <1>2 DEF PutWrite
  <2>2. Staging(p)
    BY DEF PutWrite, TypeInv, Fits, Staging, StageLabel
  <2>3. dir[p] \in Inode /\ job[p].arch \in Content /\ Holds(dir[p], job[p].arch)
    BY <2>2, StagingType DEF MixInv
  <2>4. Holds(dir[p], job[p].arch)' /\ UNCHANGED <<dir, job>>
    <3>1. UNCHANGED <<dir, job>>
      BY DEF PutWrite
    <3>2. \A g \in File : file'[dir[p]][g] \in {job[p].arch, Absent}
      BY <2>1, <2>3 DEF Holds, TypeInv, TreeTyped
    <3> QED
      BY <3>1, <3>2 DEF Holds
  <2>5. \A j \in Inode : j # dir[p] => file'[j] = file[j]
    BY <2>1 DEF TypeInv, TreeTyped
  <2>6. NeverMixed'
    <3>1. ASSUME NEW j \in Inode PROVE \E a \in Content : \A g \in File : file'[j][g] \in {a, Absent}
      <4>1. CASE j = dir[p]
        BY <2>3, <2>4, <4>1 DEF Holds
      <4>2. CASE j # dir[p]
        BY <2>5, <4>2 DEF MixInv, NeverMixed
      <4> QED
        BY <4>1, <4>2
    <3> QED
      BY <3>1 DEF NeverMixed, Content
  <2>7. ASSUME NEW q \in Proc, Staging(q)' PROVE Holds(dir[q], job[q].arch)'
    <3>1. CASE q = p
      BY <2>4, <3>1
    <3>2. CASE q # p
      <4>1. Staging(q)
        BY <2>4, <2>7 DEF Staging
      <4>2. dir[q] \in Inode /\ dir[q] # dir[p] /\ Holds(dir[q], job[q].arch)
        BY <2>2, <3>2, <4>1, StagingType DEF MixInv
      <4> QED
        BY <2>4, <2>5, <4>2 DEF Holds
    <3> QED
      BY <3>1, <3>2
  <2> QED
    BY <1>1, <2>6, <2>7, DistinctKept DEF MixInv
<1>3. CASE dir[p] \notin temp
  BY <1>1, <1>3, SameFiles, MixKept DEF PutWrite
<1> QED
  BY <1>2, <1>3

LEMMA PutMix ==
    ASSUME TypeInv, MixInv, NEW p \in Proc, Put(p) PROVE MixInv'
<1>1. CASE PutMkdirTemp(p)
  BY <1>1, PutMkdirTempMix
<1>2. CASE PutWriteZip(p)
  BY <1>2, PutWriteMix DEF PutWriteZip, StageLabel, File
<1>3. CASE PutWriteHash(p)
  BY <1>3, PutWriteMix DEF PutWriteHash, StageLabel, File
<1>4. CASE PutWriteVerification(p)
  BY <1>4, PutWriteMix DEF PutWriteVerification, StageLabel, File
<1>5. CASE PutWriteRevision(p)
  <2>1. RevisionOf(job[p].arch) \in {job[p].arch, Absent}
    BY DEF RevisionOf
  <2> QED
    BY <1>5, <2>1, PutWriteMix DEF PutWriteRevision, StageLabel, File
<1>6. CASE PutHashZip(p)
  <2>1. Keeps(p) /\ UNCHANGED file
    BY <1>6, GotoKeeps DEF PutHashZip, PutCheck, PutFails, fs
  <2> QED
    BY <2>1, SameFiles, MixKept
<1>7. CASE PutSeal(p)
  <2>1. Keeps(p) /\ UNCHANGED file
    BY <1>7, GotoKeeps DEF PutSeal, PutCheck, PutFails, fs
  <2> QED
    BY <2>1, SameFiles, MixKept
<1>8. CASE PutRename(p)
  BY <1>8, ReturnKeeps, SameFiles, MixKept DEF PutRename
<1>9. CASE PutRenameFails(p) \/ PutAborts(p)
  <2>1. Keeps(p) /\ UNCHANGED file
    BY <1>9, GotoKeeps DEF PutRenameFails, PutAborts, PutFails, fs
  <2> QED
    BY <2>1, SameFiles, MixKept
<1>10. CASE PutCleanup(p)
  <2>1. OnlyClears
    BY <1>10 DEF PutCleanup, OnlyClears, EmptyDir, TypeInv, TreeTyped
  <2> QED
    BY <1>10, <2>1, ReturnKeeps, MixKept DEF PutCleanup
<1> QED
  BY <1>1, <1>2, <1>3, <1>4, <1>5, <1>6, <1>7, <1>8, <1>9, <1>10 DEF Put

LEMMA MixInit == Init => MixInv
<1> SUFFICES ASSUME Init PROVE MixInv
  OBVIOUS
<1>1. \A i \in Inode, f \in File : file[i][f] = Absent
  BY DEF Init, EmptyDir
<1>2. \A p \in Proc : ~Staging(p)
  BY DEF Init, Staging
<1> QED
  BY <1>1, <1>2 DEF MixInv, NeverMixed, Content

LEMMA MixNext == TypeInv /\ MixInv /\ [Next]_vars => MixInv'
<1> SUFFICES ASSUME TypeInv, MixInv, [Next]_vars PROVE MixInv'
  OBVIOUS
<1>1. CASE UNCHANGED vars
  BY <1>1 DEF vars, MixInv, NeverMixed, Staging, Holds, Content
<1>2. ASSUME NEW p \in Proc, Keeps(p), OnlyClears PROVE MixInv'
  BY <1>2, MixKept
<1>3. CASE Next
  <2>1. PICK p \in Proc :
          \/ Start(p) \/ Crash(p) \/ ReadLatest(p) \/ Verify(p) \/ Mkdir(p)
          \/ Get(p) \/ Put(p) \/ SetLatest(p) \/ Remove(p)
    BY <1>3 DEF Next
  <2>2. CASE Put(p)
    BY <2>2, PutMix
  <2>3. CASE Remove(p)
    BY <1>2, <2>3, RemoveKeeps
  <2>4. CASE ~Put(p) /\ ~Remove(p)
    BY <1>2, <2>1, <2>4, StartKeeps, ReadersKeep, SetLatestKeeps, SameFiles
  <2> QED
    BY <2>2, <2>3, <2>4
<1> QED
  BY <1>1, <1>3

(* No directory, staged or published, ever mixes the files of two          *)
(* archives: whatever crashes, races and removals happen, MkdirTemp's      *)
(* private directories keep concurrent publications of one version apart.  *)
THEOREM ArchivesNeverMix == Spec => []NeverMixed
<1>1. MixInv => NeverMixed
  BY DEF MixInv
<1> QED
  BY <1>1, MixInit, MixNext, TypeAlways, PTL DEF Spec

-----------------------------------------------------------------------------
(* What a lookup returns is what its verification vouches for.  Get has    *)
(* read bytes before it reads the sidecar that they are compared with, and *)
(* only the comparison of those bytes, with the sidecar or with go.sum,    *)
(* lets a lookup succeed.                                                  *)
DataLabel == {"readRevision", "readVerification", "matchVerification", "verify"}

Vouched(p) ==
    /\ pc[p] \in DataLabel => got[p].data \in Archive
    /\ pc[p] = "idle" /\ out[p] = "ok" /\ IsLookup(p) =>
         /\ got[p].data \in Archive
         /\ got[p].verification = got[p].data
         /\ GoSum[job[p].ver] \in {Absent, got[p].data}

VouchInv == \A p \in Proc : Vouched(p)

(* Of the others, a step also leaves what they read and what they return.  *)
Reserved(p) == Alone(p) /\ \A q \in Proc \ {p} : got'[q] = got[q] /\ out'[q] = out[q]

LEMMA VouchAlone ==
    ASSUME VouchInv, NEW p \in Proc, Reserved(p), Vouched(p)' PROVE VouchInv'
<1>1. ASSUME NEW q \in Proc, q # p PROVE Vouched(q)'
  BY <1>1 DEF Reserved, Alone, VouchInv, Vouched, IsLookup
<1> QED
  BY <1>1 DEF VouchInv

LEMMA ReturnVouched ==
    ASSUME TypeInv, VouchInv, NEW p \in Proc, NEW result, Return(p, result),
           ~(result = "ok" /\ IsLookup(p))
    PROVE  VouchInv'
<1> USE DEF TypeInv, ProgressTyped
<1>1. Reserved(p)
  <2>1. \A q \in Proc \ {p} : pc'[q] = pc[q] /\ dir'[q] = dir[q] /\ out'[q] = out[q]
    BY DEF Return, Goto
  <2>2. \A q \in Proc \ {p} : job'[q] = job[q] /\ got'[q] = got[q]
    BY DEF Return
  <2> QED
    BY <2>1, <2>2 DEF Reserved, Alone
<1>2. pc'[p] = "idle" /\ out'[p] = result
  BY DEF Return, Goto
<1>3. job'[p] = NoJob
  BY DEF Return
<1>4. ~IsLookup(p)'
  BY <1>3 DEF IsLookup, NoJob
<1> QED
  BY <1>1, <1>2, <1>4, VouchAlone DEF Vouched, DataLabel

(* A step to a label where nothing has been read yet.                      *)
LEMMA QuietVouched ==
    ASSUME VouchInv, NEW p \in Proc, Reserved(p), pc'[p] \notin DataLabel \union {"idle"}
    PROVE  VouchInv'
BY VouchAlone DEF Vouched

LEMMA GotoVouched ==
    ASSUME TypeInv, VouchInv, NEW p \in Proc, NEW l, l \notin DataLabel \union {"idle"},
           Goto(p, l), UNCHANGED job,
           \A q \in Proc \ {p} : dir'[q] = dir[q] /\ got'[q] = got[q] /\ out'[q] = out[q]
    PROVE  VouchInv'
<1>1. Reserved(p) /\ pc'[p] = l
  BY DEF Goto, Reserved, Alone, TypeInv, ProgressTyped
<1> QED
  BY <1>1, QuietVouched

LEMMA GetReturnsVouched ==
    ASSUME TypeInv, VouchInv, NEW p \in Proc, NEW result, GetReturns(p, result),
           result = "ok" => got[p].data \in Archive
    PROVE  VouchInv'
<1>1. CASE AfterGet(p, result) = "idle"
  <2>1. ~(result = "ok" /\ IsLookup(p))
    BY <1>1 DEF AfterGet
  <2> QED
    BY <1>1, <2>1, ReturnVouched DEF GetReturns
<1>2. CASE AfterGet(p, result) = "verify"
  <2>1. result = "ok"
    BY <1>2 DEF AfterGet
  <2>2. Goto(p, "verify") /\ UNCHANGED <<job, dir, got>> /\ out' = [out EXCEPT ![p] = "none"]
    BY <1>2 DEF GetReturns
  <2>3. Reserved(p) /\ pc'[p] = "verify"
    BY <2>2 DEF Goto, Reserved, Alone, TypeInv, ProgressTyped
  <2> QED
    BY <2>1, <2>2, <2>3, VouchAlone DEF Vouched
<1>3. CASE AfterGet(p, result) \notin {"idle", "verify"}
  <2>1. AfterGet(p, result) \notin DataLabel
    BY <1>3 DEF AfterGet, DataLabel
  <2>2. \A q \in Proc \ {p} : dir'[q] = dir[q] /\ got'[q] = got[q] /\ out'[q] = out[q]
    BY <1>3 DEF GetReturns, TypeInv, ProgressTyped
  <2> QED
    BY <1>3, <2>1, <2>2, GotoVouched DEF GetReturns
<1> QED
  BY <1>1, <1>2, <1>3

LEMMA GetStepVouched ==
    ASSUME TypeInv, VouchInv, NEW p \in Proc, NEW at, NEW passes, NEW reads, NEW next \in GetLabel,
           NEW failure, GetStep(p, at, passes, reads, next, failure), failure # "ok",
           passes /\ next \in DataLabel => reads.data \in Archive
    PROVE  VouchInv'
<1>1. CASE passes
  <2>1. Goto(p, next) /\ got' = [got EXCEPT ![p] = reads] /\ UNCHANGED <<job, dir, out>>
    BY <1>1 DEF GetStep
  <2>2. Reserved(p) /\ pc'[p] = next /\ got'[p] = reads
    BY <2>1 DEF Goto, Reserved, Alone, TypeInv, ProgressTyped
  <2> QED
    BY <1>1, <2>2, VouchAlone DEF Vouched, GetLabel
<1>2. CASE ~passes
  BY <1>2, GetReturnsVouched DEF GetStep
<1> QED
  BY <1>1, <1>2

LEMMA GetVouched ==
    ASSUME TypeInv, VouchInv, NEW p \in Proc, Get(p) PROVE VouchInv'
<1> DEFINE v == job[p].ver
<1>1. Vouched(p) /\ got[p] \in Reads
  BY DEF VouchInv, TypeInv, ProgressTyped
<1>2. CASE GetCheckZip(p)
  BY <1>2, GetStepVouched DEF GetCheckZip, GetLabel, DataLabel
<1>3. CASE GetReadHash(p)
  BY <1>3, GetStepVouched DEF GetReadHash, GetLabel, DataLabel
<1>4. CASE GetMatchHash(p)
  BY <1>4, GetStepVouched DEF GetMatchHash, GetLabel, DataLabel
<1>5. CASE GetReadData(p)
  <2> DEFINE a == Read(v, "zip")
  <2>1. GetStep(p, "readData", a # Absent, [got[p] EXCEPT !.data = a], "readRevision", "notFound")
    BY <1>5 DEF GetReadData
  <2>2. v \in Version
    BY <2>1 DEF GetStep, TypeInv, Fits, GetLabel, RemoveOp
  <2>3. a \in Content
    BY <2>2, ReadType DEF TypeInv, File
  <2>4. a # Absent => [got[p] EXCEPT !.data = a].data \in Archive
    BY <1>1, <2>3 DEF Content, Reads
  <2> HIDE DEF a
  <2> QED
    BY <2>1, <2>4, GetStepVouched DEF GetLabel
<1>6. CASE GetReadRevision(p)
  <2> DEFINE reads == [got[p] EXCEPT !.revision = Read(v, "revision")]
  <2>1. GetStep(p, "readRevision", TRUE, reads, "readVerification", "error")
    BY <1>6 DEF GetReadRevision
  <2>2. got[p].data \in Archive
    BY <1>1, <2>1 DEF GetStep, Vouched, DataLabel
  <2>3. reads.data = got[p].data
    BY <1>1 DEF Reads
  <2> HIDE DEF reads
  <2> QED
    BY <2>1, <2>2, <2>3, GetStepVouched DEF GetLabel
<1>7. CASE GetReadVerification(p)
  <2> DEFINE h == Read(v, "verification")
             reads == [got[p] EXCEPT !.verification = h]
  <2>1. GetStep(p, "readVerification", h # Absent, reads, "matchVerification", "error")
    BY <1>7 DEF GetReadVerification
  <2>2. got[p].data \in Archive
    BY <1>1, <2>1 DEF GetStep, Vouched, DataLabel
  <2>3. reads.data = got[p].data
    BY <1>1 DEF Reads
  <2> HIDE DEF h, reads
  <2> QED
    BY <2>1, <2>2, <2>3, GetStepVouched DEF GetLabel
<1>8. CASE GetMatchVerification(p)
  <2>1. got[p].data \in Archive
    BY <1>1, <1>8 DEF GetMatchVerification, Vouched, DataLabel
  <2>2. \E result : GetReturns(p, result)
    BY <1>8 DEF GetMatchVerification
  <2> QED
    BY <2>1, <2>2, GetReturnsVouched
<1>9. CASE Cancelled(p)
  BY <1>9, GetReturnsVouched DEF Cancelled
<1> QED
  BY <1>2, <1>3, <1>4, <1>5, <1>6, <1>7, <1>8, <1>9 DEF Get

LEMMA LookupVouched ==
    ASSUME TypeInv, VouchInv, NEW p \in Proc, Verify(p) \/ ReadLatest(p) PROVE VouchInv'
<1>1. CASE Verify(p)
  <2>1. got[p].data \in Archive
    BY <1>1 DEF Verify, VouchInv, Vouched, DataLabel
  <2>2. CASE Return(p, "error")
    BY <2>2, ReturnVouched
  <2>3. CASE Answer(p) /\ GoSum[job[p].ver] \in {Absent, got[p].data}
    <3>1. Reserved(p) /\ pc'[p] = "idle" /\ job'[p] = job[p]
      BY <2>3 DEF Answer, Goto, Reserved, Alone, TypeInv, ProgressTyped
    <3>2. got[p] \in Reads /\ got'[p] = [got[p] EXCEPT !.verification = got[p].data]
      BY <2>3 DEF Answer, TypeInv, ProgressTyped
    <3>3. got'[p].data = got[p].data /\ got'[p].verification = got[p].data
      BY <3>2 DEF Reads
    <3> QED
      BY <2>1, <2>3, <3>1, <3>3, VouchAlone DEF Vouched, DataLabel
  <2> QED
    BY <1>1, <2>2, <2>3, VerifyCases
<1>2. CASE ReadLatest(p)
  <2>1. CASE alias = NoVersion
    BY <1>2, <2>1, ReturnVouched DEF ReadLatest
  <2>2. CASE alias # NoVersion
    <3>1. /\ job' = [job EXCEPT ![p].ver = alias]
          /\ pc' = [pc EXCEPT ![p] = "checkZip"]
          /\ UNCHANGED <<dir, got, out>>
      BY <1>2, <2>2 DEF ReadLatest, Goto
    <3>2. Reserved(p) /\ pc'[p] = "checkZip"
      BY <3>1 DEF Reserved, Alone, TypeInv, ProgressTyped
    <3> QED
      BY <3>2, QuietVouched DEF DataLabel
  <2> QED
    BY <2>1, <2>2
<1> QED
  BY <1>1, <1>2

LEMMA StartVouched ==
    ASSUME TypeInv, VouchInv, NEW p \in Proc, Start(p) \/ Crash(p) \/ Mkdir(p) PROVE VouchInv'
<1>1. CASE Start(p)
  <2>1. PICK r \in Request : job' = [job EXCEPT ![p] = r] /\ Goto(p, FirstLabel(r.op))
    BY <1>1 DEF Start
  <2>2. Reserved(p) /\ pc'[p] = FirstLabel(r.op)
    BY <1>1, <2>1 DEF Start, Goto, Reserved, Alone, TypeInv, ProgressTyped
  <2>3. FirstLabel(r.op) \notin DataLabel \union {"idle"}
    BY DEF FirstLabel, DataLabel
  <2> QED
    BY <2>2, <2>3, QuietVouched
<1>2. CASE Crash(p)
  <2>1. Reserved(p) /\ pc'[p] = "idle" /\ out'[p] = "crashed"
    BY <1>2 DEF Crash, Goto, Reserved, Alone, TypeInv, ProgressTyped
  <2> QED
    BY <2>1, VouchAlone DEF Vouched, DataLabel
<1>3. CASE Mkdir(p)
  BY <1>3, GotoVouched DEF Mkdir, DataLabel
<1> QED
  BY <1>1, <1>2, <1>3

LEMMA WriterVouched ==
    ASSUME TypeInv, VouchInv, NEW p \in Proc, Put(p) \/ SetLatest(p) PROVE VouchInv'
<1>1. Fits(pc[p], job[p], dir[p])
  BY DEF TypeInv
<1>2. ASSUME NEW result, Return(p, result), job[p].op \in {"put", "setLatest"} PROVE VouchInv'
  BY <1>2, ReturnVouched DEF IsLookup
<1>3. CASE PutFails(p) /\ UNCHANGED <<job, dir, got>>
  <2>1. Goto(p, "cleanup") /\ \A q \in Proc \ {p} : out'[q] = out[q]
    BY <1>3 DEF PutFails, TypeInv, ProgressTyped
  <2> QED
    BY <1>3, <2>1, GotoVouched DEF DataLabel
<1>4. CASE PutMkdirTemp(p)
  <2>1. CASE vdir
    <3>1. PICK i : dir' = [dir EXCEPT ![p] = i] /\ Goto(p, "writeZip") /\ UNCHANGED <<job, got, out>>
      BY <1>4, <2>1 DEF PutMkdirTemp
    <3>2. \A q \in Proc \ {p} : dir'[q] = dir[q]
      BY <3>1 DEF TypeInv, ProgressTyped
    <3> QED
      BY <3>1, <3>2, GotoVouched DEF DataLabel
  <2>2. CASE ~vdir
    BY <1>1, <1>2, <1>4, <2>2 DEF PutMkdirTemp, Fits, StageLabel
  <2> QED
    BY <2>1, <2>2
<1>5. ASSUME NEW at, NEW f, NEW content, NEW next \in StageLabel, PutWrite(p, at, f, content, next)
      PROVE  VouchInv'
  <2>1. UNCHANGED <<job, dir, got>> /\ next \notin DataLabel \union {"idle"}
    BY <1>5 DEF PutWrite, StageLabel, DataLabel
  <2>2. CASE dir[p] \in temp
    BY <1>5, <2>1, <2>2, GotoVouched DEF PutWrite
  <2>3. CASE dir[p] \notin temp
    BY <1>3, <1>5, <2>1, <2>3 DEF PutWrite
  <2> QED
    BY <2>2, <2>3
<1>6. CASE PutWriteZip(p) \/ PutWriteHash(p) \/ PutWriteVerification(p) \/ PutWriteRevision(p)
  BY <1>5, <1>6 DEF PutWriteZip, PutWriteHash, PutWriteVerification, PutWriteRevision, StageLabel
<1>7. ASSUME NEW at, NEW passes, NEW next \in StageLabel, PutCheck(p, at, passes, next)
      PROVE  VouchInv'
  <2>1. UNCHANGED <<job, dir, got>> /\ next \notin DataLabel \union {"idle"}
    BY <1>7 DEF PutCheck, StageLabel, DataLabel
  <2>2. CASE passes
    BY <1>7, <2>1, <2>2, GotoVouched DEF PutCheck
  <2>3. CASE ~passes
    BY <1>3, <1>7, <2>1, <2>3 DEF PutCheck
  <2> QED
    BY <2>2, <2>3
<1>8. CASE PutHashZip(p) \/ PutSeal(p)
  BY <1>7, <1>8 DEF PutHashZip, PutSeal, StageLabel
<1>9. CASE PutRename(p)
  BY <1>1, <1>2, <1>9 DEF PutRename, Fits, StageLabel
<1>10. CASE PutRenameFails(p)
  BY <1>10, GotoVouched DEF PutRenameFails, DataLabel
<1>11. CASE PutAborts(p)
  BY <1>3, <1>11 DEF PutAborts
<1>12. CASE PutCleanup(p)
  BY <1>1, <1>2, <1>12 DEF PutCleanup, Fits, StageLabel
<1>13. CASE SetLatestCreate(p)
  <2>1. CASE vdir
    <3>1. PICK i : dir' = [dir EXCEPT ![p] = i] /\ Goto(p, "renameAlias") /\ UNCHANGED <<job, got, out>>
      BY <1>13, <2>1 DEF SetLatestCreate
    <3>2. \A q \in Proc \ {p} : dir'[q] = dir[q]
      BY <3>1 DEF TypeInv, ProgressTyped
    <3> QED
      BY <3>1, <3>2, GotoVouched DEF DataLabel
  <2>2. CASE ~vdir
    BY <1>1, <1>2, <1>13, <2>2 DEF SetLatestCreate, Fits
  <2> QED
    BY <2>1, <2>2
<1>14. CASE SetLatestRename(p)
  <2>1. job[p].op = "setLatest" /\ \E result : Return(p, result)
    BY <1>1, <1>14 DEF SetLatestRename, Fits
  <2> QED
    BY <1>2, <2>1
<1>15. CASE SetLatestCancelled(p)
  BY <1>1, <1>2, <1>15 DEF SetLatestCancelled, Fits
<1> QED
  BY <1>4, <1>6, <1>8, <1>9, <1>10, <1>11, <1>12, <1>13, <1>14, <1>15 DEF Put, SetLatest

LEMMA RemoveVouched ==
    ASSUME TypeInv, VouchInv, NEW p \in Proc, Remove(p) PROVE VouchInv'
<1> USE DEF TypeInv, ProgressTyped
<1>1. ASSUME NEW result, Return(p, result), result # "ok" PROVE VouchInv'
  BY <1>1, ReturnVouched
<1>2. CASE RemoveMeasure(p)
  BY <1>1, <1>2, GotoVouched DEF RemoveMeasure, DataLabel
<1>3. CASE RemoveMeasureFails(p)
  BY <1>1, <1>3 DEF RemoveMeasureFails
<1>4. CASE RemoveName(p)
  <2>1. /\ UNCHANGED <<job, got, out>>
        /\ pc[p] = "walk"
        /\ \/ UNCHANGED <<pc, dir>>
           \/ /\ Goto(p, "unlink")
              /\ \E i : dir' = [dir EXCEPT ![p] = i]
    BY <1>4 DEF RemoveName
  <2>2. Reserved(p) /\ pc'[p] \in {"walk", "unlink"}
    BY <2>1 DEF Goto, Reserved, Alone
  <2> QED
    BY <2>2, QuietVouched DEF DataLabel
<1>5. CASE RemoveFile(p)
  <2>1. UNCHANGED <<pc, job, dir, got, out>> /\ pc[p] = "unlink"
    BY <1>5 DEF RemoveFile
  <2>2. Reserved(p)
    BY <2>1 DEF Reserved, Alone
  <2> QED
    BY <2>1, <2>2, QuietVouched DEF DataLabel
<1>6. CASE RemoveDirectory(p)
  <2>1. \/ Return(p, "error")
        \/ /\ Goto(p, "walk")
           /\ dir' = [dir EXCEPT ![p] = NoInode]
           /\ UNCHANGED <<job, got, out>>
    BY <1>6 DEF RemoveDirectory
  <2> QED
    BY <1>1, <2>1, GotoVouched DEF DataLabel
<1>7. CASE RemoveModuleEnds(p) \/ RemoveVdirIfEmpty(p)
  <2>1. /\ UNCHANGED <<dir, got>> /\ Goto(p, "idle") /\ job' = [job EXCEPT ![p] = NoJob]
        /\ \E result : out' = [out EXCEPT ![p] = result]
    BY <1>7 DEF RemoveModuleEnds, RemoveVdirIfEmpty
  <2>2. Reserved(p) /\ job'[p] = NoJob /\ pc'[p] = "idle"
    BY <2>1 DEF Goto, Reserved, Alone
  <2>3. ~IsLookup(p)'
    BY <2>2 DEF IsLookup, NoJob
  <2> QED
    BY <2>2, <2>3, VouchAlone DEF Vouched, DataLabel
<1>8. CASE RemoveVersionWalked(p) \/ RemoveReadAlias(p) \/ RemoveAlias(p)
  BY <1>8, GotoVouched DEF RemoveVersionWalked, RemoveReadAlias, RemoveAlias, DataLabel
<1> QED
  BY <1>2, <1>3, <1>4, <1>5, <1>6, <1>7, <1>8 DEF Remove

LEMMA VouchAlways == Spec => []VouchInv
<1>1. Init => VouchInv
  <2> SUFFICES ASSUME Init, NEW p \in Proc PROVE Vouched(p)
    BY DEF VouchInv
  <2> QED
    BY DEF Init, Vouched, DataLabel
<1>2. TypeInv /\ VouchInv /\ [Next]_vars => VouchInv'
  <2>1. VouchInv /\ UNCHANGED vars => VouchInv'
    BY DEF vars, VouchInv, Vouched, IsLookup
  <2>2. TypeInv /\ VouchInv /\ Next => VouchInv'
    BY StartVouched, LookupVouched, GetVouched, WriterVouched, RemoveVouched DEF Next
  <2> QED
    BY <2>1, <2>2
<1> QED
  BY <1>1, <1>2, TypeAlways, PTL DEF Spec

(* Whatever is removed and published again underneath a lookup, and        *)
(* whoever is killed: the bytes that a successful lookup returns are bytes *)
(* that the verification it read, or go.sum, vouches for.                  *)
THEOREM LookupsVouched == Spec => []LookupVerified
<1>1. VouchInv => LookupVerified
  BY DEF VouchInv, Vouched, LookupVerified
<1> QED
  BY <1>1, VouchAlways, PTL

-----------------------------------------------------------------------------
(* Who owns a temporary name: Put its staging directory, SetLatest its     *)
(* staged alias.  A removal may hold the same directory, but owns nothing. *)
Aliasing(p) == job[p].op = "setLatest" /\ dir[p] # NoInode

Owning(p) == Staging(p) \/ Aliasing(p)

DebrisInv ==
    /\ \A p \in Proc : Staging(p) => dir[p] \notin aliasTemp
    /\ \A p \in Proc : Aliasing(p) => dir[p] \notin temp
    /\ MaxDebris = 0 => \A i \in temp \union aliasTemp : \E p \in Proc : Owning(p) /\ dir[p] = i

NoNewNames == temp' \subseteq temp /\ aliasTemp' \subseteq aliasTemp

(* An owner lets go only of what has no temporary name any more.           *)
Owned(p) == Owning(p) => \/ Owning(p)' /\ dir'[p] = dir[p]
                         \/ dir[p] \notin temp' \union aliasTemp'

NotTaken(p) == /\ Staging(p)' => Staging(p) /\ dir'[p] = dir[p]
               /\ Aliasing(p)' => Aliasing(p) /\ dir'[p] = dir[p]

LEMMA DebrisAlone ==
    ASSUME DebrisInv, NEW p \in Proc, Alone(p), NoNewNames, NotTaken(p), MaxDebris = 0 => Owned(p)
    PROVE  DebrisInv'
<1>1. ASSUME NEW q \in Proc PROVE /\ Staging(q)' => Staging(q) /\ dir'[q] = dir[q]
                                  /\ Aliasing(q)' => Aliasing(q) /\ dir'[q] = dir[q]
  BY <1>1 DEF Alone, Staging, Aliasing, NotTaken
<1>2. ASSUME MaxDebris = 0, NEW i \in temp' \union aliasTemp'
      PROVE  \E q \in Proc : Owning(q)' /\ dir'[q] = i
  <2>1. PICK q \in Proc : Owning(q) /\ dir[q] = i
    BY <1>2 DEF DebrisInv, NoNewNames
  <2>2. CASE q = p
    BY <1>2, <2>1, <2>2 DEF Owned
  <2>3. CASE q # p
    BY <2>1, <2>3 DEF Alone, Owning, Staging, Aliasing
  <2> QED
    BY <2>2, <2>3
<1> QED
  BY <1>1, <1>2 DEF DebrisInv, NoNewNames

LEMMA ReturnDebris ==
    ASSUME TypeInv, DebrisInv, NEW p \in Proc, NEW result, Return(p, result), NoNewNames,
           MaxDebris = 0 /\ Owning(p) => dir[p] \notin temp' \union aliasTemp'
    PROVE  DebrisInv'
<1>1. Alone(p) /\ dir'[p] = NoInode
  BY DEF Return, Goto, Alone, TypeInv, ProgressTyped
<1> QED
  BY <1>1, DebrisAlone DEF NotTaken, Owned, Staging, Aliasing

LEMMA GotoDebris ==
    ASSUME TypeInv, DebrisInv, NEW p \in Proc, NEW l, Goto(p, l), UNCHANGED <<job, dir>>, NoNewNames
    PROVE  DebrisInv'
<1>1. Alone(p)
  BY DEF Goto, Alone, TypeInv, ProgressTyped
<1> QED
  BY <1>1, DebrisAlone DEF NotTaken, Owned, Owning, Staging, Aliasing

LEMMA SameNames == ASSUME UNCHANGED <<temp, aliasTemp>> PROVE NoNewNames
BY DEF NoNewNames

LEMMA GetReturnsDebris ==
    ASSUME TypeInv, DebrisInv, NEW p \in Proc, NEW result, GetReturns(p, result),
           pc[p] \in GetLabel \union {"latest", "measure"}, UNCHANGED fs
    PROVE  DebrisInv'
<1>1. NoNewNames
  BY SameNames DEF fs
<1>2. CASE AfterGet(p, result) = "idle"
  <2>1. Fits(pc[p], job[p], dir[p])
    BY DEF TypeInv
  <2>2. ~Aliasing(p)
    BY <2>1 DEF Fits, Aliasing, RemoveOp
  <2>3. ~Staging(p)
    BY <1>2 DEF AfterGet, Staging, IsLookup
  <2> QED
    BY <1>1, <1>2, <2>2, <2>3, ReturnDebris DEF GetReturns, Owning
<1>3. CASE AfterGet(p, result) # "idle"
  BY <1>1, <1>3, GotoDebris DEF GetReturns
<1> QED
  BY <1>2, <1>3

LEMMA GetDebris ==
    ASSUME TypeInv, DebrisInv, NEW p \in Proc, Get(p) \/ Verify(p) \/ ReadLatest(p)
    PROVE  DebrisInv'
<1>1. ASSUME NEW at \in GetLabel, NEW passes, NEW reads, NEW next, NEW failure,
             GetStep(p, at, passes, reads, next, failure)
      PROVE  DebrisInv'
  <2>1. CASE passes
    BY <1>1, <2>1, SameNames, GotoDebris DEF GetStep, fs
  <2>2. CASE ~passes
    BY <1>1, <2>2, GetReturnsDebris DEF GetStep
  <2> QED
    BY <2>1, <2>2
<1>2. CASE GetCheckZip(p)
  BY <1>1, <1>2 DEF GetCheckZip, GetLabel
<1>3. CASE GetReadHash(p)
  BY <1>1, <1>3 DEF GetReadHash, GetLabel
<1>4. CASE GetMatchHash(p)
  BY <1>1, <1>4 DEF GetMatchHash, GetLabel
<1>5. CASE GetReadData(p)
  BY <1>1, <1>5 DEF GetReadData, GetLabel
<1>6. CASE GetReadRevision(p)
  BY <1>1, <1>6 DEF GetReadRevision, GetLabel
<1>7. CASE GetReadVerification(p)
  BY <1>1, <1>7 DEF GetReadVerification, GetLabel
<1>8. CASE GetMatchVerification(p)
  BY <1>8, GetReturnsDebris DEF GetMatchVerification, GetLabel
<1>9. CASE Cancelled(p)
  BY <1>9, GetReturnsDebris DEF Cancelled, GetLabel
<1>10. CASE Verify(p)
  <2>1. ~Owning(p)
    BY <1>10 DEF Verify, TypeInv, Fits, Owning, Staging, Aliasing
  <2>2. NoNewNames
    BY <1>10, VerifyCases, SameNames DEF fs
  <2>3. CASE Return(p, "error")
    BY <2>1, <2>2, <2>3, ReturnDebris
  <2>4. CASE Answer(p)
    <3>1. Alone(p) /\ dir'[p] = NoInode
      BY <2>4 DEF Answer, Goto, Alone, TypeInv, ProgressTyped
    <3> QED
      BY <2>1, <2>2, <3>1, DebrisAlone DEF NotTaken, Owned, Staging, Aliasing
  <2> QED
    BY <1>10, <2>3, <2>4, VerifyCases
<1>11. CASE ReadLatest(p)
  <2>1. ~Owning(p) /\ NoNewNames
    BY <1>11, SameNames DEF ReadLatest, TypeInv, Fits, Owning, Staging, Aliasing, fs
  <2>2. CASE alias = NoVersion
    BY <1>11, <2>1, <2>2, ReturnDebris DEF ReadLatest
  <2>3. CASE alias # NoVersion
    <3>1. /\ pc' = [pc EXCEPT ![p] = "checkZip"]
          /\ job' = [job EXCEPT ![p].ver = alias]
          /\ dir' = dir
      BY <1>11, <2>3 DEF ReadLatest, Goto
    <3>2. Alone(p)
      BY <3>1 DEF Alone, TypeInv, ProgressTyped
    <3>3. dir'[p] = NoInode
      BY <1>11, <3>1 DEF ReadLatest, TypeInv, Fits
    <3> QED
      BY <2>1, <3>2, <3>3, DebrisAlone DEF NotTaken, Owned, Staging, Aliasing
  <2> QED
    BY <2>2, <2>3
<1> QED
  BY <1>2, <1>3, <1>4, <1>5, <1>6, <1>7, <1>8, <1>9, <1>10, <1>11 DEF Get

(* A crash of an owner leaves its name, unless the bound on what crashes   *)
(* may leave is zero: then only those without one are killed.              *)
LEMMA StartDebris ==
    ASSUME TypeInv, DebrisInv, NEW p \in Proc, Start(p) \/ Crash(p) \/ Mkdir(p)
    PROVE  DebrisInv'
<1>1. CASE Start(p)
  <2>1. Alone(p)
    BY <1>1 DEF Start, Goto, Alone, TypeInv, ProgressTyped
  <2>2. dir[p] = NoInode /\ dir'[p] = NoInode
    BY <1>1 DEF Start, TypeInv, Fits
  <2>3. NoNewNames
    BY <1>1, SameNames DEF Start, fs
  <2> QED
    BY <2>1, <2>2, <2>3, DebrisAlone DEF NotTaken, Owned, Owning, Staging, Aliasing
<1>2. CASE Crash(p)
  <2>1. Alone(p) /\ dir'[p] = NoInode
    BY <1>2 DEF Crash, Goto, Alone, TypeInv, ProgressTyped
  <2>2. NoNewNames /\ UNCHANGED <<temp, aliasTemp>>
    BY <1>2, SameNames DEF Crash, fs
  <2>3. ASSUME MaxDebris = 0 PROVE dir[p] \notin temp \union aliasTemp
    <3> DEFINE left == {i \in temp \union aliasTemp : \A q \in Proc : dir[q] # i}
    <3>1. left = {}
      BY <2>3 DEF DebrisInv
    <3>2. Cardinality(left) = 0
      BY <3>1, FS_EmptySet
    <3>3. ~(Cardinality(left) < MaxDebris)
      BY <2>3, <3>2
    <3> HIDE DEF left
    <3>4. dir[p] \in temp \union aliasTemp => Cardinality(left) < MaxDebris
      BY <1>2 DEF Crash, left
    <3> QED
      BY <3>3, <3>4
  <2> QED
    BY <2>1, <2>2, <2>3, DebrisAlone DEF NotTaken, Owned, Staging, Aliasing
<1>3. CASE Mkdir(p)
  BY <1>3, SameNames, GotoDebris DEF Mkdir
<1> QED
  BY <1>1, <1>2, <1>3

(* Put and SetLatest take inodes that nobody names and nobody holds.       *)
LEMMA TakeDebris ==
    ASSUME TypeInv, DebrisInv, NEW p \in Proc, NEW i \in FreeInode, dir[p] = NoInode,
           dir' = [dir EXCEPT ![p] = i], UNCHANGED job,
           \/ job[p].op = "put" /\ temp' = temp \union {i} /\ aliasTemp' = aliasTemp
           \/ job[p].op = "setLatest" /\ temp' = temp /\ aliasTemp' = aliasTemp \union {i}
    PROVE  DebrisInv'
<1>1. i \in Inode /\ i # NoInode /\ i \notin temp \union aliasTemp /\ \A q \in Proc : dir[q] # i
  BY ArchiveStoreAssumption DEF ArchiveStoreAssumption, FreeInode
<1>2. dir'[p] = i /\ \A q \in Proc \ {p} : dir'[q] = dir[q]
  BY DEF TypeInv, ProgressTyped
<1>3. ~Owning(p)
  BY DEF Owning, Staging, Aliasing
<1>4. ASSUME NEW q \in Proc PROVE Staging(q)' => dir'[q] \notin aliasTemp'
  BY <1>1, <1>2 DEF DebrisInv, Staging
<1>5. ASSUME NEW q \in Proc PROVE Aliasing(q)' => dir'[q] \notin temp'
  BY <1>1, <1>2 DEF DebrisInv, Aliasing
<1>6. ASSUME MaxDebris = 0, NEW j \in temp' \union aliasTemp'
      PROVE  \E q \in Proc : Owning(q)' /\ dir'[q] = j
  <2>1. CASE j = i
    BY <1>1, <1>2, <2>1 DEF Owning, Staging, Aliasing
  <2>2. CASE j # i
    <3>1. PICK q \in Proc : Owning(q) /\ dir[q] = j
      BY <1>6, <2>2 DEF DebrisInv
    <3> QED
      BY <1>2, <1>3, <3>1 DEF Owning, Staging, Aliasing
  <2> QED
    BY <2>1, <2>2
<1> QED
  BY <1>4, <1>5, <1>6 DEF DebrisInv

LEMMA PutDebris ==
    ASSUME TypeInv, DebrisInv, NEW p \in Proc, Put(p) PROVE DebrisInv'
<1>1. Fits(pc[p], job[p], dir[p])
  BY DEF TypeInv
<1>2. ASSUME PutFails(p), UNCHANGED <<job, dir, temp, aliasTemp>> PROVE DebrisInv'
  BY <1>2, SameNames, GotoDebris DEF PutFails
<1>3. CASE PutMkdirTemp(p)
  <2>1. job[p].op = "put" /\ dir[p] = NoInode
    BY <1>1, <1>3 DEF PutMkdirTemp, Fits
  <2>2. CASE vdir
    <3>1. PICK i \in FreeInode :
            temp' = temp \union {i} /\ dir' = [dir EXCEPT ![p] = i] /\ UNCHANGED <<job, aliasTemp>>
      BY <1>3, <2>2 DEF PutMkdirTemp
    <3> QED
      BY <2>1, <3>1, TakeDebris
  <2>3. CASE ~vdir
    <3>1. Return(p, "error") /\ NoNewNames
      BY <1>3, <2>3, SameNames DEF PutMkdirTemp
    <3> QED
      BY <2>1, <3>1, ReturnDebris DEF Owning, Staging, Aliasing
  <2> QED
    BY <2>2, <2>3
<1>4. ASSUME NEW at, NEW f, NEW content, NEW next, PutWrite(p, at, f, content, next) PROVE DebrisInv'
  BY <1>2, <1>4, SameNames, GotoDebris DEF PutWrite
<1>5. CASE PutWriteZip(p) \/ PutWriteHash(p) \/ PutWriteVerification(p) \/ PutWriteRevision(p)
  BY <1>4, <1>5 DEF PutWriteZip, PutWriteHash, PutWriteVerification, PutWriteRevision
<1>6. ASSUME NEW at, NEW passes, NEW next, PutCheck(p, at, passes, next) PROVE DebrisInv'
  BY <1>2, <1>6, SameNames, GotoDebris DEF PutCheck, fs
<1>7. CASE PutHashZip(p) \/ PutSeal(p)
  BY <1>6, <1>7 DEF PutHashZip, PutSeal
<1>8. CASE PutRename(p) \/ PutCleanup(p)
  <2>1. Staging(p)
    BY <1>1, <1>8 DEF PutRename, PutCleanup, Fits, StageLabel, Staging
  <2>2. temp' = temp \ {dir[p]} /\ aliasTemp' = aliasTemp /\ \E result : Return(p, result)
    BY <1>8 DEF PutRename, PutCleanup
  <2>3. NoNewNames /\ dir[p] \notin temp' \union aliasTemp'
    BY <2>1, <2>2 DEF NoNewNames, DebrisInv
  <2> QED
    BY <2>2, <2>3, ReturnDebris
<1>9. CASE PutRenameFails(p)
  BY <1>9, SameNames, GotoDebris DEF PutRenameFails, fs
<1>10. CASE PutAborts(p)
  BY <1>2, <1>10 DEF PutAborts, fs
<1> QED
  BY <1>3, <1>5, <1>7, <1>8, <1>9, <1>10 DEF Put

LEMMA SetLatestDebris ==
    ASSUME TypeInv, DebrisInv, NEW p \in Proc, SetLatest(p) PROVE DebrisInv'
<1>1. Fits(pc[p], job[p], dir[p])
  BY DEF TypeInv
<1>2. CASE SetLatestCreate(p)
  <2>1. job[p].op = "setLatest" /\ dir[p] = NoInode
    BY <1>1, <1>2 DEF SetLatestCreate, Fits
  <2>2. CASE vdir
    <3>1. PICK i \in FreeInode :
            aliasTemp' = aliasTemp \union {i} /\ dir' = [dir EXCEPT ![p] = i] /\ UNCHANGED <<job, temp>>
      BY <1>2, <2>2 DEF SetLatestCreate
    <3> QED
      BY <2>1, <3>1, TakeDebris
  <2>3. CASE ~vdir
    <3>1. Return(p, "error") /\ NoNewNames
      BY <1>2, <2>3, SameNames DEF SetLatestCreate
    <3> QED
      BY <2>1, <3>1, ReturnDebris DEF Owning, Staging, Aliasing
  <2> QED
    BY <2>2, <2>3
<1>3. CASE SetLatestRename(p) \/ SetLatestCancelled(p)
  <2>1. Aliasing(p)
    BY <1>1, <1>3 DEF SetLatestRename, SetLatestCancelled, Fits, Aliasing
  <2>2. aliasTemp' = aliasTemp \ {dir[p]} /\ temp' = temp /\ \E result : Return(p, result)
    BY <1>3 DEF SetLatestRename, SetLatestCancelled
  <2>3. NoNewNames /\ dir[p] \notin temp' \union aliasTemp'
    BY <2>1, <2>2 DEF NoNewNames, DebrisInv
  <2> QED
    BY <2>2, <2>3, ReturnDebris
<1> QED
  BY <1>2, <1>3 DEF SetLatest

LEMMA RemoveDebris ==
    ASSUME TypeInv, DebrisInv, NEW p \in Proc, Remove(p) PROVE DebrisInv'
<1>1. job[p].op \in RemoveOp
  BY DEF TypeInv, Fits, Remove, RemoveMeasure, RemoveMeasureFails, RemoveName, RemoveFile,
         RemoveDirectory, RemoveModuleEnds, RemoveVersionWalked, RemoveReadAlias, RemoveAlias,
         RemoveVdirIfEmpty, RemoveOp
<1>2. ~Owning(p)
  BY <1>1 DEF Owning, Staging, Aliasing, RemoveOp
<1>3. NoNewNames
  BY DEF Remove, RemoveMeasure, RemoveMeasureFails, RemoveName, RemoveFile,
         RemoveDirectory, RemoveModuleEnds, RemoveVersionWalked, RemoveReadAlias, RemoveAlias,
         RemoveVdirIfEmpty, NoNewNames, fs
<1>4. Alone(p)
  BY RemoveKeeps DEF Keeps
<1>5. job'[p] \in {job[p], NoJob}
  BY DEF Remove, RemoveMeasure, RemoveMeasureFails, RemoveName, RemoveFile,
         RemoveDirectory, RemoveModuleEnds, RemoveVersionWalked, RemoveReadAlias, RemoveAlias,
         RemoveVdirIfEmpty, Return, TypeInv, ProgressTyped
<1>6. ~Staging(p)' /\ ~Aliasing(p)'
  BY <1>1, <1>5 DEF Staging, Aliasing, RemoveOp, NoJob
<1> QED
  BY <1>2, <1>3, <1>4, <1>6, DebrisAlone DEF NotTaken, Owned

(* Failed and cancelled publications leave no temporary name behind:       *)
(* whatever cache commands remove at the same time, every such name        *)
(* belongs to an invocation that is still running.                         *)
THEOREM NothingLeftBehind == Spec => []NoDebris
<1>1. Init => DebrisInv
  BY DEF Init, DebrisInv, Staging, Aliasing
<1>2. TypeInv /\ DebrisInv /\ [Next]_vars => DebrisInv'
  <2>1. DebrisInv /\ UNCHANGED vars => DebrisInv'
    BY DEF vars, DebrisInv, Owning, Staging, Aliasing
  <2>2. TypeInv /\ DebrisInv /\ Next => DebrisInv'
    BY StartDebris, GetDebris, PutDebris, SetLatestDebris, RemoveDebris DEF Next
  <2> QED
    BY <2>1, <2>2
<1>3. DebrisInv => NoDebris
  BY DEF DebrisInv, NoDebris
<1> QED
  BY <1>1, <1>2, <1>3, TypeAlways, PTL DEF Spec
=============================================================================
