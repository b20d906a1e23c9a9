------------------------ MODULE ChecksumStateProofs ------------------------
(***************************************************************************)
(* Theorems about ChecksumState for any number of clients and any bound on *)
(* the trees.  Type correctness holds of every behaviour.  Exclusion,      *)
(* whole reads and the rollback guard hold of every prompt behaviour:      *)
(* whoever is killed, wherever, and whichever locks are broken after that. *)
(* The last theorem says which instances have no other behaviours.         *)
(***************************************************************************)
EXTENDS ChecksumState, WellFoundedInduction, TLAPS

LEMMA TypeInit == Init => TypeOK
<1> SUFFICES ASSUME Init PROVE TypeOK
  OBVIOUS
<1>1. 0 \in Tree
  BY ChecksumStateAssumption DEF ChecksumStateAssumption, Tree
<1>2. /\ checkpoint \in Tree \union {Torn}
      /\ lock \in Client \union {NoClient}
      /\ stale \in BOOLEAN
      /\ dead \subseteq Crashers
  BY <1>1 DEF Init
<1>3. pc \in [Client -> Label]
  BY DEF Init, Label
<1>4. goal \in [Client -> {"load", "reload", "write"}] /\ phase \in [Client -> {"init", "lookup"}]
  BY DEF Init
<1>5. mem \in [Client -> Tree] /\ seen \in [Client -> Tree \union {Torn}]
  BY <1>1 DEF Init
<1> QED
  BY <1>2, <1>3, <1>4, <1>5 DEF TypeOK

(* Type correctness: every step keeps the state in its types. *)
THEOREM TypeCorrect == Spec => []TypeOK
<1>1. TypeOK /\ [Next]_vars => TypeOK'
  <2> SUFFICES ASSUME TypeOK, [Next]_vars PROVE TypeOK'
    OBVIOUS
  <2> USE ChecksumStateAssumption DEF ChecksumStateAssumption, TypeOK, Tree, Label, Holding, Ended
  <2>1. CASE UNCHANGED vars
    BY <2>1 DEF vars
  <2>2. CASE LockAges
    BY <2>2 DEF LockAges
  <2>3. ASSUME NEW c \in Client, Progress(c) PROVE TypeOK'
    <3>1. CASE LockMkdir(c)
      BY <3>1 DEF LockMkdir, Goto
    <3>2. CASE LockStat(c) \/ LockBreak(c) \/ LockWait(c)
      BY <3>2 DEF LockStat, LockBreak, LockWait, Goto
    <3>3. CASE ReadConfig(c)
      BY <3>3 DEF ReadConfig, Goto
    <3>4. CASE ReadConfigReturns(c)
      BY <3>4 DEF ReadConfigReturns, Unlock, Goto
    <3>5. CASE WriteCompare(c)
      BY <3>5 DEF WriteCompare, Goto
    <3>6. CASE WriteTruncate(c)
      <4>1. checkpoint' \in Tree \union {Torn}
        BY <3>6 DEF WriteTruncate
      <4> QED
        BY <3>6, <4>1 DEF WriteTruncate, Goto
    <3>7. CASE WriteAt(c)
      <4>1. checkpoint' \in Tree \union {Torn}
        BY <3>7 DEF WriteAt
      <4> QED
        BY <3>7, <4>1 DEF WriteAt, Goto
    <3>8. CASE WriteConfigReturns(c) \/ WriteConfigConflicts(c)
      BY <3>8 DEF WriteConfigReturns, WriteConfigConflicts, Merged, Unlock, Call, Goto
    <3>9. CASE Merge(c)
      BY <3>9 DEF Merge, Merged, Call, Goto
    <3>10. CASE Lookup(c)
      BY <3>10 DEF Lookup, Call, Goto
    <3>11. CASE ConfigFailsReturns(c)
      BY <3>11 DEF ConfigFailsReturns, Unlock, Goto
    <3> QED
      BY <2>3, <3>1, <3>2, <3>3, <3>4, <3>5, <3>6, <3>7, <3>8, <3>9, <3>10, <3>11
         DEF Progress
  <2>4. ASSUME NEW c \in Client, Begin(c) \/ Failure(c) PROVE TypeOK'
    <3>1. CASE WriteAborts(c)
      <4>1. checkpoint' \in Tree \union {Torn}
        BY <3>1 DEF WriteAborts
      <4> QED
        BY <3>1, <4>1 DEF WriteAborts, Goto
    <3>2. CASE Begin(c) \/ Kill(c) \/ LockFails(c) \/ LookupFails(c) \/ ConfigFails(c)
      BY <3>2 DEF Begin, Kill, LockFails, LookupFails, ConfigFails, Call, Goto
    <3> QED
      BY <2>4, <3>1, <3>2 DEF Failure
  <2> QED
    BY <2>1, <2>2, <2>3, <2>4 DEF Next, Step
<1> QED
  BY <1>1, TypeInit, PTL DEF Spec

-----------------------------------------------------------------------------
(* Only the lock of a killed client gets a minute old, and a client that   *)
(* found a lock that old removes it before anybody else does: os.Remove by *)
(* name cannot tell the old lock from the next one.                        *)
Prompt ==
    /\ stale => lock \in dead
    /\ \A c \in Client \ dead : pc[c] = "break" => stale

(* The lock belongs to the live client that is under it.                   *)
LockInv ==
    /\ TypeOK
    /\ \A c \in Client \ dead : pc[c] \in Holding => lock = c

LEMMA LockInvInit == Init => LockInv
BY TypeInit DEF Init, LockInv, Holding

LEMMA LockInvStep ==
    ASSUME Prompt, LockInv, TypeOK', [Next]_vars PROVE LockInv'
<1> USE ChecksumStateAssumption DEF ChecksumStateAssumption, LockInv, TypeOK, Holding
<1>1. CASE UNCHANGED vars
  BY <1>1 DEF vars
<1>2. CASE LockAges
  BY <1>2 DEF LockAges
<1>3. ASSUME NEW c \in Client, Progress(c) PROVE LockInv'
  <2>1. CASE LockMkdir(c)
    BY <2>1 DEF LockMkdir, Goto
  <2>2. CASE LockBreak(c)
    <3>1. lock \in dead
      BY <1>3, <2>2 DEF LockBreak, Prompt, Progress
    <3>2. \A d \in Client \ dead : pc[d] \notin Holding
      BY <3>1
    <3> QED
      BY <2>2, <3>2 DEF LockBreak, Goto
  <2>3. CASE LockStat(c) \/ LockWait(c)
    BY <2>3 DEF LockStat, LockWait, Goto
  <2>4. CASE ReadConfig(c) \/ ReadConfigReturns(c)
    BY <1>3, <2>4 DEF Progress, ReadConfig, ReadConfigReturns, Unlock, Goto
  <2>5. CASE WriteCompare(c) \/ WriteTruncate(c) \/ WriteAt(c)
    BY <1>3, <2>5 DEF Progress, WriteCompare, WriteTruncate, WriteAt, Goto
  <2>6. CASE WriteConfigReturns(c) \/ WriteConfigConflicts(c)
    BY <1>3, <2>6 DEF Progress, WriteConfigReturns, WriteConfigConflicts, Merged, Unlock, Call, Goto
  <2>7. CASE Merge(c)
    BY <2>7 DEF Merge, Merged, Call, Goto
  <2>8. CASE Lookup(c)
    BY <2>8 DEF Lookup, Call, Goto
  <2>9. CASE ConfigFailsReturns(c)
    BY <1>3, <2>9 DEF Progress, ConfigFailsReturns, Unlock, Goto
  <2> QED
    BY <1>3, <2>1, <2>2, <2>3, <2>4, <2>5, <2>6, <2>7, <2>8, <2>9 DEF Progress
<1>4. ASSUME NEW c \in Client, Begin(c) PROVE LockInv'
  BY <1>4 DEF Begin, Call, Goto
<1>5. ASSUME NEW c \in Client, Failure(c) PROVE LockInv'
  <2>1. CASE Kill(c) \/ LockFails(c) \/ LookupFails(c)
    BY <2>1 DEF Kill, LockFails, LookupFails, Goto
  <2>2. CASE ConfigFails(c) \/ WriteAborts(c)
    BY <1>5, <2>2 DEF Failure, ConfigFails, WriteAborts, Goto
  <2> QED
    BY <1>5, <2>1, <2>2 DEF Failure
<1> QED
  BY <1>1, <1>2, <1>3, <1>4, <1>5 DEF Next, Step

(* Exclusion: at most one live client is in a section under the lock, also *)
(* after the locks of killed clients have been broken.                     *)
THEOREM Excludes == Spec /\ []Prompt => []Exclusive
<1>1. LockInv => Exclusive
  BY DEF LockInv, Exclusive
<1> QED
  BY <1>1, TypeCorrect, LockInvInit, LockInvStep, PTL DEF Spec

-----------------------------------------------------------------------------
(* The file: it is torn only under a writer, or where one was killed or    *)
(* failed.                                                                 *)
LeftHalf(d) == pc[d] = "aborted" \/ (d \in dead /\ pc[d] \in Replacing)

Tears ==
    /\ checkpoint = Torn => \E c \in Client : pc[c] \in Replacing
    /\ \A c \in Client : seen[c] = Torn => \E d \in Client : LeftHalf(d)

(* A live client that has read a whole file: a writer that has compared it *)
(* finds what it compared, is ahead of it, and leaves its own tree.        *)
Writes(c) ==
    /\ seen[c] = Torn => pc[c] \in {"unlockRead", "merge", "failed"}
    /\ pc[c] = "idle" => goal[c] = "load"
    /\ goal[c] = "load" => mem[c] = 0
    /\ pc[c] \in {"read", "unlockRead", "merge"} => goal[c] # "write"
    /\ pc[c] \in {"compare", "truncate", "writeAt"} => goal[c] = "write"
    /\ goal[c] = "write" /\ pc[c] \in {"mkdir", "stat", "wait", "break", "compare", "truncate", "writeAt"}
         => seen[c] < mem[c]
    /\ pc[c] = "truncate" => checkpoint = seen[c]
    /\ pc[c] = "writeAt" => checkpoint \in {seen[c], Torn}
    /\ pc[c] = "unlockWritten" => checkpoint = mem[c]

(* Whoever replaces the file, or was killed or failed then, has compared   *)
(* with a tree that is no longer than the recorded one.                    *)
Replaces ==
    \A d \in Client : pc[d] \in Replacing =>
        /\ seen[d] # Torn
        /\ checkpoint # Torn => seen[d] <= checkpoint
        /\ \A c \in Client \ dead : pc[c] = "writeAt" => seen[d] <= seen[c]

FileInv == Tears /\ Replaces /\ \A c \in Client \ dead : Writes(c)

LEMMA FileInvInit == Init => FileInv
BY ChecksumStateAssumption DEF ChecksumStateAssumption, Init, FileInv, Tears, Replaces, Replacing, Writes

(* What a step of one client leaves of the others.                         *)
Others(c) ==
    \A d \in Client \ {c} : UNCHANGED <<pc[d], goal[d], mem[d], seen[d]>>

LEMMA OwnStep ==
    ASSUME TypeOK, NEW c \in Client, Step(c) PROVE Others(c)
<1> USE DEF TypeOK, Others
<1>1. CASE LockMkdir(c) \/ LockStat(c) \/ LockBreak(c) \/ LockWait(c)
  BY <1>1 DEF LockMkdir, LockStat, LockBreak, LockWait, Goto
<1>2. CASE ReadConfig(c) \/ ReadConfigReturns(c)
  BY <1>2 DEF ReadConfig, ReadConfigReturns, Unlock, Goto
<1>3. CASE WriteCompare(c) \/ WriteTruncate(c) \/ WriteAt(c)
  BY <1>3 DEF WriteCompare, WriteTruncate, WriteAt, Goto
<1>4. CASE WriteConfigReturns(c) \/ WriteConfigConflicts(c)
  BY <1>4 DEF WriteConfigReturns, WriteConfigConflicts, Unlock, Merged, Call, Goto
<1>5. CASE Merge(c)
  BY <1>5 DEF Merge, Merged, Call, Goto
<1>6. CASE Lookup(c)
  BY <1>6 DEF Lookup, Call, Goto
<1>7. CASE Begin(c) \/ Kill(c) \/ LockFails(c) \/ LookupFails(c)
  BY <1>7 DEF Begin, Kill, LockFails, LookupFails, Call, Goto
<1>8. CASE ConfigFails(c) \/ WriteAborts(c) \/ ConfigFailsReturns(c)
  BY <1>8 DEF ConfigFails, WriteAborts, ConfigFailsReturns, Unlock, Goto
<1> QED
  BY <1>1, <1>2, <1>3, <1>4, <1>5, <1>6, <1>7, <1>8 DEF Step, Progress, Failure

(* Steps that leave the file, and that neither begin nor end a writer.     *)
Aside(c) ==
    /\ pc[c] \notin Replacing /\ pc'[c] \notin Replacing
    /\ UNCHANGED <<checkpoint, dead>>
    /\ c \notin dead

LEMMA AsideKeeps ==
    ASSUME TypeOK, FileInv, NEW c \in Client, Others(c), Aside(c), Writes(c)',
           seen'[c] = Torn => \E d \in Client : LeftHalf(d)
    PROVE  FileInv'
<1>1. Tears'
  <2>1. \A d \in Client : pc[d] \in Replacing => pc'[d] = pc[d]
    BY DEF Others, Aside
  <2>2. \A d \in Client : LeftHalf(d) => LeftHalf(d)'
    BY <2>1 DEF LeftHalf, Aside, Replacing
  <2> QED
    BY <2>1, <2>2 DEF FileInv, Tears, Others, Aside
<1>2. Replaces'
  BY DEF FileInv, Replaces, Replacing, Others, Aside
<1>3. ASSUME NEW d \in Client \ dead, d # c PROVE Writes(d)'
  BY <1>3 DEF FileInv, Writes, Others, Aside
<1> QED
  BY <1>1, <1>2, <1>3 DEF FileInv, Aside

LEMMA FileInvStep ==
    ASSUME LockInv, LockInv', FileInv, Next PROVE FileInv'
<1> USE ChecksumStateAssumption DEF ChecksumStateAssumption, TypeOK, Tree, Holding, LockInv, Replacing, LeftHalf
<1>1. CASE LockAges
  BY <1>1 DEF LockAges, FileInv, Tears, Replaces, Writes
<1>2. ASSUME NEW c \in Client, Step(c) PROVE FileInv'
  <2>1. Others(c) /\ c \in Client \ dead /\ Writes(c)
    BY <1>2, OwnStep DEF Step, Progress, Failure, FileInv
  <2>2. seen[c] = Torn => \E d \in Client : LeftHalf(d)
    BY DEF FileInv, Tears
  <2>3. CASE LockMkdir(c) \/ LockStat(c) \/ LockBreak(c) \/ LockWait(c)
    <3>1. Aside(c) /\ seen' = seen
      BY <2>1, <2>3 DEF LockMkdir, LockStat, LockBreak, LockWait, Goto, Aside
    <3>2. Writes(c)'
      BY <2>1, <2>3 DEF LockMkdir, LockStat, LockBreak, LockWait, Goto, Writes
    <3> QED
      BY <2>1, <2>2, <3>1, <3>2, AsideKeeps
  <2>4. CASE ReadConfig(c)
    <3>1. Aside(c) /\ seen'[c] = checkpoint
      BY <2>1, <2>4 DEF ReadConfig, Goto, Aside
    <3>2. Writes(c)'
      BY <2>1, <2>4 DEF ReadConfig, Goto, Writes
    <3>3. checkpoint = Torn => \E d \in Client : LeftHalf(d)
      <4> SUFFICES ASSUME checkpoint = Torn PROVE \E d \in Client : LeftHalf(d)
        OBVIOUS
      <4>1. PICK d \in Client : pc[d] \in Replacing
        BY DEF FileInv, Tears
      <4>2. pc[c] = "read"
        BY <2>4 DEF ReadConfig
      <4> QED
        BY <2>1, <4>1, <4>2
    <3> QED
      BY <2>1, <3>1, <3>2, <3>3, AsideKeeps
  <2>5. CASE ReadConfigReturns(c)
    <3>1. Aside(c) /\ seen' = seen
      BY <2>1, <2>5 DEF ReadConfigReturns, Unlock, Goto, Aside
    <3>2. Writes(c)'
      BY <2>1, <2>5 DEF ReadConfigReturns, Unlock, Goto, Writes
    <3> QED
      BY <2>1, <2>2, <3>1, <3>2, AsideKeeps
  <2>6. CASE WriteCompare(c)
    <3>1. Aside(c) /\ seen' = seen
      BY <2>1, <2>6 DEF WriteCompare, Goto, Aside
    <3>2. Writes(c)'
      BY <2>1, <2>6 DEF WriteCompare, Goto, Writes
    <3> QED
      BY <2>1, <2>2, <3>1, <3>2, AsideKeeps
  <2>7. CASE WriteTruncate(c)
    <3>1. pc[c] = "truncate" /\ checkpoint = seen[c] /\ seen[c] # Torn
      BY <2>1, <2>7 DEF WriteTruncate, Writes
    <3>2. /\ pc'[c] = "writeAt" /\ checkpoint' \in {Torn, checkpoint}
          /\ UNCHANGED <<dead, goal, mem, seen>>
      BY <2>7 DEF WriteTruncate, Goto
    <3>3. \A d \in Client \ dead : pc[d] \in Holding => d = c
      BY <2>1, <3>1
    <3>4. Tears'
      BY <2>1, <3>1, <3>2 DEF FileInv, Tears, Others
    <3>5. Replaces'
      <4>1. ASSUME NEW d \in Client, pc'[d] \in Replacing PROVE seen[d] # Torn /\ seen[d] <= seen[c]
        BY <2>1, <3>1, <4>1 DEF FileInv, Replaces, Others
      <4>2. \A d \in Client \ dead : pc'[d] = "writeAt" => d = c
        BY <2>1, <3>3 DEF Others
      <4> QED
        BY <3>1, <3>2, <4>1, <4>2 DEF Replaces
    <3>6. Writes(c)'
      BY <2>1, <3>1, <3>2 DEF Writes
    <3>7. ASSUME NEW d \in Client \ dead, d # c PROVE Writes(d)'
      BY <2>1, <3>2, <3>3, <3>7 DEF FileInv, Writes, Others
    <3> QED
      BY <3>2, <3>4, <3>5, <3>6, <3>7 DEF FileInv
  <2>8. CASE WriteAt(c)
    <3>1. pc[c] = "writeAt" /\ checkpoint \in {seen[c], Torn} /\ seen[c] < mem[c] /\ seen[c] # Torn
      BY <2>1, <2>8 DEF WriteAt, Writes
    <3>2. \A d \in Client \ dead : pc[d] \in Holding => d = c
      BY <2>1, <3>1
    <3>3. Intruders(c) = {}
      BY <3>2 DEF Intruders
    <3>4. /\ pc'[c] = "unlockWritten" /\ checkpoint' = mem[c] /\ mem[c] # Torn
          /\ UNCHANGED <<dead, goal, mem, seen>>
      BY <2>8, <3>1, <3>3 DEF WriteAt, Goto
    <3>5. Tears'
      <4>1. ASSUME NEW d \in Client, LeftHalf(d) PROVE LeftHalf(d)'
        BY <2>1, <3>1, <3>4, <4>1 DEF Others
      <4> QED
        BY <3>4, <4>1 DEF FileInv, Tears
    <3>6. Replaces'
      <4>1. ASSUME NEW d \in Client, pc'[d] \in Replacing PROVE seen[d] # Torn /\ seen[d] <= mem[c]
        <5>1. d # c
          BY <3>4, <4>1
        <5>2. pc[d] \in Replacing
          BY <2>1, <4>1, <5>1 DEF Others
        <5>3. seen[d] # Torn /\ seen[d] <= seen[c] /\ seen[d] \in Nat
          BY <2>1, <3>1, <5>2 DEF FileInv, Replaces
        <5>4. seen[c] \in Nat /\ mem[c] \in Nat
          BY <3>1
        <5> QED
          BY <3>1, <5>3, <5>4
      <4>2. \A d \in Client \ dead : pc'[d] # "writeAt"
        BY <2>1, <3>2, <3>4 DEF Others
      <4> QED
        BY <3>4, <4>1, <4>2 DEF Replaces
    <3>7. Writes(c)'
      BY <2>1, <3>1, <3>4 DEF Writes
    <3>8. ASSUME NEW d \in Client \ dead, d # c PROVE Writes(d)'
      BY <2>1, <3>2, <3>4, <3>8 DEF FileInv, Writes, Others
    <3> QED
      BY <3>4, <3>5, <3>6, <3>7, <3>8 DEF FileInv
  <2>9. CASE WriteConfigReturns(c) \/ WriteConfigConflicts(c)
    <3>1. Aside(c) /\ seen' = seen
      BY <2>1, <2>9 DEF WriteConfigReturns, WriteConfigConflicts, Merged, Unlock, Call, Goto, Aside
    <3>2. Writes(c)'
      BY <2>1, <2>9 DEF WriteConfigReturns, WriteConfigConflicts, Merged, Unlock, Call, Goto, Writes
    <3> QED
      BY <2>1, <2>2, <3>1, <3>2, AsideKeeps
  <2>10. CASE Merge(c)
    <3>1. Aside(c) /\ seen' = seen
      BY <2>1, <2>10 DEF Merge, Merged, Call, Goto, Aside
    <3>2. goal[c] # "write" /\ pc[c] = "merge" /\ UNCHANGED <<checkpoint, seen>>
      BY <2>1, <2>10 DEF Merge, Writes
    <3>3. CASE seen[c] = Torn
      <4>1. pc'[c] = "failed" /\ UNCHANGED <<goal, mem>>
        BY <2>10, <3>3 DEF Merge, Goto
      <4>2. Writes(c)'
        BY <2>1, <3>2, <4>1 DEF Writes
      <4> QED
        BY <2>1, <2>2, <3>1, <4>2, AsideKeeps
    <3>4. CASE seen[c] # Torn
      <4>1. seen[c] \in Nat /\ mem[c] \in Nat
        BY <3>4
      <4>2. mem'[c] = IF seen[c] > mem[c] THEN seen[c] ELSE mem[c]
        BY <2>10, <3>4 DEF Merge
      <4>3. CASE goal[c] = "load" /\ seen[c] > mem[c]
        <5>1. pc'[c] = "mkdir" /\ goal'[c] = "reload"
          BY <2>10, <3>4, <4>3 DEF Merge, Call, Goto
        <5>2. Writes(c)'
          BY <2>1, <3>2, <3>4, <5>1 DEF Writes
        <5> QED
          BY <2>1, <2>2, <3>1, <5>2, AsideKeeps
      <4>4. CASE goal[c] = "reload" /\ seen[c] < mem[c]
        <5>1. pc'[c] = "mkdir" /\ goal'[c] = "write" /\ mem'[c] = mem[c]
          BY <2>10, <3>4, <4>1, <4>2, <4>4 DEF Merge, Call, Goto
        <5>2. Writes(c)'
          BY <2>1, <3>2, <3>4, <4>4, <5>1 DEF Writes
        <5> QED
          BY <2>1, <2>2, <3>1, <5>2, AsideKeeps
      <4>5. CASE ~(goal[c] = "load" /\ seen[c] > mem[c]) /\ ~(goal[c] = "reload" /\ seen[c] < mem[c])
        <5>1. pc'[c] \in {"offer", "done"} /\ goal' = goal
          BY <2>10, <3>4, <4>5 DEF Merge, Merged, Goto
        <5>2. goal[c] = "load" => mem'[c] = 0
          BY <2>1, <4>1, <4>2, <4>5 DEF Writes
        <5>3. Writes(c)'
          BY <2>1, <3>2, <3>4, <5>1, <5>2 DEF Writes
        <5> QED
          BY <2>1, <2>2, <3>1, <5>3, AsideKeeps
      <4> QED
        BY <4>3, <4>4, <4>5
    <3> QED
      BY <3>3, <3>4
  <2>11. CASE Lookup(c)
    <3>1. Aside(c) /\ seen' = seen
      BY <2>1, <2>11 DEF Lookup, Call, Goto, Aside
    <3>2. Writes(c)'
      BY <2>1, <2>11 DEF Lookup, Call, Goto, Writes
    <3> QED
      BY <2>1, <2>2, <3>1, <3>2, AsideKeeps
  <2>12. CASE Begin(c) \/ LockFails(c) \/ LookupFails(c) \/ ConfigFails(c)
    <3>1. Aside(c) /\ seen' = seen
      BY <2>1, <2>12 DEF Begin, LockFails, LookupFails, ConfigFails, Call, Goto, Aside
    <3>2. Writes(c)'
      BY <2>1, <2>12 DEF Begin, LockFails, LookupFails, ConfigFails, Call, Goto, Writes
    <3> QED
      BY <2>1, <2>2, <3>1, <3>2, AsideKeeps
  <2>13. CASE Kill(c)
    BY <2>13 DEF Kill, FileInv, Tears, Replaces, Writes
  <2>14. CASE WriteAborts(c)
    <3>1. pc[c] = "writeAt" /\ checkpoint \in {seen[c], Torn} /\ seen[c] < mem[c] /\ seen[c] # Torn
      BY <2>1, <2>14 DEF WriteAborts, Writes
    <3>2. \A d \in Client \ dead : pc[d] \in Holding => d = c
      BY <2>1, <3>1
    <3>3. /\ pc'[c] = "unlockAborted" /\ checkpoint' \in {seen[c], Torn, mem[c]} /\ mem[c] # Torn
          /\ UNCHANGED <<dead, goal, mem, seen>>
      BY <2>14, <3>1 DEF WriteAborts, Goto
    <3>4. Tears'
      BY <2>1, <3>1, <3>3 DEF FileInv, Tears, Others
    <3>5. Replaces'
      <4>1. ASSUME NEW d \in Client, pc'[d] \in Replacing PROVE seen[d] # Torn /\ seen[d] <= seen[c]
        BY <2>1, <3>1, <4>1 DEF FileInv, Replaces, Others
      <4>2. \A d \in Client \ dead : pc'[d] # "writeAt"
        BY <2>1, <3>2, <3>3 DEF Others
      <4> QED
        BY <3>1, <3>3, <4>1, <4>2 DEF Replaces
    <3>6. Writes(c)'
      BY <2>1, <3>1, <3>3 DEF Writes
    <3>7. ASSUME NEW d \in Client \ dead, d # c PROVE Writes(d)'
      BY <2>1, <3>2, <3>3, <3>7 DEF FileInv, Writes, Others
    <3> QED
      BY <3>3, <3>4, <3>5, <3>6, <3>7 DEF FileInv
  <2>15. CASE ConfigFailsReturns(c)
    <3>1. CASE pc[c] = "unlockFailed"
      <4>1. Aside(c) /\ seen' = seen
        BY <2>1, <2>15, <3>1 DEF ConfigFailsReturns, Unlock, Goto, Aside
      <4>2. Writes(c)'
        BY <2>1, <2>15, <3>1 DEF ConfigFailsReturns, Unlock, Goto, Writes
      <4> QED
        BY <2>1, <2>2, <4>1, <4>2, AsideKeeps
    <3>2. CASE pc[c] = "unlockAborted"
      <4>1. pc'[c] = "aborted" /\ UNCHANGED <<checkpoint, dead, goal, mem, seen>>
        BY <2>15, <3>2 DEF ConfigFailsReturns, Unlock, Goto
      <4>2. \A d \in Client : d # c => pc'[d] = pc[d]
        BY <2>1 DEF Others
      <4>3. Tears'
        BY <3>2, <4>1, <4>2 DEF FileInv, Tears
      <4>4. Replaces'
        BY <3>2, <4>1, <4>2 DEF FileInv, Replaces
      <4>5. Writes(c)'
        BY <2>1, <3>2, <4>1 DEF Writes
      <4>6. ASSUME NEW d \in Client \ dead, d # c PROVE Writes(d)'
        BY <2>1, <4>1, <4>6 DEF FileInv, Writes, Others
      <4> QED
        BY <4>1, <4>3, <4>4, <4>5, <4>6 DEF FileInv
    <3> QED
      BY <2>15, <3>1, <3>2 DEF ConfigFailsReturns, Unlock
  <2> QED
    BY <1>2, <2>3, <2>4, <2>5, <2>6, <2>7, <2>8, <2>9, <2>10, <2>11, <2>12, <2>13, <2>14, <2>15
       DEF Step, Progress, Failure
<1> QED
  BY <1>1, <1>2 DEF Next

LEMMA AsideSteps ==
    ASSUME TypeOK, NEW c \in Client, Step(c), ~WriteTruncate(c), ~WriteAt(c), ~Kill(c),
           ~WriteAborts(c), pc[c] # "unlockAborted"
    PROVE  Aside(c)
<1> USE DEF TypeOK, Aside, Replacing
<1>1. c \notin dead
  BY DEF Step, Progress, Failure
<1>2. CASE LockMkdir(c) \/ LockStat(c) \/ LockBreak(c) \/ LockWait(c)
  BY <1>1, <1>2 DEF LockMkdir, LockStat, LockBreak, LockWait, Goto
<1>3. CASE ReadConfig(c) \/ ReadConfigReturns(c) \/ WriteCompare(c)
  BY <1>1, <1>3 DEF ReadConfig, ReadConfigReturns, WriteCompare, Unlock, Goto
<1>4. CASE WriteConfigReturns(c) \/ WriteConfigConflicts(c)
  BY <1>1, <1>4 DEF WriteConfigReturns, WriteConfigConflicts, Unlock, Merged, Call, Goto
<1>5. CASE Merge(c)
  BY <1>1, <1>5 DEF Merge, Merged, Call, Goto
<1>6. CASE Lookup(c)
  BY <1>1, <1>6 DEF Lookup, Call, Goto
<1>7. CASE Begin(c) \/ LockFails(c) \/ LookupFails(c) \/ ConfigFails(c)
  BY <1>1, <1>7 DEF Begin, LockFails, LookupFails, ConfigFails, Call, Goto
<1>8. CASE ConfigFailsReturns(c)
  BY <1>1, <1>8 DEF ConfigFailsReturns, Unlock, Goto
<1> QED
  BY <1>2, <1>3, <1>4, <1>5, <1>6, <1>7, <1>8 DEF Step, Progress, Failure

LEMMA FileHolds == Spec /\ []Prompt => [](LockInv /\ FileInv)
<1>1. LockInv /\ LockInv' /\ FileInv /\ [Next]_vars => FileInv'
  <2>1. UNCHANGED vars /\ FileInv => FileInv'
    BY DEF vars, FileInv, Tears, LeftHalf, Replaces, Writes
  <2> QED
    BY <2>1, FileInvStep
<1> QED
  BY <1>1, TypeCorrect, LockInvInit, LockInvStep, FileInvInit, PTL DEF Spec

(* Nobody reads a checkpoint while its writer is at it: one that is half   *)
(* replaced was left by a writer that was killed or failed.  Breaking a    *)
(* lock that a killed client left exposes no other.                        *)
THEOREM WholeReads == Spec /\ []Prompt => []ReadsWhole
<1>1. FileInv => ReadsWhole
  BY DEF FileInv, Tears, LeftHalf, ReadsWhole
<1> QED
  BY <1>1, FileHolds, PTL

-----------------------------------------------------------------------------
(* What is recorded while nobody, or somebody, replaces the file.          *)
LEMMA LongestExists ==
    ASSUME NEW S \in SUBSET (0..MaxTree), S # {} PROVE \E n \in S : \A m \in S : m <= n
<1> USE ChecksumStateAssumption DEF ChecksumStateAssumption
<1> DEFINE Less == OpToRel(<, Nat)
           Bound == {k \in Nat : \A m \in S : m <= k}
<1>1. Bound # {}
  BY DEF Bound
<1>2. PICK k \in Bound : \A j \in Bound : <<j, k>> \notin Less
  BY <1>1, NatLessThanWellFounded, WFMin
<1>3. \A j \in Bound : ~(j < k)
  BY <1>2 DEF OpToRel
<1> HIDE DEF Less
<1>4. k \in S
  <2> SUFFICES ASSUME k \notin S PROVE FALSE
    OBVIOUS
  <2>1. \A m \in S : m \in Nat /\ m <= k /\ m # k
    BY <1>2
  <2>2. k # 0
    <3>1. PICK m \in S : TRUE
      OBVIOUS
    <3> QED
      BY <2>1, <3>1
  <2>3. k - 1 \in Bound
    BY <2>1, <2>2
  <2> QED
    BY <1>3, <2>3
<1> QED
  BY <1>4

LEMMA RecordedTorn ==
    ASSUME TypeOK, FileInv, checkpoint = Torn
    PROVE  Recorded \in Replaced /\ \A m \in Replaced : m <= Recorded
<1> USE ChecksumStateAssumption DEF ChecksumStateAssumption, TypeOK, Tree
<1>1. Replaced # {} /\ Replaced \subseteq 0..MaxTree
  BY DEF FileInv, Tears, Replaces, Replaced
<1>2. \E n \in Replaced : \A m \in Replaced : m <= n
  BY <1>1, LongestExists
<1> QED
  BY <1>2 DEF Recorded

LEMMA RecordedUnder ==
    ASSUME TypeOK, FileInv, NEW c \in Client \ dead, pc[c] = "writeAt"
    PROVE  Recorded = seen[c]
<1> USE ChecksumStateAssumption DEF ChecksumStateAssumption, TypeOK, Tree
<1>1. CASE checkpoint # Torn
  BY <1>1 DEF Recorded, FileInv, Writes
<1>2. CASE checkpoint = Torn
  <2>1. Recorded \in Replaced /\ \A m \in Replaced : m <= Recorded
    BY <1>2, RecordedTorn
  <2>2. \A m \in Replaced : m \in Nat /\ m <= seen[c]
    BY DEF FileInv, Replaces, Replaced
  <2>3. seen[c] \in Replaced
    BY DEF Replaced, Replacing
  <2> QED
    BY <2>1, <2>2, <2>3
<1> QED
  BY <1>1, <1>2

LEMMA RecordedType ==
    ASSUME TypeOK, FileInv PROVE Recorded \in Nat
<1> USE ChecksumStateAssumption DEF ChecksumStateAssumption, TypeOK, Tree
<1>1. CASE checkpoint # Torn
  BY <1>1 DEF Recorded
<1>2. CASE checkpoint = Torn
  <2>1. PICK d \in Client : pc[d] \in Replacing /\ Recorded = seen[d]
    BY <1>2, RecordedTorn DEF Replaced
  <2> QED
    BY <2>1 DEF FileInv, Replaces
<1> QED
  BY <1>1, <1>2

(* Only writing the new tree changes what is recorded, and it grows.       *)
LEMMA RecordedGrows ==
    ASSUME LockInv, LockInv', FileInv, FileInv', Next
    PROVE  \/ Recorded' = Recorded
           \/ /\ Recorded' \in Nat /\ Recorded' > Recorded
              /\ \E c \in Client : WriteAt(c) \/ WriteAborts(c)
<1> USE ChecksumStateAssumption DEF ChecksumStateAssumption, TypeOK, Tree, LockInv
<1>1. ASSUME checkpoint' = checkpoint, Replaced' = Replaced PROVE Recorded' = Recorded
  BY <1>1 DEF Recorded
<1>2. CASE LockAges
  BY <1>1, <1>2 DEF LockAges, Replaced
<1>3. ASSUME NEW c \in Client, Step(c), WriteTruncate(c) PROVE Recorded' = Recorded
  <2>1. Recorded = seen[c]
    BY <1>3 DEF WriteTruncate, FileInv, Writes, Recorded, Step, Progress, Failure
  <2>2. pc'[c] = "writeAt" /\ seen'[c] = seen[c] /\ c \in Client \ dead'
    BY <1>3 DEF WriteTruncate, Goto, Step, Progress, Failure
  <2>3. Recorded' = seen'[c]
    <3>1. CASE checkpoint' # Torn
      BY <2>2, <3>1 DEF Recorded, FileInv, Writes
    <3>2. CASE checkpoint' = Torn
      <4>1. PICK S : S = Replaced'
        OBVIOUS
      <4>2. \A m \in S : m \in Nat /\ m <= seen'[c]
        BY <2>2, <4>1 DEF FileInv, Replaces, Replaced
      <4>3. seen'[c] \in S
        BY <2>2, <4>1 DEF Replaced, Replacing
      <4>4. Recorded' = CHOOSE n \in S : \A m \in S : m <= n
        BY <3>2, <4>1 DEF Recorded
      <4>5. Recorded' \in S /\ \A m \in S : m <= Recorded'
        BY <4>2, <4>3, <4>4
      <4> QED
        BY <4>2, <4>3, <4>5
    <3> QED
      BY <3>1, <3>2
  <2> QED
    BY <2>1, <2>2, <2>3
<1>4. ASSUME NEW c \in Client, Step(c), WriteAt(c) PROVE Recorded' \in Nat /\ Recorded' > Recorded
  <2>1. pc[c] = "writeAt" /\ c \in Client \ dead
    BY <1>4 DEF WriteAt, Step, Progress, Failure
  <2>2. Recorded = seen[c]
    BY <2>1, RecordedUnder
  <2>3. /\ pc'[c] = "unlockWritten" /\ mem' = mem /\ dead' = dead
        /\ seen[c] \in Nat /\ mem[c] \in Nat /\ seen[c] < mem[c]
    BY <1>4, <2>1 DEF WriteAt, Goto, FileInv, Writes
  <2>4. checkpoint' = mem[c]
    BY <2>1, <2>3 DEF FileInv, Writes
  <2>5. Recorded' = mem[c]
    BY <2>3, <2>4 DEF Recorded
  <2> QED
    BY <2>2, <2>3, <2>5
<1>5. ASSUME NEW c \in Client, Kill(c) PROVE Recorded' = Recorded
  BY <1>1, <1>5 DEF Kill, Replaced
<1>6. ASSUME NEW c \in Client, Step(c), ~WriteTruncate(c), ~WriteAt(c), ~Kill(c),
              ~WriteAborts(c), pc[c] # "unlockAborted"
      PROVE  Recorded' = Recorded
  <2>1. Others(c) /\ Aside(c)
    BY <1>6, OwnStep, AsideSteps
  <2>2. Replaced' = Replaced
    BY <2>1 DEF Others, Aside, Replaced
  <2> QED
    BY <1>1, <2>1, <2>2 DEF Aside
<1>7. ASSUME NEW c \in Client, Step(c), WriteAborts(c)
      PROVE  Recorded' \in Nat /\ Recorded' \in {Recorded, mem[c]} /\ mem[c] > Recorded
  <2>1. pc[c] = "writeAt" /\ c \in Client \ dead
    BY <1>7 DEF WriteAborts, Step, Progress, Failure
  <2>2. Recorded = seen[c]
    BY <2>1, RecordedUnder
  <2>3. /\ pc'[c] = "unlockAborted" /\ seen' = seen
        /\ checkpoint' \in {seen[c], Torn, mem[c]}
        /\ seen[c] \in Nat /\ mem[c] \in Nat /\ seen[c] < mem[c]
    BY <1>7, <2>1 DEF WriteAborts, Goto, FileInv, Writes
  <2>4. CASE checkpoint' # Torn
    BY <2>2, <2>3, <2>4 DEF Recorded
  <2>5. CASE checkpoint' = Torn
    <3>1. Others(c)
      BY <1>7, OwnStep
    <3>2. Replaced' = Replaced
      BY <2>1, <2>3, <3>1 DEF Others, Replaced, Replacing
    <3>3. PICK S : S = Replaced
      OBVIOUS
    <3>4. \A m \in S : m \in Nat /\ m <= seen[c]
      BY <2>1, <3>3 DEF FileInv, Replaces, Replaced
    <3>5. seen[c] \in S
      BY <2>1, <3>3 DEF Replaced, Replacing
    <3>6. Recorded' = CHOOSE n \in S : \A m \in S : m <= n
      BY <2>5, <3>2, <3>3 DEF Recorded
    <3>7. Recorded' \in S /\ \A m \in S : m <= Recorded'
      BY <3>4, <3>5, <3>6
    <3> QED
      BY <2>2, <2>3, <3>4, <3>5, <3>7
  <2> QED
    BY <2>2, <2>3, <2>4, <2>5
<1>8. ASSUME NEW c \in Client, Step(c), pc[c] = "unlockAborted", ~Kill(c)
      PROVE  Recorded' = Recorded
  <2>1. ConfigFailsReturns(c)
    BY <1>8 DEF Step, Progress, Failure, LockMkdir, LockStat, LockBreak, LockWait, ReadConfig,
       ReadConfigReturns, WriteCompare, WriteTruncate, WriteAt, WriteConfigReturns,
       WriteConfigConflicts, Unlock, Merge, Lookup, Begin, LockFails, LookupFails,
       ConfigFails, WriteAborts
  <2>2. checkpoint' = checkpoint /\ seen' = seen /\ pc'[c] = "aborted"
    BY <1>8, <2>1 DEF ConfigFailsReturns, Unlock, Goto
  <2>3. Replaced' = Replaced
    BY <1>8, <2>2, OwnStep DEF Others, Replaced, Replacing
  <2> QED
    BY <1>1, <2>2, <2>3
<1> QED
  <2>1. Recorded \in Nat
    BY RecordedType
  <2>2. ASSUME NEW c \in Client, Step(c)
        PROVE  \/ Recorded' = Recorded
               \/ Recorded' \in Nat /\ Recorded' > Recorded /\ (WriteAt(c) \/ WriteAborts(c))
    BY <1>3, <1>4, <1>5, <1>6, <1>7, <1>8, <2>2
  <2> QED
    BY <1>2, <2>2 DEF Next

-----------------------------------------------------------------------------
(* Nobody trusts a tree that is not recorded.                              *)
Trusts(c) ==
    /\ seen[c] # Torn => seen[c] <= Recorded
    /\ pc[c] \in {"offer", "done"} => mem[c] <= Recorded

TrustInv == \A c \in Client : Trusts(c)

LEMMA TrustInvInit == Init => TrustInv
<1> SUFFICES ASSUME Init PROVE TrustInv
  OBVIOUS
<1>1. Recorded = 0
  BY ChecksumStateAssumption DEF ChecksumStateAssumption, Init, Recorded
<1>2. ASSUME NEW c \in Client PROVE Trusts(c)
  <2>1. seen[c] = 0 /\ pc[c] = "idle"
    BY DEF Init
  <2> QED
    BY <1>1, <2>1 DEF Trusts
<1> QED
  BY <1>2 DEF TrustInv

LEMMA TrustInvStep ==
    ASSUME LockInv, LockInv', FileInv, FileInv', TrustInv, Next PROVE TrustInv'
<1> USE ChecksumStateAssumption DEF ChecksumStateAssumption, TypeOK, Tree, LockInv
<1>1. Recorded \in Nat /\ Recorded' \in Nat /\ Recorded' >= Recorded
  BY RecordedType, RecordedGrows
<1>2. CASE LockAges
  BY <1>1, <1>2 DEF LockAges, TrustInv, Trusts
<1>3. ASSUME NEW c \in Client, Step(c) PROVE TrustInv'
  <2>1. Others(c) /\ c \in Client \ dead /\ Writes(c) /\ Trusts(c)
    BY <1>3, OwnStep DEF Step, Progress, Failure, FileInv, TrustInv
  <2>2. SUFFICES Trusts(c)'
    <3>1. ASSUME NEW d \in Client, d # c PROVE Trusts(d)'
      BY <1>1, <2>1, <3>1 DEF TrustInv, Trusts, Others
    <3> QED
      BY <2>2, <3>1 DEF TrustInv
  <2>3. CASE LockMkdir(c) \/ LockStat(c) \/ LockBreak(c) \/ LockWait(c)
    BY <1>1, <2>1, <2>3 DEF LockMkdir, LockStat, LockBreak, LockWait, Goto, Trusts
  <2>4. CASE ReadConfig(c)
    <3>1. pc'[c] = "unlockRead" /\ seen'[c] = checkpoint
      BY <2>4 DEF ReadConfig, Goto
    <3>2. checkpoint # Torn => checkpoint = Recorded
      BY DEF Recorded
    <3> QED
      BY <1>1, <3>1, <3>2 DEF Trusts
  <2>5. CASE ReadConfigReturns(c) \/ WriteCompare(c) \/ WriteTruncate(c) \/ WriteAt(c)
    BY <1>1, <2>1, <2>5 DEF ReadConfigReturns, WriteCompare, WriteTruncate, WriteAt, Unlock, Goto, Trusts
  <2>6. CASE WriteConfigReturns(c)
    <3>1. checkpoint = mem[c] /\ seen' = seen /\ mem' = mem
      BY <2>1, <2>6 DEF WriteConfigReturns, Unlock, Writes
    <3>2. mem[c] = Recorded
      BY <3>1 DEF Recorded
    <3> QED
      BY <1>1, <2>1, <3>1, <3>2 DEF Trusts
  <2>7. CASE WriteConfigConflicts(c)
    BY <1>1, <2>1, <2>7 DEF WriteConfigConflicts, Unlock, Call, Goto, Trusts
  <2>8. CASE Merge(c)
    <3>1. seen' = seen /\ pc[c] = "merge" /\ goal[c] # "write" /\ mem[c] \in Nat
      BY <2>1, <2>8 DEF Merge, Writes
    <3>2. CASE seen[c] = Torn
      <4>1. pc'[c] = "failed"
        BY <2>8, <3>2 DEF Merge, Goto
      <4> QED
        BY <3>1, <3>2, <4>1 DEF Trusts
    <3>3. CASE seen[c] # Torn
      <4>1. seen[c] \in Nat
        BY <3>3
      <4>2. mem'[c] = IF seen[c] > mem[c] THEN seen[c] ELSE mem[c]
        BY <2>8, <3>3 DEF Merge
      <4>3. CASE goal[c] = "load" /\ seen[c] > mem[c]
        <5>1. pc'[c] = "mkdir"
          BY <2>8, <3>3, <4>3 DEF Merge, Call, Goto
        <5> QED
          BY <1>1, <2>1, <3>1, <4>1, <5>1 DEF Trusts
      <4>4. CASE goal[c] = "reload" /\ seen[c] < mem[c]
        <5>1. pc'[c] = "mkdir"
          BY <2>8, <3>3, <4>1, <4>4 DEF Merge, Call, Goto
        <5> QED
          BY <1>1, <2>1, <3>1, <4>1, <5>1 DEF Trusts
      <4>5. CASE ~(goal[c] = "load" /\ seen[c] > mem[c]) /\ ~(goal[c] = "reload" /\ seen[c] < mem[c])
        <5>1. mem'[c] <= seen[c]
          <6>1. goal[c] \in {"load", "reload"}
            BY <3>1
          <6> QED
            BY <2>1, <3>1, <4>1, <4>2, <4>5, <6>1 DEF Writes
        <5> QED
          BY <1>1, <2>1, <3>1, <3>3, <4>1, <4>2, <5>1 DEF Trusts
      <4> QED
        BY <4>3, <4>4, <4>5
    <3> QED
      BY <3>2, <3>3
  <2>9. CASE Lookup(c)
    BY <1>1, <2>1, <2>9 DEF Lookup, Call, Goto, Trusts
  <2>10. CASE Begin(c) \/ Kill(c) \/ LockFails(c) \/ LookupFails(c)
    BY <1>1, <2>1, <2>10 DEF Begin, Kill, LockFails, LookupFails, Call, Goto, Trusts
  <2>11. CASE ConfigFails(c) \/ WriteAborts(c) \/ ConfigFailsReturns(c)
    BY <1>1, <2>1, <2>11 DEF ConfigFails, WriteAborts, ConfigFailsReturns, Unlock, Goto, Trusts
  <2> QED
    BY <1>3, <2>3, <2>4, <2>5, <2>6, <2>7, <2>8, <2>9, <2>10, <2>11 DEF Step, Progress, Failure
<1> QED
  BY <1>2, <1>3 DEF Next

(* The rollback guard: the recorded tree only grows, and what a            *)
(* verification ends with is recorded.                                     *)
Accepted == [c \in Client |-> IF pc[c] = "done" THEN mem[c] ELSE 0]

LEMMA GuardInit == Init => Guard!Init
<1> SUFFICES ASSUME Init PROVE Guard!Init
  OBVIOUS
<1>1. Recorded = 0
  BY ChecksumStateAssumption DEF ChecksumStateAssumption, Init, Recorded
<1>2. \A c \in Client : pc[c] # "done"
  BY DEF Init
<1> QED
  BY <1>1, <1>2 DEF Guard!Init

LEMMA GuardStep ==
    ASSUME LockInv, LockInv', FileInv, FileInv', TrustInv, TrustInv', Next
    PROVE  Guard!Next \/ UNCHANGED <<Recorded, Accepted>>
<1> USE ChecksumStateAssumption DEF ChecksumStateAssumption, TypeOK, Tree, LockInv
<1>1. Recorded \in Nat
  BY RecordedType
<1>2. ASSUME Accepted' = Accepted PROVE Guard!Next \/ UNCHANGED <<Recorded, Accepted>>
  BY <1>2, RecordedGrows DEF Guard!Next, Guard!Record, Accepted
<1>3. ASSUME NEW c \in Client, Recorded' = Recorded, pc'[c] = "done", Others(c)
      PROVE  Guard!Next
  <2>1. mem'[c] \in 0..Recorded
    BY <1>1, <1>3 DEF TrustInv, Trusts
  <2>2. Accepted' = [Accepted EXCEPT ![c] = mem'[c]]
    BY <1>3 DEF Accepted, Others
  <2> QED
    BY <1>3, <2>1, <2>2 DEF Guard!Next, Guard!Accept, Accepted
<1>4. ASSUME NEW c \in Client, pc[c] # "done", pc'[c] # "done", Others(c)
      PROVE  Accepted' = Accepted
  BY <1>4 DEF Accepted, Others
<1>5. CASE LockAges
  BY <1>2, <1>5 DEF LockAges, Accepted
<1>6. ASSUME NEW c \in Client, Step(c) PROVE pc[c] # "done"
  BY <1>6 DEF Step, Progress, LockMkdir, LockStat, LockBreak, LockWait, ReadConfig,
       ReadConfigReturns, WriteCompare, WriteTruncate, WriteAt, WriteConfigReturns,
       WriteConfigConflicts, Unlock, Merge, Lookup, Begin, Kill, LockFails, LookupFails,
       Failure, Ended, ConfigFails, WriteAborts, ConfigFailsReturns
<1>7. ASSUME NEW c \in Client, Step(c), WriteAt(c) \/ WriteAborts(c) \/ pc'[c] # "done"
      PROVE  Guard!Next \/ UNCHANGED <<Recorded, Accepted>>
  <2>1. pc'[c] # "done"
    BY <1>7 DEF WriteAt, WriteAborts, Goto
  <2> QED
    BY <1>2, <1>4, <1>6, <1>7, <2>1, OwnStep
<1>8. ASSUME NEW c \in Client, Step(c), pc'[c] = "done", ~WriteAt(c), ~WriteAborts(c)
      PROVE  Guard!Next
  <2>1. ASSUME NEW d \in Client, WriteAt(d) \/ WriteAborts(d) PROVE FALSE
    <3>1. d # c
      BY <1>8, <2>1
    <3>2. pc[d] = "writeAt" /\ pc'[d] # "writeAt"
      BY <2>1 DEF WriteAt, WriteAborts, Goto
    <3>3. Others(c)
      BY <1>8, OwnStep
    <3> QED
      BY <3>1, <3>2, <3>3 DEF Others
  <2>2. Recorded' = Recorded
    BY <2>1, RecordedGrows
  <2>3. Others(c)
    BY <1>8, OwnStep
  <2> QED
    BY <1>3, <1>8, <2>2, <2>3
<1> QED
  BY <1>2, <1>5, <1>7, <1>8 DEF Next

(* The shared checkpoint is a rollback guard, also when clients are killed *)
(* while they replace it and the locks that they left are broken.          *)
THEOREM RollbackGuarded == Spec /\ []Prompt => GuardsRollback
<1>1. LockInv /\ LockInv' /\ FileInv /\ FileInv' /\ TrustInv /\ [Next]_vars => TrustInv'
  <2>1. vars' = vars /\ TrustInv => TrustInv'
    BY DEF vars, TrustInv, Trusts, Recorded, Replaced
  <2> QED
    BY <2>1, TrustInvStep
<1>2. LockInv /\ LockInv' /\ FileInv /\ FileInv' /\ TrustInv /\ TrustInv' /\ [Next]_vars
        => [Guard!Next]_<<Recorded, Accepted>>
  <2>1. vars' = vars => UNCHANGED <<Recorded, Accepted>>
    BY DEF vars, Recorded, Replaced, Accepted
  <2> QED
    BY <2>1, GuardStep
<1>3. Spec /\ []Prompt => [](LockInv /\ FileInv /\ TrustInv)
  BY <1>1, FileHolds, TrustInvInit, PTL DEF Spec
<1>4. [][Guard!Next]_<<Recorded, Accepted>> /\ Guard!Init => GuardsRollback
  BY DEF GuardsRollback, Guard!Spec, Accepted
<1> QED
  BY <1>2, <1>3, <1>4, GuardInit, PTL DEF Spec
-----------------------------------------------------------------------------
(* Which behaviours are prompt.                                            *)
Pairs == \A a, b, c \in Client : a = b \/ b = c \/ a = c

(* Unless a live client is suspended for a minute, every behaviour is      *)
(* prompt if no client is killed, and also if one of two clients is: the   *)
(* survivor is then the only one who can find the lock that was left.  One *)
(* client more and this is false: two then remain to break the same lock.  *)
THEOREM PromptBehaviours ==
    ASSUME ~SlowHolders, Crashers = {} \/ Pairs
    PROVE  Spec => []Prompt
<1>1. Init => Prompt
  BY DEF Init, Prompt
<1>2. TypeOK /\ Prompt /\ [Next]_vars => Prompt'
  <2> SUFFICES ASSUME TypeOK, Prompt, [Next]_vars PROVE Prompt'
    OBVIOUS
  <2> USE ChecksumStateAssumption DEF ChecksumStateAssumption, TypeOK
  <2>1. ASSUME stale, NEW c \in Client \ dead, NEW d \in Client \ dead PROVE c = d
    BY <2>1 DEF Prompt, Pairs
  <2>2. CASE UNCHANGED vars
    BY <2>2 DEF vars, Prompt
  <2>3. CASE LockAges
    BY <2>3 DEF LockAges, Prompt
  <2>4. ASSUME NEW c \in Client, Step(c) PROVE Prompt'
    <3>1. c \in Client \ dead /\ Others(c)
      BY <2>4, OwnStep DEF Step, Progress, Failure
    <3>2. CASE LockMkdir(c)
      BY <2>1, <3>1, <3>2 DEF LockMkdir, Goto, Prompt, Others
    <3>3. CASE LockStat(c)
      BY <3>1, <3>3 DEF LockStat, Goto, Prompt, Others
    <3>4. CASE LockBreak(c)
      BY <2>1, <3>1, <3>4 DEF LockBreak, Goto, Prompt, Others
    <3>5. CASE \/ ReadConfigReturns(c) \/ WriteConfigReturns(c) \/ WriteConfigConflicts(c)
               \/ ConfigFailsReturns(c)
      <4>1. ~stale' /\ dead' = dead /\ pc'[c] # "break"
        BY <3>5 DEF ReadConfigReturns, WriteConfigReturns, WriteConfigConflicts, ConfigFailsReturns,
                    Unlock, Merged, Call, Goto
      <4>2. pc[c] # "break"
        BY <3>5 DEF ReadConfigReturns, WriteConfigReturns, WriteConfigConflicts, ConfigFailsReturns,
                    Unlock
      <4> QED
        BY <2>1, <3>1, <4>1, <4>2 DEF Prompt, Others
    <3>6. CASE Kill(c)
      BY <3>6 DEF Kill, Prompt
    <3>7. CASE \/ LockWait(c) \/ ReadConfig(c) \/ WriteCompare(c) \/ WriteTruncate(c) \/ WriteAt(c)
               \/ Merge(c) \/ Lookup(c) \/ Begin(c) \/ LockFails(c) \/ LookupFails(c)
               \/ ConfigFails(c) \/ WriteAborts(c)
      <4>1. UNCHANGED <<lock, stale, dead>>
        BY <3>7 DEF LockWait, ReadConfig, WriteCompare, WriteTruncate, WriteAt, Merge, Lookup,
                    Begin, LockFails, LookupFails, ConfigFails, WriteAborts
      <4>2. pc'[c] # "break"
        BY <3>7 DEF LockWait, ReadConfig, WriteCompare, WriteTruncate, WriteAt, Merge, Merged,
                    Lookup, Begin, LockFails, LookupFails, ConfigFails, WriteAborts, Call, Goto
      <4> QED
        BY <3>1, <4>1, <4>2 DEF Prompt, Others
    <3> QED
      BY <2>4, <3>2, <3>3, <3>4, <3>5, <3>6, <3>7 DEF Step, Progress, Failure
  <2> QED
    BY <2>2, <2>3, <2>4 DEF Next
<1> QED
  BY <1>1, <1>2, TypeCorrect, PTL DEF Spec
=============================================================================
