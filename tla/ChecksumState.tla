--------------------------- MODULE ChecksumState ---------------------------
(***************************************************************************)
(* The checksum-database checkpoint that scut processes share: a file with *)
(* the latest signed tree head, replaced under a lock that is a directory. *)
(*                                                                         *)
(* A client is one process with one module to verify.  Its sumdb client    *)
(* (golang.org/x/mod/sumdb) merges tree heads in memory and persists them  *)
(* through ReadConfig and WriteConfig, which take and release the lock.    *)
(* A tree head is its size; 0 is the missing file.  All trees are of one   *)
(* append-only log, so that a smaller tree is a prefix of a larger one.    *)
(*                                                                         *)
(* The unit of atomicity is one filesystem call.  A client may be killed   *)
(* between any two of them, and any of them may fail, but for the removal  *)
(* of the lock.                                                            *)
(***************************************************************************)
EXTENDS Naturals

CONSTANTS
    Client,
    Crashers,     \* clients that may be killed
    SlowHolders,  \* whether a live client may hold the lock for a minute
    MaxTree,      \* bound: the largest tree the database serves
    Torn,         \* a checkpoint file that does not parse
    NoClient

ASSUME ChecksumStateAssumption ==
    /\ Crashers \subseteq Client
    /\ SlowHolders \in BOOLEAN
    /\ MaxTree \in Nat
    /\ Torn \notin Nat
    /\ NoClient \notin Client

VARIABLES
    checkpoint,  \* contents of <config>/sumdb/<name>/latest
    lock,        \* the client whose Mkdir made latest.lock, or NoClient
    stale,       \* latest.lock was modified more than a minute ago
    dead,        \* killed clients
    pc,
    goal,        \* which ReadConfig or WriteConfig call the client is in
    phase,       \* merging the stored tree, or the one of a lookup
    mem,         \* the in-memory latest tree
    seen         \* what the last ReadConfig returned

vars == <<checkpoint, lock, stale, dead, pc, goal, phase, mem, seen>>

-----------------------------------------------------------------------------
Tree == 0..MaxTree

Holding == {"read", "unlockRead", "compare", "truncate", "writeAt",
            "unlockConflict", "unlockWritten", "unlockFailed", "unlockAborted"}

(* A verification is over; "aborted" is failed while replacing the file.   *)
Ended == {"done", "failed", "aborted"}

Label == Holding \union Ended \union {"idle", "mkdir", "stat", "break", "wait",
                                      "merge", "offer"}

TypeOK ==
    /\ checkpoint \in Tree \union {Torn}
    /\ lock \in Client \union {NoClient}
    /\ stale \in BOOLEAN
    /\ dead \subseteq Crashers
    /\ pc \in [Client -> Label]
    /\ goal \in [Client -> {"load", "reload", "write"}]
    /\ phase \in [Client -> {"init", "lookup"}]
    /\ mem \in [Client -> Tree]
    /\ seen \in [Client -> Tree \union {Torn}]

Init ==
    /\ checkpoint = 0
    /\ lock = NoClient
    /\ stale = FALSE
    /\ dead = {}
    /\ pc = [c \in Client |-> "idle"]
    /\ goal = [c \in Client |-> "load"]
    /\ phase = [c \in Client |-> "init"]
    /\ mem = [c \in Client |-> 0]
    /\ seen = [c \in Client |-> 0]

Goto(c, label) == pc' = [pc EXCEPT ![c] = label]

(* The client's next call of ReadConfig or WriteConfig. *)
Call(c, g) ==
    /\ Goto(c, "mkdir")
    /\ goal' = [goal EXCEPT ![c] = g]

Begin(c) ==
    /\ pc[c] = "idle"
    /\ Call(c, "load")
    /\ UNCHANGED <<checkpoint, lock, stale, dead, phase, mem, seen>>

Kill(c) ==
    /\ c \in Crashers
    /\ pc[c] \notin Ended \union {"idle"}
    /\ dead' = dead \union {c}
    /\ UNCHANGED <<checkpoint, lock, stale, pc, goal, phase, mem, seen>>

-----------------------------------------------------------------------------
(* acquireChecksumStateLock: Mkdir; if the directory exists, Stat it, and  *)
(* Remove it if it is old; else wait for the ticker or the context.        *)

(* Mutant: a lock that any number of clients get, as MkdirAll would give. *)
LockMkdirAll(c) ==
    /\ pc[c] = "mkdir"
    /\ lock' = c
    /\ stale' = FALSE
    /\ Goto(c, IF goal[c] = "write" THEN "compare" ELSE "read")
    /\ UNCHANGED <<checkpoint, dead, goal, phase, mem, seen>>

LockMkdir(c) ==
    /\ pc[c] = "mkdir"
    /\ IF lock = NoClient
         THEN /\ lock' = c
              /\ stale' = FALSE
              /\ Goto(c, IF goal[c] = "write" THEN "compare" ELSE "read")
         ELSE /\ Goto(c, "stat")
              /\ UNCHANGED <<lock, stale>>
    /\ UNCHANGED <<checkpoint, dead, goal, phase, mem, seen>>

(* Mutant: the age of the lock is not looked at, it is waited for. *)
LockStatNever(c) ==
    /\ pc[c] = "stat"
    /\ Goto(c, "wait")
    /\ UNCHANGED <<checkpoint, lock, stale, dead, goal, phase, mem, seen>>

LockStat(c) ==
    /\ pc[c] = "stat"
    /\ Goto(c, IF lock # NoClient /\ stale THEN "break" ELSE "wait")
    /\ UNCHANGED <<checkpoint, lock, stale, dead, goal, phase, mem, seen>>

(* os.Remove by name: whatever lock is there by now. *)
LockBreak(c) ==
    /\ pc[c] = "break"
    /\ lock' = NoClient
    /\ stale' = FALSE
    /\ Goto(c, "mkdir")
    /\ UNCHANGED <<checkpoint, dead, goal, phase, mem, seen>>

LockWait(c) ==
    /\ pc[c] = "wait"
    /\ Goto(c, "mkdir")
    /\ UNCHANGED <<checkpoint, lock, stale, dead, goal, phase, mem, seen>>

(* The context is cancelled, or Mkdir fails otherwise.                     *)
LockFails(c) ==
    /\ pc[c] \in {"mkdir", "wait"}
    /\ Goto(c, "failed")
    /\ UNCHANGED <<checkpoint, lock, stale, dead, goal, phase, mem, seen>>

(* A minute passes.  The sections under the lock are a few local file      *)
(* operations, so a live client that takes so long was suspended.          *)
LockAges ==
    /\ lock # NoClient
    /\ ~stale
    /\ lock \in dead \/ SlowHolders
    /\ stale' = TRUE
    /\ UNCHANGED <<checkpoint, lock, dead, pc, goal, phase, mem, seen>>

(* The deferred unlock: os.Remove by name, its error ignored. *)
Unlock(c, at) ==
    /\ pc[c] = at
    /\ lock' = NoClient
    /\ stale' = FALSE
    /\ UNCHANGED <<checkpoint, dead, phase, mem, seen>>

-----------------------------------------------------------------------------
(* ReadConfig and WriteConfig. *)

ReadConfig(c) ==
    /\ pc[c] = "read"
    /\ seen' = [seen EXCEPT ![c] = checkpoint]
    /\ Goto(c, "unlockRead")
    /\ UNCHANGED <<checkpoint, lock, stale, dead, goal, phase, mem>>

ReadConfigReturns(c) ==
    /\ Unlock(c, "unlockRead")
    /\ Goto(c, "merge")
    /\ UNCHANGED goal

(* Mutant: old is not compared. *)
WriteBlindly(c) ==
    /\ pc[c] = "compare"
    /\ Goto(c, "truncate")
    /\ UNCHANGED <<checkpoint, lock, stale, dead, goal, phase, mem, seen>>

WriteCompare(c) ==
    /\ pc[c] = "compare"
    /\ Goto(c, IF checkpoint = seen[c] THEN "truncate" ELSE "unlockConflict")
    /\ UNCHANGED <<checkpoint, lock, stale, dead, goal, phase, mem, seen>>

(* Mutant: the lock is released before the new tree head is written. *)
WriteTruncateUnlocks(c) ==
    /\ pc[c] = "truncate"
    /\ checkpoint' \in {Torn} \union ({checkpoint} \ {0})
    /\ lock' = NoClient
    /\ stale' = FALSE
    /\ Goto(c, "writeAt")
    /\ UNCHANGED <<dead, goal, phase, mem, seen>>

(* Truncate to the length of the new tree head: this cuts or pads the old  *)
(* one, unless the lengths agree.                                          *)
WriteTruncate(c) ==
    /\ pc[c] = "truncate"
    /\ checkpoint' \in {Torn} \union ({checkpoint} \ {0})
    /\ Goto(c, "writeAt")
    /\ UNCHANGED <<lock, stale, dead, goal, phase, mem, seen>>

(* The other writers, if the lock has been lost. *)
Intruders(c) == {d \in Client \ {c} : pc[d] = "writeAt" /\ d \notin dead}

(* Mutant: the file is left with the old tree head and the new one. *)
WriteAppends(c) ==
    /\ pc[c] = "writeAt"
    /\ checkpoint' = seen[c] + mem[c]
    /\ Goto(c, "unlockWritten")
    /\ UNCHANGED <<lock, stale, dead, goal, phase, mem, seen>>

(* WriteAt replaces what Truncate left, unless another writer changed the  *)
(* length in between: the file may then be a mix.                          *)
WriteAt(c) ==
    /\ pc[c] = "writeAt"
    /\ checkpoint' \in {mem[c]} \union
         (IF Intruders(c) = {} /\ checkpoint \in {seen[c], Torn} THEN {} ELSE {Torn})
    /\ Goto(c, "unlockWritten")
    /\ UNCHANGED <<lock, stale, dead, goal, phase, mem, seen>>

(* ReadFile fails, or OpenFile, Chmod or Truncate: the tree head is still  *)
(* the one that was there.                                                 *)
ConfigFails(c) ==
    /\ pc[c] \in {"read", "compare", "truncate"}
    /\ Goto(c, "unlockFailed")
    /\ UNCHANGED <<checkpoint, lock, stale, dead, goal, phase, mem, seen>>

(* WriteAt fails having written nothing or a part of the tree head, or all *)
(* of it is written and Sync, Close or syncDirectory fails.                *)
WriteAborts(c) ==
    /\ pc[c] = "writeAt"
    /\ checkpoint' \in {checkpoint, Torn, mem[c]}
    /\ Goto(c, "unlockAborted")
    /\ UNCHANGED <<lock, stale, dead, goal, phase, mem, seen>>

ConfigFailsReturns(c) ==
    /\ \/ Unlock(c, "unlockFailed") /\ Goto(c, "failed")
       \/ Unlock(c, "unlockAborted") /\ Goto(c, "aborted")
    /\ UNCHANGED goal

-----------------------------------------------------------------------------
(* The merge loop of the sumdb client. *)

(* mergeLatest returns: initialisation goes on to the lookup. *)
Merged(c) ==
    /\ Goto(c, IF phase[c] = "init" THEN "offer" ELSE "done")
    /\ UNCHANGED goal

WriteConfigReturns(c) == Unlock(c, "unlockWritten") /\ Merged(c)

(* ErrWriteConflict: read the configuration again. *)
WriteConfigConflicts(c) == Unlock(c, "unlockConflict") /\ Call(c, "reload")

(* mergeLatestMem on what ReadConfig returned: no tree (0) and a smaller   *)
(* tree are in the past, a larger one is adopted.  The first tree read is  *)
(* merged as any other; while the file is behind, it is written.           *)
Merge(c) ==
    /\ pc[c] = "merge"
    /\ IF seen[c] = Torn
         THEN Goto(c, "failed") /\ UNCHANGED <<goal, mem>>
         ELSE /\ mem' = [mem EXCEPT ![c] = IF seen[c] > mem[c] THEN seen[c] ELSE mem[c]]
              /\ CASE goal[c] = "load" /\ seen[c] > mem[c]   -> Call(c, "reload")
                   [] goal[c] = "reload" /\ seen[c] < mem[c] -> Call(c, "write")
                   [] OTHER                                  -> Merged(c)
    /\ UNCHANGED <<checkpoint, lock, stale, dead, phase, seen>>

(* The lookup: the database answers with a signed tree, possibly one that  *)
(* is behind; only a tree from the future is persisted.                    *)
Lookup(c) ==
    /\ pc[c] = "offer"
    /\ \E n \in 1..MaxTree :
         IF n > mem[c]
           THEN mem' = [mem EXCEPT ![c] = n] /\ Call(c, "reload")
           ELSE Goto(c, "done") /\ UNCHANGED <<goal, mem>>
    /\ phase' = [phase EXCEPT ![c] = "lookup"]
    /\ UNCHANGED <<checkpoint, lock, stale, dead, seen>>

LookupFails(c) ==
    /\ pc[c] = "offer"
    /\ Goto(c, "failed")
    /\ UNCHANGED <<checkpoint, lock, stale, dead, goal, phase, mem, seen>>

-----------------------------------------------------------------------------
(* What a live client does if nobody cancels it and no call fails. *)
Progress(c) ==
    /\ c \notin dead
    /\ \/ LockMkdir(c) \/ LockStat(c) \/ LockBreak(c) \/ LockWait(c)
       \/ ReadConfig(c) \/ ReadConfigReturns(c)
       \/ WriteCompare(c) \/ WriteTruncate(c) \/ WriteAt(c)
       \/ WriteConfigReturns(c) \/ WriteConfigConflicts(c) \/ ConfigFailsReturns(c)
       \/ Merge(c) \/ Lookup(c)

(* What ends or breaks it off. *)
Failure(c) ==
    /\ c \notin dead
    /\ Kill(c) \/ LockFails(c) \/ LookupFails(c) \/ ConfigFails(c) \/ WriteAborts(c)

Step(c) == Progress(c) \/ Failure(c) \/ (c \notin dead /\ Begin(c))

Next == LockAges \/ \E c \in Client : Step(c)

Spec == Init /\ [][Next]_vars

(* A live process is scheduled, and the clock runs. *)
Fairness == WF_vars(LockAges) /\ \A c \in Client : WF_vars(Progress(c))

FairSpec == Spec /\ Fairness

-----------------------------------------------------------------------------
(* Properties. *)

(* At most one live client is in a section under the lock. *)
Exclusive ==
    \A c, d \in Client \ dead : pc[c] \in Holding /\ pc[d] \in Holding => c = d

(* A client that has begun to replace the file, and has not completed it.  *)
Replacing == {"writeAt", "unlockAborted", "aborted"}

(* Nobody reads a checkpoint while a writer is at it: one that is half     *)
(* replaced was left so, by a writer that was killed or whose write failed *)
(* (there is no rollback of the file when WriteAt or Sync fail).           *)
ReadsWhole ==
    \A c \in Client : seen[c] = Torn =>
        \E d \in Client : pc[d] = "aborted" \/ (d \in dead /\ pc[d] \in Replacing)

(* A tree that a client has accepted stays recorded for later processes:   *)
(* the checkpoint "preserves cross-process consistency and rollback        *)
(* checks".                                                                *)
AcceptedStaysRecorded ==
    \A c \in Client : pc[c] = "done" /\ checkpoint # Torn => mem[c] <= checkpoint

(* A verification ends, also when the lock was left by a killed client:    *)
(* the lock is broken after a minute, and conflicts do not go on forever.  *)
Terminates ==
    \A c \in Client : pc[c] = "mkdir" ~> (pc[c] \in Ended \/ c \in dead)

(* The recorded tree: while a writer replaces the file, and if it is       *)
(* killed or fails then, it is the tree it compared with.                  *)
Replaced == {seen[c] : c \in {d \in Client : pc[d] \in Replacing}}

Recorded ==
    IF checkpoint # Torn THEN checkpoint
    ELSE CHOOSE n \in Replaced : \A m \in Replaced : m <= n

Guard == INSTANCE RollbackGuard WITH
    recorded <- Recorded,
    accepted <- [c \in Client |-> IF pc[c] = "done" THEN mem[c] ELSE 0]

(* The clients implement the rollback guard. *)
GuardsRollback == Guard!Spec
=============================================================================
