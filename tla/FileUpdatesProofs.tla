------------------------- MODULE FileUpdatesProofs -------------------------
(***************************************************************************)
(* For any number of processes, commands and names: no record is lost by a *)
(* rotation, temporary files stay apart from the named ones, what no hook  *)
(* writes is never seen half written, and a file that is not changed under *)
(* its formatters holds the text of its last edit.                         *)
(***************************************************************************)
EXTENDS FileUpdates, SequenceTheorems, TLAPS

Label == {"start", "statlog", "rotate", "openlog", "look", "clean", "fetch", "read", "truncate", "write",
          "stage", "fill", "rename", "done", "failed", "killed"}

LogTypes ==
    /\ pc \in [Proc -> Label]
    /\ logger \in [Proc -> LogFile \union {Absent}]
    /\ records \in [LogFile -> SUBSET LogFile]
    /\ log \in LogFile \union {Absent}
    /\ rotated \in [0 .. MaxSeconds -> LogFile \union {Absent}]
    /\ now \in 0 .. MaxSeconds

(* Only hooks log, and they end in Return, where the last record is made.  *)
OnlyHooksLog ==
    /\ \A p \in Proc : command[p].log => command[p].kind = "hook"
    /\ \A p \in Proc : pc[p] \in {"statlog", "rotate", "openlog"} \/ logger[p] # Absent => command[p].log
    /\ \A p \in Proc : command[p].kind = "hook" => pc[p] \notin {"stage", "fill", "rename", "fetch", "clean"}
    /\ \A p \in Proc : pc[p] \in {"done", "failed"} /\ logger[p] # Absent => p \in records[logger[p]]

(* A log that is open, or has records, has a name.                         *)
Reachable ==
    clashes = {} =>
        /\ \A p \in Proc : logger[p] # Absent => logger[p] \in Linked
        /\ \A l \in LogFile : records[l] # {} => l \in Linked

LogInv == LogTypes /\ OnlyHooksLog /\ Reachable

LEMMA LogInit == Init => LogInv
  <1> SUFFICES ASSUME Init PROVE LogInv
    OBVIOUS
  <1>1. LogTypes
    <2>1. pc \in [Proc -> Label] /\ logger \in [Proc -> LogFile \union {Absent}]
      BY DEF Init, Label
    <2>2. log \in LogFile \union {Absent} /\ records \in [LogFile -> SUBSET LogFile]
      BY DEF Init, LogFile
    <2>3. rotated \in [0 .. MaxSeconds -> LogFile \union {Absent}] /\ now \in 0 .. MaxSeconds
      BY FileUpdatesAssumption DEF FileUpdatesAssumption, Init
    <2> QED BY <2>1, <2>2, <2>3 DEF LogTypes
  <1>2. OnlyHooksLog
    BY FileUpdatesAssumption DEF FileUpdatesAssumption, Init, OnlyHooksLog
  <1>3. Reachable
    BY FileUpdatesAssumption DEF FileUpdatesAssumption, Init, Reachable, Linked, LogFile
  <1> QED BY <1>1, <1>2, <1>3 DEF LogInv

(* A process goes on, and the logs and loggers stay as they are.           *)
On(p, x) == Goto(p, x) /\ UNCHANGED <<command, logs, logger>>

LEMMA Moves ==
    ASSUME LogInv, NEW p \in Proc, NEW x \in Label, On(p, x),
           x \notin {"statlog", "rotate", "openlog"},
           x \in {"stage", "fill", "rename", "fetch", "clean"} => command[p].kind # "hook",
           x \in {"done", "failed"} => logger[p] = Absent
    PROVE  LogInv'
  <1>1. LogTypes'
    BY DEF LogInv, LogTypes, logs, On, Goto
  <1>2. OnlyHooksLog'
    BY DEF LogInv, LogTypes, OnlyHooksLog, logs, On, Goto
  <1>3. Reachable'
    BY DEF LogInv, Reachable, Linked, logs, On
  <1> QED BY <1>1, <1>2, <1>3 DEF LogInv

LEMMA Stays == ASSUME LogInv, UNCHANGED <<pc, command, logs, logger>> PROVE LogInv'
  BY DEF LogInv, LogTypes, OnlyHooksLog, Reachable, Linked, logs

LEMMA StartLogged == ASSUME LogInv, NEW p \in Proc, Start(p) PROVE LogInv'
  <1>1. CASE command[p].log
    <2>1. pc' = [pc EXCEPT ![p] = "statlog"] /\ UNCHANGED <<command, logs, logger>>
      BY <1>1 DEF Start, Goto
    <2>2. LogTypes'
      BY <2>1 DEF LogInv, LogTypes, Label, logs
    <2>3. OnlyHooksLog'
      BY <1>1, <2>1 DEF LogInv, LogTypes, OnlyHooksLog, logs
    <2>4. Reachable'
      BY <2>1 DEF LogInv, Reachable, Linked, logs
    <2> QED BY <2>2, <2>3, <2>4 DEF LogInv
  <1>2. CASE ~command[p].log
    <2>1. logger[p] = Absent
      BY <1>2 DEF LogInv, OnlyHooksLog
    <2>2. CASE Is(p, {"clean"})
      <3>1. On(p, "clean")
        BY <1>2, <2>2 DEF Start, Goto, On
      <3> QED BY <3>1, <2>2, Moves DEF Is, Label
    <2>3. CASE ~Is(p, {"clean"}) /\ Is(p, {"update"})
      <3>1. On(p, "fetch")
        BY <1>2, <2>3 DEF Start, Goto, On
      <3> QED BY <3>1, <2>3, Moves DEF Is, Label
    <2>4. CASE ~Is(p, {"clean"}) /\ ~Is(p, {"update"})
      <3>1. On(p, "look")
        BY <1>2, <2>4 DEF Start, Goto, On
      <3> QED BY <3>1, Moves DEF Label
    <2> QED BY <2>2, <2>3, <2>4
  <1> QED BY <1>1, <1>2

LEMMA StatLogged == ASSUME LogInv, NEW p \in Proc, StatLog(p) PROVE LogInv'
  <1>1. PICK x \in {"rotate", "openlog"} : pc' = [pc EXCEPT ![p] = x]
    BY DEF StatLog, Goto
  <1>2. command[p].log /\ UNCHANGED <<command, logs, logger>>
    BY DEF StatLog, LogInv, OnlyHooksLog
  <1>3. LogTypes'
    BY <1>1, <1>2 DEF LogInv, LogTypes, Label, logs
  <1>4. OnlyHooksLog'
    BY <1>1, <1>2 DEF LogInv, LogTypes, OnlyHooksLog, logs
  <1>5. Reachable'
    BY <1>2 DEF LogInv, Reachable, Linked, logs
  <1> QED BY <1>3, <1>4, <1>5 DEF LogInv

(* The name changes from the current to a rotated one, and that one was    *)
(* free unless two rotations clash.                                        *)
LEMMA RotateLogged == ASSUME LogInv, NEW p \in Proc, Rotate(p) PROVE LogInv'
  <1>1. CASE log = Absent
    <2>1. On(p, "look")
      BY <1>1 DEF Rotate, Goto, logs, On
    <2> QED BY <2>1, Moves DEF Label
  <1>2. CASE log # Absent
    <2>1. /\ pc' = [pc EXCEPT ![p] = "openlog"] /\ command[p].log
          /\ rotated' = [rotated EXCEPT ![now] = log] /\ log' = Absent
          /\ clashes' = clashes \union (IF rotated[now] # Absent THEN {"second"} ELSE {})
          /\ UNCHANGED <<command, records, now, logger>>
      BY <1>2 DEF Rotate, Goto, LogInv, OnlyHooksLog
    <2>2. LogTypes'
      BY <2>1 DEF LogInv, LogTypes, Label
    <2>3. OnlyHooksLog'
      BY <2>1 DEF LogInv, LogTypes, OnlyHooksLog
    <2>4. ASSUME clashes' = {} PROVE clashes = {} /\ rotated[now] = Absent
      BY <2>1, <2>4
    <2>5. ASSUME rotated[now] = Absent PROVE Linked \subseteq Linked'
      <3>1. SUFFICES ASSUME NEW l \in Linked PROVE l \in Linked'
        OBVIOUS
      <3>2. l # Absent /\ (l = log \/ \E s \in 0 .. MaxSeconds : rotated[s] = l)
        BY <3>1 DEF Linked, Range, LogInv, LogTypes
      <3>3. \E s \in 0 .. MaxSeconds : rotated'[s] = l
        BY <2>1, <2>5, <3>2 DEF LogInv, LogTypes, Label
      <3> QED BY <2>2, <3>2, <3>3 DEF Linked, Range, LogTypes
    <2>6. Reachable'
      BY <2>1, <2>4, <2>5 DEF LogInv, Reachable
    <2> QED BY <2>2, <2>3, <2>6 DEF LogInv
  <1> QED BY <1>1, <1>2

LEMMA OpenLogged == ASSUME LogInv, NEW p \in Proc, OpenLog(p) PROVE LogInv'
  <1>1. /\ log' = (IF log = Absent THEN p ELSE log)
        /\ logger' = [logger EXCEPT ![p] = log']
        /\ pc' = [pc EXCEPT ![p] = "look"] /\ command[p].log
        /\ UNCHANGED <<command, rotated, records, now, clashes>>
    BY DEF OpenLog, Goto, LogInv, OnlyHooksLog
  <1>2. log' \in LogFile /\ log' # Absent
    BY <1>1, FileUpdatesAssumption DEF FileUpdatesAssumption, LogInv, LogTypes, LogFile
  <1>3. LogTypes'
    BY <1>1, <1>2 DEF LogInv, LogTypes, Label
  <1>4. OnlyHooksLog'
    BY <1>1 DEF LogInv, LogTypes, OnlyHooksLog
  <1>5. Linked \subseteq Linked' /\ log' \in Linked'
    BY <1>1, <1>2 DEF Linked
  <1>6. Reachable'
    BY <1>1, <1>5 DEF LogInv, LogTypes, Reachable
  <1> QED BY <1>3, <1>4, <1>6 DEF LogInv

LEMMA ReturnLogged == ASSUME LogInv, NEW p \in Proc, Return(p) PROVE LogInv'
  <1>1. /\ \E x \in {"done", "failed"} : pc' = [pc EXCEPT ![p] = x]
        /\ records' = IF logger[p] = Absent THEN records ELSE [records EXCEPT ![logger[p]] = @ \union {p}]
        /\ UNCHANGED <<command, log, rotated, now, clashes, logger>>
    BY DEF Return, Goto
  <1>2. LogTypes'
    BY <1>1 DEF LogInv, LogTypes, Label, LogFile
  <1>3. OnlyHooksLog'
    BY <1>1 DEF LogInv, LogTypes, OnlyHooksLog
  <1>4. Linked' = Linked
    BY <1>1 DEF Linked
  <1>5. Reachable'
    BY <1>1, <1>4 DEF LogInv, LogTypes, Reachable
  <1> QED BY <1>2, <1>3, <1>5 DEF LogInv

LEMMA CleanLogged == ASSUME LogInv, NEW p \in Proc, Clean(p) PROVE LogInv'
  <1>1. /\ pc[p] = "clean" /\ pc' = [pc EXCEPT ![p] = "done"]
        /\ log' \in {log, Absent}
        /\ \E gone \in SUBSET Linked :
             rotated' = [s \in DOMAIN rotated |-> IF rotated[s] \in gone THEN Absent ELSE rotated[s]]
        /\ clashes' # {}
        /\ UNCHANGED <<command, records, now, logger>>
    BY DEF Clean, Goto
  <1>2. LogTypes'
    BY <1>1 DEF LogInv, LogTypes, Label
  <1>3. OnlyHooksLog'
    BY <1>1 DEF LogInv, LogTypes, OnlyHooksLog
  <1>4. Reachable'
    BY <1>1 DEF Reachable
  <1> QED BY <1>2, <1>3, <1>4 DEF LogInv

(* A process that formats, replaces or fails does nothing to the logs; one *)
(* that fails is no hook.                                                  *)
LEMMA FilesLogged ==
    ASSUME LogInv, NEW p \in Proc,
           \/ Skip(p) \/ LookFails(p) \/ Select(p) \/ ReadMissing(p) \/ Unchanged(p) \/ Report(p)
           \/ Read(p) \/ Truncate(p) \/ Write(p) \/ WriteFails(p)
           \/ Stage(p) \/ Fill(p) \/ StageFails(p) \/ Rename(p) \/ Fetch(p) \/ Crash(p)
    PROVE  LogInv'
  <1>1. ASSUME ~Is(p, {"hook"}) PROVE logger[p] = Absent /\ command[p].kind # "hook"
    BY <1>1 DEF LogInv, OnlyHooksLog, Is
  <1>2. ASSUME pc[p] \in {"stage", "fill", "rename", "fetch"} PROVE ~Is(p, {"hook"})
    BY <1>2 DEF LogInv, OnlyHooksLog, Is
  <1>3. CASE Skip(p)
    BY <1>3, Stays DEF Skip
  <1>4. CASE LookFails(p)
    <2>1. On(p, "failed") /\ ~Is(p, {"hook"})
      BY <1>4 DEF LookFails, Goto, On
    <2> QED BY <2>1, <1>1, Moves DEF Label
  <1>5. CASE Select(p)
    <2>1. On(p, "read")
      BY <1>5 DEF Select, Goto, On
    <2> QED BY <2>1, Moves DEF Label
  <1>6. CASE ReadMissing(p)
    <2>1. On(p, "look") \/ (On(p, "failed") /\ ~Is(p, {"hook"}))
      BY <1>6 DEF ReadMissing, Goto, On
    <2> QED BY <2>1, <1>1, Moves DEF Label
  <1>7. CASE Unchanged(p) \/ Report(p) \/ Write(p) \/ WriteFails(p) \/ Rename(p)
    <2>1. On(p, "look")
      BY <1>7 DEF Unchanged, Report, Write, WriteFails, Rename, Goto, On
    <2> QED BY <2>1, Moves DEF Label
  <1>8. CASE Read(p)
    <2>1. On(p, "truncate") \/ (On(p, "stage") /\ ~Is(p, {"hook"}))
      BY <1>8 DEF Read, Goto, On
    <2> QED BY <2>1, <1>1, Moves DEF Label
  <1>9. CASE Truncate(p)
    <2>1. On(p, "write")
      BY <1>9 DEF Truncate, Goto, On
    <2> QED BY <2>1, Moves DEF Label
  <1>10. CASE Stage(p) \/ Fill(p)
    <2>1. pc[p] \in {"stage", "fill"} /\ (On(p, "fill") \/ On(p, "rename"))
      BY <1>10 DEF Stage, Fill, Goto, On
    <2> QED BY <2>1, <1>1, <1>2, Moves DEF Label
  <1>11. CASE StageFails(p)
    <2>1. pc[p] \in {"stage", "fill", "rename"} /\ On(p, "failed")
      BY <1>11 DEF StageFails, Goto, On
    <2> QED BY <2>1, <1>1, <1>2, Moves DEF Label
  <1>12. CASE Fetch(p)
    <2>1. pc[p] = "fetch" /\ (On(p, "done") \/ On(p, "failed") \/ On(p, "stage"))
      BY <1>12 DEF Fetch, Goto, On
    <2> QED BY <2>1, <1>1, <1>2, Moves DEF Label
  <1>13. CASE Crash(p)
    <2>1. On(p, "killed")
      BY <1>13 DEF Crash, Goto, On
    <2> QED BY <2>1, Moves DEF Label
  <1> QED BY <1>3, <1>4, <1>5, <1>6, <1>7, <1>8, <1>9, <1>10, <1>11, <1>12, <1>13

LEMMA TickLogged == ASSUME LogInv, Tick PROVE LogInv'
  <1>1. now \in 0 .. MaxSeconds /\ now' = now + 1 /\ now < MaxSeconds
    BY DEF Tick, LogInv, LogTypes
  <1>2. now' \in 0 .. MaxSeconds
    BY <1>1, FileUpdatesAssumption DEF FileUpdatesAssumption
  <1> QED BY <1>2 DEF Tick, LogInv, LogTypes, OnlyHooksLog, Reachable, Linked

LEMMA LogStep == LogInv /\ [Next]_vars => LogInv'
  <1> SUFFICES ASSUME LogInv, [Next]_vars PROVE LogInv'
    OBVIOUS
  <1>1. ASSUME NEW p \in Proc,
               \/ Start(p) \/ StatLog(p) \/ Rotate(p) \/ OpenLog(p) \/ Return(p) \/ Clean(p)
        PROVE  LogInv'
    BY <1>1, StartLogged, StatLogged, RotateLogged, OpenLogged, ReturnLogged, CleanLogged
  <1>2. ASSUME NEW n \in Touched, Edit(n) \/ Delete(n) PROVE LogInv'
    BY <1>2, Stays DEF Edit, Delete
  <1>3. CASE Tick
    BY <1>3, TickLogged
  <1>4. CASE UNCHANGED vars
    BY <1>4, Stays DEF vars
  <1> QED BY <1>1, <1>2, <1>3, <1>4, FilesLogged DEF Next

LEMMA LogInvKeeps == LogInv => RecordsKept
  <1> SUFFICES ASSUME LogInv, clashes = {}, NEW x \in LogFile, Recorded(x)
               PROVE  \E l \in Linked : x \in records[l]
    BY DEF RecordsKept
  <1>1. CASE x = Before
    BY <1>1 DEF Recorded, LogInv, Reachable
  <1>2. CASE x # Before
    BY <1>2 DEF Recorded, LogInv, Reachable, OnlyHooksLog, LogFile
  <1> QED BY <1>1, <1>2

(* Every record a process has written stays in a log that has a name,      *)
(* however many processes rotate the log, unless two rotate it within one  *)
(* second or logs are cleaned.                                             *)
THEOREM RecordsSurviveRotation == Spec => []RecordsKept
  <1>1. LogInv /\ [Next]_vars => LogInv'
    BY LogStep
  <1> QED BY <1>1, LogInit, LogInvKeeps, PTL DEF Spec
-----------------------------------------------------------------------------
(* The files.                                                              *)

Release == {c.release : c \in UNION {Commands[p] : p \in Proc}}
Origin == (0 .. MaxEdits) \union {Blank, Mixed, Running} \union Release
Texts == [of : Origin, formatted : BOOLEAN]

Regular == Name \ DOMAIN Links
Resolved(n) == IF n \in DOMAIN Links THEN Links[n] ELSE n

Busy == {"read", "truncate", "write", "stage", "fill", "rename"}

FileTypes ==
    /\ DOMAIN dir = Name
    /\ \A n \in Name : IF n \in DOMAIN Links THEN dir[n] = Links[n] ELSE dir[n] \in Inode \union {Absent}
    /\ disk \in [Inode -> Texts] /\ plan \in [Proc -> Texts]
    /\ handle \in [Proc -> Inode \union {Absent}] /\ changed \in [Proc -> SUBSET Name]
    /\ temps \subseteq Inode
    /\ edits \in 0 .. MaxEdits /\ faults \in 0 .. MaxFaults
    /\ edited \in [Name -> (0 .. MaxEdits) \union {Absent}]

(* What a process may be doing, and with which names.                      *)
Turns ==
    /\ todo \in [Proc -> Seq(Name)]
    /\ \A p \in Proc :
      /\ command[p] \in Commands[p]
      /\ Len(todo[p]) <= Len(command[p].names) /\ Range(todo[p]) \subseteq Range(command[p].names)
      /\ pc[p] \in {"truncate", "write"} => Is(p, {"hook"})
      /\ pc[p] \in {"stage", "fill", "rename"} => Is(p, {"format", "update"})
      /\ pc[p] \in Busy => todo[p] # <<>>
      /\ pc[p] \in {"start", "fetch"} => todo[p] = command[p].names
      /\ pc[p] = "fetch" => Is(p, {"update"})
      /\ pc[p] = "look" /\ Is(p, {"update"}) => todo[p] = <<>>
      /\ pc[p] = "read" => ~Is(p, {"update"})

LEMMA Tails ==
    ASSUME NEW S, NEW s \in Seq(S), s # <<>>
    PROVE  /\ Head(s) \in S /\ Head(s) \in Range(s)
           /\ Tail(s) \in Seq(S) /\ Len(Tail(s)) = Len(s) - 1 /\ Len(s) \in Nat \ {0}
           /\ Range(Tail(s)) \subseteq Range(s)
  <1>1. Len(s) \in Nat \ {0} /\ s \in [1 .. Len(s) -> S] /\ Head(s) = s[1]
    OBVIOUS
  <1>2. /\ Tail(s) \in Seq(S) /\ Len(Tail(s)) = Len(s) - 1
        /\ \A k \in 1 .. Len(Tail(s)) : Tail(s)[k] = s[k + 1]
    OBVIOUS
  <1>3. Range(Tail(s)) \subseteq Range(s)
    <2>1. SUFFICES ASSUME NEW k \in 1 .. Len(Tail(s)) PROVE \E j \in 1 .. Len(s) : s[j] = Tail(s)[k]
      BY <1>1, <1>2 DEF Range
    <2>2. k + 1 \in 1 .. Len(s) /\ Tail(s)[k] = s[k + 1]
      BY <1>1, <1>2
    <2> QED BY <2>2
  <1> QED BY <1>1, <1>2, <1>3 DEF Range

(* Links stay links: a name always stands for the same regular file, and   *)
(* nothing but its own name for the executable.                            *)
LEMMA Resolves ==
    FileTypes => \A n \in Name : /\ Target(n) = Resolved(n) /\ Resolved(n) \in Regular
                                 /\ n # Exe <=> Resolved(n) # Exe
  <1> SUFFICES ASSUME FileTypes, NEW n \in Name
               PROVE  /\ Target(n) = Resolved(n) /\ Resolved(n) \in Regular
                      /\ n # Exe <=> Resolved(n) # Exe
    OBVIOUS
  <1>1. CASE n \in DOMAIN Links
    <2>1. Links[n] \in Name \ (DOMAIN Links \union {Exe}) /\ n # Exe
      BY <1>1, FileUpdatesAssumption DEF FileUpdatesAssumption, Range
    <2> QED BY <1>1, <2>1 DEF FileTypes, Target, Resolved, Regular
  <1>2. CASE n \notin DOMAIN Links
    <2>1. dir[n] \notin Name
      BY <1>2, FileUpdatesAssumption DEF FileUpdatesAssumption, FileTypes
    <2> QED BY <1>2, <2>1 DEF Target, Resolved, Regular
  <1> QED BY <1>1, <1>2

LEMMA ResolvesNext == FileTypes' => \A n \in Name : Target(n)' = Resolved(n)
  <1>1. FileTypes => \A n \in Name : Target(n) = Resolved(n)
    BY Resolves
  <1>2. FileTypes' => (\A n \in Name : Target(n) = Resolved(n))'
    BY <1>1, PTL
  <1> QED BY <1>2 DEF Resolved

(* The file of a busy process: the executable for update, else another.    *)
LEMMA FileOf ==
    ASSUME FileTypes, Turns, NEW p \in Proc, todo[p] # <<>>
    PROVE  /\ File(p) = Resolved(Head(todo[p])) /\ File(p) \in Regular
           /\ Is(p, {"update"}) <=> File(p) = Exe
           /\ Made(p) \in Inode /\ Len(todo[p]) \in 1 .. MaxNames
  <1>1. /\ Head(todo[p]) \in Name /\ Head(todo[p]) \in Range(command[p].names)
        /\ Len(todo[p]) \in 1 .. MaxNames
    <2>1. Len(todo[p]) \in Nat \ {0} /\ Head(todo[p]) \in Name /\ Head(todo[p]) \in Range(todo[p])
      BY Tails DEF Turns
    <2>2. /\ Len(todo[p]) <= Len(command[p].names) /\ Len(command[p].names) \in Nat
          /\ Len(command[p].names) <= MaxNames /\ MaxNames \in Nat
      BY FileUpdatesAssumption DEF FileUpdatesAssumption, Turns
    <2> QED BY <2>1, <2>2 DEF Turns
  <1>2. Is(p, {"update"}) <=> Head(todo[p]) = Exe
    <2>1. command[p] \in Commands[p]
      BY DEF Turns
    <2>2. IF command[p].kind = "update" THEN command[p].names = <<Exe>> ELSE Exe \notin Range(command[p].names)
      BY <2>1, FileUpdatesAssumption DEF FileUpdatesAssumption
    <2>3. Range(<<Exe>>) = {Exe}
      BY DEF Range
    <2> QED BY <1>1, <2>2, <2>3 DEF Is
  <1>3. File(p) = Resolved(Head(todo[p])) /\ File(p) \in Regular /\ (Head(todo[p]) = Exe <=> File(p) = Exe)
    BY <1>1, Resolves DEF File, Current
  <1>4. Made(p) \in Inode
    BY <1>1, <1>3 DEF Made, Inode, Regular
  <1> QED BY <1>1, <1>2, <1>3, <1>4

LEMMA TextTypes ==
    /\ Nothing \in Texts /\ Text(Mixed, FALSE) \in Texts
    /\ \A s \in Texts : s = Text(s.of, s.formatted) /\ \A t \in Results(s) : t \in Texts /\ t.of = s.of
    /\ \A k \in 0 .. MaxEdits, b \in BOOLEAN : Text(k, b) \in Texts
  <1>1. /\ Nothing \in Texts /\ Text(Mixed, FALSE) \in Texts
        /\ \A k \in 0 .. MaxEdits, b \in BOOLEAN : Text(k, b) \in Texts
    BY DEF Nothing, Text, Texts, Origin
  <1>2. ASSUME NEW s \in Texts
        PROVE  s = Text(s.of, s.formatted) /\ \A t \in Results(s) : t \in Texts /\ t.of = s.of
    <2>1. s.of \in Origin /\ s.formatted \in BOOLEAN /\ s = Text(s.of, s.formatted)
      BY DEF Texts, Text
    <2>2. Text(s.of, TRUE) \in Texts /\ Text(s.of, TRUE).of = s.of
      BY <2>1 DEF Texts, Text
    <2>3. \A t \in Results(s) : t \in {s, Text(s.of, TRUE)}
      BY DEF Results
    <2> QED BY <2>1, <2>2, <2>3
  <1> QED BY <1>1, <1>2

LEMMA FilesInit == Init => FileTypes /\ Turns
  <1> SUFFICES ASSUME Init PROVE FileTypes /\ Turns
    OBVIOUS
  <1>1. \A n \in Name : <<User, 0, n>> \in Inode
    BY FileUpdatesAssumption DEF FileUpdatesAssumption, Inode
  <1>2. /\ DOMAIN dir = Name
        /\ \A n \in Name : IF n \in DOMAIN Links THEN dir[n] = Links[n] ELSE dir[n] \in Inode \union {Absent}
    BY <1>1 DEF Init
  <1>3. disk \in [Inode -> Texts]
    <2>1. Text(Running, TRUE) \in Texts /\ Text(0, FALSE) \in Texts
      BY FileUpdatesAssumption DEF FileUpdatesAssumption, Text, Texts, Origin
    <2> QED BY <2>1 DEF Init
  <1>4. plan \in [Proc -> Texts] /\ handle \in [Proc -> Inode \union {Absent}] /\ temps \subseteq Inode
    BY TextTypes DEF Init
  <1>5. /\ changed \in [Proc -> SUBSET Name]
        /\ edits \in 0 .. MaxEdits /\ faults \in 0 .. MaxFaults
        /\ edited \in [Name -> (0 .. MaxEdits) \union {Absent}]
    BY FileUpdatesAssumption DEF FileUpdatesAssumption, Init
  <1>6. ASSUME NEW p \in Proc
        PROVE  /\ command[p] \in Commands[p] /\ todo[p] = command[p].names
               /\ todo[p] \in Seq(Name) /\ pc[p] = "start"
    BY FileUpdatesAssumption DEF FileUpdatesAssumption, Init
  <1>7. Turns
    <2>1. todo \in [Proc -> Seq(Name)]
      BY <1>6 DEF Init
    <2> QED BY <1>6, <2>1 DEF Turns, Busy
  <1> QED BY <1>2, <1>3, <1>4, <1>5, <1>7 DEF FileTypes

(* A process goes on to x, with the same names or after the first of them. *)
Turn(p, x) ==
    /\ pc' = [pc EXCEPT ![p] = x] /\ UNCHANGED command
    /\ todo' = todo \/ (todo[p] # <<>> /\ todo' = [todo EXCEPT ![p] = Tail(@)])

LEMMA TurnsMove ==
    ASSUME Turns, LogTypes, NEW p \in Proc, NEW x \in Label, Turn(p, x), x # "start",
           x \in {"truncate", "write"} => Is(p, {"hook"}),
           x \in {"stage", "fill", "rename"} => Is(p, {"format", "update"}),
           x \in Busy => todo' = todo /\ todo[p] # <<>>,
           x = "fetch" => todo' = todo /\ pc[p] = "start" /\ Is(p, {"update"}),
           x \in {"look", "read"} /\ Is(p, {"update"}) => x = "look" /\ todo'[p] = <<>>
    PROVE  Turns'
  <1>1. todo' \in [Proc -> Seq(Name)]
    <2>1. todo[p] # <<>> => Tail(todo[p]) \in Seq(Name)
      BY Tails DEF Turns
    <2> QED BY <2>1 DEF Turns, Turn
  <1>2. \A q \in Proc \ {p} : pc'[q] = pc[q] /\ todo'[q] = todo[q] /\ command'[q] = command[q]
    BY DEF Turns, Turn, LogTypes
  <1>3. pc'[p] = x /\ command'[p] = command[p]
    BY DEF Turn, LogTypes
  <1>4. Len(todo'[p]) <= Len(command[p].names) /\ Range(todo'[p]) \subseteq Range(command[p].names)
    <2>1. CASE todo' = todo
      BY <2>1 DEF Turns
    <2>2. CASE todo' # todo
      <3>1. todo[p] # <<>> /\ todo'[p] = Tail(todo[p]) /\ todo[p] \in Seq(Name)
        BY <2>2 DEF Turn, Turns
      <3>2. /\ Len(Tail(todo[p])) = Len(todo[p]) - 1 /\ Len(todo[p]) \in Nat
            /\ Range(Tail(todo[p])) \subseteq Range(todo[p])
        BY <3>1, Tails
      <3>3. /\ Len(todo[p]) <= Len(command[p].names) /\ Len(command[p].names) \in Nat
            /\ Range(todo[p]) \subseteq Range(command[p].names)
        BY FileUpdatesAssumption DEF FileUpdatesAssumption, Turns
      <3>4. Len(Tail(todo[p])) <= Len(command[p].names)
        BY <3>2, <3>3
      <3> QED BY <3>1, <3>2, <3>3, <3>4
    <2> QED BY <2>1, <2>2
  <1>5. ASSUME NEW q \in Proc
        PROVE  /\ command'[q] \in Commands[q]
               /\ Len(todo'[q]) <= Len(command'[q].names) /\ Range(todo'[q]) \subseteq Range(command'[q].names)
               /\ pc'[q] \in {"truncate", "write"} => Is(q, {"hook"})'
               /\ pc'[q] \in {"stage", "fill", "rename"} => Is(q, {"format", "update"})'
               /\ pc'[q] \in Busy => todo'[q] # <<>>
               /\ pc'[q] \in {"start", "fetch"} => todo'[q] = command'[q].names
               /\ pc'[q] = "fetch" => Is(q, {"update"})'
               /\ pc'[q] = "look" /\ Is(q, {"update"})' => todo'[q] = <<>>
               /\ pc'[q] = "read" => ~Is(q, {"update"})'
    <2>1. CASE q = p
      BY <1>3, <1>4, <2>1 DEF Turns, Is, Busy
    <2>2. CASE q # p
      BY <1>2, <2>2 DEF Turns, Is
    <2> QED BY <2>1, <2>2
  <1> QED BY <1>1, <1>5 DEF Turns

LEMMA TurnsStay == ASSUME Turns, UNCHANGED <<pc, todo, command>> PROVE Turns'
  BY DEF Turns, Is

LEMMA TurnsStep == Turns /\ LogInv /\ [Next]_vars => Turns'
  <1> SUFFICES ASSUME Turns, LogInv, [Next]_vars PROVE Turns'
    OBVIOUS
  <1> USE DEF Label
  <1>1. LogTypes
    BY DEF LogInv
  <1>2. ASSUME NEW p \in Proc,
               \/ Start(p) \/ StatLog(p) \/ Rotate(p) \/ OpenLog(p) \/ Return(p) \/ Clean(p)
        PROVE  Turns'
    <2>1. PICK x \in Label : /\ pc' = [pc EXCEPT ![p] = x]
                             /\ x \in {"statlog", "rotate", "openlog", "look", "fetch", "clean", "done", "failed"}
                             /\ x = "fetch" => pc[p] = "start" /\ Is(p, {"update"})
                             /\ x = "look" /\ Is(p, {"update"}) => pc[p] # "start"
      BY <1>2 DEF Start, StatLog, Rotate, OpenLog, Return, Clean, Goto, Is
    <2>2. UNCHANGED <<todo, command>>
      BY <1>2 DEF Start, StatLog, Rotate, OpenLog, Return, Clean
    <2>3. Turn(p, x)
      BY <2>1, <2>2 DEF Turn
    <2>4. x = "look" => ~Is(p, {"update"})
      <3>1. pc[p] \in {"statlog", "rotate", "openlog"} => command[p].kind = "hook"
        BY DEF LogInv, OnlyHooksLog
      <3>2. x = "look" => pc[p] \in {"start", "rotate", "openlog"}
        BY <1>2, <2>1, <1>1 DEF Start, StatLog, Rotate, OpenLog, Return, Clean, Goto, LogTypes
      <3> QED BY <2>1, <3>1, <3>2 DEF Is
    <2> QED BY <1>1, <2>1, <2>2, <2>3, <2>4, TurnsMove DEF Busy
  <1>3. ASSUME NEW p \in Proc, LookFails(p) \/ Fetch(p) \/ Crash(p) \/ StageFails(p) PROVE Turns'
    <2>1. PICK x \in {"failed", "done", "stage", "killed"} :
            pc' = [pc EXCEPT ![p] = x] /\ (x = "stage" => pc[p] = "fetch")
      BY <1>3 DEF LookFails, Fetch, Crash, StageFails, Goto
    <2>2. Turn(p, x) /\ todo' = todo
      BY <1>3, <2>1 DEF LookFails, Fetch, Crash, StageFails, Turn
    <2>3. x = "stage" => Is(p, {"format", "update"}) /\ todo[p] # <<>>
      <3>1. pc[p] = "fetch" => Is(p, {"update"}) /\ todo[p] = command[p].names /\ command[p] \in Commands[p]
        BY DEF Turns
      <3>2. command[p].kind = "update" /\ command[p] \in Commands[p] => command[p].names = <<Exe>>
        BY FileUpdatesAssumption DEF FileUpdatesAssumption
      <3>3. <<Exe>> # <<>>
        OBVIOUS
      <3> QED BY <2>1, <3>1, <3>2, <3>3 DEF Is
    <2> QED BY <1>1, <2>1, <2>2, <2>3, TurnsMove DEF Busy
  <1>4. ASSUME NEW p \in Proc, Skip(p) PROVE Turns'
    <2>1. Looking(p) /\ Next_(p) /\ UNCHANGED <<pc, command>>
      BY <1>4 DEF Skip
    <2>2. Turn(p, "look") /\ todo[p] # <<>> /\ pc[p] = "look"
      BY <2>1, <1>1 DEF Turn, Looking, Next_, LogTypes
    <2>3. ~Is(p, {"update"})
      BY <2>2 DEF Turns
    <2> QED BY <1>1, <2>2, <2>3, TurnsMove DEF Busy
  <1>5. ASSUME NEW p \in Proc, Select(p) \/ Read(p) \/ Truncate(p) \/ Stage(p) \/ Fill(p) PROVE Turns'
    <2>1. PICK x \in {"read", "truncate", "stage", "write", "fill", "rename"} :
            /\ pc' = [pc EXCEPT ![p] = x]
            /\ x = "read" => Looking(p)
            /\ x = "truncate" => Is(p, {"hook"})
            /\ x = "stage" => Is(p, {"format"})
            /\ x = "write" => pc[p] = "truncate"
            /\ x \in {"fill", "rename"} => pc[p] \in {"stage", "fill"}
      BY <1>5 DEF Select, Read, Truncate, Stage, Fill, Goto, Is
    <2>2. Turn(p, x) /\ todo' = todo /\ (pc[p] \in Busy \/ Looking(p))
      BY <1>5, <2>1 DEF Select, Read, Differs, Truncate, Stage, Fill, Turn, Busy
    <2>3. todo[p] # <<>> /\ (Looking(p) => ~Is(p, {"update"}))
      BY <2>2 DEF Turns, Looking
    <2>4. /\ x \in {"truncate", "write"} => Is(p, {"hook"})
          /\ x \in {"stage", "fill", "rename"} => Is(p, {"format", "update"})
      BY <2>1 DEF Turns, Is
    <2> QED BY <1>1, <2>1, <2>2, <2>3, <2>4, TurnsMove DEF Busy
  <1>6. ASSUME NEW p \in Proc,
               ReadMissing(p) \/ Unchanged(p) \/ Report(p) \/ Write(p) \/ WriteFails(p) \/ Rename(p)
        PROVE  Turns'
    <2>1. PICK x \in {"look", "failed"} : pc' = [pc EXCEPT ![p] = x] /\ (x = "look" => Next_(p))
      BY <1>6 DEF ReadMissing, Unchanged, Report, Write, WriteFails, Rename, Goto
    <2>2. pc[p] \in {"read", "write", "rename"} /\ UNCHANGED command /\ (x = "failed" => todo' = todo)
      BY <1>6, <2>1, <1>1 DEF ReadMissing, Unchanged, Report, Differs, Write, WriteFails, Rename, Goto, LogTypes
    <2>3. todo[p] # <<>> /\ (pc[p] \in {"read", "write"} => ~Is(p, {"update"}))
      BY <2>2 DEF Turns, Busy, Is
    <2>4. Turn(p, x)
      BY <2>1, <2>2, <2>3 DEF Turn, Next_
    <2>5. x = "look" /\ Is(p, {"update"}) => todo'[p] = <<>>
      <3>1. SUFFICES ASSUME x = "look", Is(p, {"update"}) PROVE todo'[p] = <<>>
        OBVIOUS
      <3>2. Len(todo[p]) = 1
        <4>1. command[p].names = <<Exe>>
          BY <3>1, FileUpdatesAssumption DEF FileUpdatesAssumption, Turns, Is
        <4>2. Len(todo[p]) <= 1
          <5>1. Len(todo[p]) <= Len(command[p].names)
            BY DEF Turns
          <5>2. Len(<<Exe>>) = 1
            OBVIOUS
          <5> QED BY <4>1, <5>1, <5>2
        <4>3. todo[p] \in Seq(Name) /\ todo[p] # <<>>
          BY <2>3 DEF Turns
        <4>4. Len(todo[p]) \in Nat \ {0}
          BY <4>3, Tails
        <4>5. \A k \in Nat \ {0} : k <= 1 => k = 1
          OBVIOUS
        <4> QED BY <4>2, <4>4, <4>5
      <3>3. todo[p] \in Seq(Name) /\ todo'[p] = Tail(todo[p])
        BY <2>1, <3>1 DEF Next_, Turns
      <3>4. Tail(todo[p]) \in Seq(Name) /\ Len(Tail(todo[p])) = 0
        BY <3>2, <3>3, <2>3, Tails
      <3> QED BY <3>3, <3>4, EmptySeq
    <2> QED BY <1>1, <2>1, <2>2, <2>3, <2>4, <2>5, TurnsMove DEF Busy
  <1>7. ASSUME NEW n \in Touched, Edit(n) \/ Delete(n) PROVE Turns'
    BY <1>7, TurnsStay DEF Edit, Delete
  <1>8. CASE Tick \/ UNCHANGED vars
    BY <1>8, TurnsStay DEF Tick, vars
  <1> QED BY <1>2, <1>3, <1>4, <1>5, <1>6, <1>7, <1>8 DEF Next

LEMMA FileTypesStep == FileTypes /\ Turns /\ LogTypes /\ [Next]_vars => FileTypes'
  <1> SUFFICES ASSUME FileTypes, Turns, LogTypes, [Next]_vars PROVE FileTypes'
    OBVIOUS
  <1> DEFINE Faulty == faults' = faults \/ (faults < MaxFaults /\ faults' = faults + 1)
  <1> DEFINE Marked == \E p \in Proc : todo[p] # <<>> /\ changed' = [changed EXCEPT ![p] = @ \union {Current(p)}]
  <1>1. ASSUME Faulty PROVE faults' \in 0 .. MaxFaults
    BY <1>1, FileUpdatesAssumption DEF FileUpdatesAssumption, FileTypes
  <1>2. ASSUME changed' = changed \/ Marked PROVE changed' \in [Proc -> SUBSET Name]
    <2>1. \A p \in Proc : todo[p] # <<>> => Current(p) \in Name
      BY Tails DEF Turns, Current
    <2> QED BY <1>2, <2>1 DEF FileTypes
  <1>3. ASSUME NEW p \in Proc,
               \/ Start(p) \/ StatLog(p) \/ Rotate(p) \/ OpenLog(p) \/ Return(p) \/ Clean(p)
               \/ Skip(p) \/ LookFails(p) \/ Select(p) \/ ReadMissing(p) \/ Unchanged(p) \/ Report(p)
               \/ Crash(p)
        PROVE  FileTypes'
    <2>1. UNCHANGED <<tree, plan, handle, edits, edited>>
      BY <1>3 DEF Start, StatLog, Rotate, OpenLog, Return, Clean, Skip, LookFails, Select, ReadMissing,
                  Unchanged, Report, Crash, history
    <2>2. Faulty
      BY <1>3 DEF Start, StatLog, Rotate, OpenLog, Return, Clean, Skip, LookFails, Select, ReadMissing,
                  Unchanged, Report, Crash
    <2>3. changed' = changed \/ Marked
      <3>1. Report(p) => todo[p] # <<>>
        BY DEF Report, Differs, Turns, Busy
      <3> QED BY <1>3, <3>1 DEF Start, StatLog, Rotate, OpenLog, Return, Clean, Skip, LookFails, Select,
                                ReadMissing, Unchanged, Report, Crash
    <2> HIDE DEF Faulty, Marked
    <2> QED BY <1>1, <1>2, <2>1, <2>2, <2>3 DEF FileTypes, tree
  <1>4. ASSUME NEW p \in Proc, Read(p) \/ Fetch(p) PROVE FileTypes'
    <2>1. UNCHANGED <<tree, handle, changed, edits, faults, edited>>
      BY <1>4 DEF Read, Fetch, history
    <2>2. plan' \in [Proc -> Texts]
      <3>1. CASE Read(p)
        <4>1. dir[File(p)] \in Inode
          <5>1. todo[p] # <<>> /\ Exists(Current(p))
            BY <3>1 DEF Read, Differs, Turns, Busy
          <5>2. File(p) \in Regular
            BY <5>1, FileOf
          <5> QED BY <5>1, <5>2 DEF FileTypes, Regular, Exists, File
        <4>2. \A t \in Results(disk[dir[File(p)]]) : t \in Texts
          BY <4>1, TextTypes DEF FileTypes
        <4> QED BY <3>1, <4>2 DEF Read, FileTypes
      <3>2. CASE Fetch(p)
        <4>1. command[p].release \in Release
          BY DEF Release, Turns
        <4>2. Text(command[p].release, TRUE) \in Texts
          BY <4>1 DEF Text, Texts, Origin
        <4>3. \/ plan' = plan
              \/ plan' = [plan EXCEPT ![p] = Text(command[p].release, TRUE)]
          BY <3>2, FileUpdatesAssumption DEF FileUpdatesAssumption, Fetch, Verifies, Downloads, Checksums
        <4> QED BY <4>2, <4>3 DEF FileTypes
      <3> QED BY <1>4, <3>1, <3>2
    <2> QED BY <2>1, <2>2 DEF FileTypes, tree
  <1>5. ASSUME NEW p \in Proc, Truncate(p) PROVE FileTypes'
    <2>1. todo[p] # <<>>
      BY <1>5 DEF Truncate, Turns, Busy
    <2>2. File(p) \in Regular /\ Made(p) \in Inode
      BY <2>1, FileOf
    <2>3. PICK i \in Inode : /\ dir' = [dir EXCEPT ![File(p)] = i]
                             /\ disk' = [disk EXCEPT ![i] = Nothing]
                             /\ handle' = [handle EXCEPT ![p] = i]
      BY <1>5, <2>2 DEF Truncate, FileTypes, Regular
    <2>4. UNCHANGED <<temps, plan, changed, edits, faults, edited>>
      BY <1>5 DEF Truncate, history
    <2> QED BY <2>2, <2>3, <2>4, TextTypes DEF FileTypes, Regular
  <1>6. ASSUME NEW p \in Proc, Write(p) \/ WriteFails(p) PROVE FileTypes'
    <2>1. PICK s \in Texts : disk' = [disk EXCEPT ![handle[p]] = s]
      BY <1>6, TextTypes DEF Write, WriteFails, Written, FileTypes
    <2>2. UNCHANGED <<dir, temps, plan, edits, edited>> /\ handle' = [handle EXCEPT ![p] = Absent]
      BY <1>6 DEF Write, WriteFails
    <2>3. Faulty
      BY <1>6 DEF Write, WriteFails
    <2>4. changed' = changed \/ Marked
      <3>1. todo[p] # <<>>
        BY <1>6 DEF Write, WriteFails, Turns, Busy
      <3> QED BY <1>6, <3>1 DEF Write, WriteFails
    <2> HIDE DEF Faulty, Marked
    <2> QED BY <1>1, <1>2, <2>1, <2>2, <2>3, <2>4 DEF FileTypes
  <1>7. ASSUME NEW p \in Proc, Stage(p) \/ Fill(p) \/ StageFails(p) PROVE FileTypes'
    <2>1. todo[p] # <<>>
      BY <1>7 DEF Stage, Fill, StageFails, Turns, Busy
    <2>2. Made(p) \in Inode
      BY <2>1, FileOf
    <2>3. disk' \in [Inode -> Texts]
      BY <1>7, TextTypes DEF Stage, Fill, StageFails, FileTypes
    <2>4. temps' \subseteq Inode
      BY <1>7, <2>2 DEF Stage, Fill, StageFails, FileTypes
    <2>5. UNCHANGED <<dir, plan, handle, changed, edits, edited>>
      BY <1>7 DEF Stage, Fill, StageFails, history
    <2>6. Faulty
      BY <1>7 DEF Stage, Fill, StageFails
    <2> HIDE DEF Faulty
    <2> QED BY <1>1, <2>3, <2>4, <2>5, <2>6 DEF FileTypes
  <1>8. ASSUME NEW p \in Proc, Rename(p) PROVE FileTypes'
    <2>1. todo[p] # <<>>
      BY <1>8 DEF Rename, Turns, Busy
    <2>2. File(p) \in Regular /\ Made(p) \in Inode
      BY <2>1, FileOf
    <2>3. /\ dir' = [dir EXCEPT ![File(p)] = Made(p)] /\ temps' \subseteq temps
          /\ UNCHANGED <<disk, plan, handle, edits, faults, edited>>
      BY <1>8 DEF Rename
    <2>4. Marked
      BY <1>8, <2>1 DEF Rename
    <2> HIDE DEF Marked
    <2> QED BY <1>2, <2>2, <2>3, <2>4 DEF FileTypes, Regular
  <1>9. ASSUME NEW n \in Touched, Edit(n) \/ Delete(n) PROVE FileTypes'
    <2>1. n \in Regular
      BY FileUpdatesAssumption DEF FileUpdatesAssumption, Regular
    <2>2. edits' \in 0 .. MaxEdits /\ edits' = edits + 1
      <3>1. MaxEdits \in Nat
        BY FileUpdatesAssumption DEF FileUpdatesAssumption
      <3>2. edits \in 0 .. MaxEdits /\ edits < MaxEdits /\ edits' = edits + 1
        BY <1>9 DEF Edit, Delete, FileTypes
      <3> QED BY <3>1, <3>2
    <2>3. PICK i \in Inode : /\ dir' \in {[dir EXCEPT ![n] = i], [dir EXCEPT ![n] = Absent]}
                             /\ disk' \in {disk, [disk EXCEPT ![i] = Text(edits + 1, FALSE)]}
      <3>1. CASE Edit(n)
        <4>1. <<User, edits + 1, n>> \in Inode
          BY <2>1, <2>2 DEF Inode, Regular
        <4> QED BY <3>1, <4>1, <2>1 DEF Edit, FileTypes, Regular
      <3>2. CASE Delete(n)
        BY <3>2, <2>1 DEF Delete, FileTypes, Regular
      <3> QED BY <1>9, <3>1, <3>2
    <2>4. Text(edits + 1, FALSE) \in Texts
      BY <2>2, TextTypes
    <2>5. UNCHANGED <<temps, plan, handle, changed, faults>> /\ edited' \in {[edited EXCEPT ![n] = edits + 1], [edited EXCEPT ![n] = Absent]}
      BY <1>9 DEF Edit, Delete
    <2>6. edited' \in [Name -> (0 .. MaxEdits) \union {Absent}]
      BY <2>2, <2>5 DEF FileTypes
    <2>7. disk' \in [Inode -> Texts]
      BY <2>3, <2>4 DEF FileTypes
    <2> QED BY <2>1, <2>2, <2>3, <2>5, <2>6, <2>7 DEF FileTypes, Regular
  <1>10. CASE Tick \/ UNCHANGED vars
    BY <1>10 DEF Tick, vars, tree, history, FileTypes
  <1> QED BY <1>3, <1>4, <1>5, <1>6, <1>7, <1>8, <1>9, <1>10 DEF Next

-----------------------------------------------------------------------------
(* Inodes.  One is only ever bound to the name it was made for; and what a *)
(* process stages is its own until it takes its name.                      *)

Homes == \A n \in Regular : dir[n] # Absent => dir[n][3] = n

Handles ==
    \A p \in Proc : /\ pc[p] = "write" => handle[p] # Absent
                    /\ handle[p] # Absent => /\ Is(p, {"hook"}) /\ pc[p] \in {"write", "killed"}
                                             /\ todo[p] # <<>> /\ handle[p][3] = File(p)

Unused ==
    \A p \in Proc, k \in Nat, n \in Name :
        ~Is(p, {"hook"}) /\ 0 < k /\ k <= Len(todo[p]) =>
            /\ \A m \in Name : dir[m] # <<p, k, n>>
            /\ \A q \in Proc : handle[q] # <<p, k, n>>

Temporaries ==
    \A i \in temps : \E p \in Proc :
        /\ ~Is(p, {"hook"}) /\ todo[p] # <<>> /\ i = Made(p)
        /\ pc[p] \in {"fill", "rename", "killed"}

Bindings == Homes /\ Handles /\ Unused /\ Temporaries

Sound == LogTypes /\ FileTypes /\ Turns

LEMMA BindingsInit == Init => Bindings
  <1> SUFFICES ASSUME Init PROVE Bindings
    OBVIOUS
  <1>1. Homes
    BY DEF Init, Homes, Regular
  <1>2. Handles /\ Temporaries
    <2>1. handle = [p \in Proc |-> Absent] /\ pc = [p \in Proc |-> "start"] /\ temps = {}
      BY DEF Init
    <2> QED BY <2>1 DEF Handles, Temporaries
  <1>3. Unused
    <2>1. \A m \in Name : dir[m] \in Name \/ dir[m] = <<User, 0, m>>
      BY FileUpdatesAssumption DEF FileUpdatesAssumption, Init, Range
    <2>2. ASSUME NEW p \in Proc, NEW k \in Nat, NEW n \in Name, 0 < k, k <= Len(todo[p])
          PROVE  <<p, k, n>> \notin Name /\ p # User /\ <<p, k, n>> # Absent
      <3>1. k \in 1 .. MaxNames
        <4>1. PICK c \in Commands[p] : todo[p] = c.names
          BY DEF Init
        <4>2. Len(c.names) \in Nat /\ Len(c.names) <= MaxNames /\ MaxNames \in Nat
          BY FileUpdatesAssumption DEF FileUpdatesAssumption
        <4> QED BY <2>2, <4>1, <4>2
      <3>2. <<p, k, n>> \in Inode
        BY <3>1 DEF Inode
      <3> QED BY <3>2, FileUpdatesAssumption DEF FileUpdatesAssumption
    <2>3. \A q \in Proc : handle[q] = Absent
      BY DEF Init
    <2>4. \A p, k, n : p # User => \A m : <<p, k, n>> # <<User, 0, m>>
        OBVIOUS
    <2>5. \A p \in Proc, k \in Nat, n \in Name : 0 < k /\ k <= Len(todo[p]) =>
            \A m \in Name : dir[m] # <<p, k, n>>
      BY <2>1, <2>4, <2>2
    <2>6. \A p \in Proc, k \in Nat, n \in Name : 0 < k /\ k <= Len(todo[p]) =>
            \A q \in Proc : handle[q] # <<p, k, n>>
      BY <2>3, <2>2
    <2> QED BY <2>5, <2>6 DEF Unused
  <1> QED BY <1>1, <1>2, <1>3 DEF Bindings

LEMMA FileStays ==
    ASSUME Sound, Sound', NEW p \in Proc, todo[p] # <<>>, todo'[p] = todo[p]
    PROVE  File(p)' = File(p) /\ Made(p)' = Made(p)
  <1>1. FileTypes' /\ Turns' /\ todo'[p] # <<>>
    BY DEF Sound
  <1>2. File(p) = Resolved(Head(todo[p]))
    BY FileOf DEF Sound
  <1>3. File(p)' = Resolved(Head(todo'[p]))
    <2>1. \A n \in Name : Target(n)' = Resolved(n)
      BY <1>1, ResolvesNext
    <2> QED BY <2>1, <1>1, Tails DEF File, Current, Turns
  <1> QED BY <1>2, <1>3 DEF Made

LEMMA FewerLeft ==
    ASSUME Turns, NEW p \in Proc, NEW x \in Label, Turn(p, x)
    PROVE  /\ \A q \in Proc : Len(todo'[q]) <= Len(todo[q]) /\ Len(todo[q]) \in Nat /\ Len(todo'[q]) \in Nat
           /\ \A q \in Proc \ {p} : todo'[q] = todo[q]
           /\ todo' # todo => Len(todo'[p]) < Len(todo[p])
  <1>1. \A q \in Proc : Len(todo[q]) \in Nat
    BY DEF Turns
  <1>2. CASE todo' = todo
    BY <1>1, <1>2
  <1>3. CASE todo' # todo
    <2>1. todo[p] # <<>> /\ todo' = [todo EXCEPT ![p] = Tail(@)] /\ todo[p] \in Seq(Name)
      BY <1>3 DEF Turn, Turns
    <2>2. Len(Tail(todo[p])) = Len(todo[p]) - 1 /\ Len(todo[p]) \in Nat \ {0}
      BY <2>1, Tails
    <2>3. todo'[p] = Tail(todo[p]) /\ \A q \in Proc \ {p} : todo'[q] = todo[q]
      BY <2>1 DEF Turns
    <2>4. Len(todo'[p]) < Len(todo[p]) /\ Len(todo'[p]) \in Nat /\ Len(todo'[p]) <= Len(todo[p])
      BY <2>2, <2>3
    <2>5. \A q \in Proc \ {p} : Len(todo'[q]) <= Len(todo[q]) /\ Len(todo'[q]) \in Nat
      BY <1>1, <2>3
    <2> QED BY <1>1, <2>3, <2>4, <2>5
  <1> QED BY <1>2, <1>3

(* Nothing is bound, opened or staged in the step.                         *)
LEMMA BindingsCalm ==
    ASSUME Sound, Sound', Bindings, NEW p \in Proc, NEW x \in Label, Turn(p, x),
           UNCHANGED <<dir, temps, handle>>,
           \/ pc[p] \notin {"write", "fill", "rename", "killed"} /\ x # "write"
           \/ todo' = todo /\ (x = "killed" \/ (x = "rename" /\ pc[p] = "fill"))
    PROVE  Bindings'
  <1>1. Homes'
    BY DEF Bindings, Homes
  <1>2. /\ \A q \in Proc \ {p} : todo'[q] = todo[q] /\ pc'[q] = pc[q]
        /\ pc'[p] = x /\ command' = command
    BY FewerLeft DEF Sound, Turn, LogTypes
  <1>3. \A q \in Proc : todo[q] # <<>> /\ todo'[q] = todo[q] => File(q)' = File(q) /\ Made(q)' = Made(q)
    BY FileStays
  <1>4. Handles'
    <2>1. SUFFICES ASSUME NEW q \in Proc
                   PROVE  /\ pc'[q] = "write" => handle[q] # Absent
                          /\ handle[q] # Absent => /\ Is(q, {"hook"}) /\ pc'[q] \in {"write", "killed"}
                                                   /\ todo'[q] # <<>> /\ handle[q][3] = File(q)'
      BY <1>2 DEF Handles, Is
    <2>2. CASE q # p
      BY <1>2, <1>3, <2>2 DEF Bindings, Handles
    <2>3. CASE q = p /\ handle[p] = Absent
      BY <1>2, <2>3 DEF Bindings, Handles
    <2>4. CASE q = p /\ handle[p] # Absent
      <3>1. Is(p, {"hook"}) /\ pc[p] \in {"write", "killed"} /\ todo[p] # <<>> /\ handle[p][3] = File(p)
        BY <2>4 DEF Bindings, Handles
      <3> QED BY <1>2, <1>3, <2>4, <3>1
    <2> QED BY <2>2, <2>3, <2>4
  <1>5. Unused'
    <2>1. SUFFICES ASSUME NEW q \in Proc, NEW k \in Nat, NEW n \in Name,
                          ~Is(q, {"hook"})', 0 < k, k <= Len(todo'[q])
                   PROVE  (\A m \in Name : dir[m] # <<q, k, n>>) /\ \A y \in Proc : handle[y] # <<q, k, n>>
      BY DEF Unused
    <2>2. ~Is(q, {"hook"}) /\ k <= Len(todo[q])
      BY <1>2, <2>1, FewerLeft DEF Is, Sound
    <2> QED BY <2>1, <2>2 DEF Bindings, Unused
  <1>6. Temporaries'
    <2>1. SUFFICES ASSUME NEW i \in temps
                   PROVE  \E q \in Proc : /\ ~Is(q, {"hook"})' /\ todo'[q] # <<>> /\ i = Made(q)'
                                          /\ pc'[q] \in {"fill", "rename", "killed"}
      BY DEF Temporaries
    <2>2. PICK q \in Proc : /\ ~Is(q, {"hook"}) /\ todo[q] # <<>> /\ i = Made(q)
                            /\ pc[q] \in {"fill", "rename", "killed"}
      BY DEF Bindings, Temporaries
    <2>3. todo'[q] = todo[q] /\ pc'[q] \in {"fill", "rename", "killed"}
      BY <1>2, <2>2
    <2>4. Made(q)' = Made(q) /\ Is(q, {"hook"})' = Is(q, {"hook"})
      BY <1>2, <1>3, <2>2, <2>3 DEF Is
    <2> QED BY <2>2, <2>3, <2>4
  <1> QED BY <1>1, <1>4, <1>5, <1>6 DEF Bindings

LEMMA BindingsTruncate ==
    ASSUME Sound, Sound', Bindings, NEW p \in Proc, Truncate(p) PROVE Bindings'
  <1>1. todo[p] # <<>> /\ Is(p, {"hook"})
    BY DEF Truncate, Sound, Turns, Busy
  <1>2. File(p) \in Regular /\ File(p) \in Name /\ Made(p) = <<p, Len(todo[p]), File(p)>>
    BY <1>1, FileOf DEF Sound, Regular, Made
  <1>3. PICK i : /\ i = IF dir[File(p)] = Absent THEN Made(p) ELSE dir[File(p)]
                 /\ dir' = [dir EXCEPT ![File(p)] = i]
                 /\ handle' = [handle EXCEPT ![p] = i]
    BY DEF Truncate
  <1>4. /\ pc' = [pc EXCEPT ![p] = "write"] /\ pc'[p] = "write"
        /\ \A q \in Proc \ {p} : pc'[q] = pc[q] /\ handle'[q] = handle[q]
        /\ handle'[p] = i /\ UNCHANGED <<temps, command, todo>>
    BY <1>3 DEF Truncate, Goto, Sound, LogTypes, FileTypes
  <1>5. i[3] = File(p) /\ i # Absent
    <2>1. CASE dir[File(p)] = Absent
      <3>1. i # Absent
        <4>1. Made(p) \in Inode
          BY <1>1, FileOf DEF Sound
        <4> QED BY <4>1, <1>3, <2>1, FileUpdatesAssumption DEF FileUpdatesAssumption
      <3> QED BY <1>2, <1>3, <2>1, <3>1
    <2>2. CASE dir[File(p)] # Absent
      BY <1>2, <1>3, <2>2 DEF Bindings, Homes
    <2> QED BY <2>1, <2>2
  <1>6. \A n \in Name : dir'[n] = IF n = File(p) THEN i ELSE dir[n]
    BY <1>2, <1>3 DEF Sound, FileTypes
  <1>7. Homes'
    BY <1>2, <1>5, <1>6 DEF Bindings, Homes, Regular
  <1>8. \A q \in Proc : todo[q] # <<>> => File(q)' = File(q) /\ Made(q)' = Made(q)
    BY <1>4, FileStays
  <1>9. Handles'
    BY <1>1, <1>4, <1>5, <1>8 DEF Bindings, Handles, Is
  <1>10. Unused'
    <2>1. \A q \in Proc, k \in Nat, n \in Name : ~Is(q, {"hook"}) => <<q, k, n>> # Made(p)
      BY <1>1, <1>2
    <2>2. ASSUME NEW q \in Proc, NEW k \in Nat, NEW n \in Name, ~Is(q, {"hook"}), 0 < k, k <= Len(todo[q])
          PROVE  (\A m \in Name : dir[m] # <<q, k, n>>) /\ \A y \in Proc : handle[y] # <<q, k, n>>
      BY <2>2 DEF Bindings, Unused
    <2>3. ASSUME NEW q \in Proc, NEW k \in Nat, NEW n \in Name, ~Is(q, {"hook"}), 0 < k, k <= Len(todo[q])
          PROVE  /\ i # <<q, k, n>> /\ (\A m \in Name : dir'[m] # <<q, k, n>>)
                 /\ \A y \in Proc : handle'[y] # <<q, k, n>>
      <3>1. i # <<q, k, n>>
        <4>1. dir[File(p)] # <<q, k, n>>
          BY <1>2, <2>2, <2>3
        <4> QED BY <1>3, <2>1, <2>3, <4>1
      <3>2. \A m \in Name : dir'[m] # <<q, k, n>>
        BY <1>6, <2>2, <2>3, <3>1
      <3>3. \A y \in Proc : handle'[y] # <<q, k, n>>
        <4>1. \A y \in Proc : handle[y] # <<q, k, n>>
          BY <2>2, <2>3
        <4> QED BY <1>4, <3>1, <4>1
      <3> QED BY <3>1, <3>2, <3>3
    <2> QED BY <1>4, <2>3 DEF Unused, Is
  <1>11. Temporaries'
    <2>1. \A q \in Proc : ~Is(q, {"hook"}) => q # p
      BY <1>1
    <2> QED BY <1>4, <1>8, <2>1 DEF Bindings, Temporaries, Is
  <1> QED BY <1>7, <1>9, <1>10, <1>11 DEF Bindings

LEMMA BindingsWrite ==
    ASSUME Sound, Sound', Bindings, NEW p \in Proc, Write(p) \/ WriteFails(p) PROVE Bindings'
  <1>1. /\ pc' = [pc EXCEPT ![p] = "look"] /\ UNCHANGED <<dir, temps, command>>
        /\ handle' = [handle EXCEPT ![p] = Absent] /\ Next_(p) /\ pc[p] = "write"
    BY DEF Write, WriteFails, Goto
  <1>2. todo[p] # <<>>
    BY <1>1 DEF Sound, Turns, Busy
  <1>3. Turn(p, "look")
    BY <1>1, <1>2 DEF Turn, Next_
  <1>4. /\ \A q \in Proc \ {p} : todo'[q] = todo[q] /\ pc'[q] = pc[q] /\ handle'[q] = handle[q]
        /\ pc'[p] = "look" /\ handle'[p] = Absent
    BY <1>1, <1>3, FewerLeft DEF Sound, LogTypes, FileTypes, Label
  <1>5. \A q \in Proc \ {p} : todo[q] # <<>> => File(q)' = File(q) /\ Made(q)' = Made(q)
    BY <1>4, FileStays
  <1>6. Homes'
    BY <1>1 DEF Bindings, Homes
  <1>7. Handles'
    BY <1>1, <1>4, <1>5 DEF Bindings, Handles, Is
  <1>8. Unused'
    <2>1. SUFFICES ASSUME NEW q \in Proc, NEW k \in Nat, NEW n \in Name,
                          ~Is(q, {"hook"})', 0 < k, k <= Len(todo'[q])
                   PROVE  (\A m \in Name : dir[m] # <<q, k, n>>) /\ \A y \in Proc : handle'[y] # <<q, k, n>>
      BY <1>1 DEF Unused
    <2>2. ~Is(q, {"hook"}) /\ k <= Len(todo[q])
      BY <1>1, <1>3, <2>1, FewerLeft DEF Is, Sound, Label
    <2>3. <<q, k, n>> # Absent
      <3>1. k \in 1 .. MaxNames
        <4>1. Len(todo[q]) \in Nat /\ Len(todo[q]) <= Len(command[q].names) /\ command[q] \in Commands[q]
          BY DEF Sound, Turns
        <4>2. Len(command[q].names) \in Nat /\ Len(command[q].names) <= MaxNames /\ MaxNames \in Nat
          BY <4>1, FileUpdatesAssumption DEF FileUpdatesAssumption
        <4> QED BY <2>1, <2>2, <4>1, <4>2
      <3>2. <<q, k, n>> \in Inode
        BY <3>1 DEF Inode
      <3> QED BY <3>2, FileUpdatesAssumption DEF FileUpdatesAssumption
    <2> QED BY <1>4, <2>1, <2>2, <2>3 DEF Bindings, Unused
  <1>9. Temporaries'
    <2>1. Is(p, {"hook"})
      BY <1>1 DEF Sound, Turns
    <2>2. \A q \in Proc : ~Is(q, {"hook"}) => q # p
      BY <2>1
    <2> QED BY <1>1, <1>4, <1>5, <2>2 DEF Bindings, Temporaries, Is
  <1> QED BY <1>6, <1>7, <1>8, <1>9 DEF Bindings

(* What is staged is bound to nothing and open to nobody else.             *)
LEMMA OwnInode ==
    ASSUME Sound, Bindings, NEW p \in Proc, ~Is(p, {"hook"}), todo[p] # <<>>
    PROVE  /\ \A m \in Name : dir[m] # Made(p)
           /\ \A q \in Proc : handle[q] # Made(p)
  <1>1. Len(todo[p]) \in Nat /\ 0 < Len(todo[p]) /\ File(p) \in Name
    BY FileOf DEF Sound, Regular
  <1>2. Made(p) = <<p, Len(todo[p]), File(p)>> /\ Len(todo[p]) <= Len(todo[p])
    BY <1>1 DEF Made
  <1> QED BY <1>1, <1>2 DEF Bindings, Unused

LEMMA BindingsStage ==
    ASSUME Sound, Sound', Bindings, NEW p \in Proc, Stage(p) \/ StageFails(p) PROVE Bindings'
  <1>1. /\ ~Is(p, {"hook"}) /\ todo[p] # <<>> /\ pc[p] \in {"stage", "fill", "rename"}
        /\ UNCHANGED <<dir, handle, command, todo>>
    BY DEF Stage, StageFails, Sound, Turns, Busy, Is
  <1>2. \A q \in Proc : todo[q] # <<>> => File(q)' = File(q) /\ Made(q)' = Made(q)
    BY <1>1, FileStays
  <1>3. PICK x \in {"fill", "failed"} : pc' = [pc EXCEPT ![p] = x] /\ (x = "fill" <=> Stage(p))
    BY DEF Stage, StageFails, Goto
  <1>4. pc'[p] = x /\ \A q \in Proc \ {p} : pc'[q] = pc[q]
    BY <1>3 DEF Sound, LogTypes
  <1>5. Homes'
    BY <1>1 DEF Bindings, Homes
  <1>6. Handles'
    BY <1>1, <1>2, <1>4 DEF Bindings, Handles, Is
  <1>7. Unused'
    BY <1>1 DEF Bindings, Unused, Is
  <1>8. Temporaries'
    <2>1. SUFFICES ASSUME NEW i \in temps'
                   PROVE  \E q \in Proc : /\ ~Is(q, {"hook"}) /\ todo[q] # <<>> /\ i = Made(q)
                                          /\ pc'[q] \in {"fill", "rename", "killed"}
      BY <1>1, <1>2 DEF Temporaries, Is
    <2>2. CASE Stage(p) /\ i = Made(p)
      BY <1>1, <1>3, <1>4, <2>2
    <2>3. CASE i \in temps /\ (StageFails(p) => i # Made(p)) /\ ~(Stage(p) /\ i = Made(p))
      <3>1. PICK q \in Proc : /\ ~Is(q, {"hook"}) /\ todo[q] # <<>> /\ i = Made(q)
                              /\ pc[q] \in {"fill", "rename", "killed"}
        BY <2>3 DEF Bindings, Temporaries
      <3>2. q # p
        BY <2>3, <3>1
      <3> QED BY <1>4, <3>1, <3>2
    <2> QED BY <2>2, <2>3 DEF Stage, StageFails
  <1> QED BY <1>5, <1>6, <1>7, <1>8 DEF Bindings

LEMMA BindingsRename ==
    ASSUME Sound, Sound', Bindings, NEW p \in Proc, Rename(p) PROVE Bindings'
  <1>1. /\ ~Is(p, {"hook"}) /\ todo[p] # <<>> /\ pc[p] = "rename"
        /\ UNCHANGED <<handle, command>> /\ Next_(p)
        /\ temps' = temps \ {Made(p)} /\ dir' = [dir EXCEPT ![File(p)] = Made(p)]
        /\ pc' = [pc EXCEPT ![p] = "look"]
    BY DEF Rename, Goto, Sound, Turns, Busy, Is
  <1>2. Turn(p, "look")
    BY <1>1 DEF Turn, Next_
  <1>3. /\ \A q \in Proc \ {p} : todo'[q] = todo[q] /\ pc'[q] = pc[q]
        /\ pc'[p] = "look" /\ Len(todo'[p]) < Len(todo[p])
        /\ \A q \in Proc : Len(todo'[q]) <= Len(todo[q]) /\ Len(todo[q]) \in Nat /\ Len(todo'[q]) \in Nat
    <2>1. todo' # todo
      <3>1. todo'[p] = Tail(todo[p]) /\ Len(Tail(todo[p])) = Len(todo[p]) - 1 /\ Len(todo[p]) \in Nat
        BY <1>1, Tails DEF Next_, Sound, Turns
      <3>2. \A j, k : k \in Nat /\ j = k - 1 => j # k
        OBVIOUS
      <3> QED BY <3>1, <3>2
    <2> QED BY <1>1, <1>2, <2>1, FewerLeft DEF Sound, LogTypes, Label
  <1>4. \A q \in Proc \ {p} : todo[q] # <<>> => File(q)' = File(q) /\ Made(q)' = Made(q)
    BY <1>3, FileStays
  <1>5. File(p) \in Regular /\ File(p) \in Name /\ Made(p) = <<p, Len(todo[p]), File(p)>>
    BY <1>1, FileOf DEF Sound, Regular, Made
  <1>6. \A n \in Name : dir'[n] = IF n = File(p) THEN Made(p) ELSE dir[n]
    BY <1>1, <1>5 DEF Sound, FileTypes
  <1>7. Homes'
    BY <1>5, <1>6 DEF Bindings, Homes, Regular
  <1>8. Handles'
    <2>1. handle[p] = Absent
      BY <1>1 DEF Bindings, Handles
    <2> QED BY <1>1, <1>3, <1>4, <2>1 DEF Bindings, Handles, Is
  <1>9. Unused'
    <2>1. SUFFICES ASSUME NEW q \in Proc, NEW k \in Nat, NEW n \in Name,
                          ~Is(q, {"hook"})', 0 < k, k <= Len(todo'[q])
                   PROVE  (\A m \in Name : dir'[m] # <<q, k, n>>) /\ \A y \in Proc : handle[y] # <<q, k, n>>
      BY <1>1 DEF Unused
    <2>2. ~Is(q, {"hook"}) /\ k <= Len(todo[q])
      BY <1>1, <1>3, <2>1 DEF Is
    <2>3. <<q, k, n>> # Made(p)
      <3>1. q = p => k # Len(todo[p])
        BY <1>3, <2>1
      <3> QED BY <1>5, <3>1
    <2>4. (\A m \in Name : dir[m] # <<q, k, n>>) /\ \A y \in Proc : handle[y] # <<q, k, n>>
      BY <2>1, <2>2 DEF Bindings, Unused
    <2> QED BY <1>6, <2>3, <2>4
  <1>10. Temporaries'
    <2>1. SUFFICES ASSUME NEW i \in temps, i # Made(p)
                   PROVE  \E q \in Proc : /\ ~Is(q, {"hook"})' /\ todo'[q] # <<>> /\ i = Made(q)'
                                          /\ pc'[q] \in {"fill", "rename", "killed"}
      BY <1>1 DEF Temporaries
    <2>2. PICK q \in Proc : /\ ~Is(q, {"hook"}) /\ todo[q] # <<>> /\ i = Made(q)
                            /\ pc[q] \in {"fill", "rename", "killed"}
      BY DEF Bindings, Temporaries
    <2>3. q # p
      BY <2>1, <2>2
    <2> QED BY <1>1, <1>3, <1>4, <2>2, <2>3 DEF Is
  <1> QED BY <1>7, <1>8, <1>9, <1>10 DEF Bindings

(* An edit or a deletion makes at most an inode of the user's.             *)
LEMMA BindingsEdit ==
    ASSUME Sound, Sound', Bindings, NEW n \in Touched, Edit(n) \/ Delete(n) PROVE Bindings'
  <1>1. n \in Regular /\ n \in Name
    BY FileUpdatesAssumption DEF FileUpdatesAssumption, Regular
  <1>2. PICK i : /\ dir' = [dir EXCEPT ![n] = i]
                 /\ i \in {Absent, <<User, edits + 1, n>>} \/ (i = dir[n] /\ i # Absent)
    BY DEF Edit, Delete
  <1>3. UNCHANGED <<temps, pc, command, todo, handle>>
    BY DEF Edit, Delete
  <1>4. \A q \in Proc : todo[q] # <<>> => File(q)' = File(q) /\ Made(q)' = Made(q)
    BY <1>3, FileStays
  <1>5. \A m \in Name : dir'[m] = IF m = n THEN i ELSE dir[m]
    BY <1>1, <1>2 DEF Sound, FileTypes
  <1>6. Homes'
    <2>1. i # Absent => i[3] = n
      BY <1>1, <1>2 DEF Bindings, Homes
    <2> QED BY <1>1, <1>5, <2>1 DEF Bindings, Homes, Regular
  <1>7. Handles' /\ Temporaries'
    BY <1>3, <1>4 DEF Bindings, Handles, Temporaries, Is
  <1>8. Unused'
    <2>1. SUFFICES ASSUME NEW q \in Proc, NEW k \in Nat, NEW m \in Name,
                          ~Is(q, {"hook"}), 0 < k, k <= Len(todo[q])
                   PROVE  (\A o \in Name : dir'[o] # <<q, k, m>>) /\ \A y \in Proc : handle[y] # <<q, k, m>>
      BY <1>3 DEF Unused, Is
    <2>2. (\A o \in Name : dir[o] # <<q, k, m>>) /\ \A y \in Proc : handle[y] # <<q, k, m>>
      BY <2>1 DEF Bindings, Unused
    <2>3. <<q, k, m>> # Absent
      <3>1. k \in 1 .. MaxNames
        <4>1. Len(todo[q]) \in Nat /\ Len(todo[q]) <= Len(command[q].names) /\ command[q] \in Commands[q]
          BY DEF Sound, Turns
        <4>2. Len(command[q].names) \in Nat /\ Len(command[q].names) <= MaxNames /\ MaxNames \in Nat
          BY <4>1, FileUpdatesAssumption DEF FileUpdatesAssumption
        <4> QED BY <2>1, <4>1, <4>2
      <3>2. <<q, k, m>> \in Inode
        BY <3>1 DEF Inode
      <3> QED BY <3>2, FileUpdatesAssumption DEF FileUpdatesAssumption
    <2>4. <<q, k, m>> # <<User, edits + 1, n>>
      BY FileUpdatesAssumption DEF FileUpdatesAssumption
    <2> QED BY <1>1, <1>2, <1>5, <2>2, <2>3, <2>4
  <1> QED BY <1>6, <1>7, <1>8 DEF Bindings

LEMMA BindingsStay ==
    ASSUME Sound, Sound', Bindings, UNCHANGED <<dir, temps, pc, command, todo, handle>> PROVE Bindings'
  <1>1. \A q \in Proc : todo[q] # <<>> => File(q)' = File(q) /\ Made(q)' = Made(q)
    BY FileStays
  <1> QED BY <1>1 DEF Bindings, Homes, Handles, Unused, Temporaries, Is

LEMMA BindingsStep == Sound /\ Sound' /\ Bindings /\ [Next]_vars => Bindings'
  <1> SUFFICES ASSUME Sound, Sound', Bindings, [Next]_vars PROVE Bindings'
    OBVIOUS
  <1> USE DEF Label
  <1>1. ASSUME NEW p \in Proc,
               \/ Start(p) \/ StatLog(p) \/ Rotate(p) \/ OpenLog(p) \/ Return(p) \/ Clean(p)
               \/ LookFails(p) \/ Select(p) \/ Read(p) \/ Fetch(p)
        PROVE  Bindings'
    <2>1. PICK x \in Label \ {"write"} : pc' = [pc EXCEPT ![p] = x]
      BY <1>1 DEF Start, StatLog, Rotate, OpenLog, Return, Clean, LookFails, Select, Read, Fetch, Goto
    <2>2. /\ UNCHANGED <<dir, temps, handle, command, todo>>
          /\ pc[p] \notin {"write", "fill", "rename", "killed"}
      BY <1>1 DEF Start, StatLog, Rotate, OpenLog, Return, Clean, LookFails, Looking, Select, Read, Differs,
                  Fetch, tree
    <2>3. Turn(p, x)
      BY <2>1, <2>2 DEF Turn
    <2> QED BY <2>1, <2>2, <2>3, BindingsCalm
  <1>2. ASSUME NEW p \in Proc, Skip(p) \/ ReadMissing(p) \/ Unchanged(p) \/ Report(p) PROVE Bindings'
    <2>1. PICK x \in {"look", "failed"} : pc' = [pc EXCEPT ![p] = x] /\ (Next_(p) \/ todo' = todo)
      BY <1>2 DEF Skip, Looking, ReadMissing, Unchanged, Report, Goto, Sound, LogTypes
    <2>2. UNCHANGED <<dir, temps, handle, command>> /\ pc[p] \in {"look", "read"}
      BY <1>2 DEF Skip, Looking, ReadMissing, Unchanged, Report, Differs, tree
    <2>3. todo[p] # <<>>
      BY <1>2 DEF Skip, Looking, ReadMissing, Unchanged, Report, Differs, Sound, Turns, Busy
    <2>4. Turn(p, x)
      BY <2>1, <2>2, <2>3 DEF Turn, Next_
    <2> QED BY <2>1, <2>2, <2>4, BindingsCalm
  <1>3. ASSUME NEW p \in Proc, Fill(p) \/ Crash(p) PROVE Bindings'
    <2>1. PICK x \in {"rename", "killed"} : pc' = [pc EXCEPT ![p] = x] /\ (x = "rename" => pc[p] = "fill")
      BY <1>3 DEF Fill, Crash, Goto
    <2>2. UNCHANGED <<dir, temps, handle, command, todo>>
      BY <1>3 DEF Fill, Crash, tree
    <2>3. Turn(p, x)
      BY <2>1, <2>2 DEF Turn
    <2> QED BY <2>1, <2>2, <2>3, BindingsCalm
  <1>4. CASE Tick \/ UNCHANGED vars
    BY <1>4, BindingsStay DEF Tick, vars, tree
  <1> QED BY <1>1, <1>2, <1>3, <1>4, BindingsTruncate, BindingsWrite, BindingsStage, BindingsRename,
             BindingsEdit DEF Next

FileInv == LogInv /\ FileTypes /\ Turns /\ Bindings

LEMMA FileInvHolds == Spec => []FileInv
  <1>1. Init => FileInv
    BY LogInit, FilesInit, BindingsInit DEF FileInv
  <1>2. FileInv /\ [Next]_vars => FileInv'
    <2> SUFFICES ASSUME FileInv, [Next]_vars PROVE FileInv'
      OBVIOUS
    <2>1. LogInv' /\ FileTypes' /\ Turns'
      BY LogStep, FileTypesStep, TurnsStep DEF FileInv, LogInv
    <2>2. Sound /\ Sound'
      BY <2>1 DEF Sound, FileInv, LogInv
    <2> QED BY <2>1, <2>2, BindingsStep DEF FileInv
  <1> QED BY <1>1, <1>2, PTL DEF Spec

LEMMA FileInvTypes == FileInv => TypeOK
  <1> SUFFICES ASSUME FileInv PROVE TypeOK
    OBVIOUS
  <1> USE DEF FileInv, LogInv
  <1>1. DOMAIN dir = Name /\ Range(dir) \subseteq Inode \union Name \union {Absent}
    <2>1. \A n \in DOMAIN Links : Links[n] \in Name
      BY FileUpdatesAssumption DEF FileUpdatesAssumption, Range
    <2> QED BY <2>1 DEF FileTypes, Range
  <1>2. DOMAIN disk = Inode /\ \A i \in Inode : disk[i].formatted \in BOOLEAN
    BY DEF FileTypes, Texts
  <1>3. ASSUME NEW i \in temps
        PROVE  /\ i \in Inode /\ i[1] \in Proc /\ i \notin Range(dir)
               /\ pc[i[1]] \in {"fill", "rename", "killed"}
    <2>1. PICK p \in Proc : /\ ~Is(p, {"hook"}) /\ todo[p] # <<>> /\ i = Made(p)
                            /\ pc[p] \in {"fill", "rename", "killed"}
      BY DEF Bindings, Temporaries
    <2>2. \A n \in Name : dir[n] # i
      BY <2>1, OwnInode DEF Sound
    <2>3. i \in Inode /\ i[1] = p
      BY <2>1, FileOf DEF Made
    <2> QED BY <2>1, <2>2, <2>3 DEF FileTypes, Range
  <1>4. \A p \in Proc : command[p].kind \in Kind /\ Range(todo[p]) \subseteq Name
    <2>1. \A p \in Proc : command[p].kind \in Kind
      BY FileUpdatesAssumption DEF FileUpdatesAssumption, Turns
    <2>2. \A p \in Proc : Range(todo[p]) \subseteq Name
      BY DEF Turns, Range
    <2> QED BY <2>1, <2>2
  <1>5. handle \in [Proc -> Inode \union {Absent}] /\ changed \in [Proc -> SUBSET Name]
    BY DEF FileTypes
  <1>6. /\ log \in LogFile \union {Absent} /\ rotated \in [0 .. MaxSeconds -> LogFile \union {Absent}]
        /\ records \in [LogFile -> SUBSET LogFile] /\ logger \in [Proc -> LogFile \union {Absent}]
        /\ now \in 0 .. MaxSeconds
    BY DEF LogTypes
  <1>7. edits \in 0 .. MaxEdits /\ faults \in 0 .. MaxFaults
    BY DEF FileTypes
  <1> QED BY <1>1, <1>2, <1>3, <1>4, <1>5, <1>6, <1>7 DEF TypeOK

(* A temporary file is never another name for a file that is in use, and   *)
(* is left behind only by a process that was killed.                       *)
THEOREM TemporariesApart == Spec => []TypeOK
  BY FileInvHolds, FileInvTypes, PTL

-----------------------------------------------------------------------------
(* What a step does to the texts: it concerns one file, and nobody else's  *)
(* staged text.                                                            *)

Only(n) == \A m \in Regular \ {n} :
             dir'[m] = dir[m] /\ (dir[m] # Absent => disk'[dir[m]] = disk[dir[m]])

OthersStaged(p) == \A q \in Proc \ {p} : ~Is(q, {"hook"}) /\ todo[q] # <<>> => disk'[Made(q)] = disk[Made(q)]

LEMMA TruncateOnly ==
    ASSUME Sound, Bindings, NEW p \in Proc, Truncate(p)
    PROVE  /\ Only(File(p)) /\ OthersStaged(p)
           /\ todo[p] # <<>> /\ Is(p, {"hook"}) /\ File(p) \in Regular
           /\ dir[File(p)] # Absent => dir'[File(p)] = dir[File(p)]
           /\ disk'[dir'[File(p)]] = Nothing /\ handle'[p] = dir'[File(p)] /\ dir'[File(p)] # Absent
           /\ \A q \in Proc \ {p} : handle'[q] = handle[q]
  <1>1. todo[p] # <<>> /\ Is(p, {"hook"})
    BY DEF Truncate, Sound, Turns, Busy
  <1>2. /\ File(p) \in Regular /\ File(p) \in Name /\ Made(p) \in Inode
        /\ Made(p) = <<p, Len(todo[p]), File(p)>>
    BY <1>1, FileOf DEF Sound, Regular, Made
  <1>3. PICK i : /\ i = IF dir[File(p)] = Absent THEN Made(p) ELSE dir[File(p)]
                 /\ dir' = [dir EXCEPT ![File(p)] = i]
                 /\ disk' = [disk EXCEPT ![i] = Nothing]
                 /\ handle' = [handle EXCEPT ![p] = i]
    BY DEF Truncate
  <1>4. i \in Inode /\ i # Absent
    BY <1>2, <1>3, FileUpdatesAssumption DEF FileUpdatesAssumption, Sound, FileTypes, Regular
  <1>5. i[3] = File(p)
    BY <1>2, <1>3 DEF Bindings, Homes
  <1>6. \A m \in Name : dir'[m] = IF m = File(p) THEN i ELSE dir[m]
    BY <1>2, <1>3 DEF Sound, FileTypes
  <1>7. /\ \A j \in Inode : disk'[j] = IF j = i THEN Nothing ELSE disk[j]
        /\ handle'[p] = i /\ \A q \in Proc \ {p} : handle'[q] = handle[q]
    BY <1>3 DEF Sound, FileTypes
  <1>8. Only(File(p))
    <2>1. SUFFICES ASSUME NEW m \in Regular \ {File(p)}, dir[m] # Absent PROVE disk'[dir[m]] = disk[dir[m]]
      BY <1>6 DEF Only, Regular
    <2>2. dir[m] \in Inode /\ dir[m][3] = m
      BY <2>1 DEF Sound, FileTypes, Bindings, Homes, Regular
    <2> QED BY <1>5, <1>7, <2>2
  <1>9. OthersStaged(p)
    <2>1. SUFFICES ASSUME NEW q \in Proc \ {p}, ~Is(q, {"hook"}), todo[q] # <<>>
                   PROVE  disk'[Made(q)] = disk[Made(q)]
      BY DEF OthersStaged
    <2>2. Made(q) \in Inode /\ dir[File(p)] # Made(q)
      BY <1>2, <2>1, FileOf, OwnInode DEF Sound
    <2>3. Made(p) # Made(q)
      BY <2>1 DEF Made
    <2> QED BY <1>3, <1>7, <2>2, <2>3
  <1> QED BY <1>1, <1>2, <1>3, <1>4, <1>6, <1>7, <1>8, <1>9

LEMMA WriteOnly ==
    ASSUME Sound, Bindings, NEW p \in Proc, Write(p) \/ WriteFails(p)
    PROVE  /\ Only(File(p)) /\ OthersStaged(p)
           /\ todo[p] # <<>> /\ Is(p, {"hook"}) /\ File(p) \in Regular
           /\ \A q \in Proc \ {p} : handle'[q] = handle[q]
           /\ handle[p] \in Inode /\ handle[p] # Absent
           /\ \A j \in Inode \ {handle[p]} : disk'[j] = disk[j]
  <1>1. todo[p] # <<>> /\ Is(p, {"hook"}) /\ pc[p] = "write" /\ dir' = dir /\ handle' = [handle EXCEPT ![p] = Absent]
    BY DEF Write, WriteFails, Sound, Turns, Busy
  <1>2. File(p) \in Regular
    BY <1>1, FileOf DEF Sound
  <1>3. handle[p] \in Inode /\ handle[p] # Absent /\ handle[p][3] = File(p)
    BY <1>1 DEF Bindings, Handles, Sound, FileTypes
  <1>4. PICK t : disk' = [disk EXCEPT ![handle[p]] = t]
    BY DEF Write, WriteFails
  <1>5. /\ \A j \in Inode \ {handle[p]} : disk'[j] = disk[j]
        /\ \A q \in Proc \ {p} : handle'[q] = handle[q]
    BY <1>1, <1>4 DEF Sound, FileTypes
  <1>6. Only(File(p))
    <2>1. SUFFICES ASSUME NEW m \in Regular \ {File(p)}, dir[m] # Absent PROVE disk'[dir[m]] = disk[dir[m]]
      BY <1>1 DEF Only
    <2>2. dir[m] \in Inode /\ dir[m][3] = m
      BY <2>1 DEF Sound, FileTypes, Bindings, Homes, Regular
    <2> QED BY <1>3, <1>5, <2>2
  <1>7. OthersStaged(p)
    <2>1. SUFFICES ASSUME NEW q \in Proc \ {p}, ~Is(q, {"hook"}), todo[q] # <<>>
                   PROVE  disk'[Made(q)] = disk[Made(q)]
      BY DEF OthersStaged
    <2>2. Made(q) \in Inode /\ handle[p] # Made(q)
      BY <2>1, FileOf, OwnInode DEF Sound
    <2> QED BY <1>5, <2>2
  <1> QED BY <1>1, <1>2, <1>3, <1>5, <1>6, <1>7

LEMMA StageOnly ==
    ASSUME Sound, Bindings, NEW p \in Proc, Stage(p) \/ Fill(p) \/ StageFails(p)
    PROVE  /\ OthersStaged(p)
           /\ \A m \in Regular : dir[m] # Absent => disk'[dir[m]] = disk[dir[m]]
           /\ todo[p] # <<>> /\ ~Is(p, {"hook"}) /\ Made(p) \in Inode
           /\ Fill(p) => disk'[Made(p)] = plan[p]
  <1>1. todo[p] # <<>> /\ ~Is(p, {"hook"})
    BY DEF Stage, Fill, StageFails, Sound, Turns, Busy, Is
  <1>2. Made(p) \in Inode /\ \A m \in Name : dir[m] # Made(p)
    BY <1>1, FileOf, OwnInode DEF Sound
  <1>3. /\ \A j \in Inode \ {Made(p)} : disk'[j] = disk[j]
        /\ Fill(p) => disk'[Made(p)] = plan[p]
    BY <1>2 DEF Stage, Fill, StageFails, Sound, FileTypes
  <1>4. ASSUME NEW m \in Regular, dir[m] # Absent PROVE disk'[dir[m]] = disk[dir[m]]
    <2>1. dir[m] \in Inode /\ dir[m] # Made(p)
      BY <1>2, <1>4 DEF Sound, FileTypes, Regular
    <2> QED BY <1>3, <2>1
  <1>5. OthersStaged(p)
    <2>1. SUFFICES ASSUME NEW q \in Proc \ {p}, ~Is(q, {"hook"}), todo[q] # <<>>
                   PROVE  disk'[Made(q)] = disk[Made(q)]
      BY DEF OthersStaged
    <2>2. Made(q) \in Inode /\ Made(q) # Made(p)
      BY <2>1, FileOf DEF Made, Sound
    <2> QED BY <1>3, <2>2
  <1> QED BY <1>1, <1>2, <1>3, <1>4, <1>5

LEMMA RenameOnly ==
    ASSUME Sound, Bindings, NEW p \in Proc, Rename(p)
    PROVE  /\ Only(File(p)) /\ disk' = disk /\ handle' = handle
           /\ todo[p] # <<>> /\ ~Is(p, {"hook"}) /\ File(p) \in Regular
           /\ dir'[File(p)] = Made(p) /\ Made(p) # Absent
           /\ \A q \in Proc : handle[q] # Made(p)
  <1>1. /\ todo[p] # <<>> /\ ~Is(p, {"hook"}) /\ UNCHANGED <<disk, handle>>
        /\ dir' = [dir EXCEPT ![File(p)] = Made(p)]
    BY DEF Rename, Sound, Turns, Busy, Is
  <1>2. /\ File(p) \in Regular /\ File(p) \in Name /\ Made(p) \in Inode
        /\ \A q \in Proc : handle[q] # Made(p)
    BY <1>1, FileOf, OwnInode DEF Sound, Regular
  <1>3. \A m \in Name : dir'[m] = IF m = File(p) THEN Made(p) ELSE dir[m]
    BY <1>1, <1>2 DEF Sound, FileTypes
  <1>4. Made(p) # Absent
    BY <1>2, FileUpdatesAssumption DEF FileUpdatesAssumption
  <1> QED BY <1>1, <1>2, <1>3, <1>4 DEF Only, Regular

LEMMA EditOnly ==
    ASSUME Sound, Bindings, NEW n \in Touched, Edit(n) \/ Delete(n)
    PROVE  /\ Only(n) /\ n \in Source /\ n \in Regular
           /\ \A q \in Proc : ~Is(q, {"hook"}) /\ todo[q] # <<>> => disk'[Made(q)] = disk[Made(q)]
           /\ edits + 1 \in 0 .. MaxEdits /\ edits + 1 \in Nat
           /\ Edit(n) => /\ dir'[n] # Absent /\ disk'[dir'[n]] = Text(edits + 1, FALSE)
                         /\ edited'[n] = edits + 1
           /\ Delete(n) => dir'[n] = Absent /\ edited'[n] = Absent
           /\ \A m \in Name \ {n} : edited'[m] = edited[m]
  <1>1. n \in Source /\ n \in Regular /\ n \in Name
    BY FileUpdatesAssumption DEF FileUpdatesAssumption, Source, Regular
  <1>2. edits + 1 \in 0 .. MaxEdits /\ edits + 1 \in Nat
    <2>1. MaxEdits \in Nat /\ edits \in 0 .. MaxEdits /\ edits < MaxEdits
      BY FileUpdatesAssumption DEF FileUpdatesAssumption, Edit, Delete, Sound, FileTypes
    <2> QED BY <2>1
  <1>3. /\ Edit(n) => edited'[n] = edits + 1
        /\ Delete(n) => dir'[n] = Absent /\ edited'[n] = Absent
        /\ \A m \in Name \ {n} : edited'[m] = edited[m]
    BY <1>1 DEF Edit, Delete, Sound, FileTypes
  <1>4. CASE Delete(n)
    <2>1. disk' = disk /\ \A m \in Name \ {n} : dir'[m] = dir[m]
      BY <1>1, <1>4 DEF Delete, Sound, FileTypes
    <2>2. ~Edit(n)
      <3>1. CASE Edit(n)
        BY <1>3, <1>4, <3>1, <1>2, FileUpdatesAssumption DEF FileUpdatesAssumption
      <3> QED BY <3>1
    <2> QED BY <1>1, <1>2, <1>3, <2>1, <2>2 DEF Only, Regular
  <1>5. CASE Edit(n)
    <2>1. PICK i : /\ i = IF dir[n] = Absent THEN <<User, edits + 1, n>> ELSE dir[n]
                   /\ dir' = [dir EXCEPT ![n] = i]
                   /\ disk' = [disk EXCEPT ![i] = Text(edits + 1, FALSE)]
      BY <1>5 DEF Edit
    <2>2. <<User, edits + 1, n>> \in Inode
      BY <1>1, <1>2 DEF Inode
    <2>3. i \in Inode /\ i # Absent /\ i[3] = n
      BY <1>1, <2>1, <2>2, FileUpdatesAssumption
        DEF FileUpdatesAssumption, Sound, FileTypes, Regular, Bindings, Homes
    <2>4. /\ \A m \in Name : dir'[m] = IF m = n THEN i ELSE dir[m]
          /\ \A j \in Inode : disk'[j] = IF j = i THEN Text(edits + 1, FALSE) ELSE disk[j]
      BY <1>1, <2>1 DEF Sound, FileTypes
    <2>5. Only(n)
      <3>1. SUFFICES ASSUME NEW m \in Regular \ {n}, dir[m] # Absent PROVE disk'[dir[m]] = disk[dir[m]]
        BY <2>4 DEF Only, Regular
      <3>2. dir[m] \in Inode /\ dir[m][3] = m
        BY <3>1 DEF Sound, FileTypes, Bindings, Homes, Regular
      <3> QED BY <2>3, <2>4, <3>2
    <2>6. ASSUME NEW q \in Proc, ~Is(q, {"hook"}), todo[q] # <<>> PROVE disk'[Made(q)] = disk[Made(q)]
      <3>1. Made(q) \in Inode /\ dir[n] # Made(q)
        BY <1>1, <2>6, FileOf, OwnInode DEF Sound
      <3>2. Made(q) # <<User, edits + 1, n>>
        BY FileUpdatesAssumption DEF FileUpdatesAssumption, Made
      <3> QED BY <2>1, <2>4, <3>1, <3>2
    <2>7. ~Delete(n)
      BY <1>1, <2>3, <2>4 DEF Delete, Sound, FileTypes
    <2> QED BY <1>1, <1>2, <1>3, <2>3, <2>4, <2>5, <2>6, <2>7
  <1> QED BY <1>4, <1>5

OthersStill(p) ==
    /\ command' = command
    /\ \A q \in Proc \ {p} : pc'[q] = pc[q] /\ todo'[q] = todo[q] /\ plan'[q] = plan[q]

LEMMA OthersAreStill ==
    ASSUME Sound, NEW p \in Proc,
           \/ Start(p) \/ StatLog(p) \/ Rotate(p) \/ OpenLog(p) \/ Return(p) \/ Clean(p)
           \/ Skip(p) \/ LookFails(p) \/ Select(p) \/ ReadMissing(p) \/ Unchanged(p) \/ Report(p) \/ Read(p)
           \/ Truncate(p) \/ Write(p) \/ WriteFails(p)
           \/ Stage(p) \/ Fill(p) \/ StageFails(p) \/ Rename(p) \/ Fetch(p) \/ Crash(p)
    PROVE  OthersStill(p)
  <1>1. command' = command
    BY DEF Start, StatLog, Rotate, OpenLog, Return, Clean, Skip, LookFails, Select, ReadMissing, Unchanged,
           Report, Read, Truncate, Write, WriteFails, Stage, Fill, StageFails, Rename, Fetch, Crash
  <1>2. \A q \in Proc \ {p} : pc'[q] = pc[q]
    BY DEF Start, StatLog, Rotate, OpenLog, Return, Clean, Skip, LookFails, Select, ReadMissing, Unchanged,
           Report, Read, Truncate, Write, WriteFails, Stage, Fill, StageFails, Rename, Fetch, Crash, Goto,
           Sound, LogTypes
  <1>3. \A q \in Proc \ {p} : todo'[q] = todo[q]
    BY DEF Start, StatLog, Rotate, OpenLog, Return, Clean, Skip, LookFails, Select, ReadMissing, Unchanged,
           Report, Read, Truncate, Write, WriteFails, Stage, Fill, StageFails, Rename, Fetch, Crash, Next_,
           Sound, Turns
  <1>4. \A q \in Proc \ {p} : plan'[q] = plan[q]
    BY DEF Start, StatLog, Rotate, OpenLog, Return, Clean, Skip, LookFails, Select, ReadMissing, Unchanged,
           Report, Read, Truncate, Write, WriteFails, Stage, Fill, StageFails, Rename, Fetch, Crash,
           Sound, FileTypes
  <1> QED BY <1>1, <1>2, <1>3, <1>4 DEF OthersStill

(* A step that leaves the texts of files and of staged files alone.        *)
Quiet(p) ==
    \/ Start(p) \/ StatLog(p) \/ Rotate(p) \/ OpenLog(p) \/ Return(p) \/ Clean(p)
    \/ Skip(p) \/ LookFails(p) \/ Select(p) \/ ReadMissing(p) \/ Unchanged(p) \/ Report(p) \/ Crash(p)

LEMMA QuietFiles ==
    ASSUME Sound, NEW p \in Proc, Quiet(p)
    PROVE  /\ UNCHANGED <<tree, plan, handle, edited, raced>> /\ OthersStaged(p)
           /\ pc'[p] \notin {"truncate", "write", "stage", "fill", "rename"}
  <1>1. UNCHANGED <<tree, plan, handle, edited, raced>>
    BY DEF Quiet, Start, StatLog, Rotate, OpenLog, Return, Clean, Skip, LookFails, Select, ReadMissing,
           Unchanged, Report, Crash, history
  <1>2. OthersStaged(p)
    BY <1>1 DEF OthersStaged, tree
  <1>3. pc'[p] \notin {"truncate", "write", "stage", "fill", "rename"}
    <2>1. CASE Skip(p)
      BY <2>1 DEF Skip, Looking
    <2>2. CASE ~Skip(p)
      <3>1. PICK x : /\ pc' = [pc EXCEPT ![p] = x]
                     /\ x \notin {"truncate", "write", "stage", "fill", "rename"}
        BY <2>2 DEF Quiet, Start, StatLog, Rotate, OpenLog, Return, Clean, LookFails, Select, ReadMissing,
                    Unchanged, Report, Crash, Goto
      <3> QED BY <3>1 DEF Sound, LogTypes
    <2> QED BY <2>1, <2>2
  <1> QED BY <1>1, <1>2, <1>3

-----------------------------------------------------------------------------
(* What is staged, and files that no hook writes.                          *)

HookFiles == {Resolved(h) : h \in HookNames}

Releases == {Running} \union {command[p].release : p \in {q \in Proc : Is(q, {"update"})}}

PlannedBy(p) ==
    /\ pc[p] = "rename" => disk[Made(p)] = plan[p]
    /\ pc[p] \in {"stage", "fill", "rename"} =>
         IF Is(p, {"update"}) THEN plan[p].of = command[p].release
         ELSE File(p) \in HookFiles \/ plan[p].of \notin {Blank, Mixed}

WholeFiles ==
    /\ \A n \in Source \ HookFiles : dir[n] # Absent => disk[dir[n]].of \notin {Blank, Mixed}
    /\ dir[Exe] # Absent /\ disk[dir[Exe]].of \in Releases

WholeInv == WholeFiles /\ \A p \in Proc : PlannedBy(p)

LEMMA Commanded == command' = command => HookFiles' = HookFiles /\ Releases' = Releases
  BY DEF HookFiles, HookNames, Releases, Is, Resolved

LEMMA ExeFile == Exe \in Regular /\ Source = Regular \ {Exe} /\ Exe \notin Source
  BY FileUpdatesAssumption DEF FileUpdatesAssumption, Source, Regular

LEMMA HooksElsewhere ==
    ASSUME Sound, NEW p \in Proc, Is(p, {"hook"}), todo[p] # <<>>
    PROVE  File(p) \in HookFiles /\ File(p) # Exe
  <1>1. File(p) = Resolved(Head(todo[p])) /\ File(p) # Exe
    BY FileOf DEF Sound, Is
  <1>2. Head(todo[p]) \in Range(command[p].names)
    BY Tails DEF Sound, Turns
  <1> QED BY <1>1, <1>2 DEF HookFiles, HookNames

LEMMA OthersPlanned ==
    ASSUME Sound, Sound', NEW p, OthersStaged(p), OthersStill(p), NEW q \in Proc \ {p}, PlannedBy(q)
    PROVE  PlannedBy(q)'
  <1>1. /\ command' = command /\ pc'[q] = pc[q] /\ todo'[q] = todo[q] /\ plan'[q] = plan[q]
        /\ Is(q, {"update"})' = Is(q, {"update"})
    BY DEF OthersStill, Is
  <1>2. CASE pc[q] \in {"stage", "fill", "rename"}
    <2>1. todo[q] # <<>> /\ ~Is(q, {"hook"})
      BY <1>2 DEF Sound, Turns, Busy, Is
    <2>2. File(q)' = File(q) /\ Made(q)' = Made(q) /\ disk'[Made(q)] = disk[Made(q)]
      BY <1>1, <2>1, FileStays DEF OthersStaged
    <2> QED BY <1>1, <2>2, Commanded DEF PlannedBy
  <1>3. CASE pc[q] \notin {"stage", "fill", "rename"}
    BY <1>1, <1>3 DEF PlannedBy
  <1> QED BY <1>2, <1>3

LEMMA WholeInit == Init => WholeInv
  <1> SUFFICES ASSUME Init PROVE WholeInv
    OBVIOUS
  <1>1. \A p \in Proc : PlannedBy(p)
    <2>1. \A p \in Proc : pc[p] = "start"
      BY DEF Init
    <2> QED BY <2>1 DEF PlannedBy
  <1>2. \A n \in Regular : dir[n] = <<User, 0, n>> /\ <<User, 0, n>> \in Inode
    BY FileUpdatesAssumption DEF FileUpdatesAssumption, Init, Regular, Inode
  <1>3. \A n \in Regular : disk[dir[n]] = IF n = Exe THEN Text(Running, TRUE) ELSE Text(0, FALSE)
    <2>1. disk = [i \in Inode |-> IF i[3] = Exe THEN Text(Running, TRUE) ELSE Text(0, FALSE)]
      BY DEF Init
    <2>2. \A n : <<User, 0, n>>[3] = n
      OBVIOUS
    <2> QED BY <1>2, <2>1, <2>2
  <1>4. WholeFiles
    <2>1. 0 \notin {Blank, Mixed} /\ \A n \in Regular : dir[n] # Absent
      BY <1>2, FileUpdatesAssumption DEF FileUpdatesAssumption
    <2> QED BY <1>3, <2>1, ExeFile DEF WholeFiles, Releases, Text
  <1> QED BY <1>1, <1>4 DEF WholeInv

LEMMA WholeStep == Sound /\ Sound' /\ Bindings /\ WholeInv /\ [Next]_vars => WholeInv'
  <1> SUFFICES ASSUME Sound, Sound', Bindings, WholeInv, [Next]_vars PROVE WholeInv'
    OBVIOUS
  <1>1. ASSUME NEW p \in Proc, Quiet(p) PROVE WholeInv'
    <2>1. OthersStill(p) /\ OthersStaged(p) /\ UNCHANGED <<dir, disk>>
      BY <1>1, OthersAreStill, QuietFiles DEF Quiet, tree
    <2>2. WholeFiles'
      BY <2>1, Commanded DEF WholeInv, WholeFiles, OthersStill
    <2>3. PlannedBy(p)'
      BY <1>1, QuietFiles DEF PlannedBy
    <2> QED BY <2>1, <2>2, <2>3, OthersPlanned DEF WholeInv
  <1>2. ASSUME NEW p \in Proc, Read(p) PROVE WholeInv'
    <2>1. OthersStill(p) /\ OthersStaged(p) /\ UNCHANGED <<dir, disk, todo>> /\ pc[p] = "read"
      BY <1>2, OthersAreStill DEF Read, Differs, tree, OthersStaged
    <2>2. WholeFiles'
      BY <2>1, Commanded DEF WholeInv, WholeFiles, OthersStill
    <2>3. PlannedBy(p)'
      <3>1. todo[p] # <<>> /\ ~Is(p, {"update"})
        BY <2>1 DEF Sound, Turns, Busy
      <3>2. File(p) \in Source /\ File(p)' = File(p) /\ dir[File(p)] # Absent /\ dir[File(p)] \in Inode
        <4>1. File(p) \in Regular /\ File(p) # Exe /\ dir[File(p)] # Absent
          BY <1>2, <3>1, FileOf DEF Sound, Read, Differs, Exists, File
        <4> QED BY <2>1, <3>1, <4>1, FileStays, ExeFile DEF Sound, FileTypes, Regular
      <3>3. PICK s \in Results(disk[dir[File(p)]]) : plan' = [plan EXCEPT ![p] = s]
        BY <1>2 DEF Read
      <3>4. s.of = disk[dir[File(p)]].of
        BY <3>2, <3>3, TextTypes DEF Sound, FileTypes
      <3>5. File(p) \in HookFiles \/ s.of \notin {Blank, Mixed}
        BY <3>2, <3>4 DEF WholeInv, WholeFiles
      <3>6. plan'[p] = s /\ Is(p, {"update"})' = Is(p, {"update"}) /\ HookFiles' = HookFiles /\ pc'[p] # "rename"
        <4>1. pc'[p] \in {"truncate", "stage"}
          BY <1>2 DEF Read, Goto, Sound, LogTypes
        <4> QED BY <2>1, <3>3, <4>1, Commanded DEF OthersStill, Is, Sound, FileTypes
      <3> QED BY <3>1, <3>2, <3>5, <3>6 DEF PlannedBy
    <2> QED BY <2>1, <2>2, <2>3, OthersPlanned DEF WholeInv
  <1>3. ASSUME NEW p \in Proc, Fetch(p) PROVE WholeInv'
    <2>1. OthersStill(p) /\ OthersStaged(p) /\ UNCHANGED <<dir, disk, command>> /\ pc[p] = "fetch"
      BY <1>3, OthersAreStill DEF Fetch, tree, OthersStaged
    <2>2. WholeFiles'
      BY <2>1, Commanded DEF WholeInv, WholeFiles
    <2>3. PlannedBy(p)'
      <3>1. \/ pc'[p] \in {"done", "failed"}
            \/ pc'[p] = "stage" /\ plan'[p] = Text(command[p].release, TRUE)
        <4>1. \/ \E x \in {"done", "failed"} : pc' = [pc EXCEPT ![p] = x]
              \/ /\ pc' = [pc EXCEPT ![p] = "stage"]
                 /\ plan' = [plan EXCEPT ![p] = Text(command[p].release, TRUE)]
          BY <1>3, FileUpdatesAssumption DEF FileUpdatesAssumption, Fetch, Goto, Verifies, Downloads, Checksums
        <4> QED BY <4>1 DEF Sound, LogTypes, FileTypes
      <3>2. Is(p, {"update"}) /\ Is(p, {"update"})' = Is(p, {"update"})
        BY <2>1 DEF Sound, Turns, Is
      <3> QED BY <2>1, <3>1, <3>2 DEF PlannedBy, Text
    <2> QED BY <2>1, <2>2, <2>3, OthersPlanned DEF WholeInv
  <1>4. ASSUME NEW p \in Proc, Truncate(p) \/ Write(p) \/ WriteFails(p) PROVE WholeInv'
    <2>1. /\ Only(File(p)) /\ OthersStaged(p) /\ OthersStill(p)
          /\ todo[p] # <<>> /\ Is(p, {"hook"}) /\ File(p) \in Regular
      BY <1>4, OthersAreStill, TruncateOnly, WriteOnly
    <2>2. File(p) \in HookFiles /\ File(p) # Exe
      BY <2>1, HooksElsewhere
    <2>3. WholeFiles'
      <3>1. HookFiles' = HookFiles /\ Releases' = Releases
        BY <2>1, Commanded DEF OthersStill
      <3>2. \A n \in Source \ HookFiles : n \in Regular \ {File(p)}
        BY <2>2, ExeFile
      <3>3. Exe \in Regular \ {File(p)}
        BY <2>2, ExeFile
      <3> QED BY <2>1, <3>1, <3>2, <3>3 DEF WholeInv, WholeFiles, Only
    <2>4. PlannedBy(p)'
      <3>1. pc'[p] \in {"write", "look"}
        BY <1>4 DEF Truncate, Write, WriteFails, Goto, Sound, LogTypes
      <3> QED BY <3>1 DEF PlannedBy
    <2> QED BY <2>1, <2>3, <2>4, OthersPlanned DEF WholeInv
  <1>5. ASSUME NEW p \in Proc, Stage(p) \/ Fill(p) \/ StageFails(p) PROVE WholeInv'
    <2>1. /\ OthersStaged(p) /\ OthersStill(p) /\ UNCHANGED <<dir, todo, plan, command>>
          /\ \A m \in Regular : dir[m] # Absent => disk'[dir[m]] = disk[dir[m]]
          /\ todo[p] # <<>> /\ (Fill(p) => disk'[Made(p)] = plan[p])
      BY <1>5, OthersAreStill, StageOnly DEF Stage, Fill, StageFails
    <2>2. WholeFiles'
      BY <2>1, Commanded, ExeFile DEF WholeInv, WholeFiles
    <2>3. PlannedBy(p)'
      <3>1. /\ pc'[p] \in {"fill", "rename"} => pc[p] \in {"stage", "fill"}
            /\ pc'[p] = "rename" => Fill(p)
            /\ pc'[p] \in {"fill", "rename", "failed"}
        BY <1>5 DEF Stage, Fill, StageFails, Goto, Sound, LogTypes
      <3>2. File(p)' = File(p) /\ Made(p)' = Made(p)
        BY <2>1, FileStays
      <3>3. HookFiles' = HookFiles /\ Is(p, {"update"})' = Is(p, {"update"})
        BY <2>1, Commanded DEF Is
      <3>4. PlannedBy(p)
        BY DEF WholeInv
      <3> QED BY <2>1, <3>1, <3>2, <3>3, <3>4 DEF PlannedBy
    <2> QED BY <2>1, <2>2, <2>3, OthersPlanned DEF WholeInv
  <1>6. ASSUME NEW p \in Proc, Rename(p) PROVE WholeInv'
    <2>1. /\ Only(File(p)) /\ UNCHANGED <<disk, command>> /\ todo[p] # <<>> /\ File(p) \in Regular
          /\ dir'[File(p)] = Made(p) /\ Made(p) # Absent /\ OthersStill(p) /\ OthersStaged(p)
          /\ pc[p] = "rename" /\ pc'[p] = "look"
      BY <1>6, OthersAreStill, RenameOnly DEF Rename, OthersStaged, Goto, Sound, LogTypes
    <2>2. /\ disk'[dir'[File(p)]] = plan[p]
          /\ IF Is(p, {"update"}) THEN plan[p].of = command[p].release
             ELSE File(p) \in HookFiles \/ plan[p].of \notin {Blank, Mixed}
          /\ Is(p, {"update"}) <=> File(p) = Exe
      BY <2>1, FileOf DEF WholeInv, PlannedBy, Sound
    <2>3. HookFiles' = HookFiles /\ Releases' = Releases /\ (Is(p, {"update"}) => command[p].release \in Releases)
      BY <2>1, Commanded DEF Releases
    <2>4. ASSUME NEW n \in Source \ HookFiles, dir'[n] # Absent PROVE disk'[dir'[n]].of \notin {Blank, Mixed}
      <3>1. CASE n = File(p)
        BY <2>2, <2>4, <3>1, ExeFile
      <3>2. CASE n # File(p)
        BY <2>1, <2>4, <3>2, ExeFile DEF Only, WholeInv, WholeFiles
      <3> QED BY <3>1, <3>2
    <2>5. dir'[Exe] # Absent /\ disk'[dir'[Exe]].of \in Releases
      <3>1. CASE File(p) = Exe
        BY <2>1, <2>2, <2>3, <3>1
      <3>2. CASE File(p) # Exe
        BY <2>1, <3>2, ExeFile DEF Only, WholeInv, WholeFiles
      <3> QED BY <3>1, <3>2
    <2>6. WholeFiles'
      BY <2>3, <2>4, <2>5 DEF WholeFiles, Source
    <2>7. PlannedBy(p)'
      BY <2>1 DEF PlannedBy
    <2> QED BY <2>1, <2>6, <2>7, OthersPlanned DEF WholeInv
  <1>7. ASSUME NEW n \in Touched, Edit(n) \/ Delete(n) PROVE WholeInv'
    <2>1. Only(n) /\ n \in Source /\ UNCHANGED <<pc, command, todo, plan>>
      BY <1>7, EditOnly DEF Edit, Delete
    <2>2. dir'[n] # Absent => disk'[dir'[n]].of \notin {Blank, Mixed}
      <3>1. Edit(n) => disk'[dir'[n]].of \in Nat
        BY EditOnly DEF Text
      <3>2. Delete(n) => dir'[n] = Absent
        BY EditOnly
      <3> QED BY <1>7, <3>1, <3>2, FileUpdatesAssumption DEF FileUpdatesAssumption
    <2>3. WholeFiles'
      <3>1. HookFiles' = HookFiles /\ Releases' = Releases
        BY <2>1, Commanded
      <3> QED BY <2>1, <2>2, <3>1, ExeFile DEF WholeInv, WholeFiles, Only, Source
    <2>4. ASSUME NEW q \in Proc PROVE PlannedBy(q)'
      <3>1. OthersStaged(User) /\ OthersStill(User) /\ q \in Proc \ {User}
        BY <1>7, <2>1, EditOnly, FileUpdatesAssumption DEF FileUpdatesAssumption, OthersStaged, OthersStill
      <3> QED BY <3>1, OthersPlanned DEF WholeInv
    <2> QED BY <2>3, <2>4 DEF WholeInv
  <1>8. CASE Tick \/ UNCHANGED vars
    <2>1. UNCHANGED <<dir, disk, temps, pc, command, todo, plan>>
      BY <1>8 DEF Tick, vars, tree
    <2>2. WholeFiles'
      BY <2>1, Commanded DEF WholeInv, WholeFiles
    <2>3. ASSUME NEW q \in Proc PROVE PlannedBy(q)'
      <3>1. OthersStaged(User) /\ OthersStill(User) /\ q \in Proc \ {User}
        BY <2>1, FileUpdatesAssumption DEF FileUpdatesAssumption, OthersStaged, OthersStill
      <3> QED BY <3>1, OthersPlanned DEF WholeInv
    <2> QED BY <2>2, <2>3 DEF WholeInv
  <1> QED BY <1>1, <1>2, <1>3, <1>4, <1>5, <1>6, <1>7, <1>8 DEF Next, Quiet

LEMMA WholeInvIs == FileTypes /\ Turns /\ WholeInv => Whole
  <1> SUFFICES ASSUME FileTypes, Turns, WholeInv PROVE Whole
    OBVIOUS
  <1>1. {Target(h) : h \in HookNames} = HookFiles
    <2>1. \A h \in HookNames : h \in Name
      BY FileUpdatesAssumption DEF FileUpdatesAssumption, HookNames, Turns, Range
    <2> QED BY <2>1, Resolves DEF HookFiles
  <1>2. \A n \in DOMAIN Links : dir[n] = Links[n]
    BY FileUpdatesAssumption DEF FileUpdatesAssumption, FileTypes
  <1> QED BY <1>1, <1>2 DEF Whole, WholeInv, WholeFiles, Releases

(* A file that no hook writes is never seen empty or mixed, links stay     *)
(* links, and the executable is the old one or a verified release,         *)
(* whichever process is killed at whichever step.                          *)
THEOREM FilesStayWhole == Spec => []Whole
  <1>1. Init => WholeInv
    BY WholeInit
  <1>2. FileInv /\ FileInv' /\ WholeInv /\ [Next]_vars => WholeInv'
    BY WholeStep DEF FileInv, Sound, LogInv
  <1>3. FileInv /\ WholeInv => Whole
    BY WholeInvIs DEF FileInv
  <1> QED BY <1>1, <1>2, <1>3, FileInvHolds, PTL DEF Spec

-----------------------------------------------------------------------------
(* Files that are not changed under their formatters.                      *)

Calm == Source \ (raced \union broken)

Formatted(n) == Text(edited[n], TRUE)

FormOf(n) ==
    IF edited[n] = Absent THEN dir[n] = Absent
    ELSE /\ dir[n] # Absent
         /\ \/ /\ disk[dir[n]].of = edited[n]
               /\ n \in settled => disk[dir[n]].formatted \/ disk[dir[n]].of \in Declined
            \/ disk[dir[n]] = Nothing /\ BeingWritten(n)

(* Whoever has read a calm file is going to write the formatted form of    *)
(* its last edit; and once one has opened it to write, it is empty or      *)
(* holds that already.                                                     *)
WindowOf(p) ==
    pc[p] \in {"truncate", "write", "stage", "fill", "rename"} /\ File(p) \in Calm =>
        /\ edited[File(p)] \notin Declined \union {Absent} /\ plan[p] = Formatted(File(p))
        /\ pc[p] = "write" => disk[dir[File(p)]] \in {Nothing, Formatted(File(p))}

FormInv == (\A n \in Calm : FormOf(n)) /\ \A p \in Proc : WindowOf(p)

LEMMA FormSame ==
    ASSUME NEW m, FormOf(m), dir'[m] = dir[m], edited'[m] = edited[m], m \in settled' => m \in settled,
           dir[m] # Absent => disk'[dir[m]] = disk[dir[m]],
           \A q \in Proc : pc[q] = "write" /\ handle[q] = dir[m] => pc'[q] = "write" /\ handle'[q] = handle[q]
    PROVE  /\ edited'[m] = Absent => dir'[m] = Absent
           /\ edited'[m] # Absent =>
                /\ dir'[m] # Absent
                /\ \/ /\ disk'[dir'[m]].of = edited'[m]
                      /\ m \in settled' => disk'[dir'[m]].formatted \/ disk'[dir'[m]].of \in Declined
                   \/ disk'[dir'[m]] = Nothing /\ \E q \in Proc : pc'[q] = "write" /\ handle'[q] = dir'[m]
  BY DEF FormOf, BeingWritten

(* The window of another process, in a step that concerns the file n.      *)
LEMMA WindowSame ==
    ASSUME Sound, Sound', FormInv, NEW q \in Proc, NEW n, Only(n),
           command' = command, pc'[q] = pc[q], todo'[q] = todo[q], plan'[q] = plan[q],
           Calm' \subseteq Calm \/ (File(q) # n /\ Calm' \subseteq Calm \union {n}),
           File(q) \in Calm /\ File(q) \in Calm' =>
             /\ edited'[File(q)] = edited[File(q)]
             /\ File(q) = n /\ pc[q] = "write" => disk'[dir'[n]] \in {Nothing, Formatted(n)}
    PROVE  WindowOf(q)'
  <1> SUFFICES ASSUME pc'[q] \in {"truncate", "write", "stage", "fill", "rename"}, File(q)' \in Calm'
               PROVE  /\ edited'[File(q)'] \notin Declined \union {Absent}
                      /\ plan'[q] = Text(edited'[File(q)'], TRUE)
                      /\ pc'[q] = "write" => disk'[dir'[File(q)']] \in {Nothing, Text(edited'[File(q)'], TRUE)}
    BY DEF WindowOf, Formatted, Text, Nothing
  <1>1. todo[q] # <<>>
    BY DEF Sound, Turns, Busy
  <1>2. File(q)' = File(q) /\ File(q) \in Regular
    BY <1>1, FileStays, FileOf DEF Sound
  <1>3. File(q) \in Calm /\ edited'[File(q)] = edited[File(q)]
    BY <1>2
  <1>4. /\ edited[File(q)] \notin Declined \union {Absent} /\ plan[q] = Formatted(File(q))
        /\ pc[q] = "write" => disk[dir[File(q)]] \in {Nothing, Formatted(File(q))}
        /\ dir[File(q)] # Absent
    BY <1>3 DEF FormInv, WindowOf, FormOf
  <1>5. ASSUME pc[q] = "write" PROVE disk'[dir'[File(q)]] \in {Nothing, Formatted(File(q))}
    <2>1. CASE File(q) = n
      BY <1>2, <1>3, <1>5, <2>1
    <2>2. CASE File(q) # n
      <3>1. dir'[File(q)] = dir[File(q)] /\ disk'[dir[File(q)]] = disk[dir[File(q)]]
        BY <1>2, <1>4, <2>2 DEF Only
      <3> QED BY <1>4, <1>5, <3>1
    <2> QED BY <2>1, <2>2
  <1> QED BY <1>2, <1>3, <1>4, <1>5 DEF Formatted

LEMMA FormInit == Init => FormInv
  <1> SUFFICES ASSUME Init PROVE FormInv
    OBVIOUS
  <1>1. \A p \in Proc : WindowOf(p)
    <2>1. \A p \in Proc : pc[p] = "start"
      BY DEF Init
    <2> QED BY <2>1 DEF WindowOf
  <1>2. ASSUME NEW n \in Calm PROVE FormOf(n)
    <2>1. n \in Regular /\ n # Exe /\ n \in Name
      BY ExeFile DEF Calm, Regular
    <2>2. dir[n] = <<User, 0, n>> /\ <<User, 0, n>> \in Inode /\ edited[n] = 0 /\ settled = {}
      BY <2>1, FileUpdatesAssumption DEF FileUpdatesAssumption, Init, Regular, Inode
    <2>3. disk[dir[n]] = Text(0, FALSE)
      <3>1. disk = [i \in Inode |-> IF i[3] = Exe THEN Text(Running, TRUE) ELSE Text(0, FALSE)]
        BY DEF Init
      <3>2. <<User, 0, n>>[3] = n
        OBVIOUS
      <3> QED BY <2>1, <2>2, <3>1, <3>2
    <2>4. dir[n] # Absent /\ edited[n] # Absent
      BY <2>2, FileUpdatesAssumption DEF FileUpdatesAssumption
    <2> QED BY <2>2, <2>3, <2>4 DEF FormOf, Text
  <1> QED BY <1>1, <1>2 DEF FormInv

(* Files whose writers are still at it.                                    *)
LEMMA WritersElsewhere ==
    ASSUME Sound, Bindings, NEW p \in Proc, NEW m \in Regular, dir[m] # Absent,
           pc[p] = "write", handle[p] = dir[m]
    PROVE  m = File(p)
  BY DEF Bindings, Homes, Handles

(* A calm file other than the one a process deals with.                    *)
LEMMA FormOther ==
    ASSUME Sound, Bindings, FormInv, NEW p \in Proc, NEW m \in Calm, m # File(p),
           Only(File(p)), OthersStill(p), edited' = edited, m \in settled' => m \in settled,
           \A q \in Proc \ {p} : handle'[q] = handle[q]
    PROVE  FormOf(m)'
  <1>1. FormOf(m) /\ m \in Regular
    BY ExeFile DEF FormInv, Calm
  <1>2. dir'[m] = dir[m] /\ (dir[m] # Absent => disk'[dir[m]] = disk[dir[m]])
    BY <1>1 DEF Only
  <1>3. CASE edited[m] = Absent
    BY <1>1, <1>2, <1>3 DEF FormOf
  <1>4. CASE edited[m] # Absent
    <2>1. dir[m] # Absent
      BY <1>1, <1>4 DEF FormOf
    <2>2. \A q \in Proc : pc[q] = "write" /\ handle[q] = dir[m] => pc'[q] = "write" /\ handle'[q] = handle[q]
      BY <1>1, <2>1, WritersElsewhere DEF OthersStill
    <2> QED BY <1>1, <1>2, <1>4, <2>1, <2>2, FormSame DEF FormOf, BeingWritten
  <1> QED BY <1>3, <1>4

LEMMA FormQuiet ==
    ASSUME Sound, Sound', Bindings, FormInv, NEW p \in Proc, Quiet(p) PROVE FormInv'
  <1>1. /\ OthersStill(p) /\ UNCHANGED <<dir, disk, plan, handle, edited, raced>>
        /\ pc'[p] \notin {"truncate", "write", "stage", "fill", "rename"}
    BY OthersAreStill, QuietFiles DEF Quiet, tree
  <1>2. broken \subseteq broken' /\ (pc[p] = "write" => File(p) \in broken')
    BY DEF Quiet, Start, StatLog, Rotate, OpenLog, Return, Clean, Skip, LookFails, Looking, Select, ReadMissing,
           Unchanged, Report, Differs, Crash, history
  <1>3. settled' = settled \/ (Unchanged(p) /\ settled' = settled \union {File(p)})
    BY DEF Quiet, Start, StatLog, Rotate, OpenLog, Return, Clean, Skip, LookFails, Select, ReadMissing,
           Unchanged, Report, Crash, history
  <1>4. Calm' \subseteq Calm
    BY <1>1, <1>2 DEF Calm, Source
  <1>5. Only(File(p))
    BY <1>1 DEF Only
  <1>6. ASSUME NEW m \in Calm' PROVE FormOf(m)'
    <2>1. m \in Calm /\ m \in Regular /\ FormOf(m)
      BY <1>4, <1>6, ExeFile DEF Calm, FormInv
    <2>2. CASE m \in settled' => m \in settled
      <3>1. CASE m = File(p)
        <4>1. pc[p] # "write"
          BY <1>2, <1>6, <3>1 DEF Calm
        <4>2. \A q \in Proc : pc[q] = "write" /\ handle[q] = dir[m] => pc'[q] = "write" /\ handle'[q] = handle[q]
          BY <1>1, <4>1 DEF OthersStill
        <4> QED BY <1>1, <2>1, <2>2, <4>2, FormSame DEF FormOf, BeingWritten
      <3>2. CASE m # File(p)
        BY <1>1, <1>5, <2>1, <2>2, <3>2, FormOther
      <3> QED BY <3>1, <3>2
    <2>3. CASE ~(m \in settled' => m \in settled)
      <3>1. /\ Unchanged(p) /\ m = File(p) /\ pc[p] = "read" /\ dir[m] # Absent
            /\ disk[dir[m]] \in Results(disk[dir[m]])
        BY <1>3, <2>3 DEF Unchanged, Exists, File
      <3>2. edited[m] # Absent
        BY <2>1, <3>1 DEF FormOf
      <3>3. edited[m] \in 0 .. MaxEdits /\ edited[m] # Mixed
        <4>1. edited[m] \in 0 .. MaxEdits
          BY <2>1, <3>2 DEF Sound, FileTypes, Regular
        <4> QED BY <4>1, FileUpdatesAssumption DEF FileUpdatesAssumption
      <3>4. \A q \in Proc : pc[q] = "write" => q # p /\ pc'[q] = "write"
        BY <1>1, <3>1 DEF OthersStill
      <3>5. CASE disk[dir[m]].of = edited[m]
        <4>1. disk[dir[m]].formatted \/ disk[dir[m]].of \in Declined
          BY <3>1, <3>3, <3>5 DEF Results, Text
        <4> QED BY <1>1, <3>1, <3>2, <3>5, <4>1 DEF FormOf
      <3>6. CASE disk[dir[m]] = Nothing /\ BeingWritten(m)
        BY <1>1, <3>1, <3>2, <3>4, <3>6 DEF FormOf, BeingWritten, Nothing, Text
      <3> QED BY <2>1, <3>2, <3>5, <3>6 DEF FormOf
    <2> QED BY <2>2, <2>3
  <1>7. WindowOf(p)'
    BY <1>1 DEF WindowOf
  <1>8. ASSUME NEW q \in Proc \ {p} PROVE WindowOf(q)'
    <2>1. File(q) = File(p) /\ pc[q] = "write" /\ File(q) \in Calm
            => disk'[dir'[File(p)]] \in {Nothing, Formatted(File(p))}
      BY <1>1 DEF FormInv, WindowOf
    <2> QED BY <1>1, <1>4, <1>5, <2>1, WindowSame DEF OthersStill
  <1> QED BY <1>6, <1>7, <1>8 DEF FormInv

LEMMA FormRead ==
    ASSUME Sound, Sound', Bindings, FormInv, NEW p \in Proc, Read(p) PROVE FormInv'
  <1>1. /\ OthersStill(p) /\ UNCHANGED <<dir, disk, handle, edited, raced, broken, settled, todo, command>>
        /\ pc[p] = "read" /\ Exists(Current(p))
    BY OthersAreStill DEF Read, Differs, tree, history
  <1>2. Calm' = Calm /\ Only(File(p))
    BY <1>1 DEF Calm, Source, Only
  <1>3. ASSUME NEW m \in Calm PROVE FormOf(m)'
    <2>1. FormOf(m)
      BY DEF FormInv
    <2>2. \A q \in Proc : pc[q] = "write" /\ handle[q] = dir[m] => pc'[q] = "write" /\ handle'[q] = handle[q]
      BY <1>1 DEF OthersStill
    <2> QED BY <1>1, <2>1, <2>2, FormSame DEF FormOf, BeingWritten
  <1>4. WindowOf(p)'
    <2>1. todo[p] # <<>>
      BY <1>1 DEF Sound, Turns, Busy
    <2>2. File(p)' = File(p) /\ File(p) \in Regular
      BY <1>1, <2>1, FileStays, FileOf DEF Sound
    <2>3. pc'[p] # "write"
      <3>1. pc'[p] \in {"truncate", "stage"}
        BY DEF Read, Goto, Sound, LogTypes
      <3> QED BY <3>1
    <2>4. PICK s \in Results(disk[dir[File(p)]]) : s # disk[dir[File(p)]] /\ plan' = [plan EXCEPT ![p] = s]
      BY DEF Read
    <2>5. ASSUME File(p) \in Calm PROVE edited[File(p)] \notin Declined \union {Absent} /\ s = Formatted(File(p))
      <3>1. FormOf(File(p)) /\ dir[File(p)] # Absent
        BY <1>1, <2>5 DEF FormInv, Exists, File
      <3>2. edited[File(p)] # Absent
        BY <3>1 DEF FormOf
      <3>3. /\ disk[dir[File(p)]].of \notin Declined
            /\ s = Text(disk[dir[File(p)]].of, TRUE)
        BY <2>4 DEF Results
      <3>4. disk[dir[File(p)]] # Nothing
        <4>1. Nothing.of = Blank /\ Text(Blank, TRUE) = Nothing
          BY DEF Nothing, Text
        <4> QED BY <2>4, <3>3, <4>1
      <3> QED BY <3>1, <3>2, <3>3, <3>4 DEF FormOf, Formatted
    <2>6. plan'[p] = s
      BY <2>4 DEF Sound, FileTypes
    <2> QED BY <1>1, <1>2, <2>2, <2>3, <2>5, <2>6 DEF WindowOf, Formatted
  <1>5. ASSUME NEW q \in Proc \ {p} PROVE WindowOf(q)'
    <2>1. File(q) = File(p) /\ pc[q] = "write" /\ File(q) \in Calm
            => disk'[dir'[File(p)]] \in {Nothing, Formatted(File(p))}
      BY <1>1 DEF FormInv, WindowOf
    <2> QED BY <1>1, <1>2, <2>1, WindowSame DEF OthersStill
  <1> QED BY <1>2, <1>3, <1>4, <1>5 DEF FormInv

LEMMA FormFetch ==
    ASSUME Sound, Sound', Bindings, FormInv, NEW p \in Proc, Fetch(p) PROVE FormInv'
  <1>1. /\ OthersStill(p) /\ UNCHANGED <<dir, disk, handle, edited, raced, broken, settled, todo, command>>
        /\ pc[p] = "fetch"
    BY OthersAreStill DEF Fetch, tree, history
  <1>2. Calm' = Calm /\ Only(File(p))
    BY <1>1 DEF Calm, Source, Only
  <1>3. ASSUME NEW m \in Calm PROVE FormOf(m)'
    <2>1. FormOf(m)
      BY DEF FormInv
    <2>2. \A q \in Proc : pc[q] = "write" /\ handle[q] = dir[m] => pc'[q] = "write" /\ handle'[q] = handle[q]
      BY <1>1 DEF OthersStill
    <2> QED BY <1>1, <2>1, <2>2, FormSame DEF FormOf, BeingWritten
  <1>4. WindowOf(p)'
    <2>1. CASE pc'[p] \notin {"truncate", "write", "stage", "fill", "rename"}
      BY <2>1 DEF WindowOf
    <2>2. CASE pc'[p] \in {"truncate", "write", "stage", "fill", "rename"}
      <3>1. todo'[p] # <<>> /\ Is(p, {"update"}) /\ todo'[p] = todo[p]
        BY <1>1, <2>2 DEF Sound, Turns, Busy
      <3>2. File(p)' = File(p) /\ File(p) = Exe
        BY <3>1, FileStays, FileOf DEF Sound
      <3> QED BY <1>2, <3>2, ExeFile DEF WindowOf, Calm
    <2> QED BY <2>1, <2>2
  <1>5. ASSUME NEW q \in Proc \ {p} PROVE WindowOf(q)'
    <2>1. File(q) = File(p) /\ pc[q] = "write" /\ File(q) \in Calm
            => disk'[dir'[File(p)]] \in {Nothing, Formatted(File(p))}
      BY <1>1 DEF FormInv, WindowOf
    <2> QED BY <1>1, <1>2, <2>1, WindowSame DEF OthersStill
  <1> QED BY <1>2, <1>3, <1>4, <1>5 DEF FormInv

LEMMA FormTruncate ==
    ASSUME Sound, Sound', Bindings, FormInv, NEW p \in Proc, Truncate(p) PROVE FormInv'
  <1>1. /\ OthersStill(p) /\ UNCHANGED <<edited, raced, broken, settled, todo, plan, command>>
        /\ pc[p] = "truncate" /\ pc'[p] = "write"
    BY OthersAreStill DEF Truncate, history, Goto, Sound, LogTypes
  <1>2. /\ Only(File(p)) /\ todo[p] # <<>> /\ File(p) \in Regular
        /\ disk'[dir'[File(p)]] = Nothing /\ handle'[p] = dir'[File(p)] /\ dir'[File(p)] # Absent
        /\ \A q \in Proc \ {p} : handle'[q] = handle[q]
    BY TruncateOnly
  <1>3. Calm' = Calm /\ File(p)' = File(p)
    BY <1>1, <1>2, FileStays DEF Calm, Source
  <1>4. File(p) \in Calm => /\ edited[File(p)] \notin Declined \union {Absent}
                            /\ plan[p] = Formatted(File(p))
    BY <1>1 DEF FormInv, WindowOf
  <1>5. ASSUME NEW m \in Calm PROVE FormOf(m)'
    <2>1. CASE m = File(p)
      BY <1>1, <1>2, <1>4, <2>1 DEF FormOf, BeingWritten, Nothing, Text
    <2>2. CASE m # File(p)
      BY <1>1, <1>2, <2>2, FormOther
    <2> QED BY <2>1, <2>2
  <1>6. WindowOf(p)'
    BY <1>1, <1>2, <1>3, <1>4 DEF WindowOf, Formatted, Nothing, Text
  <1>7. ASSUME NEW q \in Proc \ {p} PROVE WindowOf(q)'
    BY <1>1, <1>2, <1>3, WindowSame DEF OthersStill
  <1> QED BY <1>3, <1>5, <1>6, <1>7 DEF FormInv

(* A write through a handle that a rename has left behind concerns no      *)
(* file; one to the file itself finds it empty or as it will be.           *)
LEMMA FormWrite ==
    ASSUME Sound, Sound', Bindings, FormInv, NEW p \in Proc, Write(p) PROVE FormInv'
  <1>1. /\ OthersStill(p) /\ UNCHANGED <<dir, edited, raced, broken, plan, command>>
        /\ pc[p] = "write" /\ pc'[p] = "look" /\ settled' = settled \union {File(p)}
    BY OthersAreStill DEF Write, Goto, Sound, LogTypes
  <1>2. /\ Only(File(p)) /\ todo[p] # <<>> /\ File(p) \in Regular
        /\ \A q \in Proc \ {p} : handle'[q] = handle[q]
        /\ handle[p] \in Inode /\ handle[p] # Absent
        /\ \A j \in Inode \ {handle[p]} : disk'[j] = disk[j]
    BY WriteOnly
  <1>3. Calm' = Calm
    BY <1>1 DEF Calm, Source
  <1>4. ASSUME File(p) \in Calm
        PROVE  /\ edited[File(p)] \notin Declined \union {Absent} /\ plan[p] = Formatted(File(p))
               /\ disk[dir[File(p)]] \in {Nothing, Formatted(File(p))}
               /\ FormOf(File(p)) /\ dir[File(p)] # Absent
    BY <1>1, <1>4 DEF FormInv, WindowOf, FormOf
  <1>5. ASSUME File(p) \in Calm, handle[p] = dir[File(p)] PROVE disk'[dir[File(p)]] = Formatted(File(p))
    <2>1. Written(p) = {plan[p]}
      BY <1>4, <1>5 DEF Written
    <2>2. disk' = [disk EXCEPT ![handle[p]] = plan[p]]
      BY <2>1 DEF Write
    <2> QED BY <1>2, <1>4, <1>5, <2>2 DEF Sound, FileTypes
  <1>6. ASSUME File(p) \in Calm, handle[p] # dir[File(p)] PROVE disk'[dir[File(p)]] = disk[dir[File(p)]]
    <2>1. dir[File(p)] \in Inode
      BY <1>2, <1>4, <1>6 DEF Sound, FileTypes, Regular
    <2> QED BY <1>2, <1>6, <2>1
  <1>7. ASSUME NEW m \in Calm PROVE FormOf(m)'
    <2>1. CASE m # File(p)
      BY <1>1, <1>2, <2>1, FormOther
    <2>2. CASE m = File(p) /\ disk'[dir[m]] = Formatted(m)
      BY <1>1, <1>4, <2>2 DEF FormOf, Formatted, Text
    <2>3. CASE m = File(p) /\ disk'[dir[m]] # Formatted(m)
      <3>1. handle[p] # dir[m] /\ disk'[dir[m]] = Nothing /\ disk[dir[m]] = Nothing
        BY <1>4, <1>5, <1>6, <2>3
      <3>2. edited[m] # Blank
        <4>1. edited[m] \in Nat
          BY <1>2, <1>4, <2>3 DEF Sound, FileTypes, Regular
        <4> QED BY <4>1, FileUpdatesAssumption DEF FileUpdatesAssumption
      <3>3. BeingWritten(m)
        BY <1>4, <2>3, <3>1, <3>2 DEF FormOf, Nothing, Text
      <3>4. \A q \in Proc : pc[q] = "write" /\ handle[q] = dir[m] => pc'[q] = "write" /\ handle'[q] = handle[q]
        BY <1>1, <1>2, <3>1 DEF OthersStill
      <3> QED BY <1>1, <1>4, <2>3, <3>1, <3>3, <3>4 DEF FormOf, BeingWritten, Nothing, Text
    <2> QED BY <2>1, <2>2, <2>3
  <1>8. WindowOf(p)'
    BY <1>1 DEF WindowOf
  <1>9. ASSUME NEW q \in Proc \ {p} PROVE WindowOf(q)'
    <2>1. File(p) \in Calm => disk'[dir'[File(p)]] \in {Nothing, Formatted(File(p))}
      BY <1>1, <1>4, <1>5, <1>6
    <2> QED BY <1>1, <1>2, <1>3, <2>1, WindowSame DEF OthersStill
  <1> QED BY <1>3, <1>7, <1>8, <1>9 DEF FormInv

LEMMA FormWriteFails ==
    ASSUME Sound, Sound', Bindings, FormInv, NEW p \in Proc, WriteFails(p) PROVE FormInv'
  <1>1. /\ OthersStill(p) /\ UNCHANGED <<dir, edited, raced, settled, plan, command>>
        /\ pc[p] = "write" /\ pc'[p] = "look" /\ broken' = broken \union {File(p)}
    BY OthersAreStill DEF WriteFails, Goto, Sound, LogTypes
  <1>2. /\ Only(File(p)) /\ todo[p] # <<>>
        /\ \A q \in Proc \ {p} : handle'[q] = handle[q]
    BY WriteOnly
  <1>3. Calm' \subseteq Calm /\ File(p) \notin Calm'
    BY <1>1 DEF Calm, Source
  <1>4. ASSUME NEW m \in Calm' PROVE FormOf(m)'
    BY <1>1, <1>2, <1>3, FormOther
  <1>5. WindowOf(p)'
    BY <1>1 DEF WindowOf
  <1>6. ASSUME NEW q \in Proc \ {p} PROVE WindowOf(q)'
    BY <1>1, <1>2, <1>3, WindowSame DEF OthersStill
  <1> QED BY <1>4, <1>5, <1>6 DEF FormInv

LEMMA FormStage ==
    ASSUME Sound, Sound', Bindings, FormInv, NEW p \in Proc, Stage(p) \/ Fill(p) \/ StageFails(p)
    PROVE  FormInv'
  <1>1. /\ OthersStill(p) /\ UNCHANGED <<dir, handle, edited, raced, broken, settled, todo, plan, command>>
        /\ pc[p] \in {"stage", "fill", "rename"} /\ pc'[p] \in {"fill", "rename", "failed"}
    BY OthersAreStill DEF Stage, Fill, StageFails, history, Goto, Sound, LogTypes
  <1>2. todo[p] # <<>> /\ \A m \in Regular : dir[m] # Absent => disk'[dir[m]] = disk[dir[m]]
    BY StageOnly
  <1>3. Calm' = Calm /\ File(p)' = File(p) /\ Only(File(p))
    BY <1>1, <1>2, FileStays DEF Calm, Source, Only
  <1>4. ASSUME NEW m \in Calm PROVE FormOf(m)'
    <2>1. FormOf(m) /\ m \in Regular
      BY ExeFile DEF FormInv, Calm
    <2>2. \A q \in Proc : pc[q] = "write" /\ handle[q] = dir[m] => pc'[q] = "write" /\ handle'[q] = handle[q]
      BY <1>1 DEF OthersStill
    <2> QED BY <1>1, <1>2, <2>1, <2>2, FormSame DEF FormOf, BeingWritten
  <1>5. WindowOf(p)'
    <2>1. WindowOf(p)
      BY DEF FormInv
    <2> QED BY <1>1, <1>3, <2>1 DEF WindowOf, Formatted
  <1>6. ASSUME NEW q \in Proc \ {p} PROVE WindowOf(q)'
    <2>1. File(q) = File(p) /\ pc[q] = "write" /\ File(q) \in Calm
            => disk'[dir'[File(p)]] \in {Nothing, Formatted(File(p))}
      <3>1. File(p) \in Calm => File(p) \in Regular
        BY ExeFile DEF Calm
      <3>2. File(q) = File(p) /\ pc[q] = "write" /\ File(q) \in Calm
              => dir[File(p)] # Absent /\ disk[dir[File(p)]] \in {Nothing, Formatted(File(p))}
        BY DEF FormInv, WindowOf, FormOf
      <3> QED BY <1>1, <1>2, <3>1, <3>2
    <2> QED BY <1>1, <1>3, <2>1, WindowSame DEF OthersStill
  <1> QED BY <1>3, <1>4, <1>5, <1>6 DEF FormInv

LEMMA FormRename ==
    ASSUME Sound, Sound', Bindings, WholeInv, FormInv, NEW p \in Proc, Rename(p) PROVE FormInv'
  <1>1. /\ OthersStill(p) /\ UNCHANGED <<edited, raced, broken, command>>
        /\ pc[p] = "rename" /\ pc'[p] = "look" /\ settled' = settled \union {File(p)}
    BY OthersAreStill DEF Rename, Goto, Sound, LogTypes
  <1>2. /\ Only(File(p)) /\ disk' = disk /\ handle' = handle /\ todo[p] # <<>>
        /\ dir'[File(p)] = Made(p) /\ Made(p) # Absent
    BY RenameOnly
  <1>3. Calm' = Calm
    BY <1>1 DEF Calm, Source
  <1>4. disk'[dir'[File(p)]] = plan[p]
    BY <1>1, <1>2 DEF WholeInv, PlannedBy
  <1>5. File(p) \in Calm => edited[File(p)] \notin Declined \union {Absent} /\ plan[p] = Formatted(File(p))
    BY <1>1 DEF FormInv, WindowOf
  <1>6. ASSUME NEW m \in Calm PROVE FormOf(m)'
    <2>1. CASE m = File(p)
      BY <1>1, <1>2, <1>4, <1>5, <2>1 DEF FormOf, Formatted, Text
    <2>2. CASE m # File(p)
      BY <1>1, <1>2, <2>2, FormOther
    <2> QED BY <2>1, <2>2
  <1>7. WindowOf(p)'
    BY <1>1 DEF WindowOf
  <1>8. ASSUME NEW q \in Proc \ {p} PROVE WindowOf(q)'
    BY <1>1, <1>2, <1>3, <1>4, <1>5, WindowSame DEF OthersStill
  <1> QED BY <1>3, <1>6, <1>7, <1>8 DEF FormInv

(* After an edit the file is calm unless somebody is about to write it.    *)
LEMMA FormEdit ==
    ASSUME Sound, Sound', Bindings, FormInv, NEW n \in Touched, Edit(n) \/ Delete(n) PROVE FormInv'
  <1>1. /\ Only(n) /\ n \in Source /\ n \in Regular
        /\ Edit(n) => /\ dir'[n] # Absent /\ disk'[dir'[n]] = Text(edits + 1, FALSE)
                      /\ edited'[n] = edits + 1
        /\ Delete(n) => dir'[n] = Absent /\ edited'[n] = Absent
        /\ \A m \in Name \ {n} : edited'[m] = edited[m]
    BY EditOnly
  <1>2. /\ UNCHANGED <<pc, command, todo, plan, handle>> /\ settled' \subseteq settled
        /\ Edit(n) => n \notin settled'
        /\ raced' = IF InWindow(n) THEN raced \union {n} ELSE raced
        /\ broken \subseteq broken' \union {n}
    BY DEF Edit, Delete
  <1>3. Calm' \subseteq Calm \union {n} /\ (InWindow(n) => n \notin Calm')
    BY <1>2 DEF Calm, Source
  <1>4. ASSUME NEW m \in Calm' PROVE FormOf(m)'
    <2>1. m \in Regular /\ m \in Name
      <3>1. Source' = Source
        BY DEF Source
      <3> QED BY <3>1, ExeFile DEF Calm, Regular
    <2>2. CASE m = n /\ Edit(n)
      <3>1. edited'[n] # Absent
        BY <1>1, <2>2, EditOnly, FileUpdatesAssumption DEF FileUpdatesAssumption
      <3> QED BY <1>1, <1>2, <2>2, <3>1 DEF FormOf, Text
    <2>3. CASE m = n /\ Delete(n)
      BY <1>1, <2>3 DEF FormOf
    <2>4. CASE m # n
      <3>1. FormOf(m) /\ dir'[m] = dir[m] /\ (dir[m] # Absent => disk'[dir[m]] = disk[dir[m]])
        BY <1>1, <1>3, <1>4, <2>1, <2>4 DEF FormInv, Only
      <3> QED BY <1>1, <1>2, <2>1, <2>4, <3>1, FormSame DEF FormOf, BeingWritten
    <2> QED BY <2>2, <2>3, <2>4
  <1>5. ASSUME NEW q \in Proc PROVE WindowOf(q)'
    <2>1. CASE pc[q] \notin {"truncate", "write", "stage", "fill", "rename"}
      BY <1>2, <2>1 DEF WindowOf
    <2>2. CASE pc[q] \in {"truncate", "write", "stage", "fill", "rename"}
      <3>1. todo[q] # <<>>
        BY <2>2 DEF Sound, Turns, Busy
      <3>2. File(q)' = File(q) /\ File(q) \in Regular
        BY <1>2, <3>1, FileStays, FileOf DEF Sound
      <3>3. CASE File(q) = n
        <4>1. n \notin Calm'
          BY <1>3, <2>2, <3>3 DEF InWindow
        <4> QED BY <3>2, <3>3, <4>1 DEF WindowOf
      <3>4. CASE File(q) # n
        <4>1. edited'[File(q)] = edited[File(q)]
          BY <1>1, <3>2, <3>4 DEF Regular
        <4> QED BY <1>1, <1>2, <1>3, <3>4, <4>1, WindowSame
      <3> QED BY <3>3, <3>4
    <2> QED BY <2>1, <2>2
  <1> QED BY <1>4, <1>5 DEF FormInv

LEMMA FormStay ==
    ASSUME Sound, Sound', FormInv,
           UNCHANGED <<dir, disk, pc, command, todo, plan, handle, edited, raced, broken, settled>>
    PROVE  FormInv'
  <1>1. Calm' = Calm
    BY DEF Calm, Source
  <1>2. ASSUME NEW m \in Calm PROVE FormOf(m)'
    BY FormSame DEF FormInv, FormOf, BeingWritten
  <1>3. ASSUME NEW q \in Proc PROVE WindowOf(q)'
    <2>1. Only(Exe) /\ (File(q) \in Calm => File(q) # Exe)
      BY ExeFile DEF Only, Calm
    <2> QED BY <1>1, <2>1, WindowSame
  <1> QED BY <1>1, <1>2, <1>3 DEF FormInv

LEMMA FormStep == Sound /\ Sound' /\ Bindings /\ WholeInv /\ FormInv /\ [Next]_vars => FormInv'
  <1> SUFFICES ASSUME Sound, Sound', Bindings, WholeInv, FormInv, [Next]_vars PROVE FormInv'
    OBVIOUS
  <1>1. CASE Tick \/ UNCHANGED vars
    BY <1>1, FormStay DEF Tick, vars, tree, history
  <1> QED BY <1>1, FormQuiet, FormRead, FormFetch, FormTruncate, FormWrite, FormWriteFails, FormStage,
             FormRename, FormEdit DEF Next, Quiet

(* A file that is not changed inside the window of a formatter, and no     *)
(* in-place write of which was cut short, holds the text of its last edit, *)
(* formatted once it was dealt with, for any number of hooks and           *)
(* formatters that come to it by whatever names.                           *)
THEOREM FormattersConverge == Spec => []FormOfLastEdit
  <1>1. Init => WholeInv /\ FormInv
    BY WholeInit, FormInit
  <1>2. FileInv /\ FileInv' /\ WholeInv /\ FormInv /\ [Next]_vars => WholeInv' /\ FormInv'
    BY WholeStep, FormStep DEF FileInv, Sound, LogInv
  <1>3. FormInv => FormOfLastEdit
    BY DEF FormInv, FormOf, FormOfLastEdit, Calm
  <1> QED BY <1>1, <1>2, <1>3, FileInvHolds, PTL DEF Spec

=============================================================================
