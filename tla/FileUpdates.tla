---------------------------- MODULE FileUpdates ----------------------------
(***************************************************************************)
(* The scut processes that rewrite files of the user, and the log they     *)
(* share: the post-tool-use hooks of Claude Code and Codex, which format   *)
(* in place what the agent has just edited; scut format, which stages a    *)
(* temporary file next to the target and renames it over; scut update,     *)
(* which replaces the executable the same way; scut logging clean.         *)
(*                                                                         *)
(* A name stands for a file (an inode) or is a symbolic link to another    *)
(* name.  A process that has opened a file keeps the inode when the name   *)
(* is replaced or deleted.  A text is known by the edit it came from and   *)
(* by whether it is in its formatted form.                                 *)
(***************************************************************************)
EXTENDS Naturals, FiniteSets, SequencesExt

CONSTANTS
    Proc,           \* running scut processes
    Commands,       \* [Proc -> the commands it may be]
    Name,           \* paths
    Links,          \* [names that are links -> their target]
    Exe, Running,   \* the scut executable's name and release
    Ignored,        \* names an ignore file excludes
    IgnoreFails,    \* names whose ignore files cannot be read
    Declined,       \* edits whose text no formatter takes: bad syntax
    MaxRecords,     \* records after which a log is too large
    Touched,        \* files that are edited and deleted, a bound
    MaxNames,       \* the most names a command has
    MaxEdits, MaxFaults, MaxSeconds,    \* bounds
    User, Absent, Blank, Mixed, Corrupt, NoSum, Before

(* An inode is known by who made it, when (the edit, or how many names the *)
(* process still had to deal with) and the name it was made for.           *)
Inode == {User} \X (0 .. MaxEdits) \X Name \union Proc \X (1 .. MaxNames) \X Name

Kind == {"hook", "format", "check", "update", "clean"}

(* The formatters take .go and .md files only, update its own executable.  *)
ASSUME FileUpdatesAssumption ==
    /\ DOMAIN Links \subseteq Name \ {Exe} /\ Range(Links) \subseteq Name \ (DOMAIN Links \union {Exe})
    /\ Touched \subseteq Name \ (DOMAIN Links \union {Exe})
    /\ {MaxRecords, MaxNames, MaxEdits, MaxFaults, MaxSeconds} \subseteq Nat
    /\ Exe \in Name /\ Name \intersect Inode = {} /\ User \notin Proc
    /\ Before \notin Proc /\ Absent \notin Proc \union {Before} \union Name \union Inode \union Nat
    /\ {Blank, Mixed} \intersect Nat = {} /\ Blank # Mixed /\ Declined \subseteq Nat /\ Corrupt # NoSum
    /\ \A p \in Proc : \A c \in Commands[p] :
         /\ c.kind \in Kind /\ c.names \in Seq(Name) /\ Len(c.names) <= MaxNames
         /\ IF c.kind = "update" THEN c.names = <<Exe>> ELSE Exe \notin Range(c.names)
         /\ c.log => c.kind = "hook"

VARIABLES
    dir,        \* what a name is bound to: an inode, a name or Absent
    disk,       \* the text of an inode
    temps,      \* inodes with a temporary name
    pc, command,
    todo,       \* names a process has still to deal with
    plan,       \* the text it is going to write
    handle,     \* the inode it has open for writing
    changed,    \* names it has formatted, or would
    log,        \* the current log
    rotated,    \* the log renamed in a second
    records,    \* processes with a record in a log
    logger,     \* the log a process has open
    now,        \* seconds
    edits, faults,
    edited,     \* history: the last edit of a file
    raced,      \* history: files changed between a read and its write
    broken,     \* history: files an in-place write was cut short on
    settled,    \* history: files formatted since their last edit
    clashes     \* history: how logs came to be lost

tree == <<dir, disk, temps>>
logs == <<log, rotated, records, now, clashes>>
history == <<edited, raced, broken, settled>>
vars == <<tree, pc, command, todo, plan, handle, changed, logs, logger, edits, faults, history>>

-----------------------------------------------------------------------------
(* Texts, and what the byte formatters make of them. *)

Text(edit, formatted) == [of |-> edit, formatted |-> formatted]
Nothing == Text(Blank, TRUE)

(* Mutant: no result is written as an empty one. *)
ResultsOrNothing(s) ==
    IF s.of \in Declined THEN {Nothing}
    ELSE {Text(s.of, TRUE)}

(* A declined text counts as unchanged; a mixed one may still parse. *)
Results(s) ==
    IF s.of \in Declined THEN {s}
    ELSE {Text(s.of, TRUE)} \union (IF s.of = Mixed THEN {s} ELSE {})

Target(n) == IF dir[n] \in Name THEN dir[n] ELSE n

Exists(n) == dir[Target(n)] # Absent

LogFile == Proc \union {Before}
Linked == ({log} \union Range(rotated)) \ {Absent}
Large(l) == Cardinality(records[l]) > MaxRecords

-----------------------------------------------------------------------------
(* Types; and a temporary file is there while its process stages it, or    *)
(* for good after the process was killed, under no other name.             *)
TypeOK ==
    /\ DOMAIN dir = Name /\ Range(dir) \subseteq Inode \union Name \union {Absent}
    /\ DOMAIN disk = Inode /\ \A i \in Inode : disk[i].formatted \in BOOLEAN
    /\ \A i \in temps : /\ i \in Inode /\ i[1] \in Proc /\ i \notin Range(dir)
                        /\ pc[i[1]] \in {"fill", "rename", "killed"}
    /\ \A p \in Proc : command[p].kind \in Kind /\ Range(todo[p]) \subseteq Name
    /\ handle \in [Proc -> Inode \union {Absent}] /\ changed \in [Proc -> SUBSET Name]
    /\ log \in LogFile \union {Absent} /\ rotated \in [0 .. MaxSeconds -> LogFile \union {Absent}]
    /\ records \in [LogFile -> SUBSET LogFile] /\ logger \in [Proc -> LogFile \union {Absent}]
    /\ now \in 0 .. MaxSeconds /\ edits \in 0 .. MaxEdits /\ faults \in 0 .. MaxFaults

Init ==
    /\ dir = [n \in Name |-> IF n \in DOMAIN Links THEN Links[n] ELSE <<User, 0, n>>]
    /\ disk = [i \in Inode |-> IF i[3] = Exe THEN Text(Running, TRUE) ELSE Text(0, FALSE)]
    /\ temps = {}
    /\ pc = [p \in Proc |-> "start"]
    /\ command \in {c \in [Proc -> UNION Range(Commands)] : \A p \in Proc : c[p] \in Commands[p]}
    /\ todo = [p \in Proc |-> command[p].names]
    /\ plan = [p \in Proc |-> Nothing] /\ handle = [p \in Proc |-> Absent]
    /\ changed = [p \in Proc |-> {}]
    /\ log \in {Absent, Before} /\ rotated = [s \in 0 .. MaxSeconds |-> Absent]
    /\ records = [l \in LogFile |-> IF l = Before /\ log = Before THEN {Before} ELSE {}]
    /\ logger = [p \in Proc |-> Absent]
    /\ now = 0 /\ edits = 0 /\ faults = 0
    /\ edited = [n \in Name |-> 0]
    /\ raced = {} /\ broken = {} /\ settled = {} /\ clashes = {}

Goto(p, label) == pc' = [pc EXCEPT ![p] = label]

Is(p, kinds) == command[p].kind \in kinds

Current(p) == Head(todo[p])

File(p) == Target(Current(p))

(* The inode a process makes for the file it deals with. *)
Made(p) == <<p, Len(todo[p]), File(p)>>

-----------------------------------------------------------------------------
(* The log: logging.Open rotates a large one and opens for appending. *)

Start(p) ==
    /\ pc[p] = "start"
    /\ Goto(p, IF command[p].log THEN "statlog"
               ELSE IF Is(p, {"clean"}) THEN "clean"
               ELSE IF Is(p, {"update"}) THEN "fetch" ELSE "look")
    /\ UNCHANGED <<tree, command, todo, plan, handle, changed, logs, logger, edits, faults, history>>

StatLog(p) ==
    /\ pc[p] = "statlog"
    /\ Goto(p, IF log # Absent /\ Large(log) THEN "rotate" ELSE "openlog")
    /\ UNCHANGED <<tree, command, todo, plan, handle, changed, logs, logger, edits, faults, history>>

(* A rename over another log loses it; if there is none left to rename the *)
(* process goes on without a logger.                                       *)
Rotate(p) ==
    /\ pc[p] = "rotate"
    /\ IF log = Absent THEN Goto(p, "look") /\ UNCHANGED <<log, rotated, clashes>>
       ELSE /\ rotated' = [rotated EXCEPT ![now] = log] /\ log' = Absent
            /\ clashes' = clashes \union (IF rotated[now] # Absent THEN {"second"} ELSE {})
            /\ Goto(p, "openlog")
    /\ UNCHANGED <<tree, command, todo, plan, handle, changed, records, now, logger, edits, faults, history>>

(* Mutant: the log is not opened for appending. *)
OpenLogAnew(p) ==
    /\ pc[p] = "openlog"
    /\ log' = (IF log = Absent THEN p ELSE log)
    /\ records' = [records EXCEPT ![log'] = {}]
    /\ logger' = [logger EXCEPT ![p] = log']
    /\ Goto(p, "look")
    /\ UNCHANGED <<tree, command, todo, plan, handle, changed, rotated, now, clashes, edits, faults, history>>

OpenLog(p) ==
    /\ pc[p] = "openlog"
    /\ log' = (IF log = Absent THEN p ELSE log)
    /\ logger' = [logger EXCEPT ![p] = log']
    /\ Goto(p, "look")
    /\ UNCHANGED <<tree, command, todo, plan, handle, changed, rotated, records, now, clashes, edits, faults, history>>

(* The last record, and the end of the process. *)
Return(p) ==
    /\ pc[p] = "look" /\ todo[p] = <<>>
    /\ records' = IF logger[p] = Absent THEN records ELSE [records EXCEPT ![logger[p]] = @ \union {p}]
    /\ Goto(p, IF Is(p, {"check"}) /\ changed[p] # {} THEN "failed" ELSE "done")
    /\ UNCHANGED <<tree, command, todo, plan, handle, changed, log, rotated, now, clashes, logger,
                   edits, faults, history>>

(* logging clean removes the logs it lists, all or the old ones. *)
Clean(p) ==
    /\ pc[p] = "clean"
    /\ LET gone == {l \in Linked : command[p].all \/ records[l] = {Before}} IN
       /\ log' = (IF log \in gone THEN Absent ELSE log)
       /\ rotated' = [s \in DOMAIN rotated |-> IF rotated[s] \in gone THEN Absent ELSE rotated[s]]
       /\ clashes' = clashes \union {"clean"}
    /\ Goto(p, "done")
    /\ UNCHANGED <<tree, command, todo, plan, handle, changed, records, now, logger, edits, faults, history>>

-----------------------------------------------------------------------------
(* The loop over names of the formatters. *)

Looking(p) == pc[p] = "look" /\ todo[p] # <<>>

Next_(p) == todo' = [todo EXCEPT ![p] = Tail(@)]

IsIgnored(p) == Current(p) \in Ignored \ IgnoreFails /\ ~command[p].force

(* A hook passes over a missing file, and formats when it cannot read the  *)
(* ignore files; scut format fails on both.                                *)
Stops(p) == \/ ~Exists(Current(p))
            \/ Current(p) \in IgnoreFails /\ ~command[p].force

Skip(p) ==
    /\ Looking(p)
    /\ \/ Is(p, {"hook"}) /\ (~Exists(Current(p)) \/ IsIgnored(p))
       \/ ~Is(p, {"hook"}) /\ ~Stops(p) /\ IsIgnored(p)
    /\ Next_(p)
    /\ UNCHANGED <<tree, pc, command, plan, handle, changed, logs, logger, edits, faults, history>>

LookFails(p) ==
    /\ Looking(p) /\ ~Is(p, {"hook"}) /\ Stops(p)
    /\ Goto(p, "failed")
    /\ UNCHANGED <<tree, command, todo, plan, handle, changed, logs, logger, edits, faults, history>>

Select(p) ==
    /\ Looking(p) /\ ~IsIgnored(p)
    /\ IF Is(p, {"hook"}) THEN Exists(Current(p)) ELSE ~Stops(p)
    /\ Goto(p, "read")
    /\ UNCHANGED <<tree, command, todo, plan, handle, changed, logs, logger, edits, faults, history>>

ReadMissing(p) ==
    /\ pc[p] = "read" /\ ~Exists(Current(p))
    /\ IF Is(p, {"hook"}) THEN Next_(p) /\ Goto(p, "look")
       ELSE Goto(p, "failed") /\ UNCHANGED todo
    /\ UNCHANGED <<tree, command, plan, handle, changed, logs, logger, edits, faults, history>>

(* Read and format: nothing to do when the result is the source. *)
Unchanged(p) ==
    /\ pc[p] = "read" /\ Exists(Current(p))
    /\ disk[dir[File(p)]] \in Results(disk[dir[File(p)]])
    /\ Next_(p) /\ Goto(p, "look")
    /\ settled' = IF Is(p, {"check"}) THEN settled ELSE settled \union {File(p)}
    /\ UNCHANGED <<tree, command, plan, handle, changed, logs, logger, edits, faults, edited, raced, broken>>

Differs(p) == pc[p] = "read" /\ Exists(Current(p))

Report(p) ==
    /\ Differs(p) /\ Is(p, {"check"})
    /\ \E s \in Results(disk[dir[File(p)]]) : s # disk[dir[File(p)]]
    /\ changed' = [changed EXCEPT ![p] = @ \union {Current(p)}]
    /\ Next_(p) /\ Goto(p, "look")
    /\ UNCHANGED <<tree, command, plan, handle, logs, logger, edits, faults, history>>

Read(p) ==
    /\ Differs(p) /\ Is(p, {"hook", "format"})
    /\ \E s \in Results(disk[dir[File(p)]]) :
         /\ s # disk[dir[File(p)]]
         /\ plan' = [plan EXCEPT ![p] = s]
    /\ Goto(p, IF Is(p, {"hook"}) THEN "truncate" ELSE "stage")
    /\ UNCHANGED <<tree, command, todo, handle, changed, logs, logger, edits, faults, history>>

-----------------------------------------------------------------------------
(* A hook writes in place: afero.WriteFile truncates, or creates again     *)
(* what was deleted meanwhile, and writes through the handle.              *)

Truncate(p) ==
    /\ pc[p] = "truncate"
    /\ LET n == File(p)  i == IF dir[n] = Absent THEN Made(p) ELSE dir[n] IN
       /\ dir' = [dir EXCEPT ![n] = i]
       /\ disk' = [disk EXCEPT ![i] = Nothing]
       /\ handle' = [handle EXCEPT ![p] = i]
    /\ Goto(p, "write")
    /\ UNCHANGED <<temps, command, todo, plan, changed, logs, logger, edits, faults, history>>

(* Over a longer text that another has written meanwhile, a tail remains. *)
Written(p) == {plan[p]} \union
              (IF disk[handle[p]] \in {Nothing, plan[p]} THEN {} ELSE {Text(Mixed, FALSE)})

Write(p) ==
    /\ pc[p] = "write"
    /\ \E s \in Written(p) : disk' = [disk EXCEPT ![handle[p]] = s]
    /\ changed' = [changed EXCEPT ![p] = @ \union {Current(p)}]
    /\ settled' = settled \union {File(p)}
    /\ handle' = [handle EXCEPT ![p] = Absent]
    /\ Next_(p) /\ Goto(p, "look")
    /\ UNCHANGED <<dir, temps, command, plan, logs, logger, edits, faults, edited, raced, broken>>

(* A hook swallows the error of its write. *)
WriteFails(p) ==
    /\ pc[p] = "write" /\ faults < MaxFaults /\ faults' = faults + 1
    /\ \E s \in {Nothing, Text(Mixed, FALSE)} : disk' = [disk EXCEPT ![handle[p]] = s]
    /\ broken' = broken \union {File(p)}
    /\ handle' = [handle EXCEPT ![p] = Absent]
    /\ Next_(p) /\ Goto(p, "look")
    /\ UNCHANGED <<dir, temps, command, plan, changed, logs, logger, edits, edited, raced, settled>>

-----------------------------------------------------------------------------
(* scut format and update replace by rename.  A temporary file has its     *)
(* process's own inode, and each one a new one.                            *)

(* Mutant: the staged file takes its name before it is filled. *)
StageInPlace(p) ==
    /\ pc[p] = "stage"
    /\ disk' = [disk EXCEPT ![Made(p)] = Nothing]
    /\ dir' = [dir EXCEPT ![File(p)] = Made(p)]
    /\ Goto(p, "fill")
    /\ UNCHANGED <<temps, command, todo, plan, handle, changed, logs, logger, edits, faults, history>>

Stage(p) ==
    /\ pc[p] = "stage"
    /\ disk' = [disk EXCEPT ![Made(p)] = Nothing]
    /\ temps' = temps \union {Made(p)}
    /\ Goto(p, "fill")
    /\ UNCHANGED <<dir, command, todo, plan, handle, changed, logs, logger, edits, faults, history>>

Fill(p) ==
    /\ pc[p] = "fill"
    /\ disk' = [disk EXCEPT ![Made(p)] = plan[p]]
    /\ Goto(p, "rename")
    /\ UNCHANGED <<dir, temps, command, todo, plan, handle, changed, logs, logger, edits, faults, history>>

(* Mutant: the temporary file is left when it could not be filled. *)
StageFailsUntidy(p) ==
    /\ pc[p] \in {"stage", "fill", "rename"} /\ faults < MaxFaults /\ faults' = faults + 1
    /\ Goto(p, "failed")
    /\ UNCHANGED <<tree, command, todo, plan, handle, changed, logs, logger, edits, history>>

StageFails(p) ==
    /\ pc[p] \in {"stage", "fill", "rename"} /\ faults < MaxFaults /\ faults' = faults + 1
    /\ temps' = temps \ {Made(p)}
    /\ Goto(p, "failed")
    /\ UNCHANGED <<dir, disk, command, todo, plan, handle, changed, logs, logger, edits, history>>

Rename(p) ==
    /\ pc[p] = "rename"
    /\ dir' = [dir EXCEPT ![File(p)] = Made(p)]
    /\ temps' = temps \ {Made(p)}
    /\ changed' = [changed EXCEPT ![p] = @ \union {Current(p)}]
    /\ settled' = settled \union {File(p)}
    /\ Next_(p) /\ Goto(p, "look")
    /\ UNCHANGED <<disk, command, plan, handle, logs, logger, edits, faults, edited, raced, broken>>

(* update downloads the release and its checksums, within a time limit. *)
Downloads(release) == {release, Corrupt}
Checksums(release) == {release, NoSum}

Verifies(archive, sum) == archive = sum

Fetch(p) ==
    /\ pc[p] = "fetch"
    /\ LET c == command[p] IN
       IF ~c.script \/ c.release = Running
         THEN Goto(p, "done") /\ UNCHANGED plan
         ELSE \/ Goto(p, "failed") /\ UNCHANGED plan
              \/ \E archive \in Downloads(c.release), sum \in Checksums(c.release) :
                   /\ Verifies(archive, sum)
                   /\ plan' = [plan EXCEPT ![p] = Text(archive, TRUE)]
                   /\ Goto(p, "stage")
    /\ UNCHANGED <<tree, command, todo, handle, changed, logs, logger, edits, faults, history>>

-----------------------------------------------------------------------------
(* The world around. *)

Crash(p) ==
    /\ pc[p] \in {"read", "truncate", "write", "stage", "fill", "rename"} /\ faults < MaxFaults
    /\ faults' = faults + 1
    /\ Goto(p, "killed")
    /\ broken' = IF pc[p] = "write" THEN broken \union {File(p)} ELSE broken
    /\ UNCHANGED <<tree, command, todo, plan, handle, changed, logs, logger, edits, edited, raced, settled>>

(* Between its read and its write a process does not look again. *)
InWindow(n) == \E p \in Proc : /\ pc[p] \in {"truncate", "write", "stage", "fill", "rename"}
                               /\ File(p) = n

Source == Name \ (DOMAIN Links \union {Exe})

(* The agent or an editor changes, creates or deletes a file. *)
Edit(n) ==
    /\ edits < MaxEdits /\ edits' = edits + 1
    /\ LET i == IF dir[n] = Absent THEN <<User, edits + 1, n>> ELSE dir[n] IN
       /\ dir' = [dir EXCEPT ![n] = i]
       /\ disk' = [disk EXCEPT ![i] = Text(edits + 1, FALSE)]
    /\ edited' = [edited EXCEPT ![n] = edits + 1]
    /\ settled' = settled \ {n}
    /\ raced' = IF InWindow(n) THEN raced \union {n} ELSE raced
    /\ broken' = broken \ {n}
    /\ UNCHANGED <<temps, pc, command, todo, plan, handle, changed, logs, logger, faults>>

Delete(n) ==
    /\ dir[n] # Absent /\ edits < MaxEdits /\ edits' = edits + 1
    /\ dir' = [dir EXCEPT ![n] = Absent]
    /\ edited' = [edited EXCEPT ![n] = Absent]
    /\ raced' = IF InWindow(n) THEN raced \union {n} ELSE raced
    /\ UNCHANGED <<disk, temps, pc, command, todo, plan, handle, changed, logs, logger, faults, broken, settled>>

Tick ==
    /\ now < MaxSeconds /\ now' = now + 1
    /\ UNCHANGED <<tree, pc, command, todo, plan, handle, changed, log, rotated, records, clashes, logger,
                   edits, faults, history>>

Next ==
    \/ \E p \in Proc :
         \/ Start(p) \/ StatLog(p) \/ Rotate(p) \/ OpenLog(p) \/ Return(p) \/ Clean(p)
         \/ Skip(p) \/ LookFails(p) \/ Select(p) \/ ReadMissing(p) \/ Unchanged(p) \/ Report(p) \/ Read(p)
         \/ Truncate(p) \/ Write(p) \/ WriteFails(p)
         \/ Stage(p) \/ Fill(p) \/ StageFails(p) \/ Rename(p) \/ Fetch(p) \/ Crash(p)
    \/ \E n \in Touched : Edit(n) \/ Delete(n)
    \/ Tick

Spec == Init /\ [][Next]_vars

-----------------------------------------------------------------------------
(* Properties. *)

BeingWritten(n) == \E p \in Proc : pc[p] = "write" /\ handle[p] = dir[n]

(* However many hooks and formatters deal with one file at once, through   *)
(* the file or a link to it, in place or by rename: unless the file was    *)
(* changed inside the window of one of them or an in-place write was cut   *)
(* short, it holds the text of its last edit (or is gone, if deleted),     *)
(* empty only while a hook has it open, and in its formatted form once a   *)
(* formatter has dealt with it.                                            *)
FormOfLastEdit ==
    \A n \in Source \ (raced \union broken) :
        IF edited[n] = Absent THEN dir[n] = Absent
        ELSE /\ dir[n] # Absent
             /\ LET s == disk[dir[n]] IN
                \/ s.of = edited[n] /\ (n \in settled => s.formatted \/ s.of \in Declined)
                \/ s = Nothing /\ BeingWritten(n)

HookNames == UNION {Range(command[p].names) : p \in {q \in Proc : Is(q, {"hook"})}}

(* "Named files are formatted atomically in place": a file that no hook    *)
(* writes is never seen empty or mixed, whichever process is killed at     *)
(* whichever step; "symbolic links remain links"; and the executable is    *)
(* always the old one or a release whose checksum was verified.            *)
Whole ==
    /\ \A n \in Source : dir[n] # Absent /\ n \notin {Target(h) : h \in HookNames} =>
         disk[dir[n]].of \notin {Blank, Mixed}
    /\ \A n \in DOMAIN Links : dir[n] = Links[n]
    /\ disk[dir[Exe]].of \in {Running} \union {command[p].release : p \in {q \in Proc : Is(q, {"update"})}}

Recorded(x) == IF x = Before THEN \E l \in LogFile : x \in records[l]
               ELSE pc[x] \in {"done", "failed"} /\ todo[x] = <<>> /\ logger[x] # Absent

(* A record that was written stays in a log, whatever rotates in between,  *)
(* unless logs were cleaned or rotated twice in one second.                *)
RecordsKept ==
    clashes = {} =>
        \A x \in LogFile : Recorded(x) => \E l \in Linked : x \in records[l]
=============================================================================
