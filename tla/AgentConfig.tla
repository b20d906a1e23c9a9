---------------------------- MODULE AgentConfig ----------------------------
(***************************************************************************)
(* The configuration files of the two agents, Claude Code's settings.json  *)
(* and Codex's hooks.json, of one scope, and the commands that change or   *)
(* read them: scut claude|codex config install, uninstall and status, scut *)
(* init and scut doctor.                                                   *)
(*                                                                         *)
(* A command reads a file, merges in memory and writes the file in place:  *)
(* afero.WriteFile truncates and then writes.  Nothing is locked, the      *)
(* agents and their users edit the same files, and a command may be killed *)
(* or its disk be full between any two steps.                              *)
(*                                                                         *)
(* A shell command is abstracted to what the ownership rules look at; all  *)
(* members of a JSON object for which scut has no field of its own are in  *)
(* "fields" (of an entry, a group, the status line) or "keys" (top level). *)
(***************************************************************************)
EXTENDS Naturals, FiniteSets, SequencesExt

CONSTANTS
    Proc,           \* running scut commands
    Commands,       \* [Proc -> the commands it may be]
    Event,          \* hook events; the slug of an event stands for it
    Matcher,        \* [agent -> [registered events -> matcher]]
    Default,        \* [agent -> what install writes without --only]
    Files,          \* files to start with, of both agents
    Hosts,          \* machines to run on
    MaxEdits, MaxCrashes,   \* bounds
    NoLog                   \* without --log-level

Agent == {"claude", "codex"}

(* What is found instead of settings, or of a status line in them: no     *)
(* file, one without text, one whose text is no JSON, no such member.      *)
Lacking(what) == [lacking |-> what]
Absent == Lacking("file")
Empty  == Lacking("text")
Torn   == Lacking("JSON")
NoLine == Lacking("statusLine")

IsSettings(s) == s \notin {Absent, Empty, Torn}

Op == {"install", "uninstall", "status", "doctor", "init"}

Tokens(a) == DOMAIN Matcher[a] \union (IF a = "claude" THEN {"status-line"} ELSE {})

ASSUME AgentConfigAssumption ==
    /\ "status-line" \notin Event
    /\ \A a \in Agent : DOMAIN Matcher[a] \subseteq Event /\ Default[a] \subseteq Tokens(a)
    /\ \A p \in Proc : \A c \in Commands[p] : c.op \in Op /\ c.agents \subseteq Agent
    /\ \A f \in Files :
         /\ f = [a \in Agent |-> f[a]]
         /\ \A a \in Agent : IsSettings(f[a]) =>
              /\ f[a] = [line |-> f[a].line, hooks |-> f[a].hooks, keys |-> f[a].keys]
              /\ DOMAIN f[a].hooks \subseteq Event
              /\ f[a].hooks = [e \in DOMAIN f[a].hooks |-> f[a].hooks[e]]
              /\ \A e \in DOMAIN f[a].hooks : f[a].hooks[e] \in Seq(Range(f[a].hooks[e]))
    /\ MaxEdits \in Nat /\ MaxCrashes \in Nat

VARIABLES
    file,       \* the file of each agent
    home,       \* agents whose .claude or .codex directory exists
    host,       \* [denied, binaries, scut, toml]: what does not change
    pc, command,
    agents,     \* agents a command has still to deal with
    checks,     \* agents still to preflight
    plan,       \* the content to write
    out,        \* what the command has reported
    written,    \* agents whose file it has opened for writing
    edits, crashes,
    original    \* history: the files of the start

vars == <<file, home, host, pc, command, agents, checks, plan, out, written,
          edits, crashes, original>>

-----------------------------------------------------------------------------
(* Ownership. *)

Hook(surface, event, log) == [by |-> "scut", surface |-> surface, leaf |-> event, log |-> log]
StatusLine(log) == Hook("claude", "status-line", log)

Owns(a, c) == /\ c.by = "scut"
              /\ a = "codex" => c.surface = "codex" /\ c.leaf \in Event

(* A group with a foreign command is foreign as a whole. *)
IsScutGroup(a, g) ==
    /\ g.hooks # <<>>
    /\ \A i \in DOMAIN g.hooks : /\ Owns(a, g.hooks[i].command)
                                 /\ a = "codex" => g.hooks[i].type = "command"

ScutGroups(a, groups) == {i \in DOMAIN groups : IsScutGroup(a, groups[i])}

Foreign(a, groups) ==
    LET kept[n \in 0 .. Len(groups)] ==
          IF n = 0 THEN <<>>
          ELSE IF IsScutGroup(a, groups[n]) THEN kept[n - 1]
          ELSE Append(kept[n - 1], groups[n])
    IN kept[Len(groups)]

Unconfigured == [line |-> NoLine, hooks |-> <<>>, keys |-> {}]

GroupsOf(s, e) == IF e \in DOMAIN s.hooks THEN s.hooks[e] ELSE <<>>

(* What unmarshalling keeps: Claude's groups, entries and status line have *)
(* only typed members, Codex's keep the rest in an embedded map.           *)
Untyped(g) ==
    [matcher |-> g.matcher, fields |-> {},
     hooks |-> [i \in DOMAIN g.hooks |->
                  [type |-> g.hooks[i].type, command |-> g.hooks[i].command, fields |-> {}]]]

UntypedLine(line) == IF line = NoLine THEN NoLine ELSE [command |-> line.command, fields |-> {}]

Unmarshal(a, s) ==
    IF a = "codex" THEN s
    ELSE [line |-> UntypedLine(s.line), keys |-> s.keys,
          hooks |-> [e \in DOMAIN s.hooks |-> [i \in DOMAIN s.hooks[e] |-> Untyped(s.hooks[e][i])]]]

-----------------------------------------------------------------------------
(* install and uninstall, in memory. *)

InstallSet(a, only) == IF only = {} THEN Default[a] ELSE only
RemoveSet(a, only) == IF only = {} THEN Tokens(a) ELSE only

ScutGroup(a, e, log) ==
    [matcher |-> Matcher[a][e], fields |-> {},
     hooks |-> <<[type |-> "command", command |-> Hook(a, e, log), fields |-> {}]>>]

(* Mutant: the group is added without a look at the others. *)
MergeBlindly(a, groups, g) == Append(groups, g)

(* Claude's merge puts scut's group first and drops all it had; Codex's    *)
(* replaces the first one with the same matcher, or appends.               *)
Merge(a, groups, g) ==
    LET same == {i \in ScutGroups(a, groups) : groups[i].matcher = g.matcher}
    IN IF a = "claude" THEN <<g>> \o Foreign(a, groups)
       ELSE IF same = {} THEN Append(groups, g)
       ELSE [groups EXCEPT ![CHOOSE i \in same : \A j \in same : i <= j] = g]

Installed(a, s, set, log) ==
    [line |-> IF "status-line" \in set THEN [command |-> StatusLine(log), fields |-> {}] ELSE s.line,
     hooks |-> [e \in DOMAIN s.hooks \union (set \intersect Event) |->
                  IF e \in set THEN Merge(a, GroupsOf(s, e), ScutGroup(a, e, log)) ELSE s.hooks[e]],
     keys |-> s.keys]

ForeignLine(s) == s.line # NoLine /\ ~Owns("claude", s.line.command)

(* Mutant: only what install writes by default is removed. *)
UninstalledDefault(a, s, set) ==
    LET kept(e) == IF e \in set \intersect Default[a] THEN Foreign(a, s.hooks[e]) ELSE s.hooks[e]
    IN [line |-> IF "status-line" \in set /\ ~ForeignLine(s) THEN NoLine ELSE s.line,
        hooks |-> [e \in {d \in DOMAIN s.hooks : d \in set => kept(d) # <<>>} |-> kept(e)],
        keys |-> s.keys]

Uninstalled(a, s, set) ==
    LET kept(e) == IF e \in set THEN Foreign(a, s.hooks[e]) ELSE s.hooks[e]
    IN [line |-> IF "status-line" \in set /\ ~ForeignLine(s) THEN NoLine ELSE s.line,
        hooks |-> [e \in {d \in DOMAIN s.hooks : d \in set => kept(d) # <<>>} |-> kept(e)],
        keys |-> s.keys]

(* install refuses an unknown token, and another status line. *)
Refused(c, a, s) ==
    \/ ~(c.only \subseteq Tokens(a))
    \/ c.op # "uninstall" /\ "status-line" \in InstallSet(a, c.only) /\ ForeignLine(s)

Merged(c, a, s) == IF c.op = "uninstall" THEN Uninstalled(a, s, RemoveSet(a, c.only))
                   ELSE Installed(a, s, InstallSet(a, c.only), c.log)

-----------------------------------------------------------------------------
(* What status and doctor see: whole groups at registered events, and any  *)
(* command at all.                                                         *)

LineCommands(a, s) ==
    IF a = "claude" /\ s.line # NoLine /\ ~ForeignLine(s) THEN {s.line.command} ELSE {}

GroupCommands(g) == {h.command : h \in Range(g.hooks)}

StatusCommands(a, s) ==
    LineCommands(a, s) \union
      UNION {UNION {GroupCommands(s.hooks[e][i]) : i \in ScutGroups(a, s.hooks[e])} :
               e \in DOMAIN Matcher[a] \intersect DOMAIN s.hooks}

DoctorCommands(a, s) ==
    LineCommands(a, s) \union
      UNION {UNION {{h.command : h \in {x \in Range(g.hooks) : x.type = "command" /\ Owns(a, x.command)}} :
                       g \in Range(s.hooks[e])} : e \in DOMAIN s.hooks}

Finding(severity, check) == [severity |-> severity, check |-> check]

Doctor(a) ==
    (IF a = "codex" /\ ~host.user /\ a \in home THEN {Finding("info", "project-trust")} ELSE {})
      \union (IF a = "codex" /\ host.toml = "off" THEN {Finding("error", "hooks-feature")} ELSE {})
      \union (IF a = "codex" /\ host.toml = "inline" /\ file[a] # Absent
                THEN {Finding("warn", "inline-hooks")} ELSE {})
      \union CASE file[a] = Absent -> {Finding("info", "config-exists")}
               [] file[a] \in {Empty, Torn} -> {Finding("error", "parse")}
               [] OTHER -> {Finding("ok", "parse"),
                            Finding(IF DoctorCommands(a, file[a]) = {} THEN "warn" ELSE "ok", "scut-hooks")}

-----------------------------------------------------------------------------
Content(s) == IF IsSettings(s) THEN s ELSE Unconfigured

(* Types, and the bound on growth that repeated and concurrent installs of *)
(* one registry must keep: no event ever has more than one group more than *)
(* it had at the start.                                                    *)
TypeOK ==
    /\ DOMAIN file = Agent /\ home \subseteq Agent
    /\ \A a \in Agent : IsSettings(file[a]) =>
         /\ DOMAIN file[a].hooks \subseteq Event
         /\ \A e \in DOMAIN file[a].hooks :
              Len(file[a].hooks[e]) <= 1 + Len(GroupsOf(Content(original[a]), e))
    /\ \A a \in Agent : file[a] # Absent => a \in home
    /\ pc \in [Proc -> {"start", "preflight", "read", "truncate", "write", "ok", "error", "killed"}]
    /\ \A p \in Proc : command[p].op \in Op /\ Range(agents[p]) \subseteq Agent
    /\ \A p \in Proc : checks[p] \in Seq(Agent) /\ written[p] \subseteq Agent
    /\ edits \in 0 .. MaxEdits /\ crashes \in 0 .. MaxCrashes

Init ==
    /\ file \in Files /\ original = file
    /\ host \in Hosts
    /\ \E more \in SUBSET Agent : home = more \union {a \in Agent : file[a] # Absent}
    /\ pc = [p \in Proc |-> "start"]
    /\ command \in {c \in [Proc -> UNION Range(Commands)] : \A p \in Proc : c[p] \in Commands[p]}
    /\ agents = [p \in Proc |-> <<>>] /\ checks = [p \in Proc |-> <<>>]
    /\ plan = [p \in Proc |-> Unconfigured]
    /\ out = [p \in Proc |-> {}]
    /\ written = [p \in Proc |-> {}]
    /\ edits = 0 /\ crashes = 0

Goto(p, label) == pc' = [pc EXCEPT ![p] = label]

(* Agents are dealt with in a fixed order. *)
InOrder(S) == IF S = {} THEN <<>>
              ELSE IF S = Agent THEN <<"claude", "codex">>
              ELSE <<CHOOSE a \in S : TRUE>>

(* init without a flag takes the agents it detects. *)
Detected == {a \in Agent : a \in home \/ (host.user /\ a \in host.binaries)}

Selected(c) == IF c.agents # {} THEN c.agents
               ELSE IF c.op = "init" THEN Detected
               ELSE Agent

Start(p) ==
    /\ pc[p] = "start"
    /\ LET c == command[p]  todo == InOrder(Selected(c)) IN
       /\ agents' = [agents EXCEPT ![p] = todo]
       /\ IF c.op = "init" /\ ~c.dryRun
            THEN Goto(p, "preflight") /\ checks' = [checks EXCEPT ![p] = todo]
            ELSE Goto(p, "read") /\ UNCHANGED checks
       /\ out' = [out EXCEPT ![p] =
                    IF c.op = "doctor" THEN {Finding(IF host.scut THEN "ok" ELSE "error", "scut-path")}
                    ELSE {}]
    /\ UNCHANGED <<file, home, host, command, plan, written, edits, crashes, original>>

(* preflightWritable opens the file, or creates one next to where it will  *)
(* be, in a directory it makes.                                            *)
PreflightFirst(p) ==
    /\ pc[p] = "preflight" /\ checks[p] # <<>>
    /\ LET a == Head(checks[p]) IN
       IF a \in host.denied
         THEN Goto(p, "error") /\ UNCHANGED <<home, checks>>
         ELSE /\ home' = home \union {a}
              /\ checks' = [checks EXCEPT ![p] = <<>>]
              /\ UNCHANGED pc
    /\ UNCHANGED <<file, host, command, agents, plan, out, written, edits, crashes, original>>

Preflight(p) ==
    /\ pc[p] = "preflight" /\ checks[p] # <<>>
    /\ LET a == Head(checks[p]) IN
       IF a \in host.denied
         THEN Goto(p, "error") /\ UNCHANGED <<home, checks>>
         ELSE /\ home' = home \union {a}
              /\ checks' = [checks EXCEPT ![p] = Tail(@)]
              /\ UNCHANGED pc
    /\ UNCHANGED <<file, host, command, agents, plan, out, written, edits, crashes, original>>

Preflighted(p) ==
    /\ pc[p] = "preflight" /\ checks[p] = <<>>
    /\ Goto(p, "read")
    /\ UNCHANGED <<file, home, host, command, agents, checks, plan, out, written, edits, crashes, original>>

-----------------------------------------------------------------------------
(* Reading the file of the next agent. *)

Reading(p, ops) == pc[p] = "read" /\ agents[p] # <<>> /\ command[p].op \in ops

NextAgent(p) == agents' = [agents EXCEPT ![p] = Tail(@)]

(* readSettings takes a file that is not there for an empty model; an      *)
(* empty file does not parse.                                              *)
Base(a) == Unmarshal(a, Content(file[a]))

(* Mutant: an empty file counts as no settings. *)
ParsesEmpty(a) == file[a] # Torn

Parses(a) == file[a] = Absent \/ IsSettings(file[a])

ReadFails(p) ==
    /\ Reading(p, {"install", "init", "uninstall", "status"})
    /\ ~Parses(Head(agents[p]))
    /\ Goto(p, "error")
    /\ UNCHANGED <<file, home, host, command, agents, checks, plan, out, written, edits, crashes, original>>

NothingToRemove(p) ==
    /\ Reading(p, {"uninstall"})
    /\ file[Head(agents[p])] = Absent
    /\ NextAgent(p)
    /\ UNCHANGED <<file, home, host, pc, command, checks, plan, out, written, edits, crashes, original>>

Merging(p) ==
    /\ Reading(p, {"install", "init", "uninstall"})
    /\ Parses(Head(agents[p]))
    /\ command[p].op = "uninstall" => file[Head(agents[p])] # Absent

Refuse(p) ==
    /\ Merging(p)
    /\ Refused(command[p], Head(agents[p]), Base(Head(agents[p])))
    /\ Goto(p, "error")
    /\ UNCHANGED <<file, home, host, command, agents, checks, plan, out, written, edits, crashes, original>>

DryRun(p) ==
    /\ Merging(p) /\ command[p].dryRun
    /\ LET a == Head(agents[p]) IN
       /\ ~Refused(command[p], a, Base(a))
       /\ out' = [out EXCEPT ![p] = @ \union {Merged(command[p], a, Base(a))}]
    /\ NextAgent(p)
    /\ UNCHANGED <<file, home, host, pc, command, checks, plan, written, edits, crashes, original>>

MergeFile(p) ==
    /\ Merging(p) /\ ~command[p].dryRun
    /\ LET a == Head(agents[p]) IN
       /\ ~Refused(command[p], a, Base(a))
       /\ plan' = [plan EXCEPT ![p] = Merged(command[p], a, Base(a))]
    /\ Goto(p, "truncate")
    /\ UNCHANGED <<file, home, host, command, agents, checks, out, written, edits, crashes, original>>

ShowStatus(p) ==
    /\ Reading(p, {"status"}) /\ Parses(Head(agents[p]))
    /\ out' = [out EXCEPT ![p] = StatusCommands(Head(agents[p]), Base(Head(agents[p])))]
    /\ NextAgent(p)
    /\ UNCHANGED <<file, home, host, pc, command, checks, plan, written, edits, crashes, original>>

Diagnose(p) ==
    /\ Reading(p, {"doctor"})
    /\ out' = [out EXCEPT ![p] = @ \union Doctor(Head(agents[p]))]
    /\ NextAgent(p)
    /\ UNCHANGED <<file, home, host, pc, command, checks, plan, written, edits, crashes, original>>

Finish(p) ==
    /\ pc[p] = "read" /\ agents[p] = <<>>
    /\ Goto(p, IF command[p].op = "doctor" /\ \E f \in out[p] : f.severity = "error"
                 THEN "error" ELSE "ok")
    /\ UNCHANGED <<file, home, host, command, agents, checks, plan, out, written, edits, crashes, original>>

-----------------------------------------------------------------------------
(* Writing it: open with O_TRUNC, write, close. *)

Truncate(p) ==
    /\ pc[p] = "truncate"
    /\ LET a == Head(agents[p]) IN
       IF a \in host.denied
         THEN Goto(p, "error") /\ UNCHANGED <<file, home, written>>
         ELSE /\ file' = [file EXCEPT ![a] = Empty]
              /\ home' = home \union {a}
              /\ written' = [written EXCEPT ![p] = @ \union {a}]
              /\ Goto(p, "write")
    /\ UNCHANGED <<host, command, agents, checks, plan, out, edits, crashes, original>>

(* Who writes over what another writer has just written may leave a tail   *)
(* of it.                                                                  *)
Write(p) ==
    /\ pc[p] = "write"
    /\ LET a == Head(agents[p]) IN
       \/ file' = [file EXCEPT ![a] = plan[p]]
       \/ file[a] # Empty /\ file' = [file EXCEPT ![a] = Torn]
    /\ NextAgent(p)
    /\ Goto(p, "read")
    /\ UNCHANGED <<home, host, command, checks, plan, out, written, edits, crashes, original>>

WriteFails(p) ==
    /\ pc[p] = "write" /\ crashes < MaxCrashes
    /\ crashes' = crashes + 1
    /\ \E left \in {Empty, Torn} : file' = [file EXCEPT ![Head(agents[p])] = left]
    /\ Goto(p, "error")
    /\ UNCHANGED <<home, host, command, agents, checks, plan, out, written, edits, original>>

Crash(p) ==
    /\ pc[p] \in {"preflight", "read", "truncate", "write"} /\ crashes < MaxCrashes
    /\ crashes' = crashes + 1
    /\ Goto(p, "killed")
    /\ UNCHANGED <<file, home, host, command, agents, checks, plan, out, written, edits, original>>

(* The agent, or its user, adds a setting. *)
Edit(a) ==
    /\ edits < MaxEdits /\ edits' = edits + 1
    /\ IsSettings(file[a]) \/ file[a] = Absent
    /\ LET s == Content(file[a]) IN
       file' = [file EXCEPT ![a] = [line |-> s.line, hooks |-> s.hooks, keys |-> s.keys \union {"edit"}]]
    /\ home' = home \union {a}
    /\ UNCHANGED <<host, pc, command, agents, checks, plan, out, written, crashes, original>>

Next ==
    \/ \E p \in Proc :
         \/ Start(p) \/ Preflight(p) \/ Preflighted(p)
         \/ ReadFails(p) \/ NothingToRemove(p) \/ Refuse(p) \/ DryRun(p) \/ MergeFile(p)
         \/ ShowStatus(p) \/ Diagnose(p) \/ Finish(p)
         \/ Truncate(p) \/ Write(p) \/ WriteFails(p) \/ Crash(p)
    \/ \E a \in Agent : Edit(a)

Spec == Init /\ [][Next]_vars

-----------------------------------------------------------------------------
(* Properties. *)

ForeignGroups(a, s) == [e \in Event |-> Foreign(a, GroupsOf(s, e))]

(* "It must preserve unrelated user configuration": whatever commands, two *)
(* writers at once, killed writers and edits do, a file that parses has    *)
(* all the settings and the foreign groups of the start, in their order.   *)
(* (Claude's only as far as its model has a member for them.)              *)
ForeignSurvives ==
    \A a \in Agent : IsSettings(file[a]) /\ IsSettings(original[a]) =>
        /\ original[a].keys \subseteq file[a].keys
        /\ ForeignGroups(a, Unmarshal(a, file[a])) = ForeignGroups(a, Unmarshal(a, original[a]))

(* The same to the letter: "The model preserves foreign top-level keys and *)
(* non-scut hook groups."                                                  *)
ForeignPreserved ==
    \A a \in Agent : IsSettings(file[a]) /\ IsSettings(original[a]) =>
        ForeignGroups(a, file[a]) = ForeignGroups(a, original[a])

Planned(p) == pc[p] \in {"truncate", "write"}

(* "Repeated installs are idempotent": from what a command is about to     *)
(* write, the same command would write the same.                           *)
Idempotent ==
    \A p \in Proc : Planned(p) =>
        LET a == Head(agents[p]) IN
        /\ ~Refused(command[p], a, plan[p])
        /\ Merged(command[p], a, plan[p]) = plan[p]

(* status, doctor and the writers agree on what is scut's: after install   *)
(* both see every command it installed, Claude's events having one scut    *)
(* group each, and after an uninstall of everything status sees nothing.   *)
WritersSeen ==
    \A p \in Proc : Planned(p) =>
        LET a == Head(agents[p])  c == command[p]  s == plan[p]
            set == InstallSet(a, c.only)
        IN IF c.op = "uninstall" THEN c.only = {} => StatusCommands(a, s) = {}
           ELSE /\ \A e \in set \intersect Event :
                     /\ Hook(a, e, c.log) \in StatusCommands(a, s) \intersect DoctorCommands(a, s)
                     /\ a = "claude" => Cardinality(ScutGroups(a, s.hooks[e])) = 1
                /\ "status-line" \in set => StatusLine(c.log) \in DoctorCommands(a, s)

(* "Selected targets are preflighted before any files are written": init   *)
(* opens no file for writing when one of its targets cannot be written.    *)
PreflightGuards ==
    \A p \in Proc : command[p].op = "init" /\ command[p].agents \intersect host.denied # {} =>
        written[p] = {}
=============================================================================
