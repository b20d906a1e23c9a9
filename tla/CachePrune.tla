----------------------------- MODULE CachePrune -----------------------------
(***************************************************************************)
(* The cache commands (scut gotools cache list, verify, remove, clean,     *)
(* prune) next to the lookups and the cache commands of other invocations. *)
(*                                                                         *)
(* One command runs here, step by step; nothing is locked.  It walks the   *)
(* owned root one directory at a time, twice for an inspection (sizes,     *)
(* then entries), and a prune then removes by name what that inspection    *)
(* selected.  What the others do is in the actions named Other...: they    *)
(* stage and publish entries, record latest, and remove entries.           *)
(*                                                                         *)
(* An entry is a version directory with its size, the newest modification  *)
(* time in it and the state inspection finds it in.  ArchiveStore has the  *)
(* files of one entry; here os.RemoveAll empties a version directory in    *)
(* one step and removes it in another, and takes an entry of a larger      *)
(* target in one step.  Empty @v directories, symlinks under the root and  *)
(* the bytes of a directory itself are left out.                           *)
(***************************************************************************)
EXTENDS Integers, FiniteSets, SequencesExt

CONSTANTS
    Module, Version,
    Bytes,          \* [Module \X Version -> Nat]: the size of a whole entry
    Rank,           \* [Module \X Version -> Nat]: the order by path, then version
    Commands,       \* the commands to run
    Caches,         \* the caches to find
    MaxOthers,      \* bound: steps of other invocations and of the clock
    NoEntry, NoVersion, NoLimit

Entry == Module \X Version

Directory(size, modified, status) == [size |-> size, modified |-> modified, status |-> status]

Status == {"valid", "incomplete", "invalid"}

VersionDir == [size : Nat, modified : Int, status : Status]

Op == {"list", "verify", "remove", "clean", "prune"}

(* A command without a target has mod and ver NoVersion; a limit that is   *)
(* not given is NoLimit.                                                   *)
Command ==
    [op : Op, mod : Module \union {NoVersion}, ver : Version \union {NoVersion},
     older : Int \union {NoLimit}, max : Int \union {NoLimit}]

Cache ==
    [entry : [Entry -> VersionDir \union {NoEntry}], staged : [Entry -> Int \union {NoEntry}],
     alias : [Module -> Version \union {NoVersion}], stray : SUBSET Module]

ASSUME CachePruneAssumption ==
    /\ IsFiniteSet(Module) /\ IsFiniteSet(Version)
    /\ Bytes \in [Entry -> Nat \ {0}]
    /\ Rank \in [Entry -> Nat]
    /\ \A e, f \in Entry : Rank[e] = Rank[f] => e = f
    /\ MaxOthers \in Nat
    /\ Commands \subseteq Command
    /\ \A c \in Commands : /\ c.op = "remove" => c.mod # NoVersion
                           /\ c.op \in {"clean", "prune"} => c.mod = NoVersion
                           /\ c.ver # NoVersion => c.mod # NoVersion
    /\ Caches \subseteq Cache
    /\ NoEntry \notin VersionDir /\ NoEntry \notin Int
    /\ NoVersion \notin Module /\ NoVersion \notin Version
    /\ NoLimit \notin Int

VARIABLES
    entry,      \* every version directory, or NoEntry
    staged,     \* the time a directory .archive-* was filled, for each entry
    alias,      \* the version each module's latest names
    stray,      \* modules with an unexpected file in @v
    leaving,    \* entries other invocations are removing
    now, others,
    command, pc,
    pass,       \* the first or the second inspection of a prune
    mods, todo, \* what a walk has still to visit
    measured, listed, problems, \* ModuleCacheInventory: size, entries, problems
    at, named,  \* the module being inspected and the version its latest names
    queue,      \* entries to remove, the first one is being removed
    removal,    \* ModuleCacheRemoval of the target being removed
    total,      \* ModuleCacheRemoval of the command
    before, touched   \* history: the cache at the start, what others changed since

cache  == <<entry, staged, alias, stray>>
inventory == <<measured, listed, problems, at, named>>
work   == <<pass, mods, todo, inventory, queue, removal, total>>
vars   == <<cache, leaving, now, others, command, pc, work, before, touched>>

-----------------------------------------------------------------------------
AliasBytes == 1

(* What lies in a module's @v. *)
Item == {"entry", "staged"} \X Entry \union {"alias", "stray"} \X Module

Present(i) ==
    \/ i[1] = "entry" /\ entry[i[2]] # NoEntry
    \/ i[1] = "staged" /\ staged[i[2]] # NoEntry
    \/ i[1] = "alias" /\ alias[i[2]] # NoVersion
    \/ i[1] = "stray" /\ i[2] \in stray

SizeOf(i) ==
    IF i[1] = "entry" THEN entry[i[2]].size
    ELSE IF i[1] = "staged" THEN Bytes[i[2]]
    ELSE AliasBytes

InModule(i, m) == IF i[1] \in {"entry", "staged"} THEN i[2][1] = m ELSE i[2] = m

Items(m) == {i \in Item : InModule(i, m) /\ Present(i)}

TotalSize == MapThenSumSet(SizeOf, {i \in Item : Present(i)})

(* The files below a directory go away while it is walked. *)
BeingRemoved(i) == i[1] = "entry" /\ i[2] \in leaving

Nothing == [entries |-> 0, bytes |-> 0]

NothingListed == [e \in Entry |-> NoEntry]

EmptyInventory ==
    measured = 0 /\ listed = NothingListed /\ problems = {} /\ at = NoVersion /\ named = NoVersion

Result == {"ok", "notFound", "policy", "problems", "sizeError", "error"}

Inspecting == command.op \in {"list", "verify", "prune"}

Label == {"start", "measure", "list", "readAlias", "inspect", "select", "next", "aliasSize",
          "empty", "rmdir", "matchAlias", "dropAlias", "wipe"}

TypeOK ==
    /\ entry \in [Entry -> VersionDir \union {NoEntry}]
    /\ staged \in [Entry -> Int \union {NoEntry}]
    /\ alias \in [Module -> Version \union {NoVersion}] /\ stray \subseteq Module
    /\ leaving \subseteq Entry /\ now \in Nat /\ others \in 0..MaxOthers
    /\ command \in Commands /\ pc \in Label \union Result /\ pass \in {1, 2}
    /\ mods \subseteq Module /\ todo \subseteq Item
    /\ measured \in Nat /\ listed \in [Entry -> VersionDir \union {NoEntry}]
    /\ problems \subseteq Item
    /\ at \in Module \union {NoVersion} /\ named \in Version \union {NoVersion}
    /\ queue \in Seq(Entry)
    /\ removal \in [entries : Nat, bytes : Nat] /\ total \in [entries : Nat, bytes : Nat]
    /\ before.entry \in [Entry -> VersionDir \union {NoEntry}]
    /\ touched \subseteq Item

Init ==
    /\ \E c \in Caches : entry = c.entry /\ staged = c.staged /\ alias = c.alias /\ stray = c.stray
    /\ leaving = {} /\ now = 0 /\ others = 0
    /\ command \in Commands /\ pc = "start"
    /\ pass = 1 /\ mods = {} /\ todo = {} /\ EmptyInventory /\ queue = <<>>
    /\ removal = Nothing /\ total = Nothing
    /\ before = [entry |-> entry, staged |-> staged, alias |-> alias, stray |-> stray,
                 size |-> TotalSize]
    /\ touched = {}

Goto(label) == pc' = label

Idle == UNCHANGED <<leaving, now, others, command, before, touched>>

(* Walk a module, or all of them. *)
Walk(label, ms) == Goto(label) /\ mods' = ms /\ todo' = {}

ValidPolicy(c) ==
    /\ c.older # NoLimit \/ c.max # NoLimit
    /\ c.older # NoLimit => c.older > 0
    /\ c.max # NoLimit => c.max >= 0

Refused == command.op = "prune" /\ ~ValidPolicy(command)

OneVersion == command.op = "remove" /\ command.ver # NoVersion

Start ==
    /\ pc = "start"
    /\ \/ Refused /\ Goto("policy") /\ UNCHANGED <<mods, todo, queue>>
       \/ /\ OneVersion
          /\ Goto("measure")
          /\ queue' = <<<<command.mod, command.ver>>>>
          /\ todo' = {<<"entry", <<command.mod, command.ver>>>>}
          /\ UNCHANGED mods
       \/ /\ ~Refused /\ ~OneVersion
          /\ Walk("measure", IF command.op = "remove" THEN {command.mod} ELSE Module)
          /\ UNCHANGED queue
    /\ UNCHANGED <<pass, inventory, removal, total, cache>> /\ Idle

-----------------------------------------------------------------------------
(* directoryMetrics.  filepath.WalkDir and ReadDir go in lexical order:    *)
(* .archive-*, latest, an unexpected file, v1.0.0.                         *)

FirstModule(m) ==
    m \in mods /\ \A x \in mods \ {m}, v \in Version : Rank[<<m, v>>] < Rank[<<x, v>>]

FirstItem(i) ==
    LET place == [staged |-> 1, alias |-> 2, stray |-> 3, entry |-> 4] IN
    /\ i \in todo
    /\ \A j \in todo \ {i} : \/ place[i[1]] < place[j[1]]
                             \/ i[1] = j[1] /\ Rank[i[2]] < Rank[j[2]]

MeasureModule(m) ==
    /\ pc = "measure" /\ todo = {} /\ FirstModule(m)
    /\ mods' = mods \ {m}
    /\ todo' = Items(m)
    /\ UNCHANGED <<pc, pass, inventory, queue, removal, total, cache>> /\ Idle

MeasureItem(i) ==
    /\ pc = "measure" /\ FirstItem(i) /\ Present(i)
    /\ todo' = todo \ {i}
    /\ removal' = [removal EXCEPT !.bytes = @ + SizeOf(i)]
    /\ UNCHANGED <<pc, pass, mods, inventory, queue, total, cache>> /\ Idle

(* What is missing when it is measured is for a prune an entry that is not *)
(* there any more, for remove a target that is not there, for clean an     *)
(* empty cache, and for an inspection an error.                            *)
Vanished ==
    IF queue # <<>> /\ command.op = "prune"
      THEN Goto("next") /\ queue' = Tail(queue)
      ELSE /\ Goto(IF Inspecting THEN "error" ELSE IF command.op = "remove" THEN "notFound" ELSE "ok")
           /\ UNCHANGED queue

MeasureFails(i) ==
    /\ pc = "measure" /\ FirstItem(i) /\ (~Present(i) \/ BeingRemoved(i))
    /\ Vanished
    /\ todo' = {} /\ mods' = {} /\ removal' = Nothing
    /\ UNCHANGED <<pass, inventory, total, cache>> /\ Idle

(* ReadDir, after the walk, counts the directories of a target; a single   *)
(* version counts as one, and so does a module without any.                *)
Versions(ms) == {e \in Entry : e[1] \in ms /\ entry[e] # NoEntry}

Measured == pc = "measure" /\ todo = {} /\ mods = {}

(* The sizes of an inspection are followed by its entries. *)
MeasuredRoot ==
    /\ Measured /\ queue = <<>> /\ Inspecting
    /\ Walk("list", Module)
    /\ measured' = removal.bytes /\ listed' = NothingListed
    /\ problems' = {} /\ at' = NoVersion /\ named' = NoVersion
    /\ removal' = Nothing
    /\ UNCHANGED <<pass, queue, total, cache>> /\ Idle

MeasuredEntry ==
    /\ Measured /\ queue # <<>>
    /\ Goto("aliasSize")
    /\ removal' = [removal EXCEPT !.entries = 1]
    /\ UNCHANGED <<pass, mods, todo, inventory, queue, total, cache>> /\ Idle

MeasuredModule ==
    /\ Measured /\ queue = <<>> /\ command.op = "remove"
    /\ IF Items(command.mod) # {}
         THEN /\ Walk("wipe", {command.mod})
              /\ LET n == Cardinality(Versions({command.mod})) IN
                 removal' = [removal EXCEPT !.entries = IF n = 0 THEN 1 ELSE n]
         ELSE Goto("notFound") /\ UNCHANGED <<mods, todo, removal>>
    /\ UNCHANGED <<pass, inventory, queue, total, cache>> /\ Idle

MeasuredCache ==
    /\ Measured /\ queue = <<>> /\ command.op = "clean"
    /\ Walk("wipe", Module)
    /\ removal' = [removal EXCEPT !.entries = Cardinality(Versions(Module))]
    /\ UNCHANGED <<pass, inventory, queue, total, cache>> /\ Idle

-----------------------------------------------------------------------------
(* InspectCache, after the sizes: list @v, read latest, look at entries.   *)

(* The alias counts as a problem until the version it names is met. *)
ListVersions(m) ==
    /\ pc = "list" /\ FirstModule(m)
    /\ mods' = mods \ {m}
    /\ todo' = {i \in Items(m) : i[1] = "entry"}
    /\ at' = m
    /\ problems' = problems \union {i \in Items(m) : i[1] \in {"staged", "stray"}}
    /\ Goto("readAlias")
    /\ UNCHANGED <<pass, measured, listed, named, queue, removal, total, cache>> /\ Idle

ReadLatestAlias ==
    /\ pc = "readAlias"
    /\ named' = alias[at]
    /\ problems' = problems \union {i \in {<<"alias", at>>} : Present(i)}
    /\ Goto("inspect")
    /\ UNCHANGED <<pass, mods, todo, measured, listed, at, queue, removal, total, cache>> /\ Idle

(* The size of an entry that latest names includes latest. *)
Listing(e) ==
    Directory(entry[e].size + IF named = e[2] THEN AliasBytes ELSE 0, entry[e].modified, entry[e].status)

InspectEntry(e) ==
    /\ pc = "inspect" /\ FirstItem(<<"entry", e>>) /\ entry[e] # NoEntry
    /\ todo' = todo \ {<<"entry", e>>}
    /\ listed' = [listed EXCEPT ![e] = Listing(e)]
    /\ problems' = problems \ {i \in {<<"alias", e[1]>>} : named = e[2]}
    /\ UNCHANGED <<pc, pass, mods, measured, at, named, queue, removal, total, cache>> /\ Idle

InspectFails(i) ==
    /\ pc = "inspect" /\ FirstItem(i) /\ (~Present(i) \/ BeingRemoved(i))
    /\ Goto("error")
    /\ todo' = {} /\ mods' = {}
    /\ UNCHANGED <<pass, inventory, queue, removal, total, cache>> /\ Idle

EndOfModule ==
    /\ pc = "inspect" /\ todo = {}
    /\ Goto("list")
    /\ UNCHANGED <<work, cache>> /\ Idle

(* Filter and verificationProblems. *)
Targeted(e) == command.mod \in {NoVersion, e[1]} /\ command.ver \in {NoVersion, e[2]}

Listed == {e \in Entry : listed[e] # NoEntry}

Found == {e \in Listed : Targeted(e)}

(* Mutant: only corruption is a problem. *)
CorruptedOnly ==
    {i \in problems :
        /\ command.mod # NoVersion => InModule(i, command.mod)
        /\ command.ver = NoVersion}
      \union {<<"entry", e>> : e \in {f \in Found : listed[f].status = "invalid"}}

Problems ==
    {i \in problems :
        /\ command.mod # NoVersion => InModule(i, command.mod)
        /\ command.ver = NoVersion}
      \union {<<"entry", e>> : e \in {f \in Found : listed[f].status # "valid"}}

Report ==
    IF command.mod # NoVersion /\ Found = {} /\ Problems = {} THEN "notFound"
    ELSE IF command.op = "verify" /\ Problems # {} THEN "problems"
    ELSE "ok"

Inspected ==
    /\ pc = "list" /\ mods = {}
    /\ Goto(IF command.op # "prune" THEN Report
            ELSE IF pass = 1 THEN "select"
            ELSE IF measured > command.max THEN "sizeError" ELSE "ok")
    /\ UNCHANGED <<work, cache>> /\ Idle

-----------------------------------------------------------------------------
(* PruneCache. *)

Earlier(e, f) ==
    LET a == listed[e]  b == listed[f] IN
    \/ a.modified < b.modified
    \/ a.modified = b.modified /\ Rank[e] < Rank[f]

ListedSize(S) == MapThenSumSet(LAMBDA e : listed[e].size, S)

(* Mutant: the age alone decides, and is compared the wrong way round at   *)
(* the cutoff.                                                             *)
AgedStrictly == {e \in Listed :
                   command.older # NoLimit /\ listed[e].modified < now - command.older}

Aged == {e \in Listed :
           command.older # NoLimit /\ listed[e].modified <= now - command.older}

(* Mutant: what the age policy takes off is not deducted. *)
OversizeTwice ==
    {e \in Listed \ Aged :
        /\ command.max # NoLimit
        /\ measured > command.max
             + ListedSize({f \in Listed \ Aged : Earlier(f, e)})}

(* Oldest first, until what remains fits; what was selected by age is      *)
(* already taken off.                                                      *)
Oversize ==
    {e \in Listed \ Aged :
        /\ command.max # NoLimit
        /\ measured > command.max
             + ListedSize(Aged \union {f \in Listed \ Aged : Earlier(f, e)})}

(* The entries of S, each once, oldest first. *)
Sorted(S) ==
    {q \in [1..Cardinality(S) -> S] : /\ \A e \in S : \E n \in DOMAIN q : q[n] = e
                                     /\ \A i, j \in DOMAIN q : i < j => Earlier(q[i], q[j])}

SelectEntries ==
    /\ pc = "select"
    /\ queue' \in Sorted(Aged \union Oversize)
    /\ Goto("next")
    /\ UNCHANGED <<pass, mods, todo, inventory, removal, total, cache>> /\ Idle

NextEntry ==
    /\ pc = "next" /\ queue # <<>>
    /\ Goto("measure")
    /\ todo' = {<<"entry", Head(queue)>>}
    /\ UNCHANGED <<pass, mods, inventory, queue, removal, total, cache>> /\ Idle

AllRemoved ==
    /\ pc = "next" /\ queue = <<>>
    /\ IF command.max = NoLimit
         THEN Goto("ok") /\ UNCHANGED <<pass, mods, todo>>
         ELSE Walk("measure", Module) /\ pass' = 2
    /\ UNCHANGED <<inventory, queue, removal, total, cache>> /\ Idle

-----------------------------------------------------------------------------
(* RemoveCache of one version, which is the head of the queue. *)

Removing(label) == pc = label /\ queue # <<>>

Target == Head(queue)

NamesTarget == alias[Target[1]] = Target[2]

(* Mutant: the bytes of latest are left out. *)
MatchNoAlias ==
    /\ Removing("aliasSize")
    /\ Goto("empty")
    /\ UNCHANGED <<work, cache>> /\ Idle

MatchAliasSize ==
    /\ Removing("aliasSize")
    /\ removal' = [removal EXCEPT !.bytes = @ + (IF NamesTarget THEN AliasBytes ELSE 0)]
    /\ Goto("empty")
    /\ UNCHANGED <<pass, mods, todo, inventory, queue, total, cache>> /\ Idle

(* Another removal of the version takes the alias before it is measured. *)
AliasVanishes ==
    /\ Removing("aliasSize") /\ NamesTarget /\ Target \in leaving
    /\ Goto("error")
    /\ UNCHANGED <<work, cache>> /\ Idle

(* The files go first, which touches the directory. *)
Emptied(e) == [entry EXCEPT ![e] = IF @ = NoEntry THEN NoEntry
                                   ELSE Directory(0, now, "incomplete")]

EmptyEntry ==
    /\ Removing("empty")
    /\ entry' = Emptied(Target)
    /\ Goto("rmdir")
    /\ UNCHANGED <<staged, alias, stray, work>> /\ Idle

(* Somebody may have published into the empty directory. *)
RemoveEntry ==
    /\ Removing("rmdir")
    /\ IF entry[Target] # NoEntry /\ entry[Target].size > 0
         THEN Goto("error") /\ UNCHANGED entry
         ELSE /\ entry' = [entry EXCEPT ![Target] = NoEntry]
              /\ Goto("matchAlias")
    /\ UNCHANGED <<staged, alias, stray, work>> /\ Idle

(* Mutant: what is removed is taken off the total. *)
TakenOff ==
    /\ total' = [entries |-> total.entries + removal.entries, bytes |-> total.bytes - removal.bytes]
    /\ removal' = Nothing
    /\ queue' = Tail(queue)
    /\ Goto(IF command.op = "prune" THEN "next" ELSE "ok")

Removed ==
    /\ total' = [entries |-> total.entries + removal.entries, bytes |-> total.bytes + removal.bytes]
    /\ removal' = Nothing
    /\ queue' = Tail(queue)
    /\ Goto(IF command.op = "prune" THEN "next" ELSE "ok")

(* Mutant: the highest version that is left becomes latest. *)
Retarget ==
    /\ Removing("dropAlias")
    /\ LET left == {v \in Version : entry[<<Target[1], v>>] # NoEntry} IN
       alias' = [alias EXCEPT ![Target[1]] = IF left = {} THEN NoVersion ELSE CHOOSE v \in left : TRUE]
    /\ Removed
    /\ UNCHANGED <<pass, mods, todo, inventory, entry, staged, stray>> /\ Idle

MatchAlias ==
    /\ Removing("matchAlias")
    /\ IF NamesTarget
         THEN Goto("dropAlias") /\ UNCHANGED <<queue, removal, total>>
         ELSE Removed
    /\ UNCHANGED <<pass, mods, todo, inventory, cache>> /\ Idle

DropAlias ==
    /\ Removing("dropAlias")
    /\ alias' = [alias EXCEPT ![Target[1]] = NoVersion]
    /\ Removed
    /\ UNCHANGED <<pass, mods, todo, inventory, entry, staged, stray>> /\ Idle
-----------------------------------------------------------------------------
(* os.RemoveAll of an @v directory, or of the root: a directory is listed  *)
(* once, and at last removed if nothing new is in it.                      *)

WipeModule(m) ==
    /\ pc = "wipe" /\ todo = {} /\ m \in mods
    /\ mods' = mods \ {m}
    /\ todo' = Items(m)
    /\ UNCHANGED <<pc, pass, inventory, queue, removal, total, cache>> /\ Idle

WipeItem(i) ==
    /\ pc = "wipe" /\ i \in todo
    /\ todo' = todo \ {i}
    /\ entry' = [e \in Entry |-> IF i = <<"entry", e>> THEN NoEntry ELSE entry[e]]
    /\ staged' = [e \in Entry |-> IF i = <<"staged", e>> THEN NoEntry ELSE staged[e]]
    /\ alias' = [m \in Module |-> IF i = <<"alias", m>> THEN NoVersion ELSE alias[m]]
    /\ stray' = {m \in stray : i # <<"stray", m>>}
    /\ UNCHANGED <<pc, pass, mods, inventory, queue, removal, total>> /\ Idle

Wiped ==
    /\ pc = "wipe" /\ todo = {} /\ mods = {}
    /\ IF \E m \in Module : command.mod \in {NoVersion, m} /\ Items(m) # {}
         THEN Goto("error") /\ UNCHANGED total
         ELSE Goto("ok") /\ total' = removal
    /\ UNCHANGED <<pass, mods, todo, inventory, queue, removal, cache>> /\ Idle

-----------------------------------------------------------------------------
(* Other invocations: FileArchiveStore.Put, SetLatest and RemoveCache.     *)

Other(items) ==
    /\ others < MaxOthers /\ others' = others + 1
    /\ pc \notin Result
    /\ touched' = touched \union items
    /\ UNCHANGED <<command, pc, work, before>>

OtherStages(e) ==
    /\ staged[e] = NoEntry
    /\ staged' = [staged EXCEPT ![e] = now]
    /\ Other({<<"staged", e>>})
    /\ UNCHANGED <<entry, alias, stray, leaving, now>>

(* A rename replaces an empty directory, and loses against any other. *)
OtherPublishes(e) ==
    /\ staged[e] # NoEntry
    /\ staged' = [staged EXCEPT ![e] = NoEntry]
    /\ IF entry[e] = NoEntry \/ (entry[e] # NoEntry /\ entry[e].size = 0)
         THEN /\ entry' = [entry EXCEPT ![e] = Directory(Bytes[e], staged[e], "valid")]
              /\ Other({<<"staged", e>>, <<"entry", e>>})
         ELSE Other({<<"staged", e>>}) /\ UNCHANGED entry
    /\ UNCHANGED <<alias, stray, leaving, now>>

OtherRecords(e) ==
    /\ entry[e] # NoEntry /\ entry[e].status = "valid"
    /\ alias' = [alias EXCEPT ![e[1]] = e[2]]
    /\ Other({<<"alias", e[1]>>})
    /\ UNCHANGED <<entry, staged, stray, leaving, now>>

OtherEmpties(e) ==
    /\ entry[e] # NoEntry /\ e \notin leaving
    /\ entry' = Emptied(e)
    /\ leaving' = leaving \union {e}
    /\ Other({<<"entry", e>>})
    /\ UNCHANGED <<staged, alias, stray, now>>

(* The other removal goes on to the directory and its alias, or is killed. *)
OtherRemoves(e) ==
    /\ e \in leaving
    /\ leaving' = leaving \ {e}
    /\ \/ /\ entry[e] # NoEntry => entry[e].size = 0
          /\ entry' = [entry EXCEPT ![e] = NoEntry]
          /\ alias' = [alias EXCEPT ![e[1]] = IF @ = e[2] THEN NoVersion ELSE @]
          /\ Other({<<"entry", e>>} \union
                     (IF alias[e[1]] = e[2] THEN {<<"alias", e[1]>>} ELSE {}))
       \/ Other({<<"entry", e>>}) /\ UNCHANGED <<entry, alias>>
    /\ UNCHANGED <<staged, stray, now>>

Tick ==
    /\ now' = now + 1
    /\ Other({})
    /\ UNCHANGED <<cache, leaving>>

-----------------------------------------------------------------------------
Measure ==
    \/ \E m \in Module : MeasureModule(m)
    \/ \E i \in Item : MeasureItem(i) \/ MeasureFails(i)
    \/ MeasuredRoot \/ MeasuredEntry \/ MeasuredModule \/ MeasuredCache

Inspect ==
    \/ \E m \in Module : ListVersions(m)
    \/ ReadLatestAlias
    \/ \E e \in Entry : InspectEntry(e)
    \/ \E i \in Item : InspectFails(i)
    \/ EndOfModule \/ Inspected

Prune == SelectEntries \/ NextEntry \/ AllRemoved

RemoveVersion ==
    MatchAliasSize \/ AliasVanishes \/ EmptyEntry \/ RemoveEntry \/ MatchAlias \/ DropAlias

Wipe == Wiped \/ (\E m \in Module : WipeModule(m)) \/ \E i \in Item : WipeItem(i)

Others == Tick \/ \E e \in Entry : \/ OtherStages(e) \/ OtherPublishes(e) \/ OtherRecords(e)
                                   \/ OtherEmpties(e) \/ OtherRemoves(e)

Next == Start \/ Measure \/ Inspect \/ Prune \/ RemoveVersion \/ Wipe \/ Others

Spec == Init /\ [][Next]_vars

-----------------------------------------------------------------------------
(* Properties of a command that has returned, whatever others did to other *)
(* entries meanwhile.                                                      *)

Returned(ops, results) == command.op \in ops /\ pc \in results

Untouched(kind, k) == <<kind, k>> \notin touched

Was(e) == before.entry[e] # NoEntry
Is(e) == entry[e] # NoEntry

(* "--older-than removes entries at or older than the publication cutoff": *)
(* of the entries nobody else touched, a prune that returns leaves none    *)
(* that was as old when it started, and with that policy alone it removes  *)
(* none that is still younger when it returns.                             *)
AgeExact ==
    Returned({"prune"}, {"ok", "sizeError"}) /\ command.older # NoLimit =>
        \A e \in Entry : Was(e) /\ Untouched("entry", e) =>
            /\ before.entry[e].modified <= -command.older => ~Is(e)
            /\ command.max = NoLimit /\ ~Is(e) => before.entry[e].modified <= now - command.older

(* "--max-size removes oldest entries until the cache fits", "if           *)
(* unassociated artifacts make the limit impossible, prune fails visibly": *)
(* in a cache nobody else changes a prune keeps no entry older than one it *)
(* removed for its size, removes no more than it has to, and fails only    *)
(* when no entry is left.                                                  *)
SizeExact ==
    LET young(e) == command.older = NoLimit \/ before.entry[e].modified > now - command.older
        gone     == {e \in Entry : Was(e) /\ ~Is(e) /\ young(e)}
        older(e, f) == \/ before.entry[e].modified < before.entry[f].modified
                       \/ /\ before.entry[e].modified = before.entry[f].modified
                          /\ Rank[e] < Rank[f]
        latest(e) == IF before.alias[e[1]] = e[2] THEN AliasBytes ELSE 0
    IN Returned({"prune"}, {"ok", "sizeError"}) /\ command.max # NoLimit /\ touched = {} =>
        /\ pc = "ok" => TotalSize <= command.max
        /\ pc = "sizeError" => \A e \in Entry : ~Is(e)
        /\ \A e \in gone : /\ \A f \in Entry : Is(f) => older(e, f)
                           /\ (\A f \in gone \ {e} : older(f, e)) =>
                                TotalSize + before.entry[e].size + latest(e) > command.max

(* "removed N entries, freeing B": in a cache nobody else changes the bytes *)
(* reported are the bytes that are gone, latest included, and the entries  *)
(* are the version directories that are gone.                              *)
AccountingExact ==
    Returned({"remove", "clean", "prune"}, Result) /\ touched = {} =>
        /\ total.bytes = before.size - TotalSize
        /\ command.op # "remove" => total.entries = Cardinality({e \in Entry : Was(e) /\ ~Is(e)})

(* "When removal or pruning deletes the version named by a module's latest *)
(* alias, the alias is deleted.  It is never retargeted": an alias nobody  *)
(* else touched goes exactly with its version.                             *)
LatestFollows ==
    Returned({"remove", "prune"}, Result) =>
        \A m \in Module, v \in Version :
            /\ before.alias[m] = v /\ Was(<<m, v>>)
            /\ Untouched("alias", m) /\ Untouched("entry", <<m, v>>)
            => alias[m] = IF Is(<<m, v>>) THEN v ELSE NoVersion

(* "It returns a non-zero status when it finds an incomplete, malformed,   *)
(* or corrupted entry": whatever others do, a verification that succeeds   *)
(* has missed nothing that was there from its start to its end.            *)
VerifySound ==
    Returned({"verify"}, {"ok"}) =>
        /\ \A e \in Entry : Was(e) /\ Untouched("entry", e) /\ Targeted(e) =>
              before.entry[e].status = "valid"
        /\ command.ver = NoVersion =>
              \A m \in Module : command.mod \in {NoVersion, m} =>
                /\ m \in before.stray => ~Untouched("stray", m)
                /\ \A v \in Version : before.staged[<<m, v>>] # NoEntry =>
                     ~Untouched("staged", <<m, v>>)

(* "cache clean idempotently removes the complete scut-owned module        *)
(* cache": when it succeeds, nothing is left of what nobody else touched.  *)
CleanEmpties ==
    Returned({"clean"}, {"ok"}) => \A e \in Entry : Was(e) /\ Untouched("entry", e) => ~Is(e)
=============================================================================
