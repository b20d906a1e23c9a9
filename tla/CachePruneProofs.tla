-------------------------- MODULE CachePruneProofs --------------------------
(***************************************************************************)
(* Proofs about the cache commands: a verification that succeeds has       *)
(* missed nothing, a prune by age takes exactly what is old enough, latest *)
(* goes with its version, a removal reports what it has freed, and a prune *)
(* by size takes the oldest entries and no more than it has to.            *)
(*                                                                         *)
(* TypeInv has the types and Control what a command does at which label.   *)
(* On them rest Kept (an inspection changes nothing), Noted (what it has   *)
(* passed it has noted) and Clear for a verification; DueOnly and OldGone  *)
(* for a prune by age; ClearedInv and Follows for latest.  All but the     *)
(* first two are about what no other invocation has touched.               *)
(*                                                                         *)
(* The last two results are about sums of sizes, in a cache nobody else    *)
(* changes.  SumOf is the sum the model takes, and its lemmas come from an *)
(* induction on the subsets of a finite set.  Books balances what was      *)
(* there against what is there and what the command has counted; for a     *)
(* prune, PruneBooks adds what went with each entry (Freed) and what the   *)
(* selection chose (Choice).                                               *)
(***************************************************************************)
EXTENDS CachePrune, FiniteSetTheorems, SequenceTheorems, WellFoundedInduction, NaturalsInduction, TLAPS

-----------------------------------------------------------------------------
(* Types. *)

TypeInv == TypeOK /\ (pc \in {"readAlias", "inspect"} => at \in Module)

LEMMA CommandType == ASSUME TypeOK
    PROVE /\ command.op \in Op
          /\ command.mod \in Module \union {NoVersion} /\ command.ver \in Version \union {NoVersion}
          /\ command.older \in Int \union {NoLimit} /\ command.max \in Int \union {NoLimit}
          /\ command.op = "remove" => command.mod \in Module
          /\ command.op \in {"clean", "prune"} => command.mod = NoVersion
          /\ command.ver # NoVersion => command.mod \in Module /\ command.ver \in Version
  <1>1. command \in Commands
    BY DEF TypeOK
  <1>2. command \in Command
    BY <1>1, CachePruneAssumption DEF CachePruneAssumption
  <1>3. /\ command.op \in Op
        /\ command.mod \in Module \union {NoVersion} /\ command.ver \in Version \union {NoVersion}
        /\ command.older \in Int \union {NoLimit} /\ command.max \in Int \union {NoLimit}
    BY <1>2 DEF Command
  <1>4. /\ command.op = "remove" => command.mod # NoVersion
        /\ command.op \in {"clean", "prune"} => command.mod = NoVersion
        /\ command.ver # NoVersion => command.mod # NoVersion
    BY <1>1, CachePruneAssumption DEF CachePruneAssumption
  <1> QED BY <1>3, <1>4

LEMMA DirectoryType ==
    ASSUME NEW s \in Nat, NEW t \in Int, NEW st \in Status
    PROVE Directory(s, t, st) \in VersionDir
  BY DEF Directory, VersionDir

LEMMA BytesType == ASSUME NEW e \in Entry PROVE Bytes[e] \in Nat \ {0}
  BY CachePruneAssumption DEF CachePruneAssumption

LEMMA ItemsAreItems == ASSUME NEW m PROVE Items(m) \subseteq Item
  BY DEF Items

LEMMA ItemKinds == ASSUME NEW i \in Item
    PROVE /\ i = <<i[1], i[2]>>
          /\ i[1] \in {"entry", "staged", "alias", "stray"}
          /\ i[1] \in {"entry", "staged"} <=> i[2] \in Entry /\ i[1] \in {"entry", "staged"}
          /\ i[1] \in {"alias", "stray"} => i[2] \in Module
  BY DEF Item

LEMMA ItemIn == /\ \A e \in Entry : <<"entry", e>> \in Item /\ <<"staged", e>> \in Item
                /\ \A m \in Module : <<"alias", m>> \in Item /\ <<"stray", m>> \in Item
  BY DEF Item

LEMMA SizeType == ASSUME TypeOK, NEW i \in Item, Present(i)
    PROVE SizeOf(i) \in Nat
  <1>1. CASE i[1] = "entry"
    <2>1. i[2] \in Entry /\ entry[i[2]] # NoEntry
      BY <1>1, ItemKinds DEF Present
    <2>2. entry[i[2]] \in VersionDir
      BY <2>1 DEF TypeOK
    <2> QED BY <1>1, <2>2 DEF SizeOf, VersionDir
  <1>2. CASE i[1] = "staged"
    BY <1>2, ItemKinds, BytesType DEF SizeOf
  <1>3. CASE i[1] \notin {"entry", "staged"}
    BY <1>3 DEF SizeOf, AliasBytes
  <1> QED BY <1>1, <1>2, <1>3

LEMMA VersionsFinite == ASSUME NEW S PROVE Cardinality(Versions(S)) \in Nat
  <1>1. IsFiniteSet(Entry)
    BY CachePruneAssumption, FS_Product DEF CachePruneAssumption, Entry
  <1>2. Versions(S) \subseteq Entry
    BY DEF Versions
  <1> QED BY <1>1, <1>2, FS_Subset, FS_CardinalityType

LEMMA InitTypes == Init => TypeInv
  <1> SUFFICES ASSUME Init PROVE TypeInv
    OBVIOUS
  <1>1. PICK c \in Caches : entry = c.entry /\ staged = c.staged /\ alias = c.alias /\ stray = c.stray
    BY DEF Init
  <1>2. c \in Cache
    BY CachePruneAssumption DEF CachePruneAssumption
  <1>3. /\ entry \in [Entry -> VersionDir \union {NoEntry}]
        /\ staged \in [Entry -> Int \union {NoEntry}]
        /\ alias \in [Module -> Version \union {NoVersion}] /\ stray \subseteq Module
    BY <1>1, <1>2 DEF Cache
  <1>4. /\ leaving = {} /\ now = 0 /\ others = 0 /\ command \in Commands /\ pc = "start"
        /\ pass = 1 /\ mods = {} /\ todo = {} /\ queue = <<>> /\ removal = Nothing /\ total = Nothing
        /\ measured = 0 /\ listed = NothingListed /\ problems = {} /\ at = NoVersion /\ named = NoVersion
        /\ touched = {}
    BY DEF Init, EmptyInventory
  <1>5. before.entry = entry
    BY DEF Init
  <1>6. MaxOthers \in Nat
    BY CachePruneAssumption DEF CachePruneAssumption
  <1>7. listed \in [Entry -> VersionDir \union {NoEntry}]
    BY <1>4 DEF NothingListed
  <1>8. removal \in [entries : Nat, bytes : Nat] /\ total \in [entries : Nat, bytes : Nat]
    BY <1>4 DEF Nothing
  <1>9. queue \in Seq(Entry)
    BY <1>4
  <1> QED BY <1>3, <1>4, <1>5, <1>6, <1>7, <1>8, <1>9 DEF TypeInv, TypeOK, Label

LEMMA OneEntry == \A e \in Entry : <<e>> \in Seq(Entry) /\ {<<"entry", e>>} \subseteq Item
  <1> TAKE e \in Entry
  <1>1. <<e>> \in Seq(Entry)
    OBVIOUS
  <1>2. <<"entry", e>> \in Item
    BY ItemIn
  <1> QED BY <1>1, <1>2

LEMMA StartTypes == TypeInv /\ Start => TypeInv'
  <1> SUFFICES ASSUME TypeInv, Start PROVE TypeInv'
    OBVIOUS
  <1>0. TypeOK
    BY DEF TypeInv
  <1>1. CASE Refused /\ Goto("policy") /\ UNCHANGED <<mods, todo, queue>>
    BY <1>1 DEF Start, Goto, Idle, cache, inventory, TypeInv, TypeOK, Label, Result
  <1>2. CASE OneVersion /\ queue' = <<<<command.mod, command.ver>>>>
             /\ todo' = {<<"entry", <<command.mod, command.ver>>>>} /\ Goto("measure") /\ UNCHANGED mods
    <2>0. command.ver # NoVersion
      BY <1>2 DEF OneVersion
    <2>1. <<command.mod, command.ver>> \in Entry
      BY <1>0, <2>0, CommandType DEF Entry
    <2>2. todo' \subseteq Item /\ queue' \in Seq(Entry)
      BY <2>1, <1>2, OneEntry
    <2>3. UNCHANGED <<mods, pass, inventory, removal, total, cache>> /\ Idle /\ pc' = "measure"
      BY <1>2 DEF Start, Goto
    <2> QED BY <2>2, <2>3 DEF Idle, cache, inventory, TypeInv, TypeOK, Label
  <1>3. CASE ~Refused /\ ~OneVersion /\ UNCHANGED queue
             /\ Walk("measure", IF command.op = "remove" THEN {command.mod} ELSE Module)
    <2>1. mods' \subseteq Module /\ todo' = {} /\ pc' = "measure"
      BY <1>0, <1>3, CommandType DEF Walk, Goto
    <2> QED BY <1>3, <2>1 DEF Start, Idle, cache, inventory, TypeInv, TypeOK, Label, Result
  <1> QED BY <1>1, <1>2, <1>3 DEF Start

LEMMA MeasureModuleTypes == ASSUME TypeInv, NEW m \in Module, MeasureModule(m) PROVE TypeInv'
  <1>1. todo' \subseteq Item
    BY ItemsAreItems DEF MeasureModule
  <1> QED BY <1>1 DEF MeasureModule, Idle, cache, inventory, TypeInv, TypeOK

LEMMA MeasureItemTypes == ASSUME TypeInv, NEW i \in Item, MeasureItem(i) PROVE TypeInv'
  <1>1. SizeOf(i) \in Nat
    BY SizeType DEF MeasureItem, TypeInv
  <1>2. removal' \in [entries : Nat, bytes : Nat]
    BY <1>1 DEF MeasureItem, TypeInv, TypeOK
  <1> QED BY <1>2 DEF MeasureItem, Idle, cache, inventory, TypeInv, TypeOK

LEMMA MeasureFailsTypes == ASSUME TypeInv, NEW i \in Item, MeasureFails(i) PROVE TypeInv'
  <1>1. /\ queue' \in Seq(Entry)
        /\ pc' \in {"next", "error", "notFound", "ok"}
    <2>1. Vanished /\ queue \in Seq(Entry)
      BY DEF MeasureFails, TypeInv, TypeOK
    <2>2. CASE queue # <<>> /\ command.op = "prune"
      BY <2>1, <2>2 DEF Vanished, Goto
    <2>3. CASE ~(queue # <<>> /\ command.op = "prune")
      BY <2>1, <2>3 DEF Vanished, Goto
    <2> QED BY <2>2, <2>3
  <1>2. removal' \in [entries : Nat, bytes : Nat]
    BY DEF MeasureFails, Nothing
  <1> QED BY <1>1, <1>2 DEF MeasureFails, Idle, cache, inventory, TypeInv, TypeOK, Label, Result

LEMMA MeasuredRootTypes == TypeInv /\ MeasuredRoot => TypeInv'
  <1> SUFFICES ASSUME TypeInv, MeasuredRoot PROVE TypeInv'
    OBVIOUS
  <1>1. removal' \in [entries : Nat, bytes : Nat] /\ measured' \in Nat
    BY DEF MeasuredRoot, Nothing, TypeInv, TypeOK
  <1>2. listed' \in [Entry -> VersionDir \union {NoEntry}]
    BY DEF MeasuredRoot, NothingListed
  <1> QED BY <1>1, <1>2 DEF MeasuredRoot, Walk, Goto, Idle, cache, TypeInv, TypeOK, Label

LEMMA MeasuredEntryTypes == TypeInv /\ MeasuredEntry => TypeInv'
  <1> SUFFICES ASSUME TypeInv, MeasuredEntry PROVE TypeInv'
    OBVIOUS
  <1>1. removal' \in [entries : Nat, bytes : Nat]
    BY DEF MeasuredEntry, TypeInv, TypeOK
  <1> QED BY <1>1 DEF MeasuredEntry, Goto, Idle, cache, inventory, TypeInv, TypeOK, Label

LEMMA MeasuredModuleTypes == TypeInv /\ MeasuredModule => TypeInv'
  <1> SUFFICES ASSUME TypeInv, MeasuredModule PROVE TypeInv'
    OBVIOUS
  <1>1. Cardinality(Versions({command.mod})) \in Nat
    BY VersionsFinite
  <1>2. removal' \in [entries : Nat, bytes : Nat]
    BY <1>1 DEF MeasuredModule, TypeInv, TypeOK
  <1>3. command.mod \in Module
    BY CommandType DEF MeasuredModule, TypeInv
  <1> QED BY <1>2, <1>3 DEF MeasuredModule, Walk, Goto, Idle, cache, inventory, TypeInv, TypeOK, Label, Result

LEMMA MeasuredCacheTypes == TypeInv /\ MeasuredCache => TypeInv'
  <1> SUFFICES ASSUME TypeInv, MeasuredCache PROVE TypeInv'
    OBVIOUS
  <1>1. Cardinality(Versions(Module)) \in Nat
    BY VersionsFinite
  <1>2. removal' \in [entries : Nat, bytes : Nat]
    BY <1>1 DEF MeasuredCache, TypeInv, TypeOK
  <1> QED BY <1>2 DEF MeasuredCache, Walk, Goto, Idle, cache, inventory, TypeInv, TypeOK, Label, Result

LEMMA ListVersionsTypes == ASSUME TypeInv, NEW m \in Module, ListVersions(m) PROVE TypeInv'
  <1>1. todo' \subseteq Item /\ problems' \subseteq Item
    BY ItemsAreItems DEF ListVersions, TypeInv, TypeOK
  <1> QED BY <1>1 DEF ListVersions, Goto, Idle, cache, TypeInv, TypeOK, Label

LEMMA ReadLatestAliasTypes == TypeInv /\ ReadLatestAlias => TypeInv'
  <1> SUFFICES ASSUME TypeInv, ReadLatestAlias PROVE TypeInv'
    OBVIOUS
  <1>1. at \in Module
    BY DEF ReadLatestAlias, TypeInv
  <1>2. <<"alias", at>> \in Item
    BY <1>1, ItemIn
  <1>3. problems' \subseteq Item
    BY <1>2 DEF ReadLatestAlias, TypeInv, TypeOK
  <1>4. named' \in Version \union {NoVersion}
    BY <1>1 DEF ReadLatestAlias, TypeInv, TypeOK
  <1> QED BY <1>1, <1>3, <1>4 DEF ReadLatestAlias, Goto, Idle, cache, TypeInv, TypeOK, Label

LEMMA InspectEntryTypes == ASSUME TypeInv, NEW e \in Entry, InspectEntry(e) PROVE TypeInv'
  <1>1. entry[e] \in VersionDir
    BY DEF InspectEntry, TypeInv, TypeOK
  <1>2. entry[e].size \in Nat /\ entry[e].modified \in Int /\ entry[e].status \in Status
    BY <1>1 DEF VersionDir
  <1>3. entry[e].size + (IF named = e[2] THEN AliasBytes ELSE 0) \in Nat
    BY <1>2 DEF AliasBytes
  <1>4. Listing(e) \in VersionDir
    BY <1>2, <1>3, DirectoryType DEF Listing
  <1>5. listed' \in [Entry -> VersionDir \union {NoEntry}]
    BY <1>4 DEF InspectEntry, TypeInv, TypeOK
  <1> QED BY <1>5 DEF InspectEntry, Idle, cache, TypeInv, TypeOK

LEMMA InspectFailsTypes == ASSUME TypeInv, NEW i \in Item, InspectFails(i) PROVE TypeInv'
  BY DEF InspectFails, Goto, Idle, cache, inventory, TypeInv, TypeOK, Label, Result

LEMMA EndOfModuleTypes == TypeInv /\ EndOfModule => TypeInv'
  BY DEF EndOfModule, Goto, Idle, cache, inventory, work, TypeInv, TypeOK, Label

LEMMA InspectedTypes == TypeInv /\ Inspected => TypeInv'
  <1> SUFFICES ASSUME TypeInv, Inspected PROVE TypeInv'
    OBVIOUS
  <1>1. pc' \in {"notFound", "problems", "ok", "select", "sizeError"}
    BY DEF Inspected, Goto, Report
  <1> QED BY <1>1 DEF Inspected, Idle, cache, inventory, work, TypeInv, TypeOK, Label, Result

LEMMA SortedTypes == ASSUME NEW S, S \subseteq Entry, NEW q \in Sorted(S) PROVE q \in Seq(S)
  <1>1. IsFiniteSet(Entry)
    BY CachePruneAssumption, FS_Product DEF CachePruneAssumption, Entry
  <1>2. Cardinality(S) \in Nat
    BY <1>1, FS_Subset, FS_CardinalityType
  <1> QED BY <1>2 DEF Sorted

LEMMA SelectEntriesTypes == TypeInv /\ SelectEntries => TypeInv'
  <1> SUFFICES ASSUME TypeInv, SelectEntries PROVE TypeInv'
    OBVIOUS
  <1>1. Aged \union Oversize \subseteq Entry
    BY DEF Aged, Oversize, Listed
  <1>2. queue' \in Seq(Aged \union Oversize)
    BY <1>1, SortedTypes DEF SelectEntries
  <1>3. queue' \in Seq(Entry)
    BY <1>1, <1>2
  <1> QED BY <1>3 DEF SelectEntries, Goto, Idle, cache, inventory, TypeInv, TypeOK, Label

LEMMA NextEntryTypes == TypeInv /\ NextEntry => TypeInv'
  <1> SUFFICES ASSUME TypeInv, NextEntry PROVE TypeInv'
    OBVIOUS
  <1>1. Head(queue) \in Entry
    BY DEF NextEntry, TypeInv, TypeOK
  <1>2. todo' \subseteq Item
    BY <1>1, ItemIn DEF NextEntry
  <1> QED BY <1>2 DEF NextEntry, Goto, Idle, cache, inventory, TypeInv, TypeOK, Label

LEMMA AllRemovedTypes == TypeInv /\ AllRemoved => TypeInv'
  BY DEF AllRemoved, Walk, Goto, Idle, cache, inventory, TypeInv, TypeOK, Label, Result

LEMMA MatchAliasSizeTypes == TypeInv /\ MatchAliasSize => TypeInv'
  <1> SUFFICES ASSUME TypeInv, MatchAliasSize PROVE TypeInv'
    OBVIOUS
  <1>1. removal' \in [entries : Nat, bytes : Nat]
    BY DEF MatchAliasSize, AliasBytes, TypeInv, TypeOK
  <1> QED BY <1>1 DEF MatchAliasSize, Goto, Idle, cache, inventory, TypeInv, TypeOK, Label

LEMMA AliasVanishesTypes == TypeInv /\ AliasVanishes => TypeInv'
  BY DEF AliasVanishes, Goto, Idle, work, cache, inventory, TypeInv, TypeOK, Label, Result

LEMMA EmptiedTypes == ASSUME TypeInv, NEW e \in Entry PROVE Emptied(e) \in [Entry -> VersionDir \union {NoEntry}]
  <1>1. "incomplete" \in Status /\ now \in Int
    BY DEF Status, TypeInv, TypeOK
  <1>2. Directory(0, now, "incomplete") \in VersionDir
    BY <1>1, DirectoryType
  <1> QED BY <1>2 DEF Emptied, TypeInv, TypeOK

LEMMA TargetType == ASSUME TypeInv, queue # <<>> PROVE Target \in Entry
  BY DEF Target, TypeInv, TypeOK

LEMMA EmptyEntryTypes == TypeInv /\ EmptyEntry => TypeInv'
  <1> SUFFICES ASSUME TypeInv, EmptyEntry PROVE TypeInv'
    OBVIOUS
  <1>1. entry' \in [Entry -> VersionDir \union {NoEntry}]
    BY TargetType, EmptiedTypes DEF EmptyEntry, Removing
  <1> QED BY <1>1 DEF EmptyEntry, Goto, Idle, inventory, work, TypeInv, TypeOK, Label

LEMMA RemoveEntryTypes == TypeInv /\ RemoveEntry => TypeInv'
  BY DEF RemoveEntry, Goto, Idle, inventory, work, TypeInv, TypeOK, Label, Result

LEMMA RemovedTypes == ASSUME TypeInv, Removed, queue # <<>>
    PROVE /\ removal' \in [entries : Nat, bytes : Nat] /\ total' \in [entries : Nat, bytes : Nat]
          /\ queue' \in Seq(Entry)
          /\ pc' \in {"next", "ok"}
  <1>1. removal' \in [entries : Nat, bytes : Nat]
    BY DEF Removed, Nothing
  <1>2. total' \in [entries : Nat, bytes : Nat]
    BY DEF Removed, TypeInv, TypeOK
  <1> QED BY <1>1, <1>2 DEF Removed, Goto, TypeInv, TypeOK

LEMMA MatchAliasTypes == TypeInv /\ MatchAlias => TypeInv'
  <1> SUFFICES ASSUME TypeInv, MatchAlias PROVE TypeInv'
    OBVIOUS
  <1>1. CASE NamesTarget
    BY <1>1 DEF MatchAlias, Goto, Idle, cache, inventory, TypeInv, TypeOK, Label
  <1>2. CASE ~NamesTarget
    <2>1. Removed /\ queue # <<>>
      BY <1>2 DEF MatchAlias, Removing
    <2> QED BY <2>1, RemovedTypes DEF MatchAlias, Idle, cache, inventory, TypeInv, TypeOK, Label, Result
  <1> QED BY <1>1, <1>2

LEMMA DropAliasTypes == TypeInv /\ DropAlias => TypeInv'
  <1> SUFFICES ASSUME TypeInv, DropAlias PROVE TypeInv'
    OBVIOUS
  <1>1. Removed /\ queue # <<>>
    BY DEF DropAlias, Removing
  <1>2. alias' \in [Module -> Version \union {NoVersion}]
    BY DEF DropAlias, TypeInv, TypeOK
  <1> QED BY <1>1, <1>2, RemovedTypes DEF DropAlias, Idle, inventory, TypeInv, TypeOK, Label, Result

LEMMA WipeModuleTypes == ASSUME TypeInv, NEW m \in Module, WipeModule(m) PROVE TypeInv'
  <1>1. todo' \subseteq Item
    BY ItemsAreItems DEF WipeModule
  <1> QED BY <1>1 DEF WipeModule, Idle, cache, inventory, TypeInv, TypeOK

LEMMA WipeItemTypes == ASSUME TypeInv, NEW i \in Item, WipeItem(i) PROVE TypeInv'
  <1>1. entry' \in [Entry -> VersionDir \union {NoEntry}]
    BY DEF WipeItem, TypeInv, TypeOK
  <1>2. staged' \in [Entry -> Int \union {NoEntry}]
    BY DEF WipeItem, TypeInv, TypeOK
  <1>3. alias' \in [Module -> Version \union {NoVersion}]
    BY DEF WipeItem, TypeInv, TypeOK
  <1> QED BY <1>1, <1>2, <1>3 DEF WipeItem, Idle, inventory, TypeInv, TypeOK

LEMMA WipedTypes == TypeInv /\ Wiped => TypeInv'
  BY DEF Wiped, Goto, Idle, cache, inventory, TypeInv, TypeOK, Label, Result

LEMMA OtherTypes == ASSUME TypeInv, NEW S, S \subseteq Item, Other(S)
    PROVE /\ others' \in 0..MaxOthers
          /\ command' \in Commands /\ pc' \in Label \union Result /\ pass' \in {1, 2}
          /\ mods' \subseteq Module /\ todo' \subseteq Item
          /\ measured' \in Nat /\ listed' \in [Entry -> VersionDir \union {NoEntry}]
          /\ problems' \subseteq Item
          /\ at' \in Module \union {NoVersion} /\ named' \in Version \union {NoVersion}
          /\ queue' \in Seq(Entry)
          /\ removal' \in [entries : Nat, bytes : Nat] /\ total' \in [entries : Nat, bytes : Nat]
          /\ before'.entry \in [Entry -> VersionDir \union {NoEntry}]
          /\ touched' \subseteq Item
          /\ pc' \in {"readAlias", "inspect"} => at' \in Module
  <1>1. MaxOthers \in Nat
    BY CachePruneAssumption DEF CachePruneAssumption
  <1> QED BY <1>1 DEF Other, work, inventory, TypeInv, TypeOK

LEMMA TickTypes == TypeInv /\ Tick => TypeInv'
  <1> SUFFICES ASSUME TypeInv, Tick PROVE TypeInv'
    OBVIOUS
  <1>1. Other({})
    BY DEF Tick
  <1> QED BY <1>1, OtherTypes DEF Tick, cache, TypeInv, TypeOK

LEMMA OtherStagesTypes == ASSUME TypeInv, NEW e \in Entry, OtherStages(e) PROVE TypeInv'
  <1>1. Other({<<"staged", e>>}) /\ {<<"staged", e>>} \subseteq Item
    BY ItemIn DEF OtherStages
  <1>2. staged' \in [Entry -> Int \union {NoEntry}]
    BY DEF OtherStages, TypeInv, TypeOK
  <1> QED BY <1>1, <1>2, OtherTypes DEF OtherStages, TypeInv, TypeOK

LEMMA OtherPublishesTypes == ASSUME TypeInv, NEW e \in Entry, OtherPublishes(e) PROVE TypeInv'
  <1>1. PICK S : Other(S) /\ S \subseteq Item
    <2>1. {<<"staged", e>>} \subseteq Item /\ {<<"staged", e>>, <<"entry", e>>} \subseteq Item
      BY ItemIn
    <2>2. Other({<<"staged", e>>}) \/ Other({<<"staged", e>>, <<"entry", e>>})
      BY DEF OtherPublishes
    <2> QED BY <2>1, <2>2
  <1>2. staged' \in [Entry -> Int \union {NoEntry}]
    BY DEF OtherPublishes, TypeInv, TypeOK
  <1>3. staged[e] \in Int /\ Bytes[e] \in Nat /\ "valid" \in Status
    BY BytesType DEF OtherPublishes, TypeInv, TypeOK, Status
  <1>4. Directory(Bytes[e], staged[e], "valid") \in VersionDir
    BY <1>3, DirectoryType
  <1>5. entry' \in [Entry -> VersionDir \union {NoEntry}]
    BY <1>4 DEF OtherPublishes, TypeInv, TypeOK
  <1> QED BY <1>1, <1>2, <1>5, OtherTypes DEF OtherPublishes, TypeInv, TypeOK

LEMMA OtherRecordsTypes == ASSUME TypeInv, NEW e \in Entry, OtherRecords(e) PROVE TypeInv'
  <1>1. e[1] \in Module /\ e[2] \in Version
    BY DEF Entry
  <1>2. Other({<<"alias", e[1]>>}) /\ {<<"alias", e[1]>>} \subseteq Item
    BY <1>1, ItemIn DEF OtherRecords
  <1>3. alias' \in [Module -> Version \union {NoVersion}]
    BY <1>1 DEF OtherRecords, TypeInv, TypeOK
  <1> QED BY <1>2, <1>3, OtherTypes DEF OtherRecords, TypeInv, TypeOK

LEMMA OtherEmptiesTypes == ASSUME TypeInv, NEW e \in Entry, OtherEmpties(e) PROVE TypeInv'
  <1>1. Other({<<"entry", e>>}) /\ {<<"entry", e>>} \subseteq Item
    BY ItemIn DEF OtherEmpties
  <1>2. entry' \in [Entry -> VersionDir \union {NoEntry}]
    BY EmptiedTypes DEF OtherEmpties
  <1> QED BY <1>1, <1>2, OtherTypes DEF OtherEmpties, TypeInv, TypeOK

LEMMA OtherRemovesTypes == ASSUME TypeInv, NEW e \in Entry, OtherRemoves(e) PROVE TypeInv'
  <1>1. e[1] \in Module /\ e[2] \in Version
    BY DEF Entry
  <1>2. PICK S : Other(S) /\ S \subseteq Item
    <2>1. {<<"entry", e>>} \subseteq Item
      BY ItemIn
    <2>2. {<<"entry", e>>} \union (IF alias[e[1]] = e[2] THEN {<<"alias", e[1]>>} ELSE {}) \subseteq Item
      BY <1>1, ItemIn
    <2> QED BY <2>1, <2>2 DEF OtherRemoves
  <1>3. alias' \in [Module -> Version \union {NoVersion}] /\ entry' \in [Entry -> VersionDir \union {NoEntry}]
    BY DEF OtherRemoves, TypeInv, TypeOK
  <1> QED BY <1>2, <1>3, OtherTypes DEF OtherRemoves, TypeInv, TypeOK

LEMMA TypesKept == TypeInv /\ [Next]_vars => TypeInv'
  <1> SUFFICES ASSUME TypeInv, [Next]_vars PROVE TypeInv'
    OBVIOUS
  <1>1. CASE Measure
    BY <1>1, MeasureModuleTypes, MeasureItemTypes, MeasureFailsTypes, MeasuredRootTypes, MeasuredEntryTypes,
       MeasuredModuleTypes, MeasuredCacheTypes DEF Measure
  <1>2. CASE Inspect
    BY <1>2, ListVersionsTypes, ReadLatestAliasTypes, InspectEntryTypes, InspectFailsTypes, EndOfModuleTypes,
       InspectedTypes DEF Inspect
  <1>3. CASE Prune
    BY <1>3, SelectEntriesTypes, NextEntryTypes, AllRemovedTypes DEF Prune
  <1>4. CASE RemoveVersion
    BY <1>4, MatchAliasSizeTypes, AliasVanishesTypes, EmptyEntryTypes, RemoveEntryTypes, MatchAliasTypes,
       DropAliasTypes DEF RemoveVersion
  <1>5. CASE Wipe
    BY <1>5, WipeModuleTypes, WipeItemTypes, WipedTypes DEF Wipe
  <1>6. CASE Others
    BY <1>6, TickTypes, OtherStagesTypes, OtherPublishesTypes, OtherRecordsTypes, OtherEmptiesTypes,
       OtherRemovesTypes DEF Others
  <1>7. CASE UNCHANGED vars
    BY <1>7 DEF vars, cache, work, inventory, TypeInv, TypeOK
  <1> QED BY <1>1, <1>2, <1>3, <1>4, <1>5, <1>6, <1>7, StartTypes DEF Next

LEMMA Types == Spec => []TypeInv
  BY InitTypes, TypesKept, PTL DEF Spec

(* The files, the counters and the walk of a command have their types. *)
THEOREM CommandsTyped == Spec => []TypeOK
  <1>1. TypeInv => TypeOK
    BY DEF TypeInv
  <1> QED BY <1>1, Types, PTL

-----------------------------------------------------------------------------
(* Where a command is. *)

Walking == {"list", "readAlias", "inspect"}

Clearing == {"aliasSize", "empty", "rmdir", "matchAlias", "dropAlias"}

(* What a command does only at some labels: an inspection has nothing to   *)
(* remove, a prune and a removal have one version at a time, and only a    *)
(* module or the root is wiped.                                            *)
Control ==
    /\ pc \in Walking => Inspecting /\ queue = <<>>
    /\ pc = "list" => todo = {}
    /\ pc \in {"readAlias", "inspect"} => \A i \in todo : i[1] = "entry"
    /\ pc = "select" => pass = 1 /\ mods = {} /\ todo = {} /\ queue = <<>>
    /\ pc \in {"select", "next", "sizeError"} => command.op = "prune"
    /\ pc = "start" => pass = 1 /\ mods = {} /\ todo = {} /\ queue = <<>>
    /\ pc \in Clearing => queue # <<>>
    /\ pc \in Clearing \union {"next"} => mods = {}
    /\ pc = "measure" /\ queue # <<>> => mods = {} /\ todo \subseteq {<<"entry", Head(queue)>>}
    /\ queue # <<>> => command.op \in {"remove", "prune"}
    /\ pc = "wipe" => /\ command.op \in {"remove", "clean"} /\ queue = <<>>
                      /\ command.op = "remove" =>
                           /\ mods \subseteq {command.mod}
                           /\ \A i \in todo : InModule(i, command.mod)
    /\ pass = 2 => command.op = "prune" /\ queue = <<>>
    /\ command.op = "prune" /\ pc \in {"ok", "sizeError"} => queue = <<>>
    /\ command.op = "verify" /\ pc = "ok" => mods = {} /\ todo = {} /\ queue = <<>>

(* An entry another invocation is removing is one it touched. *)
LeavingTouched == \A e \in leaving : <<"entry", e>> \in touched

ControlInv == Control /\ LeavingTouched

OwnStep == Start \/ Measure \/ Inspect \/ Prune \/ RemoveVersion \/ Wipe

LEMMA OthersApart == ASSUME Others
    PROVE UNCHANGED <<command, pc, work, before>> /\ touched \subseteq touched'
  BY DEF Others, Tick, OtherStages, OtherPublishes, OtherRecords, OtherEmpties, OtherRemoves, Other

LEMMA OwnApart == ASSUME OwnStep
    PROVE UNCHANGED <<leaving, now, others, command, before, touched>>
  <1>1. CASE Start
    BY <1>1 DEF Start, Idle
  <1>2. CASE Measure
    BY <1>2 DEF Measure, MeasureModule, MeasureItem, MeasureFails, MeasuredRoot, MeasuredEntry, MeasuredModule,
                MeasuredCache, Idle
  <1>3. CASE Inspect
    BY <1>3 DEF Inspect, ListVersions, ReadLatestAlias, InspectEntry, InspectFails, EndOfModule, Inspected, Idle
  <1>4. CASE Prune
    BY <1>4 DEF Prune, SelectEntries, NextEntry, AllRemoved, Idle
  <1>5. CASE RemoveVersion
    BY <1>5 DEF RemoveVersion, AliasVanishes, MatchAliasSize, EmptyEntry, RemoveEntry, MatchAlias, DropAlias, Idle
  <1>6. CASE Wipe
    BY <1>6 DEF Wipe, WipeModule, WipeItem, Wiped, Idle
  <1> QED BY <1>1, <1>2, <1>3, <1>4, <1>5, <1>6 DEF OwnStep

LEMMA LeavingKept == LeavingTouched /\ [Next]_vars => LeavingTouched'
  <1> SUFFICES ASSUME LeavingTouched, [Next]_vars PROVE LeavingTouched'
    OBVIOUS
  <1>1. CASE OwnStep
    BY <1>1, OwnApart DEF LeavingTouched
  <1>2. CASE Others
    <2>1. touched \subseteq touched'
      BY <1>2, OthersApart
    <2>2. leaving' \subseteq leaving \/ \E e \in Entry : leaving' = leaving \union {e} /\ <<"entry", e>> \in touched'
      BY <1>2 DEF Others, Tick, OtherStages, OtherPublishes, OtherRecords, OtherEmpties, OtherRemoves, Other
    <2> QED BY <2>1, <2>2 DEF LeavingTouched
  <1>3. CASE UNCHANGED vars
    BY <1>3 DEF vars, LeavingTouched
  <1> QED BY <1>1, <1>2, <1>3 DEF Next, OwnStep

LEMMA InitControl == Init => ControlInv
  BY DEF Init, ControlInv, Control, LeavingTouched, Walking, Clearing, EmptyInventory

LEMMA StartControl == Control /\ Start => Control'
  <1> SUFFICES ASSUME Control, Start PROVE Control'
    OBVIOUS
  <1>1. UNCHANGED <<command, pass>> /\ pass = 1 /\ queue = <<>>
    BY DEF Start, Idle, Control
  <1>2. CASE Refused /\ Goto("policy") /\ UNCHANGED <<mods, todo, queue>>
    BY <1>1, <1>2 DEF Goto, Control, Walking, Clearing
  <1>3. CASE OneVersion /\ queue' = <<<<command.mod, command.ver>>>>
             /\ todo' = {<<"entry", <<command.mod, command.ver>>>>} /\ Goto("measure") /\ UNCHANGED mods
             /\ mods = {}
    <2>1. Head(queue') = <<command.mod, command.ver>> /\ command.op = "remove" /\ pc' = "measure"
      BY <1>3 DEF OneVersion, Goto
    <2> QED BY <1>1, <1>3, <2>1 DEF Control, Walking, Clearing
  <1>4. CASE ~Refused /\ ~OneVersion /\ UNCHANGED queue
             /\ Walk("measure", IF command.op = "remove" THEN {command.mod} ELSE Module)
    BY <1>1, <1>4 DEF Walk, Goto, Control, Walking, Clearing
  <1> QED BY <1>2, <1>3, <1>4 DEF Start, Control

LEMMA MeasureControl == Control /\ Measure => Control'
  <1> SUFFICES ASSUME Control, Measure PROVE Control'
    OBVIOUS
  <1>0. UNCHANGED command
    BY OwnApart DEF OwnStep
  <1>1. ASSUME NEW m \in Module, MeasureModule(m) PROVE Control'
    BY <1>0, <1>1 DEF MeasureModule, FirstModule, Control, Walking, Clearing
  <1>2. ASSUME NEW i \in Item, MeasureItem(i) PROVE Control'
    BY <1>0, <1>2 DEF MeasureItem, Control, Walking, Clearing
  <1>3. ASSUME NEW i \in Item, MeasureFails(i) PROVE Control'
    <2>1. pc = "measure" /\ Vanished /\ todo' = {} /\ mods' = {} /\ UNCHANGED pass
      BY <1>3 DEF MeasureFails
    <2>2. CASE queue # <<>> /\ command.op = "prune"
      <3>1. pc' = "next" /\ pass # 2
        BY <2>1, <2>2 DEF Vanished, Goto, Control
      <3> QED BY <1>0, <2>1, <2>2, <3>1 DEF Control, Walking, Clearing
    <2>3. CASE ~(queue # <<>> /\ command.op = "prune")
      <3>1. queue' = queue /\ pc' = IF Inspecting THEN "error" ELSE IF command.op = "remove" THEN "notFound" ELSE "ok"
        BY <2>1, <2>3 DEF Vanished, Goto
      <3> QED BY <1>0, <2>1, <2>3, <3>1 DEF Control, Walking, Clearing, Inspecting
    <2> QED BY <2>2, <2>3
  <1>4. CASE MeasuredRoot
    BY <1>0, <1>4 DEF MeasuredRoot, Measured, Walk, Goto, Control, Walking, Clearing, Inspecting
  <1>5. CASE MeasuredEntry
    BY <1>0, <1>5 DEF MeasuredEntry, Measured, Goto, Control, Walking, Clearing
  <1>6. CASE MeasuredModule
    BY <1>0, <1>6 DEF MeasuredModule, Measured, Walk, Goto, Control, Walking, Clearing
  <1>7. CASE MeasuredCache
    BY <1>0, <1>7 DEF MeasuredCache, Measured, Walk, Goto, Control, Walking, Clearing
  <1> QED BY <1>1, <1>2, <1>3, <1>4, <1>5, <1>6, <1>7 DEF Measure

LEMMA InspectControl == Control /\ Inspect => Control'
  <1> SUFFICES ASSUME Control, Inspect PROVE Control'
    OBVIOUS
  <1>0. UNCHANGED command
    BY OwnApart DEF OwnStep
  <1>1. ASSUME NEW m \in Module, ListVersions(m) PROVE Control'
    BY <1>0, <1>1 DEF ListVersions, Goto, Control, Walking, Clearing, Inspecting
  <1>2. CASE ReadLatestAlias
    BY <1>0, <1>2 DEF ReadLatestAlias, Goto, Control, Walking, Clearing, Inspecting
  <1>3. ASSUME NEW e \in Entry, InspectEntry(e) PROVE Control'
    BY <1>0, <1>3 DEF InspectEntry, Control, Walking, Clearing, Inspecting
  <1>4. ASSUME NEW i \in Item, InspectFails(i) PROVE Control'
    BY <1>0, <1>4 DEF InspectFails, Goto, Control, Walking, Clearing, Inspecting
  <1>5. CASE EndOfModule
    BY <1>0, <1>5 DEF EndOfModule, Goto, work, Control, Walking, Clearing, Inspecting
  <1>6. CASE Inspected
    <2>1. pc = "list" /\ mods = {} /\ todo = {} /\ queue = <<>> /\ Inspecting
      BY <1>6 DEF Inspected, Control, Walking
    <2>2. UNCHANGED <<pass, mods, todo, queue>>
      BY <1>6 DEF Inspected, work
    <2>3. CASE command.op # "prune"
      <3>1. pc' \in {"notFound", "problems", "ok"}
        BY <1>6, <2>3 DEF Inspected, Goto, Report
      <3> QED BY <1>0, <2>1, <2>2, <2>3, <3>1 DEF Control, Walking, Clearing
    <2>4. CASE command.op = "prune"
      <3>1. pc' = IF pass = 1 THEN "select" ELSE IF measured > command.max THEN "sizeError" ELSE "ok"
        BY <1>6, <2>4 DEF Inspected, Goto
      <3> QED BY <1>0, <2>1, <2>2, <2>4, <3>1 DEF Control, Walking, Clearing
    <2> QED BY <2>3, <2>4
  <1> QED BY <1>1, <1>2, <1>3, <1>4, <1>5, <1>6 DEF Inspect

LEMMA PruneControl == Control /\ Prune => Control'
  <1> SUFFICES ASSUME Control, Prune PROVE Control'
    OBVIOUS
  <1>0. UNCHANGED command
    BY OwnApart DEF OwnStep
  <1>1. CASE SelectEntries
    <2>1. pc = "select" /\ pc' = "next" /\ UNCHANGED <<pass, mods, todo>>
      BY <1>1 DEF SelectEntries, Goto
    <2> QED BY <1>0, <2>1 DEF Control, Walking, Clearing
  <1>2. CASE NextEntry
    BY <1>0, <1>2 DEF NextEntry, Goto, Control, Walking, Clearing
  <1>3. CASE AllRemoved
    BY <1>0, <1>3 DEF AllRemoved, Walk, Goto, Control, Walking, Clearing
  <1> QED BY <1>1, <1>2, <1>3 DEF Prune

LEMMA RemoveVersionControl == TypeInv /\ Control /\ RemoveVersion => Control'
  <1> SUFFICES ASSUME TypeInv, Control, RemoveVersion PROVE Control'
    OBVIOUS
  <1>0. UNCHANGED command
    BY OwnApart DEF OwnStep
  <1>1. CASE MatchAliasSize
    BY <1>0, <1>1 DEF MatchAliasSize, Removing, Goto, Control, Walking, Clearing
  <1>2. CASE EmptyEntry
    BY <1>0, <1>2 DEF EmptyEntry, Removing, Goto, work, Control, Walking, Clearing
  <1>3. CASE RemoveEntry
    BY <1>0, <1>3 DEF RemoveEntry, Removing, Goto, work, Control, Walking, Clearing
  <1>4. ASSUME pc \in Clearing, Removed, UNCHANGED <<pass, mods, todo>> PROVE Control'
    BY <1>0, <1>4 DEF Removed, Goto, Control, Walking, Clearing
  <1>5. CASE MatchAlias
    BY <1>0, <1>4, <1>5 DEF MatchAlias, Removing, Goto, Control, Walking, Clearing
  <1>6. CASE DropAlias
    BY <1>4, <1>6 DEF DropAlias, Removing, Clearing
  <1>7. CASE AliasVanishes
    BY <1>0, <1>7 DEF AliasVanishes, Removing, Goto, work, Control, Walking, Clearing
  <1> QED BY <1>1, <1>2, <1>3, <1>5, <1>6, <1>7 DEF RemoveVersion

LEMMA WipeControl == Control /\ Wipe => Control'
  <1> SUFFICES ASSUME Control, Wipe PROVE Control'
    OBVIOUS
  <1>0. UNCHANGED command
    BY OwnApart DEF OwnStep
  <1>1. ASSUME NEW m \in Module, WipeModule(m) PROVE Control'
    <2>1. command.op = "remove" => m = command.mod
      BY <1>1 DEF WipeModule, Control
    <2>2. \A i \in Items(m) : InModule(i, m)
      BY DEF Items
    <2> QED BY <1>0, <1>1, <2>1, <2>2 DEF WipeModule, Control, Walking, Clearing
  <1>2. ASSUME NEW i \in Item, WipeItem(i) PROVE Control'
    BY <1>0, <1>2 DEF WipeItem, Control, Walking, Clearing
  <1>3. CASE Wiped
    BY <1>0, <1>3 DEF Wiped, Goto, Control, Walking, Clearing
  <1> QED BY <1>1, <1>2, <1>3 DEF Wipe

LEMMA ControlSame ==
    Control /\ UNCHANGED <<command, pc, pass, mods, todo, queue>> => Control'
  BY DEF Control, Inspecting, InModule, Walking, Clearing

LEMMA ControlStep == TypeInv /\ Control /\ [Next]_vars => Control'
  <1> SUFFICES ASSUME TypeInv, Control, [Next]_vars PROVE Control'
    OBVIOUS
  <1>1. CASE Others
    <2>1. UNCHANGED <<command, pc, pass, mods, todo, queue>>
      BY <1>1, OthersApart DEF work
    <2> QED BY <2>1, ControlSame
  <1>2. CASE UNCHANGED vars
    <2>1. UNCHANGED <<command, pc, pass, mods, todo, queue>>
      BY <1>2 DEF vars, work
    <2> QED BY <2>1, ControlSame
  <1> QED BY <1>1, <1>2, StartControl, MeasureControl, InspectControl, PruneControl, RemoveVersionControl,
             WipeControl DEF Next

LEMMA ControlKept == TypeInv /\ ControlInv /\ [Next]_vars => ControlInv'
  BY ControlStep, LeavingKept DEF ControlInv

LEMMA Controls == Spec => []ControlInv
  BY InitControl, ControlKept, Types, PTL DEF Spec

-----------------------------------------------------------------------------
(* What others leave untouched, and what the command leaves alone. *)

(* The entries that were there and that nobody else touched. *)
Alone(e) == Was(e) /\ Untouched("entry", e)

LEMMA Settled == [Next]_vars => UNCHANGED <<command, before>> /\ touched \subseteq touched'
  <1> SUFFICES ASSUME [Next]_vars PROVE UNCHANGED <<command, before>> /\ touched \subseteq touched'
    OBVIOUS
  <1>1. CASE OwnStep
    BY <1>1, OwnApart
  <1>2. CASE Others
    BY <1>2, OthersApart
  <1>3. CASE UNCHANGED vars
    BY <1>3 DEF vars
  <1> QED BY <1>1, <1>2, <1>3 DEF Next, OwnStep

Untroubled ==
    /\ \A e \in Entry : <<"entry", e>> \notin touched' => entry'[e] = entry[e]
    /\ \A e \in Entry : <<"staged", e>> \notin touched' => staged'[e] = staged[e]
    /\ \A m \in Module : <<"alias", m>> \notin touched' => alias'[m] = alias[m]
    /\ stray' = stray

(* What others leave untouched they leave as it was. *)
LEMMA OthersTouch == ASSUME TypeInv, Others PROVE Untroubled /\ (now' = now \/ now' = now + 1)
  <1>0. /\ entry \in [Entry -> VersionDir \union {NoEntry}]
        /\ staged \in [Entry -> Int \union {NoEntry}]
        /\ alias \in [Module -> Version \union {NoVersion}]
    BY DEF TypeInv, TypeOK
  <1>1. CASE Tick
    BY <1>1 DEF Tick, cache, Untroubled
  <1>2. ASSUME NEW e \in Entry, OtherStages(e) PROVE Untroubled /\ now' = now
    BY <1>0, <1>2 DEF OtherStages, Other, Untroubled
  <1>3. ASSUME NEW e \in Entry, OtherPublishes(e) PROVE Untroubled /\ now' = now
    <2>1. <<"staged", e>> \in touched' /\ (entry' = entry \/ <<"entry", e>> \in touched')
      BY <1>3 DEF OtherPublishes, Other
    <2>2. staged' = [staged EXCEPT ![e] = NoEntry] /\ UNCHANGED <<alias, stray, now>>
      BY <1>3 DEF OtherPublishes
    <2>3. \A f \in Entry : f # e => entry'[f] = entry[f]
      BY <1>0, <1>3 DEF OtherPublishes
    <2> QED BY <1>0, <2>1, <2>2, <2>3 DEF Untroubled
  <1>4. ASSUME NEW e \in Entry, OtherRecords(e) PROVE Untroubled /\ now' = now
    BY <1>0, <1>4 DEF OtherRecords, Other, Untroubled
  <1>5. ASSUME NEW e \in Entry, OtherEmpties(e) PROVE Untroubled /\ now' = now
    <2>1. \A f \in Entry : f # e => entry'[f] = entry[f]
      BY <1>0, <1>5 DEF OtherEmpties, Emptied
    <2>2. <<"entry", e>> \in touched' /\ UNCHANGED <<staged, alias, stray, now>>
      BY <1>5 DEF OtherEmpties, Other
    <2> QED BY <2>1, <2>2 DEF Untroubled
  <1>6. ASSUME NEW e \in Entry, OtherRemoves(e) PROVE Untroubled /\ now' = now
    <2>1. UNCHANGED <<staged, stray, now>>
      BY <1>6 DEF OtherRemoves
    <2>2. CASE /\ entry' = [entry EXCEPT ![e] = NoEntry]
               /\ alias' = [alias EXCEPT ![e[1]] = IF alias[e[1]] = e[2] THEN NoVersion ELSE alias[e[1]]]
               /\ Other({<<"entry", e>>} \union (IF alias[e[1]] = e[2] THEN {<<"alias", e[1]>>} ELSE {}))
      <3>1. \A f \in Entry : f # e => entry'[f] = entry[f]
        BY <1>0, <2>2
      <3>2. <<"entry", e>> \in touched' /\ (alias[e[1]] = e[2] => <<"alias", e[1]>> \in touched')
        BY <2>2 DEF Other
      <3>3. \A m \in Module : alias'[m] = alias[m] \/ (m = e[1] /\ alias[e[1]] = e[2])
        BY <1>0, <2>2
      <3> QED BY <2>1, <3>1, <3>2, <3>3 DEF Untroubled
    <2>3. CASE Other({<<"entry", e>>}) /\ UNCHANGED <<entry, alias>>
      BY <2>1, <2>3 DEF Untroubled
    <2> QED BY <1>6, <2>2, <2>3 DEF OtherRemoves
  <1> QED BY <1>1, <1>2, <1>3, <1>4, <1>5, <1>6 DEF Others, Tick

LEMMA OwnTouch == ASSUME OwnStep
    PROVE /\ pc \notin {"empty", "rmdir", "wipe"} => entry' = entry
          /\ pc # "wipe" => staged' = staged /\ stray' = stray
          /\ pc \notin {"dropAlias", "wipe"} => alias' = alias
  <1>1. CASE Start
    BY <1>1 DEF Start, cache
  <1>2. CASE Measure
    BY <1>2 DEF Measure, MeasureModule, MeasureItem, MeasureFails, MeasuredRoot, MeasuredEntry, MeasuredModule,
                MeasuredCache, cache
  <1>3. CASE Inspect
    BY <1>3 DEF Inspect, ListVersions, ReadLatestAlias, InspectEntry, InspectFails, EndOfModule, Inspected, cache
  <1>4. CASE Prune
    BY <1>4 DEF Prune, SelectEntries, NextEntry, AllRemoved, cache
  <1>5. CASE RemoveVersion
    BY <1>5 DEF RemoveVersion, AliasVanishes, MatchAliasSize, EmptyEntry, RemoveEntry, MatchAlias, DropAlias,
                Removing, cache
  <1>6. CASE Wipe
    BY <1>6 DEF Wipe, WipeModule, WipeItem, Wiped, cache
  <1> QED BY <1>1, <1>2, <1>3, <1>4, <1>5, <1>6 DEF OwnStep

-----------------------------------------------------------------------------
(* The first inspection, and its end for a verification. *)
FirstInspection ==
    /\ pass = 1 /\ Inspecting
    /\ \/ pc \in Walking \union {"select"}
       \/ command.op = "verify" /\ pc = "ok"

(* Nothing is removed before the selection. *)
BeforeRemoval ==
    /\ pass = 1 /\ queue = <<>>
    /\ pc \in {"start", "measure", "list", "readAlias", "inspect", "select"}

Kept ==
    Inspecting =>
      /\ BeforeRemoval \/ command.op # "prune" =>
           \A e \in Entry : Alone(e) => entry[e] = before.entry[e]
      /\ \A m \in Module : m \in before.stray => m \in stray
      /\ \A e \in Entry : Untouched("staged", e) => staged[e] = before.staged[e]

LEMMA InitKept == Init => Kept
  BY DEF Init, Kept

LEMMA BeforeRemovalBack == ASSUME Control, OwnStep, BeforeRemoval' PROVE BeforeRemoval
  <1>1. CASE Start
    BY <1>1 DEF Start, Control, BeforeRemoval
  <1>2. CASE Measure
    <2>1. pc = "measure" /\ UNCHANGED pass
      BY <1>2 DEF Measure, MeasureModule, MeasureItem, MeasureFails, MeasuredRoot, MeasuredEntry, MeasuredModule,
                MeasuredCache, Measured
    <2>2. queue' = queue \/ pc' = "next"
      BY <1>2 DEF Measure, MeasureModule, MeasureItem, MeasureFails, MeasuredRoot, MeasuredEntry, MeasuredModule,
                MeasuredCache, Vanished, Goto
    <2> QED BY <2>1, <2>2 DEF BeforeRemoval
  <1>3. CASE Inspect
    <2>1. pc \in Walking /\ UNCHANGED <<pass, queue>>
      BY <1>3 DEF Inspect, ListVersions, ReadLatestAlias, InspectEntry, InspectFails, EndOfModule, Inspected, work,
                  Walking
    <2> QED BY <2>1 DEF BeforeRemoval, Walking
  <1>4. CASE Prune
    <2>1. CASE SelectEntries
      BY <2>1 DEF SelectEntries, Goto, BeforeRemoval
    <2>2. CASE NextEntry
      BY <2>2 DEF NextEntry, BeforeRemoval
    <2>3. CASE AllRemoved
      BY <2>3 DEF AllRemoved, Goto, BeforeRemoval
    <2> QED BY <1>4, <2>1, <2>2, <2>3 DEF Prune
  <1>5. CASE RemoveVersion
    <2>1. pc' \in {"empty", "rmdir", "error", "matchAlias", "dropAlias", "next", "ok"}
      BY <1>5 DEF RemoveVersion, AliasVanishes, MatchAliasSize, EmptyEntry, RemoveEntry, MatchAlias, DropAlias,
                  Removed, Goto
    <2> QED BY <2>1 DEF BeforeRemoval
  <1>6. CASE Wipe
    <2>1. pc' \in {"wipe", "error", "ok"}
      BY <1>6 DEF Wipe, WipeModule, WipeItem, Wiped, Goto
    <2> QED BY <2>1 DEF BeforeRemoval
  <1> QED BY <1>1, <1>2, <1>3, <1>4, <1>5, <1>6 DEF OwnStep

LEMMA KeptKept == TypeInv /\ Control /\ Kept /\ [Next]_vars => Kept'
  <1> SUFFICES ASSUME TypeInv, Control, Kept, [Next]_vars, Inspecting' PROVE Kept'
    BY DEF Kept
  <1>0. UNCHANGED <<command, before>> /\ touched \subseteq touched' /\ Inspecting
    BY Settled DEF Inspecting
  <1>1. /\ \A e \in Entry : Alone(e)' => Alone(e)
        /\ \A e \in Entry : Untouched("staged", e)' => Untouched("staged", e)
    BY <1>0 DEF Alone, Was, Untouched
  <1>2. pc # "wipe"
    BY <1>0 DEF Control, Inspecting
  <1>3. CASE OwnStep
    <2>1. staged' = staged /\ stray' = stray
      BY <1>2, <1>3, OwnTouch
    <2>2. BeforeRemoval' \/ command'.op # "prune" => BeforeRemoval \/ command.op # "prune"
      BY <1>0, <1>3, BeforeRemovalBack
    <2>3. BeforeRemoval \/ command.op # "prune" => pc \notin {"empty", "rmdir"}
      BY <1>0 DEF BeforeRemoval, Control, Clearing, Inspecting
    <2>4. BeforeRemoval \/ command.op # "prune" => entry' = entry
      BY <1>2, <1>3, <2>3, OwnTouch
    <2> QED BY <1>0, <1>1, <2>1, <2>2, <2>4 DEF Kept
  <1>4. CASE Others
    <2>1. Untroubled /\ UNCHANGED <<pc, pass, queue>>
      BY <1>4, OthersTouch, OthersApart DEF work
    <2>2. BeforeRemoval' => BeforeRemoval
      BY <2>1 DEF BeforeRemoval
    <2>3. \A e \in Entry : Alone(e)' => entry'[e] = entry[e]
      BY <2>1 DEF Untroubled, Alone, Untouched
    <2>4. \A e \in Entry : Untouched("staged", e)' => staged'[e] = staged[e]
      BY <2>1 DEF Untroubled, Untouched
    <2> QED BY <1>0, <1>1, <2>1, <2>2, <2>3, <2>4 DEF Kept, Untroubled
  <1>5. CASE UNCHANGED vars
    <2>1. UNCHANGED <<pc, pass, queue, entry, staged, stray>>
      BY <1>5 DEF vars, cache, work
    <2>2. BeforeRemoval' => BeforeRemoval
      BY <2>1 DEF BeforeRemoval
    <2> QED BY <1>0, <1>1, <2>1, <2>2 DEF Kept
  <1> QED BY <1>3, <1>4, <1>5 DEF Next, OwnStep

LEMMA Keeps == Spec => []Kept
  <1>1. ControlInv => Control
    BY DEF ControlInv
  <1> QED BY <1>1, InitKept, KeptKept, Types, Controls, PTL DEF Spec

-----------------------------------------------------------------------------
(* What an inspection has noted. *)

(* The inspection has met e as it was at the start. *)
Met(e) ==
    /\ listed[e] # NoEntry
    /\ listed[e].modified = before.entry[e].modified
    /\ listed[e].status = before.entry[e].status

(* What an inspection has passed it has noted. *)
NotedEntries == \A e \in Entry : Alone(e) => e[1] \in mods \/ <<"entry", e>> \in todo \/ Met(e)

NotedStray == \A m \in Module : m \in before.stray => m \in mods \/ <<"stray", m>> \in problems

NotedStaged ==
    \A e \in Entry : before.staged[e] # NoEntry /\ Untouched("staged", e) =>
        e[1] \in mods \/ <<"staged", e>> \in problems

Noted == FirstInspection => NotedEntries /\ NotedStray /\ NotedStaged

LEMMA InitNoted == Init => Noted
  BY DEF Init, Noted, FirstInspection, Walking

LEMMA NotedSame ==
    Noted /\ UNCHANGED <<command, pc, pass, mods, todo, listed, problems, before>> /\ touched \subseteq touched'
      => Noted'
  BY DEF Noted, FirstInspection, NotedEntries, NotedStray, NotedStaged, Met, Alone, Was, Untouched, Inspecting, Walking

LEMMA MeasureNoted == ASSUME Control, Measure PROVE Noted'
  <1>0. UNCHANGED <<command, before, touched>>
    BY OwnApart DEF OwnStep
  <1>1. CASE MeasuredRoot
    <2>1. mods' = Module
      BY <1>1 DEF MeasuredRoot, Walk
    <2>2. \A e \in Entry : e[1] \in Module
      BY DEF Entry
    <2> QED BY <2>1, <2>2 DEF Noted, NotedEntries, NotedStray, NotedStaged
  <1>2. CASE ~MeasuredRoot
    <2>1. pc' \in {"measure", "next", "error", "notFound", "ok", "aliasSize", "wipe"}
      BY <1>2 DEF Measure, MeasureModule, MeasureItem, MeasureFails, MeasuredEntry, MeasuredModule,
                MeasuredCache, Measured, Vanished, Walk, Goto
    <2>2. pc' = "ok" => command.op # "verify"
      BY <1>2 DEF Measure, MeasureModule, MeasureItem, MeasureFails, MeasuredEntry, MeasuredModule,
                MeasuredCache, Measured, Vanished, Walk, Goto, Inspecting
    <2> QED BY <1>0, <2>1, <2>2 DEF Noted, FirstInspection, Walking
  <1> QED BY <1>1, <1>2

LEMMA ListVersionsNoted ==
    ASSUME Control, Kept, Noted, NEW m \in Module, ListVersions(m) PROVE Noted'
  <1> SUFFICES ASSUME FirstInspection' PROVE (NotedEntries /\ NotedStray /\ NotedStaged)'
    BY DEF Noted
  <1>0. UNCHANGED <<command, before, touched, pass, listed>> /\ mods' = mods \ {m}
    BY DEF ListVersions, Idle
  <1>1. pc = "list" /\ todo = {} /\ queue = <<>> /\ Inspecting
    BY DEF ListVersions, Control, Walking
  <1>2. FirstInspection /\ BeforeRemoval
    BY <1>0, <1>1 DEF FirstInspection, BeforeRemoval, Walking
  <1>3. NotedEntries'
    <2> SUFFICES ASSUME NEW e \in Entry, Alone(e)' PROVE e[1] \in mods' \/ <<"entry", e>> \in todo' \/ Met(e)'
      BY DEF NotedEntries
    <2>1. Alone(e)
      BY <1>0 DEF Alone, Was, Untouched
    <2>2. CASE e[1] = m
      <3>1. entry[e] # NoEntry
        BY <1>1, <1>2, <2>1 DEF Kept, Alone, Was
      <3>2. <<"entry", e>> \in Items(m)
        BY <2>2, <3>1, ItemIn DEF Items, Present, InModule
      <3> QED BY <3>2 DEF ListVersions
    <2>3. CASE e[1] # m
      <3>1. e[1] \in mods \/ Met(e)
        BY <1>1, <1>2, <2>1 DEF Noted, NotedEntries
      <3> QED BY <1>0, <2>3, <3>1 DEF Met
    <2> QED BY <2>2, <2>3
  <1>4. NotedStray'
    <2> SUFFICES ASSUME NEW x \in Module, x \in before'.stray PROVE x \in mods' \/ <<"stray", x>> \in problems'
      BY DEF NotedStray
    <2>2. CASE x = m
      <3>1. x \in stray
        BY <1>0, <1>1 DEF Kept
      <3>2. <<"stray", x>> \in Items(m)
        BY <2>2, <3>1, ItemIn DEF Items, Present, InModule
      <3> QED BY <3>2 DEF ListVersions
    <2>3. CASE x # m
      <3>1. x \in mods \/ <<"stray", x>> \in problems
        BY <1>0, <1>2 DEF Noted, NotedStray
      <3> QED BY <1>0, <2>3, <3>1 DEF ListVersions
    <2> QED BY <2>2, <2>3
  <1>5. NotedStaged'
    <2> SUFFICES ASSUME NEW e \in Entry, before'.staged[e] # NoEntry, Untouched("staged", e)'
                 PROVE e[1] \in mods' \/ <<"staged", e>> \in problems'
      BY DEF NotedStaged
    <2>1. before.staged[e] # NoEntry /\ Untouched("staged", e)
      BY <1>0 DEF Untouched
    <2>2. CASE e[1] = m
      <3>1. staged[e] # NoEntry
        BY <1>1, <2>1 DEF Kept
      <3>2. <<"staged", e>> \in Items(m)
        BY <2>2, <3>1, ItemIn DEF Items, Present, InModule
      <3> QED BY <3>2 DEF ListVersions
    <2>3. CASE e[1] # m
      <3>1. e[1] \in mods \/ <<"staged", e>> \in problems
        BY <1>2, <2>1 DEF Noted, NotedStaged
      <3> QED BY <1>0, <2>3, <3>1 DEF ListVersions
    <2> QED BY <2>2, <2>3
  <1> QED BY <1>3, <1>4, <1>5

LEMMA ReadLatestAliasNoted == ASSUME Noted, ReadLatestAlias PROVE Noted'
  <1>1. UNCHANGED <<command, before, touched, pass, mods, todo, listed>> /\ problems \subseteq problems'
        /\ pc = "readAlias" /\ pc' = "inspect"
    BY DEF ReadLatestAlias, Goto, Idle
  <1> QED BY <1>1 DEF Noted, FirstInspection, NotedEntries, NotedStray, NotedStaged, Met, Alone, Was, Untouched,
             Inspecting, Walking

LEMMA InspectEntryNoted ==
    ASSUME TypeInv, Control, Kept, Noted, NEW e \in Entry, InspectEntry(e) PROVE Noted'
  <1> SUFFICES ASSUME FirstInspection' PROVE (NotedEntries /\ NotedStray /\ NotedStaged)'
    BY DEF Noted
  <1>0. UNCHANGED <<command, before, touched, pc, pass, mods>> /\ pc = "inspect"
        /\ todo' = todo \ {<<"entry", e>>} /\ listed' = [listed EXCEPT ![e] = Listing(e)]
    BY DEF InspectEntry, Idle
  <1>1. queue = <<>> /\ Inspecting
    BY <1>0 DEF Control, Walking
  <1>2. FirstInspection /\ BeforeRemoval
    BY <1>0, <1>1 DEF FirstInspection, BeforeRemoval, Walking
  <1>3. NotedEntries'
    <2> SUFFICES ASSUME NEW f \in Entry, Alone(f)' PROVE f[1] \in mods' \/ <<"entry", f>> \in todo' \/ Met(f)'
      BY DEF NotedEntries
    <2>1. Alone(f)
      BY <1>0 DEF Alone, Was, Untouched
    <2>2. CASE f = e
      <3>1. entry[e] = before.entry[e]
        BY <1>1, <1>2, <2>1, <2>2 DEF Kept
      <3>2. listed \in [Entry -> VersionDir \union {NoEntry}] /\ entry[e] \in VersionDir
        BY DEF TypeInv, TypeOK, InspectEntry
      <3>3. listed'[e] = Listing(e)
        BY <1>0, <3>2
      <3>4. Listing(e).modified = entry[e].modified /\ Listing(e).status = entry[e].status
        BY DEF Listing, Directory
      <3>5. entry[e].size + (IF named = e[2] THEN AliasBytes ELSE 0) \in Nat
        BY <3>2 DEF VersionDir, AliasBytes
      <3>6. Listing(e) \in VersionDir
        BY <3>2, <3>5, DirectoryType DEF Listing, VersionDir
      <3>7. Listing(e) # NoEntry
        BY <3>6, CachePruneAssumption DEF CachePruneAssumption
      <3> QED BY <1>0, <2>2, <3>1, <3>3, <3>4, <3>7 DEF Met
    <2>3. CASE f # e
      <3>1. f[1] \in mods \/ <<"entry", f>> \in todo \/ Met(f)
        BY <1>2, <2>1 DEF Noted, NotedEntries
      <3>2. listed'[f] = listed[f]
        BY <1>0, <2>3 DEF TypeInv, TypeOK
      <3> QED BY <1>0, <2>3, <3>1, <3>2 DEF Met
    <2> QED BY <2>2, <2>3
  <1>4. \A i \in problems : i[1] # "alias" => i \in problems'
    BY DEF InspectEntry
  <1>5. NotedStray'
    BY <1>0, <1>2, <1>4 DEF Noted, NotedStray
  <1>6. NotedStaged'
    BY <1>0, <1>2, <1>4 DEF Noted, NotedStaged, Untouched
  <1> QED BY <1>3, <1>5, <1>6

LEMMA InspectNoted == ASSUME TypeInv, Control, Kept, Noted, Inspect PROVE Noted'
  <1>0. UNCHANGED <<command, before, touched>>
    BY OwnApart DEF OwnStep
  <1>1. ASSUME NEW i \in Item, InspectFails(i) PROVE Noted'
    BY <1>1 DEF InspectFails, Goto, Noted, FirstInspection, Walking
  <1>2. CASE EndOfModule \/ Inspected
    <2>1. UNCHANGED <<pass, mods, todo, listed, problems>> /\ pc \in Walking
      BY <1>2 DEF EndOfModule, Inspected, work, inventory, Walking
    <2>2. Inspecting
      BY <2>1 DEF Control
    <2>3. FirstInspection' => FirstInspection
      BY <1>0, <2>1, <2>2 DEF FirstInspection
    <2> QED BY <1>0, <2>1, <2>3
            DEF Noted, NotedEntries, NotedStray, NotedStaged, Met, Alone, Was, Untouched
  <1> QED BY <1>1, <1>2, ListVersionsNoted, ReadLatestAliasNoted, InspectEntryNoted DEF Inspect

LEMMA NotedKept == TypeInv /\ Control /\ Kept /\ Noted /\ [Next]_vars => Noted'
  <1> SUFFICES ASSUME TypeInv, Control, Kept, Noted, [Next]_vars PROVE Noted'
    OBVIOUS
  <1>0. UNCHANGED command
    BY Settled
  <1>1. CASE Start
    <2>1. pc' \in {"policy", "measure"}
      BY <1>1 DEF Start, Walk, Goto
    <2> QED BY <2>1 DEF Noted, FirstInspection, Walking
  <1>2. CASE Prune
    <2>1. pc' \in {"next", "measure", "ok"} /\ command.op = "prune"
      BY <1>2 DEF Prune, SelectEntries, NextEntry, AllRemoved, Walk, Goto, Control
    <2> QED BY <1>0, <2>1 DEF Noted, FirstInspection, Walking
  <1>3. CASE RemoveVersion
    <2>1. pc' \in {"empty", "rmdir", "error", "matchAlias", "dropAlias", "next", "ok"}
      BY <1>3 DEF RemoveVersion, AliasVanishes, MatchAliasSize, EmptyEntry, RemoveEntry, MatchAlias, DropAlias,
                  Removed, Goto
    <2>2. command.op # "verify"
      BY <1>3 DEF RemoveVersion, AliasVanishes, MatchAliasSize, EmptyEntry, RemoveEntry, MatchAlias, DropAlias,
                  Removing, Control
    <2> QED BY <1>0, <2>1, <2>2 DEF Noted, FirstInspection, Walking
  <1>4. CASE Wipe
    <2>1. pc' \in {"wipe", "error", "ok"} /\ pc = "wipe"
      BY <1>4 DEF Wipe, WipeModule, WipeItem, Wiped, Goto
    <2>2. command.op # "verify"
      BY <2>1 DEF Control
    <2> QED BY <1>0, <2>1, <2>2 DEF Noted, FirstInspection, Walking
  <1>5. CASE Others
    <2>1. UNCHANGED <<command, pc, pass, mods, todo, listed, problems, before>> /\ touched \subseteq touched'
      BY <1>5, OthersApart DEF work, inventory
    <2> QED BY <2>1, NotedSame
  <1>6. CASE UNCHANGED vars
    <2>1. UNCHANGED <<command, pc, pass, mods, todo, listed, problems, before>> /\ touched \subseteq touched'
      BY <1>6 DEF vars, work, inventory
    <2> QED BY <2>1, NotedSame
  <1> QED BY <1>1, <1>2, <1>3, <1>4, <1>5, <1>6, MeasureNoted, InspectNoted DEF Next

LEMMA Notes == Spec => []Noted
  <1>1. ControlInv => Control
    BY DEF ControlInv
  <1> QED BY <1>1, InitNoted, NotedKept, Types, Controls, Keeps, PTL DEF Spec

(* A verification succeeds when the whole inspection has no problem. *)
Clear == command.op = "verify" /\ pc = "ok" => pass = 1 /\ Problems = {}

LEMMA ClearKept == TypeInv /\ Control /\ Clear /\ [Next]_vars => Clear'
  <1> SUFFICES ASSUME TypeInv, Control, Clear, [Next]_vars, command'.op = "verify", pc' = "ok"
               PROVE pass' = 1 /\ Problems' = {}
    BY DEF Clear
  <1>0. command' = command
    BY Settled
  <1>1. CASE Inspected
    <2>1. UNCHANGED <<listed, problems, pass, command>> /\ pc = "list"
      BY <1>1, <1>0 DEF Inspected, work, inventory
    <2>2. Problems' = Problems
      BY <2>1 DEF Problems, Found, Listed, Targeted
    <2>3. Report = "ok"
      BY <1>0, <1>1 DEF Inspected, Goto
    <2>4. Problems = {}
      BY <1>0, <2>3 DEF Report
    <2>5. pass = 1
      BY <1>0 DEF Control, TypeInv, TypeOK
    <2> QED BY <2>1, <2>2, <2>4, <2>5
  <1>2. CASE OwnStep /\ ~Inspected
    <2>1. Start \/ Measure \/ Inspect \/ Prune \/ RemoveVersion \/ Wipe
      BY <1>2 DEF OwnStep
    <2>2. CASE Start
      BY <2>2 DEF Start, Walk, Goto
    <2>3. CASE Measure
      BY <1>0, <2>3 DEF Measure, MeasureModule, MeasureItem, MeasureFails, MeasuredRoot, MeasuredEntry, MeasuredModule,
                MeasuredCache, Measured, Vanished, Walk, Goto, Inspecting
    <2>4. CASE Inspect
      BY <1>2, <2>4 DEF Inspect, ListVersions, ReadLatestAlias, InspectEntry, InspectFails, EndOfModule, Goto
    <2>5. CASE Prune
      BY <1>0, <2>5 DEF Prune, SelectEntries, NextEntry, AllRemoved, Control
    <2>6. CASE RemoveVersion
      BY <1>0, <2>6 DEF RemoveVersion, AliasVanishes, MatchAliasSize, EmptyEntry, RemoveEntry, MatchAlias,
                  DropAlias, Removing, Control
    <2>7. CASE Wipe
      BY <1>0, <2>7 DEF Wipe, WipeModule, WipeItem, Wiped, Control
    <2> QED BY <2>1, <2>2, <2>3, <2>4, <2>5, <2>6, <2>7
  <1>3. CASE Others \/ UNCHANGED vars
    <2>1. UNCHANGED <<listed, problems, pass, command, pc>>
      BY <1>0, <1>3, OthersApart DEF vars, work, inventory
    <2>2. Problems' = Problems
      BY <2>1 DEF Problems, Found, Listed, Targeted
    <2> QED BY <2>1, <2>2 DEF Clear
  <1> QED BY <1>1, <1>2, <1>3 DEF Next, OwnStep

LEMMA Clears == Spec => []Clear
  <1>1. ControlInv => Control
    BY DEF ControlInv
  <1>2. Init => Clear
    BY DEF Init, Clear
  <1> QED BY <1>1, <1>2, ClearKept, Types, Controls, PTL DEF Spec

LEMMA SoundNow == Control /\ Noted /\ Clear => VerifySound
  <1> SUFFICES ASSUME Control, Noted, Clear, command.op = "verify", pc = "ok"
               PROVE /\ \A e \in Entry : Was(e) /\ Untouched("entry", e) /\ Targeted(e) =>
                            before.entry[e].status = "valid"
                     /\ command.ver = NoVersion =>
                          \A m \in Module : command.mod \in {NoVersion, m} =>
                            /\ m \in before.stray => ~Untouched("stray", m)
                            /\ \A v \in Version : before.staged[<<m, v>>] # NoEntry =>
                                 ~Untouched("staged", <<m, v>>)
    BY DEF VerifySound, Returned
  <1>1. pass = 1 /\ Problems = {} /\ mods = {} /\ todo = {}
    BY DEF Clear, Control
  <1>2. NotedEntries /\ NotedStray /\ NotedStaged
    BY <1>1 DEF Noted, FirstInspection, Inspecting
  <1>3. ASSUME NEW e \in Entry, Was(e), Untouched("entry", e), Targeted(e) PROVE before.entry[e].status = "valid"
    <2>1. Met(e)
      BY <1>1, <1>2, <1>3 DEF NotedEntries, Alone
    <2>2. e \in Found
      BY <1>3, <2>1 DEF Found, Listed, Met
    <2>3. listed[e].status = "valid"
      BY <1>1, <2>2 DEF Problems
    <2> QED BY <2>1, <2>3 DEF Met
  <1>4. ASSUME command.ver = NoVersion, NEW m \in Module, command.mod \in {NoVersion, m}, m \in before.stray
        PROVE FALSE
    <2>1. <<"stray", m>> \in problems
      BY <1>1, <1>2, <1>4 DEF NotedStray
    <2>2. InModule(<<"stray", m>>, m)
      BY DEF InModule
    <2> QED BY <1>1, <1>4, <2>1, <2>2 DEF Problems
  <1>5. ASSUME command.ver = NoVersion, NEW m \in Module, command.mod \in {NoVersion, m}, NEW v \in Version,
               before.staged[<<m, v>>] # NoEntry, Untouched("staged", <<m, v>>)
        PROVE FALSE
    <2>0. <<m, v>> \in Entry /\ <<m, v>>[1] = m
      BY DEF Entry
    <2>1. <<"staged", <<m, v>>>> \in problems
      BY <1>1, <1>2, <1>5, <2>0 DEF NotedStaged
    <2>2. InModule(<<"staged", <<m, v>>>>, m)
      BY DEF InModule
    <2> QED BY <1>1, <1>5, <2>1, <2>2 DEF Problems
  <1> QED BY <1>3, <1>4, <1>5

(* A verification that succeeds has missed no broken entry, no staging     *)
(* directory and no unexpected file that was there from its start.         *)
THEOREM VerificationSound == Spec => []VerifySound
  <1>1. ControlInv => Control
    BY DEF ControlInv
  <1> QED BY <1>1, SoundNow, Controls, Notes, Clears, PTL

-----------------------------------------------------------------------------
(* Prune by age. *)

AgePrune == command.op = "prune" /\ command.older # NoLimit

AgePositive == AgePrune /\ pc \notin {"start", "policy"} => command.older > 0

LEMMA AgePositiveKept == AgePositive /\ [Next]_vars => AgePositive'
  <1> SUFFICES ASSUME AgePositive, [Next]_vars, AgePrune', pc' \notin {"start", "policy"}
               PROVE command'.older > 0
    BY DEF AgePositive
  <1>0. command' = command /\ AgePrune
    BY Settled DEF AgePrune
  <1>1. CASE Start
    <2>1. ~Refused
      BY <1>1 DEF Start, Goto, OneVersion, Refused
    <2> QED BY <1>0, <2>1 DEF Refused, ValidPolicy, AgePrune
  <1>2. CASE ~Start
    <2>1. pc \notin {"start", "policy"}
      <3>1. CASE OwnStep
        BY <1>2, <3>1 DEF OwnStep, Measure, MeasureModule, MeasureItem, MeasureFails, MeasuredRoot, MeasuredEntry,
              MeasuredModule, MeasuredCache, Measured, Inspect, ListVersions, ReadLatestAlias, InspectEntry,
              InspectFails, EndOfModule, Inspected, Prune, SelectEntries, NextEntry, AllRemoved, RemoveVersion,
              AliasVanishes, MatchAliasSize, EmptyEntry, RemoveEntry, MatchAlias, DropAlias, Removing, Wipe,
              WipeModule, WipeItem,
              Wiped
      <3>2. CASE Others \/ UNCHANGED vars
        BY <3>2, OthersApart DEF vars
      <3> QED BY <3>1, <3>2 DEF Next, OwnStep
    <2> QED BY <1>0, <2>1 DEF AgePositive
  <1> QED BY <1>1, <1>2

(* What is due when the prune starts stays due. *)
Due(e) == before.entry[e].modified <= now - command.older

(* By age alone nothing is taken that is not due. *)
DueOnly ==
    AgePrune /\ command.max = NoLimit =>
        /\ \A n \in DOMAIN queue : Alone(queue[n]) => Due(queue[n])
        /\ \A e \in Entry : Alone(e) /\ entry[e] # before.entry[e] => Due(e)

LEMMA TailHas == ASSUME NEW q \in Seq(Entry), q # <<>>
    PROVE /\ \A n \in DOMAIN q : q[n] = Head(q) \/ \E k \in DOMAIN Tail(q) : Tail(q)[k] = q[n]
          /\ \A k \in DOMAIN Tail(q) : k + 1 \in DOMAIN q /\ Tail(q)[k] = q[k + 1]
          /\ 1 \in DOMAIN q /\ q[1] = Head(q)
  <1>1. Len(q) \in Nat /\ Len(q) > 0 /\ DOMAIN q = 1..Len(q)
    BY EmptySeq
  <1>2. Len(Tail(q)) = Len(q) - 1 /\ DOMAIN Tail(q) = 1..(Len(q) - 1)
    BY <1>1
  <1>3. \A k \in 1..(Len(q) - 1) : Tail(q)[k] = q[k + 1]
    BY <1>1
  <1>4. Head(q) = q[1]
    BY <1>1
  <1>5. ASSUME NEW n \in DOMAIN q, n # 1 PROVE \E k \in DOMAIN Tail(q) : Tail(q)[k] = q[n]
    <2>1. n - 1 \in 1..(Len(q) - 1) /\ (n - 1) + 1 = n
      BY <1>1, <1>5
    <2> QED BY <1>2, <1>3, <2>1
  <1> QED BY <1>1, <1>2, <1>3, <1>4, <1>5

LEMMA DueStays == ASSUME TypeInv, [Next]_vars, AgePrune
    PROVE \A e \in Entry : Alone(e) /\ Due(e) => Due(e)'
  <1> SUFFICES ASSUME NEW e \in Entry, Alone(e), Due(e) PROVE Due(e)'
    OBVIOUS
  <1>1. UNCHANGED <<command, before>>
    BY Settled
  <1>2. now' = now \/ now' = now + 1
    <2>1. CASE OwnStep
      BY <2>1, OwnApart
    <2>2. CASE Others
      BY <2>2, OthersTouch
    <2>3. CASE UNCHANGED vars
      BY <2>3 DEF vars
    <2> QED BY <2>1, <2>2, <2>3 DEF Next, OwnStep
  <1>3. now \in Nat /\ command.older \in Int
    BY CommandType DEF TypeInv, TypeOK, AgePrune
  <1>4. before.entry[e] \in VersionDir
    BY DEF TypeInv, TypeOK, Alone, Was
  <1>5. before.entry[e].modified \in Int
    BY <1>4 DEF VersionDir
  <1> QED BY <1>1, <1>2, <1>3, <1>5 DEF Due

LEMMA QueueTaken == ASSUME OwnStep, command.op = "prune"
    PROVE \/ queue' = queue
          \/ queue' = Tail(queue) /\ queue # <<>>
          \/ pc = "select" /\ queue' \in Sorted(Aged \union Oversize)
  <1>1. CASE Start
    BY <1>1 DEF Start, OneVersion
  <1>2. CASE Measure
    BY <1>2 DEF Measure, MeasureModule, MeasureItem, MeasureFails, MeasuredRoot, MeasuredEntry, MeasuredModule,
                MeasuredCache, Vanished
  <1>3. CASE Inspect
    BY <1>3 DEF Inspect, ListVersions, ReadLatestAlias, InspectEntry, InspectFails, EndOfModule, Inspected, work
  <1>4. CASE Prune
    BY <1>4 DEF Prune, SelectEntries, NextEntry, AllRemoved
  <1>5. CASE RemoveVersion
    BY <1>5 DEF RemoveVersion, AliasVanishes, MatchAliasSize, EmptyEntry, RemoveEntry, MatchAlias, DropAlias,
                Removing, Removed, work
  <1>6. CASE Wipe
    BY <1>6 DEF Wipe, WipeModule, WipeItem, Wiped
  <1> QED BY <1>1, <1>2, <1>3, <1>4, <1>5, <1>6 DEF OwnStep

LEMMA EntryTaken == ASSUME TypeInv, Control, OwnStep, command.op = "prune"
    PROVE \/ entry' = entry
          \/ /\ pc \in {"empty", "rmdir"} /\ queue # <<>>
             /\ \A e \in Entry : e # Head(queue) => entry'[e] = entry[e]
  <1>1. CASE pc \in {"empty", "rmdir"}
    <2>1. queue # <<>> /\ Head(queue) \in Entry
      BY <1>1 DEF Control, Clearing, TypeInv, TypeOK
    <2>2. EmptyEntry \/ RemoveEntry
      BY <1>1 DEF OwnStep, Start, Measure, MeasureModule, MeasureItem, MeasureFails, MeasuredRoot, MeasuredEntry,
              MeasuredModule, MeasuredCache, Measured, Inspect, ListVersions, ReadLatestAlias, InspectEntry,
              InspectFails, EndOfModule, Inspected, Prune, SelectEntries, NextEntry, AllRemoved, RemoveVersion,
              AliasVanishes, MatchAliasSize, MatchAlias, DropAlias, Removing, Wipe, WipeModule, WipeItem, Wiped
    <2>3. \A e \in Entry : e # Head(queue) => entry'[e] = entry[e]
      BY <2>1, <2>2 DEF EmptyEntry, Emptied, RemoveEntry, Target, TypeInv, TypeOK
    <2> QED BY <1>1, <2>1, <2>3
  <1>2. CASE pc \notin {"empty", "rmdir"}
    <2>1. pc # "wipe"
      BY DEF Control
    <2> QED BY <1>2, <2>1, OwnTouch
  <1> QED BY <1>1, <1>2

LEMMA SelectedMet == ASSUME Control, Noted, pc = "select", NEW e \in Entry, Alone(e) PROVE Met(e)
  <1>1. FirstInspection /\ mods = {} /\ todo = {}
    BY DEF Control, FirstInspection, Inspecting
  <1> QED BY <1>1 DEF Noted, NotedEntries

LEMMA DueOnlyKept == TypeInv /\ Control /\ Noted /\ DueOnly /\ [Next]_vars => DueOnly'
  <1> SUFFICES ASSUME TypeInv, Control, Noted, DueOnly, [Next]_vars, AgePrune', command'.max = NoLimit
               PROVE /\ \A n \in DOMAIN queue' : Alone(queue[n])' => Due(queue[n])'
                     /\ \A e \in Entry : Alone(e)' /\ entry'[e] # before'.entry[e] => Due(e)'
    BY DEF DueOnly
  <1>0. UNCHANGED <<command, before>> /\ touched \subseteq touched' /\ AgePrune /\ command.max = NoLimit
    BY Settled DEF AgePrune
  <1>1. \A e \in Entry : Alone(e)' => Alone(e)
    BY <1>0 DEF Alone, Was, Untouched
  <1>2. /\ \A n \in DOMAIN queue : Alone(queue[n]) => Due(queue[n])
        /\ \A e \in Entry : Alone(e) /\ entry[e] # before.entry[e] => Due(e)
    BY <1>0 DEF DueOnly
  <1>3. \A e \in Entry : Alone(e) /\ Due(e) => Due(e)'
    BY <1>0, DueStays
  <1>4. queue \in Seq(Entry) /\ \A n \in DOMAIN queue : queue[n] \in Entry
    BY DEF TypeInv, TypeOK
  <1>5. ASSUME NEW n \in DOMAIN queue', Alone(queue[n])' PROVE Due(queue[n])'
    <2>0. PICK f \in Entry : f = queue'[n]
      <3>1. queue' \in Seq(Entry)
        BY TypesKept DEF TypeInv, TypeOK
      <3> QED BY <1>5, <3>1
    <2>1. Alone(f)
      BY <1>1, <1>5, <2>0 DEF Alone, Was, Untouched
    <2>2. Due(f)
      <3>1. CASE queue' = queue
        BY <1>2, <1>5, <2>0, <2>1, <3>1
      <3>2. CASE queue' = Tail(queue) /\ queue # <<>>
        <4>1. n + 1 \in DOMAIN queue /\ f = queue[n + 1]
          BY <1>4, <1>5, <2>0, <3>2, TailHas
        <4> QED BY <1>2, <2>1, <4>1
      <3>3. CASE pc = "select" /\ queue' \in Sorted(Aged \union Oversize)
        <4>1. Oversize = {}
          BY <1>0 DEF Oversize
        <4>2. queue' \in [1..Cardinality(Aged \union Oversize) -> Aged \union Oversize]
          BY <3>3 DEF Sorted
        <4>3. f \in Aged
          BY <1>5, <2>0, <4>1, <4>2
        <4>4. listed[f].modified <= now - command.older
          BY <4>3 DEF Aged
        <4>5. listed[f].modified = before.entry[f].modified
          BY <2>0, <2>1, <3>3, SelectedMet DEF Met
        <4> QED BY <4>4, <4>5 DEF Due
      <3>4. CASE Others \/ UNCHANGED vars
        <4>1. queue' = queue
          BY <3>4, OthersApart DEF vars, work
        <4> QED BY <3>1, <4>1
      <3>5. CASE OwnStep
        BY <1>0, <3>1, <3>2, <3>3, <3>5, QueueTaken DEF AgePrune
      <3> QED BY <3>4, <3>5 DEF Next, OwnStep
    <2>3. Due(f)'
      BY <1>3, <2>0, <2>1, <2>2
    <2> QED BY <2>0, <2>3 DEF Due
  <1>6. ASSUME NEW e \in Entry, Alone(e)', entry'[e] # before'.entry[e] PROVE Due(e)'
    <2>1. Alone(e)
      BY <1>1, <1>6
    <2>2. Due(e)
      <3>1. CASE entry'[e] = entry[e]
        BY <1>0, <1>2, <1>6, <2>1, <3>1
      <3>2. CASE OwnStep /\ entry'[e] # entry[e]
        <4>1. queue # <<>> /\ e = Head(queue)
          BY <1>0, <3>2, EntryTaken DEF AgePrune
        <4>2. 1 \in DOMAIN queue /\ queue[1] = e
          BY <1>4, <4>1, TailHas
        <4> QED BY <1>2, <2>1, <4>2
      <3>3. CASE Others
        <4>1. entry'[e] = entry[e]
          BY <1>6, <3>3, OthersTouch DEF Untroubled, Alone, Untouched
        <4> QED BY <3>1, <4>1
      <3>4. CASE UNCHANGED vars
        BY <3>1, <3>4 DEF vars, cache
      <3> QED BY <3>1, <3>2, <3>3, <3>4 DEF Next, OwnStep
    <2> QED BY <1>3, <2>1, <2>2
  <1> QED BY <1>5, <1>6

LEMMA InitDueOnly == Init => DueOnly /\ AgePositive
  BY DEF Init, DueOnly, AgePositive

LEMMA DuesOnly == Spec => [](DueOnly /\ AgePositive)
  <1>1. ControlInv => Control
    BY DEF ControlInv
  <1> QED BY <1>1, InitDueOnly, DueOnlyKept, AgePositiveKept, Types, Controls, Notes, PTL DEF Spec

(* The entries still to be removed: the first one is gone when its alias   *)
(* is looked at.                                                           *)
Pending == IF pc \in {"matchAlias", "dropAlias"} THEN Tail(queue) ELSE queue

AfterSelection ==
    \/ pc \in Clearing \union {"next", "ok", "sizeError"}
    \/ pc = "measure" /\ queue # <<>>
    \/ pass = 2

WasOld(e) == before.entry[e].modified <= -command.older

Taken(e) == entry[e] = NoEntry \/ \E n \in DOMAIN Pending : Pending[n] = e

(* What was old enough at the start is gone or will be removed. *)
OldGone == AgePrune /\ AfterSelection => \A e \in Entry : Alone(e) /\ WasOld(e) => Taken(e)

LEMMA TakenSame ==
    ASSUME NEW e, Taken(e), entry'[e] = entry[e] \/ entry'[e] = NoEntry, UNCHANGED Pending PROVE Taken(e)'
  BY DEF Taken

LEMMA SelectEntriesGone ==
    ASSUME TypeInv, Control, Noted, AgePositive, AgePrune, SelectEntries, NEW e \in Entry, Alone(e), WasOld(e)
    PROVE Taken(e)'
  <1>1. Met(e) /\ pc = "select" /\ pc' = "next"
    BY SelectedMet DEF SelectEntries, Goto
  <1>2. now \in Nat /\ command.older \in Int /\ command.older > 0
    BY <1>1, CommandType DEF TypeInv, TypeOK, AgePrune, AgePositive
  <1>3. before.entry[e].modified \in Int
    BY DEF TypeInv, TypeOK, Alone, Was, VersionDir
  <1>4. e \in Aged
    BY <1>1, <1>2, <1>3 DEF Aged, Listed, Met, WasOld, AgePrune
  <1>5. \E n \in DOMAIN queue' : queue'[n] = e
    BY <1>4 DEF SelectEntries, Sorted
  <1> QED BY <1>1, <1>5 DEF Taken, Pending

LEMMA MeasureGone ==
    ASSUME TypeInv, Control, LeavingTouched, AgePrune, Measure, AfterSelection', OldGone,
           NEW e \in Entry, Alone(e), WasOld(e)
    PROVE Taken(e)'
  <1>1. entry' = entry /\ pc = "measure" /\ UNCHANGED pass /\ command.op = "prune"
    BY OwnTouch DEF OwnStep, Measure, MeasureModule, MeasureItem, MeasureFails, MeasuredRoot, MeasuredEntry,
              MeasuredModule, MeasuredCache, Measured, AgePrune
  <1>2. ASSUME NEW i \in Item, MeasureFails(i) PROVE Taken(e)'
    <2>1. CASE queue # <<>>
      <3>1. pc' = "next" /\ queue' = Tail(queue)
        BY <1>1, <1>2, <2>1 DEF MeasureFails, Vanished, Goto
      <3>2. Taken(e)
        BY <1>1, <2>1 DEF OldGone, AfterSelection
      <3>3. i = <<"entry", Head(queue)>>
        BY <1>1, <1>2, <2>1 DEF MeasureFails, FirstItem, Control
      <3>4. entry[Head(queue)] = NoEntry \/ <<"entry", Head(queue)>> \in touched
        BY <1>2, <3>3 DEF MeasureFails, Present, BeingRemoved, LeavingTouched
      <3>5. CASE e = Head(queue)
        BY <1>1, <3>4, <3>5 DEF Taken, Alone, Untouched
      <3>6. CASE e # Head(queue)
        <4>1. entry[e] = NoEntry \/ \E n \in DOMAIN queue : queue[n] = e
          BY <1>1, <3>2 DEF Taken, Pending
        <4>2. entry[e] = NoEntry \/ \E n \in DOMAIN Tail(queue) : Tail(queue)[n] = e
          BY <2>1, <3>6, <4>1, TailHas DEF TypeInv, TypeOK
        <4> QED BY <1>1, <3>1, <4>2 DEF Taken, Pending
      <3> QED BY <3>5, <3>6
    <2>2. CASE queue = <<>>
      <3>1. pc' = "error" /\ queue' = queue
        BY <1>1, <1>2, <2>2 DEF MeasureFails, Vanished, Goto, Inspecting
      <3>2. pass = 2
        BY <1>1, <3>1 DEF AfterSelection, Clearing
      <3>3. Taken(e)
        BY <3>2 DEF OldGone, AfterSelection
      <3> QED BY <1>1, <3>1, <3>3 DEF Taken, Pending
    <2> QED BY <2>1, <2>2
  <1>3. CASE ~\E i \in Item : MeasureFails(i)
    <2>1. queue' = queue /\ pc' \in {"measure", "list", "aliasSize"}
      BY <1>1, <1>3 DEF Measure, MeasureModule, MeasureItem, MeasuredRoot, MeasuredEntry,
              MeasuredModule, MeasuredCache, Measured, Walk, Goto
    <2>2. pc' = "aliasSize" => queue # <<>>
      BY <1>3 DEF Measure, MeasureModule, MeasureItem, MeasuredRoot, MeasuredEntry,
              MeasuredModule, MeasuredCache, Measured, Walk, Goto
    <2>3. AfterSelection
      BY <1>1, <2>1, <2>2 DEF AfterSelection, Clearing
    <2> QED BY <1>1, <2>1, <2>3 DEF OldGone, Taken, Pending
  <1> QED BY <1>2, <1>3

LEMMA InspectGone ==
    ASSUME TypeInv, Control, AgePrune, Inspect, AfterSelection', OldGone, NEW e \in Entry, Alone(e), WasOld(e)
    PROVE Taken(e)'
  <1>1. pc \in Walking /\ UNCHANGED <<pass, queue, entry>>
    BY DEF Inspect, ListVersions, ReadLatestAlias, InspectEntry, InspectFails, EndOfModule, Inspected, work, cache,
           Walking
  <1>2. queue = <<>>
    BY <1>1 DEF Control
  <1>3. pass = 2
    <2> SUFFICES ASSUME pass # 2 PROVE FALSE
      OBVIOUS
    <2>1. pc' \in {"ok", "sizeError"}
      <3>1. pc' \in Clearing \union {"next", "ok", "sizeError"}
        BY <1>1, <1>2 DEF AfterSelection
      <3>2. pc' \in {"readAlias", "inspect", "error", "list", "select", "sizeError", "ok"}
        BY DEF Inspect, ListVersions, ReadLatestAlias, InspectEntry, InspectFails, EndOfModule, Inspected, Goto,
               AgePrune
      <3> QED BY <3>1, <3>2 DEF Clearing
    <2>2. Inspected
      BY <1>1, <2>1 DEF Inspect, ListVersions, ReadLatestAlias, InspectEntry, InspectFails, EndOfModule, Goto, Walking
    <2> QED BY <2>1, <2>2 DEF Inspected, Goto, AgePrune, TypeInv, TypeOK
  <1>4. AfterSelection
    BY <1>3 DEF AfterSelection
  <1>5. pc' \notin {"matchAlias", "dropAlias"}
    BY DEF Inspect, ListVersions, ReadLatestAlias, InspectEntry, InspectFails, EndOfModule, Inspected, Goto, AgePrune
  <1> QED BY <1>1, <1>4, <1>5 DEF OldGone, Taken, Pending, Walking

LEMMA PruneGone ==
    ASSUME TypeInv, Control, Noted, AgePositive, AgePrune, Prune, OldGone, NEW e \in Entry, Alone(e), WasOld(e)
    PROVE Taken(e)'
  <1>1. CASE SelectEntries
    BY <1>1, SelectEntriesGone
  <1>2. CASE NextEntry \/ AllRemoved
    <2>1. pc = "next" /\ UNCHANGED <<queue, entry>> /\ pc' \in {"measure", "ok"}
      BY <1>2 DEF NextEntry, AllRemoved, Walk, Goto, cache
    <2> QED BY <2>1 DEF OldGone, AfterSelection, Taken, Pending
  <1> QED BY <1>1, <1>2 DEF Prune

LEMMA RemoveVersionGone ==
    ASSUME TypeInv, Control, AgePrune, RemoveVersion, AfterSelection', OldGone, NEW e \in Entry, Alone(e), WasOld(e)
    PROVE Taken(e)'
  <1>1. pc \in Clearing /\ queue # <<>> /\ queue \in Seq(Entry) /\ Head(queue) \in Entry
    BY DEF RemoveVersion, AliasVanishes, MatchAliasSize, EmptyEntry, RemoveEntry, MatchAlias, DropAlias, Removing,
           Clearing, TypeInv, TypeOK
  <1>2. Taken(e)
    BY <1>1 DEF OldGone, AfterSelection
  <1>3. CASE MatchAliasSize \/ AliasVanishes
    BY <1>2, <1>3 DEF MatchAliasSize, AliasVanishes, Removing, Goto, work, cache, Taken, Pending
  <1>4. CASE EmptyEntry
    <2>1. UNCHANGED queue /\ pc = "empty" /\ pc' = "rmdir"
      BY <1>4 DEF EmptyEntry, Removing, Goto, work
    <2>2. entry'[e] = entry[e] \/ e = Head(queue)
      BY <1>1, <1>4 DEF EmptyEntry, Emptied, Target, TypeInv, TypeOK
    <2>3. 1 \in DOMAIN queue /\ queue[1] = Head(queue)
      BY <1>1, TailHas
    <2> QED BY <1>2, <2>1, <2>2, <2>3 DEF Taken, Pending
  <1>5. CASE RemoveEntry
    <2>1. UNCHANGED <<queue, pass>> /\ pc = "rmdir" /\ pc' \in {"matchAlias", "error"} /\ pass # 2
      BY <1>1, <1>5 DEF RemoveEntry, Removing, Goto, work, Control
    <2>2. pc' = "matchAlias"
      BY <1>1, <2>1 DEF AfterSelection, Clearing
    <2>3. entry' = [entry EXCEPT ![Head(queue)] = NoEntry]
      BY <1>5, <2>2 DEF RemoveEntry, Goto, Target
    <2>4. entry'[Head(queue)] = NoEntry /\ (e # Head(queue) => entry'[e] = entry[e])
      BY <1>1, <2>3 DEF TypeInv, TypeOK
    <2>5. entry[e] = NoEntry \/ \E n \in DOMAIN queue : queue[n] = e
      BY <1>2, <2>1 DEF Taken, Pending
    <2>6. e = Head(queue) \/ entry[e] = NoEntry \/ \E n \in DOMAIN Tail(queue) : Tail(queue)[n] = e
      BY <1>1, <2>5, TailHas
    <2> QED BY <2>1, <2>2, <2>4, <2>6 DEF Taken, Pending
  <1>6. CASE MatchAlias \/ DropAlias
    <2>1. pc \in {"matchAlias", "dropAlias"} /\ UNCHANGED entry
      BY <1>6 DEF MatchAlias, DropAlias, Removing, cache
    <2>2. \/ pc' = "dropAlias" /\ queue' = queue
          \/ pc' = "next" /\ queue' = Tail(queue)
      BY <1>6 DEF MatchAlias, DropAlias, Removed, Goto, AgePrune
    <2>3. Pending' = Pending
      BY <2>1, <2>2 DEF Pending
    <2> QED BY <1>2, <2>1, <2>3, TakenSame
  <1> QED BY <1>3, <1>4, <1>5, <1>6 DEF RemoveVersion

LEMMA OldGoneKept ==
    TypeInv /\ ControlInv /\ Noted /\ AgePositive /\ OldGone /\ [Next]_vars => OldGone'
  <1> SUFFICES ASSUME TypeInv, ControlInv, Noted, AgePositive, OldGone, [Next]_vars, AgePrune', AfterSelection',
                      NEW e \in Entry, Alone(e)', WasOld(e)'
               PROVE Taken(e)'
    BY DEF OldGone
  <1>0. UNCHANGED <<command, before>> /\ touched \subseteq touched' /\ AgePrune /\ Control /\ LeavingTouched
    BY Settled DEF AgePrune, ControlInv
  <1>1. Alone(e) /\ WasOld(e)
    BY <1>0 DEF Alone, Was, Untouched, WasOld
  <1>2. CASE Start
    <2>1. UNCHANGED <<pass, queue>> /\ pc' \in {"policy", "measure"} /\ pass = 1 /\ queue = <<>>
      BY <1>0, <1>2 DEF Start, OneVersion, Walk, Goto, Control, AgePrune
    <2> QED BY <2>1 DEF AfterSelection, Clearing
  <1>3. CASE Wipe
    BY <1>0, <1>3 DEF Wipe, WipeModule, WipeItem, Wiped, Control, AgePrune
  <1>4. CASE Others
    <2>1. UNCHANGED <<pc, pass, queue>> /\ entry'[e] = entry[e]
      BY <1>4, OthersApart, OthersTouch DEF Untroubled, Alone, Untouched, work
    <2> QED BY <1>0, <1>1, <2>1 DEF OldGone, AfterSelection, Taken, Pending, Clearing
  <1>5. CASE UNCHANGED vars
    <2>1. UNCHANGED <<pc, pass, queue, entry>>
      BY <1>5 DEF vars, work, cache
    <2> QED BY <1>0, <1>1, <2>1 DEF OldGone, AfterSelection, Taken, Pending, Clearing
  <1> QED BY <1>0, <1>1, <1>2, <1>3, <1>4, <1>5, MeasureGone, InspectGone, PruneGone, RemoveVersionGone DEF Next

LEMMA OldsGone == Spec => []OldGone
  <1>1. Init => OldGone
    BY DEF Init, OldGone, AfterSelection, Clearing
  <1> QED BY <1>1, OldGoneKept, Types, Controls, Notes, DuesOnly, PTL DEF Spec

LEMMA AgeExactNow == Control /\ DueOnly /\ OldGone => AgeExact
  <1> SUFFICES ASSUME Control, DueOnly, OldGone, command.op = "prune", pc \in {"ok", "sizeError"},
                      command.older # NoLimit, NEW e \in Entry, Was(e), Untouched("entry", e)
               PROVE /\ before.entry[e].modified <= -command.older => ~Is(e)
                     /\ command.max = NoLimit /\ ~Is(e) => before.entry[e].modified <= now - command.older
    BY DEF AgeExact, Returned
  <1>1. queue = <<>> /\ AfterSelection /\ AgePrune /\ Alone(e)
    BY DEF Control, AfterSelection, AgePrune, Alone
  <1>2. ASSUME before.entry[e].modified <= -command.older PROVE ~Is(e)
    <2>1. Taken(e)
      BY <1>1, <1>2 DEF OldGone, WasOld
    <2>2. Pending = <<>>
      BY <1>1 DEF Pending
    <2>3. DOMAIN Pending = {}
      BY <2>2
    <2> QED BY <2>1, <2>3 DEF Taken, Is
  <1>3. ASSUME command.max = NoLimit, ~Is(e) PROVE before.entry[e].modified <= now - command.older
    <2>1. entry[e] # before.entry[e]
      BY <1>3 DEF Is, Was
    <2>2. Due(e)
      BY <1>1, <1>3, <2>1 DEF DueOnly
    <2> QED BY <2>2 DEF Due
  <1> QED BY <1>2, <1>3

(* A prune by age that returns has left no entry that was old enough when  *)
(* it started and that nobody else touched, and, by age alone, has removed *)
(* none that is not old enough when it returns.                            *)
THEOREM PruneByAge == Spec => []AgeExact
  <1>1. ControlInv => Control
    BY DEF ControlInv
  <1> QED BY <1>1, AgeExactNow, Controls, DuesOnly, OldsGone, PTL

-----------------------------------------------------------------------------
(* The alias latest. *)

Cleared == pc \in {"matchAlias", "dropAlias"}

(* The version whose alias is looked at is gone, and the alias that will   *)
(* be deleted names it, unless others have touched them.                   *)
ClearedInv ==
    /\ Cleared /\ Untouched("entry", Target) => ~Is(Target)
    /\ pc = "dropAlias" /\ Untouched("alias", Target[1]) => NamesTarget

LEMMA ClearedSame == ASSUME TypeInv, ClearedInv, queue # <<>>, UNCHANGED <<pc, queue>>, touched \subseteq touched',
                            Untroubled
    PROVE ClearedInv'
  <1>1. Target' = Target /\ Target \in Entry /\ Target[1] \in Module
    BY TargetType DEF Target, Entry
  <1>2. Untouched("entry", Target)' => Untouched("entry", Target) /\ entry'[Target] = entry[Target]
    BY <1>1 DEF Untouched, Untroubled
  <1>3. Untouched("alias", Target[1])' => Untouched("alias", Target[1]) /\ alias'[Target[1]] = alias[Target[1]]
    BY <1>1 DEF Untouched, Untroubled
  <1> QED BY <1>1, <1>2, <1>3 DEF ClearedInv, Cleared, Is, NamesTarget

LEMMA ClearedKept == TypeInv /\ Control /\ ClearedInv /\ [Next]_vars => ClearedInv'
  <1> SUFFICES ASSUME TypeInv, Control, ClearedInv, [Next]_vars PROVE ClearedInv'
    OBVIOUS
  <1>1. CASE pc' \notin {"matchAlias", "dropAlias"}
    BY <1>1 DEF ClearedInv, Cleared
  <1>2. CASE Others /\ pc' \in {"matchAlias", "dropAlias"}
    <2>1. UNCHANGED <<pc, queue>> /\ touched \subseteq touched' /\ Untroubled
      BY <1>2, OthersApart, OthersTouch DEF work
    <2>2. queue # <<>>
      BY <1>2, <2>1 DEF Control, Clearing
    <2> QED BY <2>1, <2>2, ClearedSame
  <1>3. CASE UNCHANGED vars /\ pc' \in {"matchAlias", "dropAlias"}
    <2>1. UNCHANGED <<pc, queue>> /\ touched \subseteq touched' /\ Untroubled
      BY <1>3 DEF vars, work, cache, Untroubled
    <2>2. queue # <<>>
      BY <1>3, <2>1 DEF Control, Clearing
    <2> QED BY <2>1, <2>2, ClearedSame
  <1>4. CASE RemoveEntry /\ pc' \in {"matchAlias", "dropAlias"}
    <2>1. pc' = "matchAlias" /\ entry' = [entry EXCEPT ![Target] = NoEntry] /\ UNCHANGED queue /\ queue # <<>>
      BY <1>4 DEF RemoveEntry, Removing, Goto, work
    <2>2. Target' = Target /\ Target \in Entry
      BY <2>1, TargetType DEF Target
    <2>3. entry'[Target] = NoEntry
      BY <2>1, <2>2 DEF TypeInv, TypeOK
    <2> QED BY <2>1, <2>2, <2>3 DEF ClearedInv, Is
  <1>5. CASE MatchAlias /\ pc' \in {"matchAlias", "dropAlias"}
    <2>1. NamesTarget /\ pc = "matchAlias" /\ UNCHANGED <<queue, entry, alias, touched>>
      BY <1>5 DEF MatchAlias, Removing, Removed, Goto, cache, Idle
    <2>2. Target' = Target
      BY <2>1 DEF Target
    <2> QED BY <2>1, <2>2 DEF ClearedInv, Cleared, Is, Untouched, NamesTarget
  <1>6. CASE OwnStep /\ ~RemoveEntry /\ ~MatchAlias
    <2>1. pc' \notin {"matchAlias", "dropAlias"}
      <3>1. CASE Start
        BY <3>1 DEF Start, Walk, Goto
      <3>2. CASE Measure
        BY <3>2 DEF Measure, MeasureModule, MeasureItem, MeasureFails, MeasuredRoot, MeasuredEntry, MeasuredModule,
                MeasuredCache, Measured, Vanished, Walk, Goto
      <3>3. CASE Inspect
        BY <3>3 DEF Inspect, ListVersions, ReadLatestAlias, InspectEntry, InspectFails, EndOfModule, Inspected, Report,
               Goto
      <3>4. CASE Prune
        BY <3>4 DEF Prune, SelectEntries, NextEntry, AllRemoved, Walk, Goto
      <3>5. CASE RemoveVersion
        BY <1>6, <3>5 DEF RemoveVersion, AliasVanishes, MatchAliasSize, EmptyEntry, DropAlias, Removed, Goto
      <3>6. CASE Wipe
        BY <3>6 DEF Wipe, WipeModule, WipeItem, Wiped, Goto
      <3> QED BY <1>6, <3>1, <3>2, <3>3, <3>4, <3>5, <3>6 DEF OwnStep
    <2> QED BY <1>1, <2>1
  <1> QED BY <1>1, <1>2, <1>3, <1>4, <1>5, <1>6 DEF Next, OwnStep

LEMMA ClearedGone == Spec => []ClearedInv
  <1>1. ControlInv => Control
    BY DEF ControlInv
  <1>2. Init => ClearedInv
    BY DEF Init, ClearedInv, Cleared
  <1> QED BY <1>1, <1>2, ClearedKept, Types, Controls, PTL DEF Spec

-----------------------------------------------------------------------------
(* The aliases that named an entry that was there, where nobody else       *)
(* touched either of them.                                                 *)
Tracked(m, v) ==
    before.alias[m] = v /\ Was(<<m, v>>) /\ Untouched("alias", m) /\ Untouched("entry", <<m, v>>)

Emptying(m) == pc = "wipe" /\ (command.op = "clean" \/ command.mod = m)

Together(m, v) == alias[m] = IF Is(<<m, v>>) THEN v ELSE NoVersion

Wiping(m, v) ==
    \/ m \in mods /\ Is(<<m, v>>) /\ alias[m] = v /\ \A i \in todo : ~InModule(i, m)
    \/ /\ Is(<<m, v>>) => <<"entry", <<m, v>>>> \in todo
       /\ alias[m] # NoVersion => <<"alias", m>> \in todo

(* Both are there or both are gone, except that the alias goes last and    *)
(* that a module is wiped in any order.                                    *)
Following(m, v) ==
    /\ alias[m] \in {v, NoVersion}
    /\ Emptying(m) => Wiping(m, v)
    /\ ~Emptying(m) => \/ Together(m, v)
                       \/ ~Is(<<m, v>>) /\ Cleared /\ Target = <<m, v>>

Follows == \A m \in Module, v \in Version : Tracked(m, v) => Following(m, v)

LEMMA InitFollows == Init => Follows
  <1> SUFFICES ASSUME Init, NEW m \in Module, NEW v \in Version, Tracked(m, v) PROVE Following(m, v)
    BY DEF Follows
  <1>1. before.alias = alias /\ before.entry = entry /\ pc = "start"
    BY DEF Init
  <1> QED BY <1>1 DEF Tracked, Following, Was, Is, Together, Emptying

LEMMA FollowingSame ==
    ASSUME NEW m \in Module, NEW v \in Version, Following(m, v), pc # "wipe", pc' # "wipe",
           alias'[m] = alias[m], Is(<<m, v>>)' <=> Is(<<m, v>>), ~Cleared \/ (Cleared' /\ UNCHANGED queue)
    PROVE Following(m, v)'
  BY DEF Following, Emptying, Together, Target, Cleared

LEMMA MeasureFollows ==
    ASSUME TypeInv, Control, Measure, NEW m \in Module, NEW v \in Version, Following(m, v)
    PROVE Following(m, v)'
  <1>0. UNCHANGED <<entry, alias, command>> /\ pc = "measure"
    BY OwnTouch, OwnApart DEF OwnStep, Measure, MeasureModule, MeasureItem, MeasureFails, MeasuredRoot, MeasuredEntry,
              MeasuredModule, MeasuredCache, Measured
  <1>1. Together(m, v) /\ alias[m] \in {v, NoVersion}
    BY <1>0 DEF Following, Emptying, Cleared
  <1>2. CASE pc' # "wipe"
    BY <1>0, <1>1, <1>2 DEF Following, Emptying, Together, Is
  <1>3. CASE pc' = "wipe"
    <2>1. MeasuredModule \/ MeasuredCache
      BY <1>3 DEF Measure, MeasureModule, MeasureItem, MeasureFails, MeasuredRoot, MeasuredEntry, Measured, Vanished,
                Walk, Goto
    <2>2. todo' = {} /\ (Emptying(m)' => m \in mods')
      BY <1>0, <1>3, <2>1 DEF MeasuredModule, MeasuredCache, Measured, Walk, Goto, Emptying
    <2> QED BY <1>0, <1>1, <2>2 DEF Following, Wiping, Together, Is
  <1> QED BY <1>2, <1>3

LEMMA RemoveVersionFollows ==
    ASSUME TypeInv, Control, ClearedInv, RemoveVersion, NEW m \in Module, NEW v \in Version, Tracked(m, v),
           Following(m, v)
    PROVE Following(m, v)'
  <1>0. /\ queue # <<>> /\ pc \in Clearing /\ Target \in Entry /\ pc' # "wipe" /\ UNCHANGED command
        /\ <<m, v>> \in Entry
    <2>1. queue # <<>> /\ pc \in Clearing
      BY DEF RemoveVersion, AliasVanishes, MatchAliasSize, EmptyEntry, RemoveEntry, MatchAlias, DropAlias,
                  Removing, Clearing
    <2>2. pc' # "wipe"
      BY DEF RemoveVersion, AliasVanishes, MatchAliasSize, EmptyEntry, RemoveEntry, MatchAlias, DropAlias, Removed, Goto
    <2> QED BY <2>1, <2>2, TargetType, OwnApart DEF OwnStep, Entry
  <1>1. ~Emptying(m) /\ ~Emptying(m)' /\ pc # "wipe"
    BY <1>0 DEF Emptying, Clearing
  <1>2. CASE MatchAliasSize \/ AliasVanishes
    BY <1>0, <1>1, <1>2, FollowingSame DEF MatchAliasSize, AliasVanishes, Removing, Goto, work, cache, Cleared, Is
  <1>3. CASE EmptyEntry
    <2>1. pc = "empty" /\ UNCHANGED alias
      BY <1>3 DEF EmptyEntry, Removing
    <2>2. Directory(0, now, "incomplete") # NoEntry
      <3>1. Directory(0, now, "incomplete") \in VersionDir
        BY DirectoryType DEF TypeInv, TypeOK, Status
      <3> QED BY <3>1, CachePruneAssumption DEF CachePruneAssumption
    <2>3. Is(<<m, v>>)' <=> Is(<<m, v>>)
      BY <1>0, <1>3, <2>2 DEF EmptyEntry, Emptied, Is, TypeInv, TypeOK
    <2> QED BY <1>0, <1>1, <2>1, <2>3, FollowingSame DEF Cleared
  <1>4. CASE RemoveEntry
    <2>1. pc = "rmdir" /\ UNCHANGED <<alias, queue>>
      BY <1>4 DEF RemoveEntry, Removing, work
    <2>2. Together(m, v) /\ alias[m] \in {v, NoVersion}
      BY <1>1, <2>1 DEF Following, Cleared
    <2>3. CASE entry' = entry
      BY <1>1, <2>1, <2>2, <2>3 DEF Following, Together, Is
    <2>4. CASE entry' = [entry EXCEPT ![Target] = NoEntry] /\ pc' = "matchAlias"
      <3>1. CASE Target = <<m, v>>
        <4>1. ~Is(<<m, v>>)'
          BY <1>0, <2>4, <3>1 DEF Is, TypeInv, TypeOK
        <4>2. Cleared' /\ Target' = <<m, v>>
          BY <2>1, <2>4, <3>1 DEF Cleared, Target
        <4> QED BY <1>1, <2>1, <2>2, <4>1, <4>2 DEF Following
      <3>2. CASE Target # <<m, v>>
        <4>1. Is(<<m, v>>)' <=> Is(<<m, v>>)
          BY <1>0, <2>4, <3>2 DEF Is, TypeInv, TypeOK
        <4> QED BY <1>1, <2>1, <2>2, <4>1 DEF Following, Together
      <3> QED BY <3>1, <3>2
    <2> QED BY <1>4, <2>3, <2>4 DEF RemoveEntry, Goto
  <1>5. CASE MatchAlias
    <2>1. pc = "matchAlias" /\ UNCHANGED <<entry, alias>>
      BY <1>5 DEF MatchAlias, Removing, cache
    <2>2. CASE NamesTarget
      <3>1. pc' = "dropAlias" /\ UNCHANGED queue
        BY <1>5, <2>2 DEF MatchAlias, Goto
      <3> QED BY <1>0, <1>1, <2>1, <3>1, FollowingSame DEF Cleared, Is
    <2>3. CASE ~NamesTarget
      <3>1. Together(m, v)
        <4>1. Target = <<m, v>> => alias[m] # v
          BY <2>3 DEF NamesTarget
        <4> QED BY <1>1, <4>1 DEF Following, Together
      <3> QED BY <1>1, <2>1, <3>1 DEF Following, Together, Is
    <2> QED BY <2>2, <2>3
  <1>6. CASE DropAlias
    <2>1. pc = "dropAlias" /\ UNCHANGED entry /\ alias' = [alias EXCEPT ![Target[1]] = NoVersion]
      BY <1>6 DEF DropAlias, Removing
    <2>2. CASE m # Target[1]
      <3>1. alias'[m] = alias[m]
        BY <2>1, <2>2 DEF TypeInv, TypeOK
      <3>2. Together(m, v)
        BY <1>1, <2>2 DEF Following
      <3> QED BY <1>1, <2>1, <3>1, <3>2 DEF Following, Together, Is
    <2>3. CASE m = Target[1]
      <3>1. alias[m] = Target[2]
        BY <2>1, <2>3 DEF ClearedInv, Tracked, NamesTarget
      <3>2. Target[2] \in Version /\ Target = <<Target[1], Target[2]>>
        BY <1>0 DEF Entry
      <3>3. Target[2] # NoVersion
        BY <3>2, CachePruneAssumption DEF CachePruneAssumption
      <3>4. Target = <<m, v>>
        BY <2>3, <3>1, <3>2, <3>3 DEF Following
      <3>5. ~Is(<<m, v>>)
        BY <2>1, <3>4 DEF ClearedInv, Cleared, Tracked
      <3>6. alias'[m] = NoVersion
        BY <2>1, <2>3 DEF TypeInv, TypeOK
      <3> QED BY <1>1, <2>1, <3>5, <3>6 DEF Following, Together, Is
    <2> QED BY <2>2, <2>3
  <1> QED BY <1>2, <1>3, <1>4, <1>5, <1>6 DEF RemoveVersion

LEMMA WipeFollows ==
    ASSUME TypeInv, Control, Wipe, NEW m \in Module, NEW v \in Version, Following(m, v)
    PROVE Following(m, v)'
  <1>0. pc = "wipe" /\ UNCHANGED command /\ <<m, v>> \in Entry
    BY OwnApart DEF OwnStep, Wipe, WipeModule, WipeItem, Wiped, Entry
  <1>1. ~Cleared
    BY <1>0 DEF Cleared
  <1>2. ASSUME NEW x \in Module, WipeModule(x) PROVE Following(m, v)'
    <2>1. UNCHANGED <<pc, entry, alias>> /\ todo = {} /\ mods' = mods \ {x} /\ todo' = Items(x)
      BY <1>2 DEF WipeModule, cache
    <2>2. CASE ~Emptying(m)
      BY <1>0, <1>1, <2>1, <2>2 DEF Following, Emptying, Together, Is
    <2>3. CASE Emptying(m) /\ x = m
      <3>1. Is(<<m, v>>) => <<"entry", <<m, v>>>> \in Items(m)
        BY <1>0, ItemIn DEF Items, Present, InModule, Is
      <3>2. alias[m] # NoVersion => <<"alias", m>> \in Items(m)
        BY ItemIn DEF Items, Present, InModule
      <3> QED BY <1>0, <2>1, <2>3, <3>1, <3>2 DEF Following, Emptying, Wiping, Is
    <2>4. CASE Emptying(m) /\ x # m
      <3>1. \A i \in Items(x) : ~InModule(i, m)
        BY <2>4 DEF Items, InModule
      <3>2. \/ m \in mods /\ Is(<<m, v>>) /\ alias[m] = v
            \/ ~Is(<<m, v>>) /\ alias[m] = NoVersion
        BY <2>1, <2>4 DEF Following, Wiping
      <3> QED BY <1>0, <2>1, <2>4, <3>1, <3>2 DEF Following, Emptying, Wiping, Is
    <2> QED BY <2>2, <2>3, <2>4
  <1>3. ASSUME NEW i \in Item, WipeItem(i) PROVE Following(m, v)'
    <2>1. UNCHANGED <<pc, mods>> /\ todo' = todo \ {i} /\ i \in todo
      BY <1>3 DEF WipeItem
    <2>2. entry'[<<m, v>>] = IF i = <<"entry", <<m, v>>>> THEN NoEntry ELSE entry[<<m, v>>]
      BY <1>0, <1>3 DEF WipeItem
    <2>3. alias'[m] = IF i = <<"alias", m>> THEN NoVersion ELSE alias[m]
      BY <1>3 DEF WipeItem
    <2>4. InModule(<<"entry", <<m, v>>>>, m) /\ InModule(<<"alias", m>>, m)
      BY DEF InModule
    <2>5. CASE ~Emptying(m)
      <3>1. command.op = "remove" /\ command.mod # m
        BY <1>0, <2>5 DEF Emptying, Control
      <3>2. InModule(i, command.mod)
        BY <1>0, <2>1, <3>1 DEF Control
      <3>3. i # <<"entry", <<m, v>>>> /\ i # <<"alias", m>>
        BY <3>1, <3>2 DEF InModule
      <3> QED BY <1>0, <1>1, <2>1, <2>2, <2>3, <2>5, <3>3 DEF Following, Emptying, Together, Is
    <2>6. CASE Emptying(m)
      <3>1. CASE m \in mods /\ Is(<<m, v>>) /\ alias[m] = v /\ \A j \in todo : ~InModule(j, m)
        <4>1. i # <<"entry", <<m, v>>>> /\ i # <<"alias", m>>
          BY <2>1, <2>4, <3>1
        <4> QED BY <1>0, <2>1, <2>2, <2>3, <2>6, <3>1, <4>1 DEF Following, Emptying, Wiping, Is
      <3>2. CASE /\ Is(<<m, v>>) => <<"entry", <<m, v>>>> \in todo
                 /\ alias[m] # NoVersion => <<"alias", m>> \in todo
        <4>1. Is(<<m, v>>)' => <<"entry", <<m, v>>>> \in todo'
          BY <2>1, <2>2, <3>2 DEF Is
        <4>2. alias'[m] # NoVersion => <<"alias", m>> \in todo'
          BY <2>1, <2>3, <3>2
        <4>3. alias'[m] \in {v, NoVersion}
          BY <2>3 DEF Following
        <4> QED BY <1>0, <2>1, <2>6, <4>1, <4>2, <4>3 DEF Following, Emptying, Wiping
      <3> QED BY <2>6, <3>1, <3>2 DEF Following, Wiping
    <2> QED BY <2>5, <2>6
  <1>4. CASE Wiped
    <2>1. UNCHANGED <<entry, alias>> /\ todo = {} /\ mods = {} /\ pc' \in {"ok", "error"}
      BY <1>4 DEF Wiped, Goto, cache
    <2>2. Together(m, v) /\ alias[m] \in {v, NoVersion}
      BY <1>1, <2>1 DEF Following, Wiping, Together
    <2> QED BY <2>1, <2>2 DEF Following, Emptying, Together, Is
  <1> QED BY <1>2, <1>3, <1>4 DEF Wipe

LEMMA FollowsKept == TypeInv /\ Control /\ ClearedInv /\ Follows /\ [Next]_vars => Follows'
  <1> SUFFICES ASSUME TypeInv, Control, ClearedInv, Follows, [Next]_vars, NEW m \in Module, NEW v \in Version,
                      Tracked(m, v)'
               PROVE Following(m, v)'
    BY DEF Follows
  <1>0. UNCHANGED <<command, before>> /\ touched \subseteq touched' /\ <<m, v>> \in Entry
    BY Settled DEF Entry
  <1>1. Tracked(m, v) /\ Following(m, v)
    BY <1>0 DEF Tracked, Was, Untouched, Follows
  <1>2. CASE Start \/ Inspect \/ Prune
    <2>1. pc \notin {"wipe", "empty", "rmdir", "matchAlias", "dropAlias"}
      BY <1>2 DEF Start, Inspect, ListVersions, ReadLatestAlias, InspectEntry, InspectFails, EndOfModule, Inspected,
                Prune, SelectEntries, NextEntry, AllRemoved
    <2>2. pc' # "wipe"
      BY <1>2 DEF Start, Inspect, ListVersions, ReadLatestAlias, InspectEntry, InspectFails, EndOfModule, Inspected,
                Report, Prune, SelectEntries, NextEntry, AllRemoved, Walk, Goto
    <2>3. UNCHANGED <<entry, alias>>
      BY <1>2, <2>1, OwnTouch DEF OwnStep
    <2> QED BY <1>1, <2>1, <2>2, <2>3, FollowingSame DEF Cleared, Is
  <1>3. CASE Others
    <2>1. UNCHANGED <<pc, mods, todo, queue>> /\ Untroubled
      BY <1>3, OthersApart, OthersTouch DEF work
    <2>2. entry'[<<m, v>>] = entry[<<m, v>>] /\ alias'[m] = alias[m]
      BY <1>0, <2>1 DEF Untroubled, Tracked, Untouched
    <2> QED BY <1>0, <1>1, <2>1, <2>2 DEF Following, Emptying, Wiping, Together, Cleared, Target, Is
  <1>4. CASE UNCHANGED vars
    <2>1. UNCHANGED <<pc, mods, todo, queue, entry, alias>>
      BY <1>4 DEF vars, work, cache
    <2> QED BY <1>0, <1>1, <2>1 DEF Following, Emptying, Wiping, Together, Cleared, Target, Is
  <1> QED BY <1>1, <1>2, <1>3, <1>4, MeasureFollows, RemoveVersionFollows, WipeFollows DEF Next

LEMMA AllFollow == Spec => []Follows
  <1>1. ControlInv => Control
    BY DEF ControlInv
  <1> QED BY <1>1, InitFollows, FollowsKept, ClearedGone, Types, Controls, PTL DEF Spec

LEMMA LatestFollowsNow == Follows => LatestFollows
  <1> SUFFICES ASSUME Follows, pc \in Result, NEW m \in Module, NEW v \in Version, Tracked(m, v)
               PROVE alias[m] = IF Is(<<m, v>>) THEN v ELSE NoVersion
    BY DEF LatestFollows, Returned, Tracked
  <1>1. Following(m, v)
    BY DEF Follows
  <1>2. pc # "wipe" /\ ~Cleared
    BY DEF Result, Cleared
  <1> QED BY <1>1, <1>2 DEF Following, Emptying, Together

(* When a removal or a prune has returned, latest has gone with the        *)
(* version it named, and only with it.                                     *)
THEOREM LatestGoesWithItsVersion == Spec => []LatestFollows
  BY AllFollow, LatestFollowsNow, PTL

-----------------------------------------------------------------------------
(* Sums over finite sets. *)

(* Induction on the naturals, for a set.                                   *)
LEMMA NatsAreAll ==
    ASSUME NEW P, 0 \in P, \A n \in Nat : n \in P => n + 1 \in P
    PROVE  Nat \subseteq P
  <1> DEFINE Bad == {n \in Nat : n \notin P}
  <1>1. SUFFICES ASSUME Bad # {} PROVE FALSE
    OBVIOUS
  <1>2. IsWellFoundedOn(OpToRel(<, Nat), Nat)
    BY NatLessThanWellFounded
  <1>3. PICK n \in Bad : \A m \in Bad : ~(<<m, n>> \in OpToRel(<, Nat))
    <2> HIDE DEF Bad
    <2>1. Bad \subseteq Nat
      BY DEF Bad
    <2> QED BY <1>1, <1>2, <2>1, WFMin
  <1>4. \A m \in Bad : ~(m < n)
    BY <1>3 DEF OpToRel
  <1>5. n # 0 /\ n - 1 \in Nat
    OBVIOUS
  <1>6. n - 1 \in P
    BY <1>4, <1>5
  <1> QED BY <1>5, <1>6

(* Induction on the subsets of a finite set, from the smaller ones.        *)
LEMMA SubsetsAreAll ==
    ASSUME NEW U, IsFiniteSet(U), NEW P,
           \A T \in SUBSET U : (\A x \in T : T \ {x} \in P) => T \in P
    PROVE  SUBSET U \subseteq P
  <1> DEFINE Q == {n \in Nat : \A T \in SUBSET U : Cardinality(T) = n => T \in P}
  <1>1. \A T \in SUBSET U : IsFiniteSet(T) /\ Cardinality(T) \in Nat
    BY FS_Subset, FS_CardinalityType
  <1>2. 0 \in Q
    <2> SUFFICES ASSUME NEW T \in SUBSET U, Cardinality(T) = 0 PROVE T \in P
      OBVIOUS
    <2>1. T = {}
      BY <1>1, FS_EmptySet
    <2> QED BY <2>1
  <1>3. ASSUME NEW n \in Nat, n \in Q PROVE n + 1 \in Q
    <2> SUFFICES ASSUME NEW T \in SUBSET U, Cardinality(T) = n + 1 PROVE T \in P
      OBVIOUS
    <2> SUFFICES ASSUME NEW x \in T PROVE T \ {x} \in P
      OBVIOUS
    <2>1. Cardinality(T \ {x}) = n
      BY <1>1, FS_RemoveElement
    <2> QED BY <1>3, <2>1
  <1>4. Nat \subseteq Q
    <2> HIDE DEF Q
    <2> QED BY <1>2, <1>3, NatsAreAll
  <1> QED BY <1>1, <1>4

(* The sum the model takes over a set, of a function on it.                *)
SumOf(f, S) == MapThenSumSet(LAMBDA x : f[x], S)

(* The way MapThenSumSet takes the elements of S. *)
Adds(f, S, g) == g = [s \in SUBSET S |-> IF s = {} THEN 0
                                         ELSE f[CHOOSE x \in s : TRUE] + g[s \ {CHOOSE x \in s : TRUE}]]

LEMMA SumIs == ASSUME NEW f, NEW S
    PROVE SumOf(f, S) = (CHOOSE g : Adds(f, S, g))[S]
  BY DEF SumOf, Adds, MapThenSumSet, MapThenFoldSet

LEMMA AddsOne ==
    ASSUME NEW f, NEW S, NEW g, Adds(f, S, g), NEW s \in SUBSET S
    PROVE  /\ s = {} => g[s] = 0
           /\ s # {} => \E x \in s : x = (CHOOSE y \in s : TRUE) /\ g[s] = f[x] + g[s \ {x}]
  BY DEF Adds

LEMMA AddsPart ==
    ASSUME NEW f, NEW S, NEW T, T \subseteq S, NEW g, Adds(f, S, g), NEW h, h = [s \in SUBSET T |-> g[s]]
    PROVE  Adds(f, T, h)
  <1>1. ASSUME NEW s \in SUBSET T
        PROVE h[s] = IF s = {} THEN 0 ELSE f[CHOOSE x \in s : TRUE] + h[s \ {CHOOSE x \in s : TRUE}]
    <2>1. CASE s = {}
      BY <2>1, AddsOne
    <2>2. CASE s # {}
      <3>1. PICK x \in s : x = (CHOOSE y \in s : TRUE) /\ g[s] = f[x] + g[s \ {x}]
        BY <2>2, AddsOne
      <3>2. s \ {x} \in SUBSET T
        OBVIOUS
      <3> QED BY <2>2, <3>1, <3>2
    <2> QED BY <2>1, <2>2
  <1> QED BY <1>1 DEF Adds

(* Two such functions agree, also when the numbers are those of two        *)
(* functions that agree.                                                   *)
LEMMA AddsSame ==
    ASSUME NEW S, IsFiniteSet(S), NEW f, NEW g, \A x \in S : f[x] = g[x],
           NEW a, Adds(f, S, a), NEW b, Adds(g, S, b)
    PROVE  \A s \in SUBSET S : a[s] = b[s]
  <1> DEFINE P == {s \in SUBSET S : a[s] = b[s]}
  <1>1. ASSUME NEW T \in SUBSET S, \A x \in T : T \ {x} \in P PROVE T \in P
    <2>1. CASE T = {}
      BY <2>1, AddsOne
    <2>2. CASE T # {}
      <3>1. PICK x \in T : x = (CHOOSE z \in T : TRUE) /\ a[T] = f[x] + a[T \ {x}]
        BY <2>2, AddsOne
      <3>2. PICK y \in T : y = (CHOOSE z \in T : TRUE) /\ b[T] = g[y] + b[T \ {y}]
        BY <2>2, AddsOne
      <3>3. T \ {x} \in P
        BY <1>1
      <3> QED BY <3>1, <3>2, <3>3
    <2> QED BY <2>1, <2>2
  <1>2. SUBSET S \subseteq P
    <2> HIDE DEF P
    <2> QED BY <1>1, SubsetsAreAll
  <1> QED BY <1>2

LEMMA AddsAgree ==
    ASSUME NEW f, NEW A, NEW B, NEW s, s \subseteq A, s \subseteq B, IsFiniteSet(s),
           NEW a, Adds(f, A, a), NEW b, Adds(f, B, b)
    PROVE  a[s] = b[s]
  <1>1. PICK c : c = [t \in SUBSET s |-> a[t]]
    OBVIOUS
  <1>2. PICK d : d = [t \in SUBSET s |-> b[t]]
    OBVIOUS
  <1>3. Adds(f, s, c)
    BY <1>1, AddsPart
  <1>4. Adds(f, s, d)
    BY <1>2, AddsPart
  <1>5. \A t \in SUBSET s : c[t] = d[t]
    BY <1>3, <1>4, AddsSame
  <1> QED BY <1>1, <1>2, <1>5

LEMMA AddsExists ==
    ASSUME NEW S, IsFiniteSet(S), NEW f
    PROVE  \E g : Adds(f, S, g)
  <1> DEFINE P == {T \in SUBSET S : \E g : Adds(f, T, g)}
  <1>1. ASSUME NEW T \in SUBSET S, \A x \in T : T \ {x} \in P PROVE T \in P
    <2>1. CASE T = {}
      <3> DEFINE g == [s \in SUBSET T |-> 0]
      <3>1. Adds(f, T, g)
        BY <2>1 DEF Adds
      <3> QED BY <3>1
    <2>2. CASE T # {}
      <3> DEFINE part(x) == CHOOSE g : Adds(f, T \ {x}, g)
                 c(s) == CHOOSE x \in s : TRUE
                 low(s) == IF s = {} THEN 0 ELSE part(CHOOSE x \in T : x \notin s)[s]
                 g == [s \in SUBSET T |-> IF s = T THEN f[c(T)] + low(T \ {c(T)}) ELSE low(s)]
      <3>1. \A x \in T : Adds(f, T \ {x}, part(x))
        BY <1>1
      <3>2. IsFiniteSet(T)
        BY FS_Subset
      <3>3. ASSUME NEW s \in SUBSET T, NEW x \in T, x \notin s PROVE low(s) = part(x)[s]
        <4>1. CASE s = {}
          <5>1. Adds(f, T \ {x}, part(x)) /\ s \in SUBSET (T \ {x})
            BY <3>1, <3>3
          <5> HIDE DEF part
          <5>2. part(x)[s] = 0
            BY <4>1, <5>1, AddsOne
          <5> QED BY <4>1, <5>2
        <4>2. CASE s # {}
          <5>1. PICK y \in T : y = (CHOOSE z \in T : z \notin s) /\ y \notin s
            BY <3>3
          <5>2. Adds(f, T \ {x}, part(x)) /\ Adds(f, T \ {y}, part(y))
            BY <3>1
          <5>3. s \in SUBSET (T \ {x}) /\ s \in SUBSET (T \ {y})
            BY <3>3, <5>1
          <5>4. low(s) = part(y)[s]
            BY <4>2, <5>1
          <5> HIDE DEF part, low
          <5>5. IsFiniteSet(s)
            BY <3>2, FS_Subset
          <5>6. part(x)[s] = part(y)[s]
            BY <5>2, <5>3, <5>5, AddsAgree
          <5> QED BY <5>4, <5>6
        <4> QED BY <4>1, <4>2
      <3>4. ASSUME NEW s \in SUBSET T PROVE g[s] = IF s = {} THEN 0 ELSE f[c(s)] + g[s \ {c(s)}]
        <4>1. CASE s = {}
          BY <2>2, <4>1
        <4>2. CASE s = T
          <5>1. c(T) \in T
            BY <2>2
          <5>2. T \ {c(T)} \in SUBSET T /\ T \ {c(T)} # T
            BY <5>1
          <5> HIDE DEF c, low
          <5> QED BY <2>2, <4>2, <5>2
        <4>3. CASE s # {} /\ s # T
          <5>1. PICK x \in T : x \notin s
            BY <4>3
          <5>2. Adds(f, T \ {x}, part(x)) /\ s \in SUBSET (T \ {x})
            BY <3>1, <5>1
          <5>3. g[s] = low(s)
            BY <4>3
          <5>4. low(s) = part(x)[s]
            BY <3>3, <5>1
          <5>5. c(s) \in s
            BY <4>3
          <5>6. s \ {c(s)} \in SUBSET T /\ x \notin s \ {c(s)} /\ s \ {c(s)} # T
            BY <5>1
          <5>7. low(s \ {c(s)}) = part(x)[s \ {c(s)}]
            <6> HIDE DEF part, low, c
            <6> QED BY <3>3, <5>1, <5>6
          <5>8. g[s \ {c(s)}] = low(s \ {c(s)})
            <6> HIDE DEF low, c
            <6> QED BY <5>6
          <5>9. PICK y \in s : y = c(s) /\ part(x)[s] = f[y] + part(x)[s \ {y}]
            <6> HIDE DEF part
            <6> QED BY <4>3, <5>2, AddsOne
          <5> HIDE DEF part, low, c, g
          <5> QED BY <4>3, <5>3, <5>4, <5>7, <5>8, <5>9
        <4> QED BY <4>1, <4>2, <4>3
      <3>5. Adds(f, T, g)
        <4> HIDE DEF part, low
        <4> QED BY <3>4 DEF Adds
      <3> QED BY <3>5
    <2> QED BY <2>1, <2>2
  <1>2. SUBSET S \subseteq P
    <2> HIDE DEF P
    <2> QED BY <1>1, SubsetsAreAll
  <1> QED BY <1>2

(* What a sum is for every function on the subsets that adds that way.     *)
LEMMA SumBy ==
    ASSUME NEW S, IsFiniteSet(S), NEW f, NEW T, T \subseteq S, NEW g, Adds(f, S, g)
    PROVE  SumOf(f, T) = g[T]
  <1>1. IsFiniteSet(T)
    BY FS_Subset
  <1>2. PICK h : h = (CHOOSE a : Adds(f, T, a))
    OBVIOUS
  <1>3. Adds(f, T, h)
    BY <1>1, <1>2, AddsExists
  <1>4. h[T] = g[T]
    BY <1>1, <1>3, AddsAgree
  <1>5. SumOf(f, T) = (CHOOSE a : Adds(f, T, a))[T]
    BY SumIs
  <1> QED BY <1>2, <1>4, <1>5

LEMMA SumEmpty == ASSUME NEW f PROVE SumOf(f, {}) = 0
  <1>1. IsFiniteSet({})
    BY FS_EmptySet
  <1>2. PICK g : Adds(f, {}, g)
    BY <1>1, AddsExists
  <1>3. SumOf(f, {}) = g[{}]
    BY <1>1, <1>2, SumBy
  <1>4. g[{}] = 0
    BY <1>2, AddsOne
  <1> QED BY <1>3, <1>4

LEMMA SumSame ==
    ASSUME NEW S, IsFiniteSet(S), NEW f, NEW g, \A x \in S : f[x] = g[x]
    PROVE  SumOf(f, S) = SumOf(g, S)
  <1>1. PICK a : Adds(f, S, a)
    BY AddsExists
  <1>2. PICK b : Adds(g, S, b)
    BY AddsExists
  <1>3. \A s \in SUBSET S : a[s] = b[s]
    BY <1>1, <1>2, AddsSame
  <1>4. SumOf(f, S) = a[S]
    BY <1>1, SumBy
  <1>5. SumOf(g, S) = b[S]
    BY <1>2, SumBy
  <1> QED BY <1>3, <1>4, <1>5

(* A sum of naturals is one, in whatever order they are taken.             *)
LEMMA SumType ==
    ASSUME NEW S, IsFiniteSet(S), NEW f, \A x \in S : f[x] \in Nat
    PROVE  SumOf(f, S) \in Nat
  <1>1. PICK a : Adds(f, S, a)
    BY AddsExists
  <1> DEFINE P == {s \in SUBSET S : a[s] \in Nat}
  <1>2. ASSUME NEW T \in SUBSET S, \A x \in T : T \ {x} \in P PROVE T \in P
    <2>1. CASE T = {}
      BY <1>1, <2>1, AddsOne
    <2>2. CASE T # {}
      <3>1. PICK x \in T : a[T] = f[x] + a[T \ {x}]
        BY <1>1, <2>2, AddsOne
      <3>2. a[T \ {x}] \in Nat /\ f[x] \in Nat
        BY <1>2
      <3> QED BY <3>1, <3>2
    <2> QED BY <2>1, <2>2
  <1>3. SUBSET S \subseteq P
    <2> HIDE DEF P
    <2> QED BY <1>2, SubsetsAreAll
  <1>4. a[S] \in Nat
    BY <1>3
  <1> QED BY <1>1, <1>4, SumBy

(* Any element can be taken out. *)
LEMMA SumTake ==
    ASSUME NEW S, IsFiniteSet(S), NEW f, \A x \in S : f[x] \in Nat, NEW x \in S
    PROVE  SumOf(f, S) = f[x] + SumOf(f, S \ {x})
  <1>1. PICK a : Adds(f, S, a)
    BY AddsExists
  <1>2. ASSUME NEW s \in SUBSET S PROVE a[s] \in Nat
    <2>1. IsFiniteSet(s)
      BY FS_Subset
    <2>2. SumOf(f, s) \in Nat
      BY <2>1, SumType
    <2> QED BY <1>1, <2>2, SumBy
  <1> DEFINE P == {s \in SUBSET S : \A y \in s : a[s] = f[y] + a[s \ {y}]}
  <1>3. ASSUME NEW T \in SUBSET S, \A z \in T : T \ {z} \in P PROVE T \in P
    <2> SUFFICES ASSUME NEW y \in T PROVE a[T] = f[y] + a[T \ {y}]
      OBVIOUS
    <2>1. PICK c \in T : a[T] = f[c] + a[T \ {c}]
      BY <1>1, AddsOne
    <2>2. CASE c = y
      BY <2>1, <2>2
    <2>3. CASE c # y
      <3>1. a[T \ {c}] = f[y] + a[(T \ {c}) \ {y}]
        BY <1>3, <2>3
      <3>2. a[T \ {y}] = f[c] + a[(T \ {y}) \ {c}]
        BY <1>3, <2>3
      <3>3. (T \ {c}) \ {y} = (T \ {y}) \ {c}
        OBVIOUS
      <3>4. f[c] \in Nat /\ f[y] \in Nat
        OBVIOUS
      <3>5. PICK r \in Nat : r = a[(T \ {y}) \ {c}]
        BY <1>2
      <3>6. a[T] = f[c] + (f[y] + r)
        BY <2>1, <3>1, <3>3, <3>5
      <3>7. a[T \ {y}] = f[c] + r
        BY <3>2, <3>5
      <3> QED BY <3>4, <3>6, <3>7
    <2> QED BY <2>2, <2>3
  <1>4. SUBSET S \subseteq P
    <2> HIDE DEF P
    <2> QED BY <1>3, SubsetsAreAll
  <1>5. a[S] = f[x] + a[S \ {x}]
    BY <1>4
  <1>6. SumOf(f, S) = a[S]
    BY <1>1, SumBy
  <1>7. SumOf(f, S \ {x}) = a[S \ {x}]
    BY <1>1, SumBy
  <1> QED BY <1>5, <1>6, <1>7

(* The sum of two functions. *)
LEMMA SumAdd ==
    ASSUME NEW S, IsFiniteSet(S), NEW f, NEW g, NEW h,
           \A x \in S : f[x] \in Nat /\ g[x] \in Nat /\ h[x] = f[x] + g[x]
    PROVE  SumOf(h, S) = SumOf(f, S) + SumOf(g, S)
  <1> DEFINE P == {s \in SUBSET S : SumOf(h, s) = SumOf(f, s) + SumOf(g, s)}
  <1>1. ASSUME NEW T \in SUBSET S, \A z \in T : T \ {z} \in P PROVE T \in P
    <2>1. CASE T = {}
      BY <2>1, SumEmpty
    <2>2. CASE T # {}
      <3>1. PICK x \in T : TRUE
        BY <2>2
      <3>2. IsFiniteSet(T) /\ IsFiniteSet(T \ {x})
        BY FS_Subset
      <3>3. \A y \in T : f[y] \in Nat /\ g[y] \in Nat /\ h[y] \in Nat
        OBVIOUS
      <3>4. SumOf(f, T) = f[x] + SumOf(f, T \ {x})
        BY <3>1, <3>2, <3>3, SumTake
      <3>5. SumOf(g, T) = g[x] + SumOf(g, T \ {x})
        BY <3>1, <3>2, <3>3, SumTake
      <3>6. SumOf(h, T) = h[x] + SumOf(h, T \ {x})
        BY <3>1, <3>2, <3>3, SumTake
      <3>7. PICK a \in Nat : a = SumOf(f, T \ {x})
        BY <3>2, <3>3, SumType
      <3>8. PICK b \in Nat : b = SumOf(g, T \ {x})
        BY <3>2, <3>3, SumType
      <3>9. SumOf(h, T \ {x}) = a + b
        BY <1>1, <3>1, <3>7, <3>8
      <3>10. h[x] = f[x] + g[x] /\ f[x] \in Nat /\ g[x] \in Nat
        BY <3>1
      <3>11. PICK u \in Nat, v \in Nat : u = f[x] /\ v = g[x]
        BY <3>10
      <3>12. SumOf(h, T) = (u + v) + (a + b)
        BY <3>6, <3>9, <3>10, <3>11
      <3>13. SumOf(f, T) = u + a /\ SumOf(g, T) = v + b
        BY <3>4, <3>5, <3>7, <3>8, <3>11
      <3>14. (u + v) + (a + b) = (u + a) + (v + b)
        OBVIOUS
      <3> QED BY <3>12, <3>13, <3>14
    <2> QED BY <2>1, <2>2
  <1>2. SUBSET S \subseteq P
    <2> HIDE DEF P
    <2> QED BY <1>1, SubsetsAreAll
  <1> QED BY <1>2

(* Of a larger set nothing is lost. *)
LEMMA SumSplit ==
    ASSUME NEW S, IsFiniteSet(S), NEW f, \A x \in S : f[x] \in Nat, NEW T, T \subseteq S
    PROVE  SumOf(f, S) = SumOf(f, T) + SumOf(f, S \ T)
  <1> DEFINE P == {s \in SUBSET S : T \subseteq s => SumOf(f, s) = SumOf(f, T) + SumOf(f, s \ T)}
  <1>0. SumOf(f, T) \in Nat
    BY FS_Subset, SumType
  <1>1. ASSUME NEW U \in SUBSET S, \A z \in U : U \ {z} \in P PROVE U \in P
    <2> SUFFICES ASSUME T \subseteq U PROVE SumOf(f, U) = SumOf(f, T) + SumOf(f, U \ T)
      OBVIOUS
    <2>1. CASE U = T
      <3>1. U \ T = {}
        BY <2>1
      <3> QED BY <1>0, <2>1, <3>1, SumEmpty
    <2>2. CASE U # T
      <3>1. PICK x \in U : x \notin T
        BY <2>2
      <3>2. IsFiniteSet(U) /\ IsFiniteSet(U \ T) /\ IsFiniteSet((U \ T) \ {x})
        BY FS_Subset
      <3>3. \A y \in U : f[y] \in Nat
        OBVIOUS
      <3>4. SumOf(f, U) = f[x] + SumOf(f, U \ {x})
        BY <3>1, <3>2, <3>3, SumTake
      <3>5. x \in U \ T /\ \A y \in U \ T : f[y] \in Nat
        BY <3>1
      <3>6. SumOf(f, U \ T) = f[x] + SumOf(f, (U \ T) \ {x})
        BY <3>2, <3>5, SumTake
      <3>7. U \ {x} \in P /\ T \subseteq U \ {x} /\ (U \ {x}) \ T = (U \ T) \ {x}
        BY <1>1, <3>1
      <3>8. SumOf(f, U \ {x}) = SumOf(f, T) + SumOf(f, (U \ T) \ {x})
        BY <3>7
      <3>9. PICK r \in Nat : r = SumOf(f, (U \ T) \ {x})
        BY <3>2, SumType
      <3>10. PICK t \in Nat : t = SumOf(f, T)
        BY <1>0
      <3>11. PICK u \in Nat : u = f[x]
        BY <3>3
      <3>12. SumOf(f, U) = u + (t + r) /\ SumOf(f, U \ T) = u + r
        BY <3>4, <3>6, <3>8, <3>9, <3>10, <3>11
      <3> QED BY <3>10, <3>12
    <2> QED BY <2>1, <2>2
  <1>2. SUBSET S \subseteq P
    <2> HIDE DEF P
    <2> QED BY <1>1, SubsetsAreAll
  <1> QED BY <1>2

LEMMA SumPart ==
    ASSUME NEW S, IsFiniteSet(S), NEW f, \A x \in S : f[x] \in Nat, NEW T, T \subseteq S
    PROVE  SumOf(f, T) <= SumOf(f, S)
  <1>1. SumOf(f, S) = SumOf(f, T) + SumOf(f, S \ T)
    BY SumSplit
  <1>2. SumOf(f, T) \in Nat /\ SumOf(f, S \ T) \in Nat
    BY FS_Subset, SumType
  <1> QED BY <1>1, <1>2

(* One number changes. *)
LEMMA SumChange ==
    ASSUME NEW S, IsFiniteSet(S), NEW f, NEW g, \A x \in S : f[x] \in Nat /\ g[x] \in Nat,
           NEW x \in S, \A y \in S : y # x => g[y] = f[y]
    PROVE  SumOf(g, S) + f[x] = SumOf(f, S) + g[x]
  <1>1. SumOf(f, S) = f[x] + SumOf(f, S \ {x})
    BY SumTake
  <1>2. SumOf(g, S) = g[x] + SumOf(g, S \ {x})
    BY SumTake
  <1>3. SumOf(g, S \ {x}) = SumOf(f, S \ {x})
    BY FS_Subset, SumSame
  <1>4. SumOf(f, S \ {x}) \in Nat
    BY FS_Subset, SumType
  <1>5. f[x] \in Nat /\ g[x] \in Nat
    OBVIOUS
  <1> QED BY <1>1, <1>2, <1>3, <1>4, <1>5

LEMMA SumZero ==
    ASSUME NEW S, IsFiniteSet(S), NEW f, \A x \in S : f[x] = 0
    PROVE  SumOf(f, S) = 0
  <1> DEFINE P == {s \in SUBSET S : SumOf(f, s) = 0}
  <1>1. ASSUME NEW T \in SUBSET S, \A z \in T : T \ {z} \in P PROVE T \in P
    <2>1. CASE T = {}
      BY <2>1, SumEmpty
    <2>2. CASE T # {}
      <3>1. PICK x \in T : TRUE
        BY <2>2
      <3>2. IsFiniteSet(T)
        BY FS_Subset
      <3>3. SumOf(f, T) = f[x] + SumOf(f, T \ {x})
        BY <3>1, <3>2, SumTake
      <3> QED BY <1>1, <3>1, <3>3
    <2> QED BY <2>1, <2>2
  <1>2. SUBSET S \subseteq P
    <2> HIDE DEF P
    <2> QED BY <1>1, SubsetsAreAll
  <1> QED BY <1>2

-----------------------------------------------------------------------------
(* The bytes that lie in the cache. *)

(* What every item adds to the size of the cache, nothing if it is absent. *)
Weight == [i \in Item |-> IF Present(i) THEN SizeOf(i) ELSE 0]

LEMMA EntryFinite == IsFiniteSet(Entry)
  BY CachePruneAssumption, FS_Product DEF CachePruneAssumption, Entry

LEMMA ItemFinite == IsFiniteSet(Item)
  <1>1. IsFiniteSet({"entry", "staged"}) /\ IsFiniteSet({"alias", "stray"})
    <2>1. IsFiniteSet({"entry"} \union {"staged"}) /\ IsFiniteSet({"alias"} \union {"stray"})
      BY FS_Singleton, FS_Union
    <2> QED BY <2>1, FS_Singleton, FS_AddElement
  <1>2. IsFiniteSet({"entry", "staged"} \X Entry)
    BY <1>1, EntryFinite, FS_Product
  <1>3. IsFiniteSet({"alias", "stray"} \X Module)
    BY <1>1, CachePruneAssumption, FS_Product DEF CachePruneAssumption
  <1> QED BY <1>2, <1>3, FS_Union DEF Item

LEMMA WeightType == ASSUME TypeOK PROVE \A i \in Item : Weight[i] \in Nat
  BY SizeType DEF Weight

(* The way TotalSize takes the items of S. *)
AddsSizes(S, g) == g = [s \in SUBSET S |-> IF s = {} THEN 0
                                           ELSE SizeOf(CHOOSE i \in s : TRUE) + g[s \ {CHOOSE i \in s : TRUE}]]

LEMMA TotalIs == ASSUME TypeOK PROVE TotalSize = SumOf(Weight, Item)
  <1> DEFINE S == {i \in Item : Present(i)}
  <1>0. IsFiniteSet(S) /\ S \subseteq Item
    BY ItemFinite, FS_Subset
  <1>1. ASSUME NEW s \in SUBSET S, s # {}
        PROVE  Weight[CHOOSE i \in s : TRUE] = SizeOf(CHOOSE i \in s : TRUE)
    <2>1. (CHOOSE i \in s : TRUE) \in s
      BY <1>1
    <2>2. PICK x : x = (CHOOSE i \in s : TRUE)
      OBVIOUS
    <2>3. x \in Item /\ Present(x)
      BY <2>1, <2>2
    <2>4. Weight[x] = SizeOf(x)
      BY <2>3 DEF Weight
    <2> QED BY <2>2, <2>4
  <1>2. ASSUME NEW g PROVE Adds(Weight, S, g) <=> AddsSizes(S, g)
    <2> HIDE DEF S
    <2>1. [s \in SUBSET S |-> IF s = {} THEN 0 ELSE Weight[CHOOSE i \in s : TRUE] + g[s \ {CHOOSE i \in s : TRUE}]]
            = [s \in SUBSET S |-> IF s = {} THEN 0 ELSE SizeOf(CHOOSE i \in s : TRUE) + g[s \ {CHOOSE i \in s : TRUE}]]
      BY <1>1
    <2> QED BY <2>1 DEF Adds, AddsSizes
  <1>3. TotalSize = (CHOOSE g : AddsSizes(S, g))[S]
    BY DEF TotalSize, AddsSizes, MapThenSumSet, MapThenFoldSet
  <1> HIDE DEF S
  <1>4. PICK h : h = (CHOOSE g : AddsSizes(S, g))
    OBVIOUS
  <1>5. \E g : Adds(Weight, S, g)
    BY <1>0, AddsExists
  <1>6. AddsSizes(S, h)
    BY <1>2, <1>4, <1>5
  <1>7. Adds(Weight, S, h)
    BY <1>2, <1>6
  <1>8. SumOf(Weight, S) = h[S]
    BY <1>0, <1>7, SumBy
  <1>9. SumOf(Weight, Item \ S) = 0
    <2>1. \A i \in Item \ S : Weight[i] = 0
      BY DEF Weight, S
    <2>2. IsFiniteSet(Item \ S)
      BY ItemFinite, FS_Subset
    <2> QED BY <2>1, <2>2, SumZero
  <1>10. SumOf(Weight, Item) = SumOf(Weight, S) + SumOf(Weight, Item \ S)
    BY <1>0, ItemFinite, WeightType, SumSplit
  <1>11. SumOf(Weight, S) \in Nat
    BY <1>0, WeightType, SumType
  <1> QED BY <1>3, <1>4, <1>8, <1>9, <1>10, <1>11

(* The same for what an inspection has listed. *)
AddsListed(S, g) == g = [s \in SUBSET S |-> IF s = {} THEN 0
                                            ELSE listed[CHOOSE e \in s : TRUE].size + g[s \ {CHOOSE e \in s : TRUE}]]

LEMMA ListedIs ==
    ASSUME NEW S, IsFiniteSet(S), NEW f, \A e \in S : listed[e].size = f[e]
    PROVE  ListedSize(S) = SumOf(f, S)
  <1>1. ASSUME NEW s \in SUBSET S, s # {}
        PROVE  f[CHOOSE i \in s : TRUE] = listed[CHOOSE i \in s : TRUE].size
    <2>1. (CHOOSE i \in s : TRUE) \in s
      BY <1>1
    <2> QED BY <2>1
  <1>2. ASSUME NEW g PROVE Adds(f, S, g) <=> AddsListed(S, g)
    <2>1. [s \in SUBSET S |-> IF s = {} THEN 0 ELSE f[CHOOSE i \in s : TRUE] + g[s \ {CHOOSE i \in s : TRUE}]]
            = [s \in SUBSET S |-> IF s = {} THEN 0 ELSE listed[CHOOSE i \in s : TRUE].size
                                                         + g[s \ {CHOOSE i \in s : TRUE}]]
      BY <1>1
    <2> QED BY <2>1 DEF Adds, AddsListed
  <1>3. ListedSize(S) = (CHOOSE g : AddsListed(S, g))[S]
    BY DEF ListedSize, AddsListed, MapThenSumSet, MapThenFoldSet
  <1>4. PICK h : h = (CHOOSE g : AddsListed(S, g))
    OBVIOUS
  <1>5. \E g : Adds(f, S, g)
    BY AddsExists
  <1>6. AddsListed(S, h)
    BY <1>2, <1>4, <1>5
  <1>7. Adds(f, S, h)
    BY <1>2, <1>6
  <1>8. SumOf(f, S) = h[S]
    BY <1>7, SumBy
  <1> QED BY <1>3, <1>4, <1>8

(* One item changes. *)
LEMMA WeightSame == UNCHANGED cache => Weight' = Weight
  BY DEF Weight, Present, SizeOf, cache

LEMMA TotalFor == \A f : TypeOK /\ f = Weight => TotalSize = SumOf(f, Item)
  BY TotalIs

LEMMA TotalType == ASSUME TypeInv PROVE TotalSize \in Nat
  <1>1. PICK f : f = Weight
    OBVIOUS
  <1>2. \A i \in Item : f[i] \in Nat
    BY <1>1, WeightType DEF TypeInv
  <1>3. TotalSize = SumOf(f, Item)
    BY <1>1, TotalFor DEF TypeInv
  <1> QED BY <1>2, <1>3, ItemFinite, SumType

LEMMA TotalNext == ASSUME TypeOK', NEW g, g = Weight' PROVE TotalSize' = SumOf(g, Item)
  <1>1. (\A f : TypeOK /\ f = Weight => TotalSize = SumOf(f, Item))'
    BY TotalFor, PTL
  <1> QED BY <1>1

LEMMA WeightTypeNext == ASSUME TypeOK' PROVE \A i \in Item : Weight'[i] \in Nat
  <1>1. (TypeOK => \A i \in Item : Weight[i] \in Nat)'
    BY WeightType, PTL
  <1> QED BY <1>1

LEMMA WeightChange ==
    ASSUME TypeOK, TypeOK', NEW x \in Item, \A i \in Item : i # x => Weight'[i] = Weight[i]
    PROVE  /\ TotalSize' + Weight[x] = TotalSize + Weight'[x]
           /\ TotalSize \in Nat /\ TotalSize' \in Nat
  <1>1. PICK f : f = Weight
    OBVIOUS
  <1>2. PICK g : g = Weight'
    OBVIOUS
  <1>3. \A i \in Item : f[i] \in Nat
    BY <1>1, WeightType
  <1>4. \A i \in Item : g[i] \in Nat
    BY <1>2, WeightTypeNext
  <1>5. SumOf(g, Item) + f[x] = SumOf(f, Item) + g[x]
    BY <1>1, <1>2, <1>3, <1>4, ItemFinite, SumChange
  <1>6. SumOf(f, Item) \in Nat /\ SumOf(g, Item) \in Nat
    BY <1>3, <1>4, ItemFinite, SumType
  <1>7. TotalSize' = SumOf(g, Item)
    BY <1>2, TotalNext
  <1>8. TotalSize = SumOf(f, Item)
    BY <1>1, TotalIs
  <1> QED BY <1>1, <1>2, <1>5, <1>6, <1>7, <1>8

-----------------------------------------------------------------------------
(* In a cache nobody else changes. *)

Quiet == touched = {}

LEMMA QuietStep ==
    ASSUME TypeInv, [Next]_vars, Quiet'
    PROVE  /\ Quiet /\ UNCHANGED <<command, before>>
           /\ OwnStep \/ UNCHANGED <<pc, work, cache>>
           /\ now' = now \/ now' = now + 1
  <1>1. UNCHANGED <<command, before>> /\ touched \subseteq touched'
    BY Settled
  <1>2. CASE OwnStep
    BY <1>1, <1>2, OwnApart DEF Quiet
  <1>3. CASE Others
    <2>1. ASSUME NEW S, Other(S) PROVE S = {}
      BY <2>1 DEF Other, Quiet
    <2>2. Tick
      BY <1>3, <2>1 DEF Others, OtherStages, OtherPublishes, OtherRecords, OtherEmpties, OtherRemoves
    <2> QED BY <1>1, <2>2 DEF Tick, Other, Quiet
  <1>4. CASE UNCHANGED vars
    BY <1>1, <1>4 DEF vars, Quiet
  <1> QED BY <1>2, <1>3, <1>4 DEF Next, OwnStep

LEMMA QuietLeaving == ASSUME LeavingTouched, Quiet PROVE \A i : ~BeingRemoved(i)
  BY DEF LeavingTouched, Quiet, BeingRemoved

LEMMA EntryWeight ==
    ASSUME TypeInv, TypeInv', NEW e \in Entry, \A f \in Entry : f # e => entry'[f] = entry[f],
           UNCHANGED <<staged, alias, stray>>
    PROVE  /\ TotalSize' + (IF entry[e] = NoEntry THEN 0 ELSE entry[e].size)
                = TotalSize + (IF entry'[e] = NoEntry THEN 0 ELSE entry'[e].size)
           /\ TotalSize \in Nat /\ TotalSize' \in Nat
  <1>1. PICK x \in Item : x = <<"entry", e>>
    BY ItemIn
  <1>2. ASSUME NEW i \in Item, i # x PROVE Weight'[i] = Weight[i]
    <2>1. i[1] = "entry" => i[2] \in Entry /\ i[2] # e
      BY <1>1, <1>2, ItemKinds
    <2>2. i[1] = "entry" => entry'[i[2]] = entry[i[2]]
      BY <2>1
    <2> QED BY <2>2 DEF Weight, Present, SizeOf
  <1>3. Weight[x] = IF entry[e] = NoEntry THEN 0 ELSE entry[e].size
    BY <1>1 DEF Weight, Present, SizeOf
  <1>4. Weight'[x] = IF entry'[e] = NoEntry THEN 0 ELSE entry'[e].size
    BY <1>1 DEF Weight, Present, SizeOf
  <1> QED BY <1>2, <1>3, <1>4, WeightChange DEF TypeInv

LEMMA AliasWeight ==
    ASSUME TypeInv, TypeInv', NEW m \in Module, alias' = [alias EXCEPT ![m] = NoVersion], alias[m] # NoVersion,
           UNCHANGED <<entry, staged, stray>>
    PROVE  /\ TotalSize' + AliasBytes = TotalSize
           /\ TotalSize \in Nat /\ TotalSize' \in Nat
  <1>1. PICK x \in Item : x = <<"alias", m>>
    BY ItemIn
  <1>0. alias \in [Module -> Version \union {NoVersion}]
    BY DEF TypeInv, TypeOK
  <1>2. ASSUME NEW i \in Item, i # x PROVE Weight'[i] = Weight[i]
    <2>1. i[1] = "alias" => i[2] \in Module /\ i[2] # m
      BY <1>1, <1>2, ItemKinds
    <2>2. i[1] = "alias" => alias'[i[2]] = alias[i[2]]
      BY <1>0, <2>1
    <2> QED BY <2>2 DEF Weight, Present, SizeOf
  <1>3. Weight[x] = AliasBytes
    BY <1>1 DEF Weight, Present, SizeOf
  <1>4. Weight'[x] = 0
    BY <1>0, <1>1 DEF Weight, Present, SizeOf
  <1>5. TotalSize' + Weight[x] = TotalSize + Weight'[x] /\ TotalSize \in Nat /\ TotalSize' \in Nat
    BY <1>2, WeightChange DEF TypeInv
  <1> QED BY <1>3, <1>4, <1>5

LEMMA TotalSame == ASSUME TypeInv, TypeInv', UNCHANGED cache PROVE TotalSize' = TotalSize /\ TotalSize \in Nat
  <1>1. PICK f : f = Weight
    OBVIOUS
  <1>2. f = Weight'
    BY <1>1, WeightSame
  <1>3. TotalSize' = SumOf(f, Item)
    BY <1>2, TotalNext DEF TypeInv
  <1>4. TotalSize = SumOf(f, Item)
    BY <1>1, TotalFor DEF TypeInv
  <1>5. \A i \in Item : f[i] \in Nat
    BY <1>1, WeightType DEF TypeInv
  <1> QED BY <1>3, <1>4, <1>5, ItemFinite, SumType

-----------------------------------------------------------------------------
(* The books of a removal. *)

(* Nothing is removed before the selection. *)
Intact == BeforeRemoval => entry = before.entry /\ alias = before.alias /\ total = Nothing

ModuleOf(i) == IF i[1] \in {"entry", "staged"} THEN i[2][1] ELSE i[2]

(* What the command is about, when it is not one version.                  *)
Scope(i) == command.op = "remove" => ModuleOf(i) = command.mod

(* Of what a walk is about, what it has passed, and what it is not about.  *)
Seen == [i \in Item |-> IF Scope(i) /\ ModuleOf(i) \notin mods /\ i \notin todo THEN Weight[i] ELSE 0]

Outside == [i \in Item |-> IF Scope(i) THEN 0 ELSE Weight[i]]

(* What latest takes while it names the version being removed.             *)
Held == IF NamesTarget THEN AliasBytes ELSE 0

Busy == {"rmdir", "matchAlias", "dropAlias"}

(* What is gone is in the total, or in the removal of the entry that is    *)
(* being removed.                                                          *)
Balance ==
    /\ before.size \in Nat
    /\ pc \notin Busy \union {"wipe"} => before.size = TotalSize + total.bytes
    /\ pc \in Busy => before.size + Held = TotalSize + total.bytes + removal.bytes

(* What a removal of one entry has come to.                                *)
Flight ==
    /\ pc \in Walking \union {"start", "select", "next"} => removal = Nothing
    /\ pc = "measure" /\ queue # <<>> /\ todo # {} => removal.bytes = 0
    /\ pc = "measure" /\ queue # <<>> /\ todo = {} => Is(Target) /\ removal.bytes = entry[Target].size
    /\ pc = "aliasSize" => Is(Target) /\ removal.bytes = entry[Target].size
    /\ pc = "empty" => Is(Target) /\ removal.bytes = entry[Target].size + Held
    /\ pc = "rmdir" => Is(Target) /\ entry[Target].size = 0
    /\ pc = "matchAlias" => ~Is(Target)
    /\ pc = "dropAlias" => NamesTarget
    /\ pc \in Clearing => removal.entries = 1

(* The bytes a walk has counted are those of what it has passed.           *)
Walked ==
    pc = "measure" /\ queue = <<>> =>
        /\ command.op = "remove" => mods \subseteq {command.mod}
        /\ \A i \in todo : Scope(i) /\ ModuleOf(i) \notin mods
        /\ removal.bytes = SumOf(Seen, Item)

(* What is left to wipe, and what was counted of it.                       *)
WipeBooks ==
    pc = "wipe" =>
        /\ \A i \in Item : Present(i) /\ Scope(i) => ModuleOf(i) \in mods \/ i \in todo
        /\ before.size = removal.bytes + SumOf(Outside, Item)
        /\ command.op = "clean" => removal.entries = Cardinality({e \in Entry : Was(e)})

Gone == {e \in Entry : Was(e) /\ ~Is(e)}

(* What is gone is counted, and nothing has come.                          *)
Counted ==
    /\ \A e \in Entry : Is(e) => Was(e)
    /\ command.op # "remove" /\ pc # "wipe" =>
         Cardinality(Gone) = total.entries + IF pc \in {"matchAlias", "dropAlias"} THEN 1 ELSE 0

Books == Intact /\ Balance /\ Flight /\ Walked /\ WipeBooks /\ Counted

LEMMA ItemModule == ASSUME NEW i \in Item, NEW m PROVE ModuleOf(i) \in Module /\ (InModule(i, m) <=> ModuleOf(i) = m)
  BY ItemKinds DEF Item, Entry, ModuleOf, InModule

LEMMA ScopeSame == UNCHANGED command => \A i : Scope(i)' <=> Scope(i)
  BY DEF Scope

(* The cache changes in four steps only. *)
LEMMA Removes == ASSUME OwnStep
    PROVE UNCHANGED cache \/ EmptyEntry \/ RemoveEntry \/ DropAlias \/ \E i \in Item : WipeItem(i)
  <1>1. CASE Start
    BY <1>1 DEF Start
  <1>2. CASE Measure
    BY <1>2 DEF Measure, MeasureModule, MeasureItem, MeasureFails, MeasuredRoot, MeasuredEntry, MeasuredModule,
                MeasuredCache
  <1>3. CASE Inspect
    BY <1>3 DEF Inspect, ListVersions, ReadLatestAlias, InspectEntry, InspectFails, EndOfModule, Inspected
  <1>4. CASE Prune
    BY <1>4 DEF Prune, SelectEntries, NextEntry, AllRemoved
  <1>5. CASE RemoveVersion
    BY <1>5 DEF RemoveVersion, AliasVanishes, MatchAliasSize, MatchAlias
  <1>6. CASE Wipe
    BY <1>6 DEF Wipe, WipeModule, Wiped
  <1> QED BY <1>1, <1>2, <1>3, <1>4, <1>5, <1>6 DEF OwnStep

LEMMA Totals == ASSUME OwnStep PROVE total' = total \/ MatchAlias \/ DropAlias \/ Wiped
  <1>1. CASE Start
    BY <1>1 DEF Start
  <1>2. CASE Measure
    BY <1>2 DEF Measure, MeasureModule, MeasureItem, MeasureFails, MeasuredRoot, MeasuredEntry, MeasuredModule,
                MeasuredCache
  <1>3. CASE Inspect
    BY <1>3 DEF Inspect, ListVersions, ReadLatestAlias, InspectEntry, InspectFails, EndOfModule, Inspected, work
  <1>4. CASE Prune
    BY <1>4 DEF Prune, SelectEntries, NextEntry, AllRemoved
  <1>5. CASE RemoveVersion
    BY <1>5 DEF RemoveVersion, AliasVanishes, MatchAliasSize, EmptyEntry, RemoveEntry, work
  <1>6. CASE Wipe
    BY <1>6 DEF Wipe, WipeModule, WipeItem
  <1> QED BY <1>1, <1>2, <1>3, <1>4, <1>5, <1>6 DEF OwnStep

LEMMA IntactKept == ASSUME Control, OwnStep, Intact PROVE Intact'
  <1> SUFFICES ASSUME BeforeRemoval' PROVE (entry = before.entry /\ alias = before.alias /\ total = Nothing)'
    BY DEF Intact
  <1>1. BeforeRemoval
    BY BeforeRemovalBack
  <1>2. ~EmptyEntry /\ ~RemoveEntry /\ ~DropAlias /\ ~MatchAlias /\ ~Wiped /\ \A i \in Item : ~WipeItem(i)
    BY <1>1 DEF BeforeRemoval, EmptyEntry, RemoveEntry, DropAlias, MatchAlias, Wiped, WipeItem, Removing
  <1>3. UNCHANGED <<entry, alias, total>>
    BY <1>2, Removes, Totals DEF cache
  <1> QED BY <1>1, <1>3, OwnApart DEF Intact, Nothing

(* Every label with a balance of its own is reached from the one before. *)
LEMMA Labels == ASSUME OwnStep
    PROVE /\ pc' = "aliasSize" => MeasuredEntry
          /\ pc' = "empty" => MatchAliasSize
          /\ pc' = "rmdir" => EmptyEntry
          /\ pc' = "matchAlias" => RemoveEntry
          /\ pc' = "dropAlias" => MatchAlias
          /\ pc' = "wipe" => Measure \/ Wipe
          /\ pc' = "next" => Measure \/ SelectEntries \/ MatchAlias \/ DropAlias
          /\ pc' = "select" => Inspected
          /\ pc' = "measure" => Start \/ NextEntry \/ AllRemoved \/ Measure
          /\ pc' # "start"
  <1>1. CASE Start
    BY <1>1 DEF Start, Walk, Goto
  <1>2. CASE Measure
    BY <1>2 DEF Measure, MeasureModule, MeasureItem, MeasureFails, MeasuredRoot, MeasuredEntry, MeasuredModule,
                MeasuredCache, Measured, Vanished, Walk, Goto
  <1>3. CASE Inspect
    BY <1>3 DEF Inspect, ListVersions, ReadLatestAlias, InspectEntry, InspectFails, EndOfModule, Inspected, Report,
               Goto
  <1>4. CASE Prune
    BY <1>4 DEF Prune, SelectEntries, NextEntry, AllRemoved, Walk, Goto
  <1>5. CASE RemoveVersion
    BY <1>5 DEF RemoveVersion, AliasVanishes, MatchAliasSize, EmptyEntry, RemoveEntry, MatchAlias, DropAlias,
                Removed, Goto
  <1>6. CASE Wipe
    BY <1>6 DEF Wipe, WipeModule, WipeItem, Wiped, Goto
  <1> QED BY <1>1, <1>2, <1>3, <1>4, <1>5, <1>6 DEF OwnStep

LEMMA BooksTyped == ASSUME TypeInv
    PROVE  total.bytes \in Nat /\ total.entries \in Nat /\ removal.bytes \in Nat /\ removal.entries \in Nat
  BY DEF TypeInv, TypeOK

(* Walking modules. *)
LEMMA SeenType == ASSUME TypeInv PROVE \A i \in Item : Seen[i] \in Nat /\ Outside[i] \in Nat
  BY WeightType DEF Seen, Outside, TypeInv

LEMMA SeenTypeNext == ASSUME TypeInv' PROVE \A i \in Item : Seen'[i] \in Nat /\ Outside'[i] \in Nat
  <1>1. (TypeInv => \A i \in Item : Seen[i] \in Nat /\ Outside[i] \in Nat)'
    BY SeenType, PTL
  <1> QED BY <1>1

LEMMA NothingSeen ==
    ASSUME removal.bytes = 0, UNCHANGED <<command, removal, cache>>, todo' = {},
           \A i \in Item : Scope(i) => ModuleOf(i) \in mods'
    PROVE  removal'.bytes = SumOf(Seen, Item)'
  <1>1. PICK g : g = Seen'
    OBVIOUS
  <1>2. \A i \in Item : g[i] = 0
    BY <1>1 DEF Seen, Scope
  <1>3. SumOf(g, Item) = 0
    BY <1>2, ItemFinite, SumZero
  <1> QED BY <1>1, <1>3

LEMMA SeenSame ==
    ASSUME TypeInv, removal.bytes = SumOf(Seen, Item), UNCHANGED removal, \A i \in Item : Seen'[i] = Seen[i]
    PROVE  removal'.bytes = SumOf(Seen, Item)'
  <1>1. PICK g : g = Seen'
    OBVIOUS
  <1>2. PICK f : f = Seen
    OBVIOUS
  <1>3. \A i \in Item : f[i] = g[i]
    BY <1>1, <1>2
  <1>4. SumOf(f, Item) = SumOf(g, Item)
    BY <1>3, ItemFinite, SumSame
  <1> QED BY <1>1, <1>2, <1>4

LEMMA MeasureModuleWalked ==
    ASSUME TypeInv, Control, Walked, NEW m \in Module, MeasureModule(m), queue = <<>>
    PROVE  Walked'
  <1>1. pc = "measure" /\ todo = {} /\ m \in mods /\ mods' = mods \ {m} /\ todo' = Items(m)
        /\ UNCHANGED <<removal, cache, command>>
    BY DEF MeasureModule, FirstModule, Idle
  <1>2. Weight' = Weight
    BY <1>1, WeightSame
  <1>3. ASSUME NEW i \in Item PROVE Seen'[i] = Seen[i]
    <2>1. Seen[i] = IF Scope(i) /\ ModuleOf(i) \notin mods THEN Weight[i] ELSE 0
      BY <1>1 DEF Seen
    <2>2. Seen'[i] = IF Scope(i) /\ ModuleOf(i) \notin mods' /\ i \notin Items(m) THEN Weight[i] ELSE 0
      BY <1>1, <1>2, ScopeSame DEF Seen
    <2>3. CASE ModuleOf(i) = m
      <3>1. i \notin Items(m) => Weight[i] = 0
        BY <2>3, ItemModule DEF Items, Weight
      <3> QED BY <1>1, <2>1, <2>2, <2>3, <3>1
    <2>4. CASE ModuleOf(i) # m
      <3>1. i \notin Items(m)
        BY <2>4, ItemModule DEF Items
      <3> QED BY <1>1, <2>1, <2>2, <2>4, <3>1
    <2> QED BY <2>3, <2>4
  <1>4. ASSUME NEW i \in todo' PROVE Scope(i)' /\ ModuleOf(i) \notin mods'
    <2>1. i \in Item /\ ModuleOf(i) = m
      BY <1>1, ItemModule DEF Items
    <2> QED BY <1>1, <2>1 DEF Scope, Walked
  <1>5. removal.bytes = SumOf(Seen, Item)
    BY <1>1 DEF Walked
  <1>6. removal'.bytes = SumOf(Seen, Item)'
    BY <1>1, <1>3, <1>5, SeenSame
  <1> QED BY <1>1, <1>4, <1>6 DEF Walked

LEMMA MeasureItemWalked ==
    ASSUME TypeInv, TypeInv', Walked, NEW i \in Item, MeasureItem(i), queue = <<>>
    PROVE  Walked'
  <1>1. /\ pc = "measure" /\ i \in todo /\ Present(i) /\ todo' = todo \ {i}
        /\ removal' = [removal EXCEPT !.bytes = @ + SizeOf(i)] /\ UNCHANGED <<cache, command, mods>>
    BY DEF MeasureItem, FirstItem, Idle
  <1>2. Weight' = Weight
    BY <1>1, WeightSame
  <1>3. \A j \in todo : Scope(j) /\ ModuleOf(j) \notin mods
    BY <1>1 DEF Walked
  <1>4. PICK f : f = Seen
    OBVIOUS
  <1>5. PICK g : g = Seen'
    OBVIOUS
  <1>6. \A j \in Item : j # i => g[j] = f[j]
    BY <1>1, <1>2, <1>4, <1>5, ScopeSame DEF Seen
  <1>7. f[i] = 0
    BY <1>1, <1>4 DEF Seen
  <1>8. g[i] = SizeOf(i)
    BY <1>1, <1>2, <1>3, <1>5, ScopeSame DEF Seen, Weight
  <1>9. \A j \in Item : f[j] \in Nat /\ g[j] \in Nat
    BY <1>4, <1>5, SeenType, SeenTypeNext
  <1>10. SumOf(g, Item) + f[i] = SumOf(f, Item) + g[i]
    BY <1>6, <1>9, ItemFinite, SumChange
  <1>11. SumOf(f, Item) \in Nat /\ SumOf(g, Item) \in Nat /\ g[i] \in Nat
    BY <1>9, ItemFinite, SumType
  <1>12. removal.bytes = SumOf(f, Item)
    BY <1>1, <1>4 DEF Walked
  <1>13. removal'.bytes = removal.bytes + SizeOf(i)
    BY <1>1 DEF TypeInv, TypeOK
  <1>14. removal'.bytes = SumOf(g, Item)
    BY <1>7, <1>8, <1>10, <1>11, <1>12, <1>13
  <1>15. removal'.bytes = SumOf(Seen, Item)'
    BY <1>5, <1>14
  <1> QED BY <1>1, <1>3, <1>15, ScopeSame DEF Walked

LEMMA StartWalked ==
    ASSUME Control, Flight, Start, pc' = "measure", queue' = <<>> PROVE Walked'
  <1>1. pc = "start" /\ removal = Nothing /\ UNCHANGED <<removal, cache, command>> /\ queue = <<>>
    BY DEF Start, Flight, Idle, Control
  <1>2. ~Refused /\ ~OneVersion
    BY <1>1 DEF Start, Goto
  <1>3. mods' = (IF command.op = "remove" THEN {command.mod} ELSE Module) /\ todo' = {}
    BY <1>2 DEF Start, Walk
  <1>4. removal.bytes = 0
    BY <1>1 DEF Nothing
  <1>5. \A i \in Item : Scope(i) => ModuleOf(i) \in mods'
    BY <1>3, ItemModule DEF Scope
  <1>6. removal'.bytes = SumOf(Seen, Item)'
    BY <1>1, <1>3, <1>4, <1>5, NothingSeen
  <1> QED BY <1>1, <1>3, <1>6 DEF Walked

LEMMA AllRemovedWalked ==
    ASSUME Control, Flight, AllRemoved, pc' = "measure" PROVE Walked'
  <1>1. pc = "next" /\ removal = Nothing /\ UNCHANGED <<removal, cache, command>> /\ command.op = "prune"
    BY DEF AllRemoved, Flight, Idle, Control
  <1>2. mods' = Module /\ todo' = {}
    BY DEF AllRemoved, Walk, Goto
  <1>3. removal.bytes = 0
    BY <1>1 DEF Nothing
  <1>4. \A i \in Item : Scope(i) => ModuleOf(i) \in mods'
    BY <1>2, ItemModule
  <1>5. removal'.bytes = SumOf(Seen, Item)'
    BY <1>1, <1>2, <1>3, <1>4, NothingSeen
  <1> QED BY <1>1, <1>2, <1>5 DEF Walked

LEMMA WalkedKept == ASSUME TypeInv, TypeInv', Control, OwnStep, Flight, Walked PROVE Walked'
  <1> SUFFICES ASSUME pc' = "measure", queue' = <<>> PROVE Walked'
    BY DEF Walked
  <1>1. CASE Start
    BY <1>1, StartWalked
  <1>2. CASE NextEntry
    BY <1>2 DEF NextEntry
  <1>3. CASE AllRemoved
    BY <1>3, AllRemovedWalked
  <1>4. CASE Measure
    <2>1. (\E m \in Module : MeasureModule(m)) \/ \E i \in Item : MeasureItem(i)
      BY <1>4 DEF Measure, MeasureFails, MeasuredRoot, MeasuredEntry, MeasuredModule, MeasuredCache, Vanished, Walk,
                  Goto
    <2>2. queue = <<>>
      BY <2>1 DEF MeasureModule, MeasureItem
    <2> QED BY <2>1, <2>2, MeasureModuleWalked, MeasureItemWalked
  <1> QED BY <1>1, <1>2, <1>3, <1>4, Labels

(* All is counted when the walk is over. *)
LEMMA WalkEnds ==
    ASSUME TypeInv, Measured, queue = <<>>, Walked
    PROVE  /\ TotalSize = removal.bytes + SumOf(Outside, Item)
           /\ command.op # "remove" => TotalSize = removal.bytes
  <1>1. pc = "measure" /\ todo = {} /\ mods = {}
    BY DEF Measured
  <1>2. PICK f : f = Seen
    OBVIOUS
  <1>3. PICK g : g = Outside
    OBVIOUS
  <1>4. PICK h : h = Weight
    OBVIOUS
  <1>5. \A i \in Item : f[i] \in Nat /\ g[i] \in Nat
    BY <1>2, <1>3, SeenType
  <1>6. \A i \in Item : h[i] \in Nat
    BY <1>4, WeightType DEF TypeInv
  <1>7. \A i \in Item : f[i] = IF Scope(i) THEN h[i] ELSE 0
    BY <1>1, <1>2, <1>4 DEF Seen
  <1>8. \A i \in Item : g[i] = IF Scope(i) THEN 0 ELSE h[i]
    BY <1>3, <1>4 DEF Outside
  <1>9. \A i \in Item : h[i] = f[i] + g[i]
    BY <1>6, <1>7, <1>8
  <1>10. SumOf(h, Item) = SumOf(f, Item) + SumOf(g, Item)
    BY <1>5, <1>9, ItemFinite, SumAdd
  <1>11. TotalSize = SumOf(h, Item)
    BY <1>4, TotalFor DEF TypeInv
  <1>12. removal.bytes = SumOf(f, Item)
    BY <1>1, <1>2 DEF Walked
  <1>13. ASSUME command.op # "remove" PROVE TotalSize = removal.bytes
    <2>1. \A i \in Item : g[i] = 0
      BY <1>8, <1>13 DEF Scope
    <2>2. SumOf(g, Item) = 0
      BY <2>1, ItemFinite, SumZero
    <2> QED BY <1>10, <1>11, <1>12, <2>2, BooksTyped
  <1> QED BY <1>3, <1>10, <1>11, <1>12, <1>13

LEMMA OutsideSame ==
    ASSUME \A i \in Item : Outside'[i] = Outside[i]
    PROVE  SumOf(Outside, Item)' = SumOf(Outside, Item)
  <1>1. PICK g : g = Outside'
    OBVIOUS
  <1>2. PICK f : f = Outside
    OBVIOUS
  <1>3. \A i \in Item : g[i] = f[i]
    BY <1>1, <1>2
  <1>4. SumOf(g, Item) = SumOf(f, Item)
    BY <1>3, ItemFinite, SumSame
  <1> QED BY <1>1, <1>2, <1>4

LEMMA MeasuredWiping ==
    ASSUME TypeInv, TypeInv', Control, Intact, Balance, Walked, MeasuredModule \/ MeasuredCache, pc' = "wipe"
    PROVE  WipeBooks'
  <1>1. /\ Measured /\ queue = <<>> /\ UNCHANGED <<cache, command, before>> /\ removal'.bytes = removal.bytes
        /\ command.op \in {"remove", "clean"} /\ pc = "measure"
    BY DEF MeasuredModule, MeasuredCache, Idle, Measured, TypeInv, TypeOK
  <1>2. todo' = {} /\ mods' = IF command.op = "remove" THEN {command.mod} ELSE Module
    BY <1>1 DEF MeasuredModule, MeasuredCache, Walk, Goto
  <1>3. ASSUME NEW i \in Item, Scope(i)' PROVE ModuleOf(i) \in mods'
    BY <1>1, <1>2, <1>3, ItemModule DEF Scope
  <1>4. BeforeRemoval
    BY <1>1 DEF BeforeRemoval, Control, TypeInv, TypeOK
  <1>5. total.bytes = 0 /\ entry = before.entry
    BY <1>4 DEF Intact, Nothing
  <1>6. before.size = TotalSize + total.bytes
    BY <1>1 DEF Balance, Busy
  <1>7. TotalSize = removal.bytes + SumOf(Outside, Item)
    BY <1>1, WalkEnds
  <1>8. SumOf(Outside, Item)' = SumOf(Outside, Item)
    BY <1>1, WeightSame, ScopeSame, OutsideSame DEF Outside
  <1>9. TotalSize \in Nat
    BY <1>1, TotalSame
  <1>10. before'.size = removal'.bytes + SumOf(Outside, Item)'
    BY <1>1, <1>5, <1>6, <1>7, <1>8, <1>9
  <1>11. ASSUME command.op = "clean" PROVE removal'.entries = Cardinality({e \in Entry : Was(e)}')
    <2>1. removal'.entries = Cardinality(Versions(Module))
      BY <1>11 DEF MeasuredModule, MeasuredCache, TypeInv, TypeOK
    <2>2. Versions(Module) = {e \in Entry : Was(e)}
      BY <1>5 DEF Versions, Was, Entry
    <2>3. {e \in Entry : Was(e)}' = {e \in Entry : Was(e)}
      BY <1>1 DEF Was
    <2> QED BY <2>1, <2>2, <2>3
  <1> QED BY <1>1, <1>3, <1>10, <1>11 DEF WipeBooks

LEMMA WipeModuleWiping ==
    ASSUME WipeBooks, NEW m \in Module, WipeModule(m)
    PROVE  WipeBooks'
  <1>1. /\ pc = "wipe" /\ todo = {} /\ m \in mods /\ mods' = mods \ {m} /\ todo' = Items(m)
        /\ UNCHANGED <<cache, command, before, removal>>
    BY DEF WipeModule, Idle
  <1>2. ASSUME NEW i \in Item, Present(i)', Scope(i)' PROVE ModuleOf(i) \in mods' \/ i \in todo'
    <2>1. Present(i) /\ Scope(i)
      BY <1>1, <1>2, ScopeSame DEF Present, cache
    <2>2. ModuleOf(i) \in mods
      BY <1>1, <2>1 DEF WipeBooks
    <2>3. ModuleOf(i) = m => i \in Items(m)
      BY <2>1, ItemModule DEF Items
    <2> QED BY <1>1, <2>2, <2>3
  <1>3. SumOf(Outside, Item)' = SumOf(Outside, Item)
    BY <1>1, WeightSame, ScopeSame, OutsideSame DEF Outside
  <1> QED BY <1>1, <1>2, <1>3 DEF WipeBooks, Was

LEMMA WipeItemWiping ==
    ASSUME TypeInv, Control, WipeBooks, NEW i \in Item, WipeItem(i)
    PROVE  WipeBooks'
  <1>1. pc = "wipe" /\ i \in todo /\ todo' = todo \ {i} /\ UNCHANGED <<command, before, removal, mods>>
    BY DEF WipeItem, Idle
  <1>2. /\ entry' = [e \in Entry |-> IF i = <<"entry", e>> THEN NoEntry ELSE entry[e]]
        /\ staged' = [e \in Entry |-> IF i = <<"staged", e>> THEN NoEntry ELSE staged[e]]
        /\ alias' = [m \in Module |-> IF i = <<"alias", m>> THEN NoVersion ELSE alias[m]]
        /\ stray' = {m \in stray : i # <<"stray", m>>}
    BY DEF WipeItem
  <1>3. Scope(i)
    BY <1>1, ItemModule DEF Control, Scope
  <1>4. ASSUME NEW j \in Item, j # i
        PROVE  (Present(j)' <=> Present(j)) /\ (Present(j) => SizeOf(j)' = SizeOf(j))
    <2>1. CASE j[1] = "entry"
      BY <1>2, <1>4, <2>1, ItemKinds DEF Present, SizeOf
    <2>2. CASE j[1] = "staged"
      BY <1>2, <1>4, <2>2, ItemKinds DEF Present, SizeOf
    <2>3. CASE j[1] = "alias"
      BY <1>2, <1>4, <2>3, ItemKinds DEF Present, SizeOf
    <2>4. CASE j[1] = "stray"
      BY <1>2, <1>4, <2>4, ItemKinds DEF Present, SizeOf
    <2> QED BY <2>1, <2>2, <2>3, <2>4, ItemKinds
  <1>5. ~Present(i)'
    <2>1. CASE i[1] = "entry"
      BY <1>2, <2>1, ItemKinds DEF Present
    <2>2. CASE i[1] = "staged"
      BY <1>2, <2>2, ItemKinds DEF Present
    <2>3. CASE i[1] = "alias"
      BY <1>2, <2>3, ItemKinds DEF Present
    <2>4. CASE i[1] = "stray"
      BY <1>2, <2>4, ItemKinds DEF Present
    <2> QED BY <2>1, <2>2, <2>3, <2>4, ItemKinds
  <1>6. \A j \in Item : Outside'[j] = Outside[j]
    BY <1>1, <1>3, <1>4, ScopeSame DEF Outside, Weight
  <1>7. SumOf(Outside, Item)' = SumOf(Outside, Item)
    BY <1>6, OutsideSame
  <1>8. ASSUME NEW j \in Item, Present(j)', Scope(j)' PROVE ModuleOf(j) \in mods' \/ j \in todo'
    BY <1>1, <1>4, <1>5, <1>8, ScopeSame DEF WipeBooks
  <1> QED BY <1>1, <1>7, <1>8 DEF WipeBooks, Was

LEMMA WipingKept ==
    ASSUME TypeInv, TypeInv', Control, OwnStep, Intact, Balance, Walked, WipeBooks PROVE WipeBooks'
  <1> SUFFICES ASSUME pc' = "wipe" PROVE WipeBooks'
    BY DEF WipeBooks
  <1>1. CASE Measure
    <2>1. MeasuredModule \/ MeasuredCache
      BY <1>1 DEF Measure, MeasureModule, MeasureItem, MeasureFails, MeasuredRoot, MeasuredEntry, Measured,
                  Vanished, Walk, Goto
    <2> QED BY <2>1, MeasuredWiping
  <1>2. CASE Wipe
    BY <1>2, WipeModuleWiping, WipeItemWiping DEF Wipe, Wiped, Goto
  <1> QED BY <1>1, <1>2, Labels

(* One entry at a time. *)
LEMMA MeasureItemFlight ==
    ASSUME TypeInv, Control, Flight, NEW i \in Item, MeasureItem(i), queue # <<>>
    PROVE  Flight'
  <1>1. /\ pc = "measure" /\ pc' = "measure" /\ i \in todo /\ Present(i) /\ todo' = todo \ {i}
        /\ removal' = [removal EXCEPT !.bytes = @ + SizeOf(i)] /\ UNCHANGED <<cache, queue>>
    BY DEF MeasureItem, FirstItem
  <1>2. i = <<"entry", Target>> /\ todo = {i}
    BY <1>1 DEF Control, Target
  <1>3. Is(Target) /\ SizeOf(i) = entry[Target].size
    BY <1>1, <1>2 DEF Present, SizeOf, Is
  <1>4. removal.bytes = 0
    BY <1>1 DEF Flight
  <1>5. Target \in Entry
    BY TargetType
  <1>6. entry[Target] \in VersionDir
    BY <1>3, <1>5 DEF Is, TypeInv, TypeOK
  <1>7. entry[Target].size \in Nat
    BY <1>6 DEF VersionDir
  <1>8. removal'.bytes = entry[Target].size
    BY <1>1, <1>3, <1>4, <1>7 DEF TypeInv, TypeOK
  <1>9. todo' = {} /\ Target' = Target /\ entry' = entry
    BY <1>1, <1>2 DEF Target, cache
  <1> QED BY <1>1, <1>3, <1>8, <1>9 DEF Flight, Is, Clearing, Walking

LEMMA MeasureFlight == ASSUME TypeInv, Control, Flight, Measure PROVE Flight'
  <1>0. pc = "measure"
    BY DEF Measure, MeasureModule, MeasureItem, MeasureFails, MeasuredRoot, MeasuredEntry, MeasuredModule,
           MeasuredCache, Measured
  <1>1. ASSUME NEW m \in Module, MeasureModule(m) PROVE Flight'
    <2>1. m \in mods /\ UNCHANGED <<queue, pc>>
      BY <1>1 DEF MeasureModule, FirstModule
    <2>2. queue = <<>>
      BY <1>0, <2>1 DEF Control
    <2> QED BY <1>0, <2>1, <2>2 DEF Flight, Clearing, Walking
  <1>2. ASSUME NEW i \in Item, MeasureItem(i) PROVE Flight'
    <2>1. CASE queue = <<>>
      BY <1>0, <1>2, <2>1 DEF MeasureItem, Flight, Clearing, Walking
    <2> QED BY <1>2, <2>1, MeasureItemFlight
  <1>3. ASSUME NEW i \in Item, MeasureFails(i) PROVE Flight'
    <2>1. pc' \in {"next", "error", "notFound", "ok"} /\ removal' = Nothing
      BY <1>3 DEF MeasureFails, Vanished, Goto
    <2> QED BY <2>1 DEF Flight, Clearing, Walking
  <1>4. CASE MeasuredRoot
    <2>1. pc' = "list" /\ removal' = Nothing
      BY <1>4 DEF MeasuredRoot, Walk, Goto
    <2> QED BY <2>1 DEF Flight, Clearing, Walking
  <1>5. CASE MeasuredEntry
    <2>1. pc' = "aliasSize" /\ removal' = [removal EXCEPT !.entries = 1] /\ UNCHANGED <<queue, cache>>
          /\ queue # <<>> /\ todo = {}
      BY <1>5 DEF MeasuredEntry, Goto, Measured
    <2>2. Is(Target) /\ removal.bytes = entry[Target].size
      BY <1>0, <2>1 DEF Flight
    <2>3. removal'.bytes = removal.bytes /\ removal'.entries = 1 /\ Target' = Target /\ entry' = entry
      BY <2>1 DEF TypeInv, TypeOK, Target, cache
    <2> QED BY <2>1, <2>2, <2>3 DEF Flight, Is, Clearing, Walking
  <1>6. CASE MeasuredModule \/ MeasuredCache
    <2>1. pc' \in {"wipe", "notFound"}
      BY <1>6 DEF MeasuredModule, MeasuredCache, Walk, Goto
    <2> QED BY <2>1 DEF Flight, Clearing, Walking
  <1> QED BY <1>1, <1>2, <1>3, <1>4, <1>5, <1>6 DEF Measure

LEMMA RemovedFlight == ASSUME Removed PROVE Flight'
  <1>1. pc' \in {"next", "ok"} /\ removal' = Nothing
    BY DEF Removed, Goto
  <1> QED BY <1>1 DEF Flight, Clearing, Walking

LEMMA RemoveVersionFlight == ASSUME TypeInv, Control, Flight, RemoveVersion PROVE Flight'
  <1>1. queue # <<>> /\ Target \in Entry /\ Target[1] \in Module
    <2>1. queue # <<>>
      BY DEF RemoveVersion, AliasVanishes, MatchAliasSize, EmptyEntry, RemoveEntry, MatchAlias, DropAlias, Removing
    <2> QED BY <2>1, TargetType DEF Entry
  <1>2. CASE MatchAliasSize
    <2>1. pc = "aliasSize" /\ pc' = "empty" /\ UNCHANGED <<queue, cache>>
          /\ removal' = [removal EXCEPT !.bytes = @ + (IF NamesTarget THEN AliasBytes ELSE 0)]
      BY <1>2 DEF MatchAliasSize, Removing, Goto
    <2>2. Is(Target) /\ removal.bytes = entry[Target].size /\ removal.entries = 1
      BY <2>1 DEF Flight, Clearing
    <2>3. removal'.bytes = removal.bytes + Held /\ removal'.entries = removal.entries
      BY <2>1 DEF TypeInv, TypeOK, Held
    <2>4. Target' = Target /\ UNCHANGED <<entry, alias>>
      BY <2>1 DEF Target, cache
    <2> QED BY <2>1, <2>2, <2>3, <2>4 DEF Flight, Is, Held, NamesTarget, Clearing, Walking
  <1>3. CASE EmptyEntry
    <2>1. pc = "empty" /\ pc' = "rmdir" /\ UNCHANGED <<queue, removal>> /\ entry' = Emptied(Target)
      BY <1>3 DEF EmptyEntry, Removing, Goto, work
    <2>2. Is(Target) /\ removal.entries = 1
      BY <2>1 DEF Flight, Clearing
    <2>3. Target' = Target
      BY <2>1 DEF Target
    <2>4. entry'[Target] = Directory(0, now, "incomplete")
      BY <1>1, <2>1, <2>2 DEF Emptied, Is, TypeInv, TypeOK
    <2>5. Directory(0, now, "incomplete") \in VersionDir
      BY DirectoryType DEF TypeInv, TypeOK, Status
    <2>6. Is(Target)' /\ entry'[Target].size = 0
      BY <2>3, <2>4, <2>5, CachePruneAssumption DEF Is, Directory, CachePruneAssumption
    <2> QED BY <2>1, <2>2, <2>3, <2>6 DEF Flight, Clearing, Walking
  <1>4. CASE RemoveEntry
    <2>1. pc = "rmdir" /\ UNCHANGED <<queue, removal>>
          /\ pc' \in {"error", "matchAlias"} /\ (pc' = "matchAlias" => entry' = [entry EXCEPT ![Target] = NoEntry])
      BY <1>4 DEF RemoveEntry, Removing, Goto, work
    <2>2. removal.entries = 1
      BY <2>1 DEF Flight, Clearing
    <2>3. Target' = Target
      BY <2>1 DEF Target
    <2>4. pc' = "matchAlias" => entry'[Target] = NoEntry
      BY <1>1, <2>1 DEF TypeInv, TypeOK
    <2> QED BY <2>1, <2>2, <2>3, <2>4 DEF Flight, Is, Clearing, Walking
  <1>5. CASE MatchAlias
    <2>1. CASE ~NamesTarget
      BY <1>5, <2>1, RemovedFlight DEF MatchAlias
    <2>2. CASE NamesTarget
      <3>1. pc = "matchAlias" /\ pc' = "dropAlias" /\ UNCHANGED <<queue, removal, cache>>
        BY <1>5, <2>2 DEF MatchAlias, Removing, Goto
      <3>2. removal.entries = 1
        BY <3>1 DEF Flight, Clearing
      <3>3. NamesTarget'
        BY <2>2, <3>1 DEF NamesTarget, Target, cache
      <3> QED BY <3>1, <3>2, <3>3 DEF Flight, Clearing, Walking
    <2> QED BY <2>1, <2>2
  <1>6. CASE DropAlias
    BY <1>6, RemovedFlight DEF DropAlias
  <1>7. CASE AliasVanishes
    <2>1. pc = "aliasSize" /\ pc' = "error" /\ UNCHANGED <<queue, removal>>
      BY <1>7 DEF AliasVanishes, Removing, Goto, work
    <2> QED BY <2>1 DEF Flight, Clearing, Walking
  <1> QED BY <1>2, <1>3, <1>4, <1>5, <1>6, <1>7 DEF RemoveVersion

LEMMA FlightKept == ASSUME TypeInv, Control, OwnStep, Flight PROVE Flight'
  <1>1. CASE Start
    <2>1. removal = Nothing /\ removal' = removal
      BY <1>1 DEF Start, Flight
    <2>2. pc' \in {"policy", "measure"}
      BY <1>1 DEF Start, Walk, Goto
    <2>3. pc' = "measure" /\ queue' # <<>> => todo' # {}
      BY <1>1 DEF Start, Goto, Walk, Control
    <2> QED BY <2>1, <2>2, <2>3 DEF Flight, Nothing, Clearing, Walking
  <1>2. CASE Measure
    BY <1>2, MeasureFlight
  <1>3. CASE Inspect
    <2>1. pc \in Walking /\ removal' = removal
      BY <1>3 DEF Inspect, ListVersions, ReadLatestAlias, InspectEntry, InspectFails, EndOfModule, Inspected, work,
                  Walking
    <2>2. pc' \in Walking \union {"error", "select", "sizeError", "ok", "notFound", "problems"}
      BY <1>3, <2>1 DEF Inspect, ListVersions, ReadLatestAlias, InspectEntry, InspectFails, EndOfModule, Inspected,
                  Report, Goto, Walking
    <2> QED BY <2>1, <2>2 DEF Flight, Clearing, Walking
  <1>4. CASE Prune
    <2>1. pc \in {"select", "next"} /\ removal' = removal /\ pc' \in {"next", "measure", "ok"}
      BY <1>4 DEF Prune, SelectEntries, NextEntry, AllRemoved, Walk, Goto
    <2>2. removal = Nothing
      BY <2>1 DEF Flight
    <2>3. pc' = "measure" /\ queue' # <<>> => todo' # {}
      BY <1>4 DEF Prune, SelectEntries, NextEntry, AllRemoved, Walk, Goto
    <2> QED BY <2>1, <2>2, <2>3 DEF Flight, Nothing, Clearing, Walking
  <1>5. CASE RemoveVersion
    BY <1>5, RemoveVersionFlight
  <1>6. CASE Wipe
    <2>1. pc' \in {"wipe", "error", "ok"}
      BY <1>6 DEF Wipe, WipeModule, WipeItem, Wiped, Goto
    <2> QED BY <2>1 DEF Flight, Clearing, Walking
  <1> QED BY <1>1, <1>2, <1>3, <1>4, <1>5, <1>6 DEF OwnStep

(* What a step of the removal of one entry does. *)
LEMMA EmptyEntryDoes == ASSUME TypeInv, Flight, EmptyEntry
    PROVE /\ pc = "empty" /\ pc' = "rmdir" /\ Target \in Entry /\ Target' = Target
          /\ Is(Target) /\ Is(Target)' /\ entry'[Target].size = 0 /\ removal.bytes = entry[Target].size + Held
          /\ entry[Target].size \in Nat /\ entry[Target] # NoEntry /\ entry'[Target] # NoEntry
          /\ \A f \in Entry : f # Target => entry'[f] = entry[f]
          /\ UNCHANGED <<staged, alias, stray, removal, total, queue, before, command>>
  <1>1. pc = "empty" /\ pc' = "rmdir" /\ UNCHANGED <<queue, removal, total>> /\ entry' = Emptied(Target) /\ queue # <<>>
        /\ UNCHANGED <<staged, alias, stray, before, command>>
    BY DEF EmptyEntry, Removing, Goto, work, Idle
  <1>2. Is(Target) /\ removal.bytes = entry[Target].size + Held
    BY <1>1 DEF Flight, Clearing
  <1>3. Target' = Target /\ Target \in Entry
    BY <1>1, TargetType DEF Target
  <1>4. entry'[Target] = Directory(0, now, "incomplete")
    BY <1>1, <1>2, <1>3 DEF Emptied, Is, TypeInv, TypeOK
  <1>5. Directory(0, now, "incomplete") \in VersionDir
    BY DirectoryType DEF TypeInv, TypeOK, Status
  <1>6. Is(Target)' /\ entry'[Target].size = 0 /\ entry'[Target] # NoEntry
    BY <1>3, <1>4, <1>5, CachePruneAssumption DEF Is, Directory, CachePruneAssumption
  <1>7. entry[Target] \in VersionDir
    BY <1>2, <1>3 DEF Is, TypeInv, TypeOK
  <1>8. \A f \in Entry : f # Target => entry'[f] = entry[f]
    BY <1>1 DEF Emptied, TypeInv, TypeOK
  <1> QED BY <1>1, <1>2, <1>3, <1>6, <1>7, <1>8 DEF VersionDir, Is

LEMMA RemoveEntryDoes == ASSUME TypeInv, Flight, RemoveEntry
    PROVE /\ pc = "rmdir" /\ pc' = "matchAlias" /\ Target \in Entry /\ Target' = Target
          /\ Is(Target) /\ ~Is(Target)' /\ entry[Target].size = 0
          /\ entry[Target] # NoEntry /\ entry'[Target] = NoEntry
          /\ \A f \in Entry : f # Target => entry'[f] = entry[f]
          /\ UNCHANGED <<staged, alias, stray, removal, total, queue, before, command>>
  <1>1. pc = "rmdir" /\ UNCHANGED <<queue, removal, total>> /\ queue # <<>>
        /\ UNCHANGED <<staged, alias, stray, before, command>>
    BY DEF RemoveEntry, Removing, work, Idle
  <1>2. Is(Target) /\ entry[Target].size = 0
    BY <1>1 DEF Flight
  <1>3. Target' = Target /\ Target \in Entry
    BY <1>1, TargetType DEF Target
  <1>4. pc' = "matchAlias" /\ entry' = [entry EXCEPT ![Target] = NoEntry]
    BY <1>2 DEF RemoveEntry, Goto
  <1>5. entry'[Target] = NoEntry /\ \A f \in Entry : f # Target => entry'[f] = entry[f]
    BY <1>3, <1>4 DEF TypeInv, TypeOK
  <1> QED BY <1>1, <1>2, <1>3, <1>4, <1>5 DEF Is

LEMMA RemovedDoes == ASSUME TypeInv, Removed
    PROVE /\ pc' \in {"next", "ok"} /\ queue' = Tail(queue)
          /\ total'.bytes = total.bytes + removal.bytes /\ total'.entries = total.entries + removal.entries
  BY DEF Removed, Goto, TypeInv, TypeOK

LEMMA DropAliasDoes == ASSUME TypeInv, Flight, DropAlias
    PROVE /\ pc = "dropAlias" /\ Target \in Entry /\ Target[1] \in Module /\ NamesTarget /\ alias[Target[1]] # NoVersion
          /\ alias' = [alias EXCEPT ![Target[1]] = NoVersion] /\ UNCHANGED <<entry, staged, stray, before, command>>
          /\ Removed
  <1>1. pc = "dropAlias" /\ queue # <<>>
        /\ alias' = [alias EXCEPT ![Target[1]] = NoVersion] /\ UNCHANGED <<entry, staged, stray, before, command>>
        /\ Removed
    BY DEF DropAlias, Removing, Idle
  <1>2. NamesTarget
    BY <1>1 DEF Flight
  <1>3. Target \in Entry /\ Target[1] \in Module /\ Target[2] \in Version
    BY <1>1, TargetType DEF Entry
  <1> QED BY <1>1, <1>2, <1>3, CachePruneAssumption DEF NamesTarget, CachePruneAssumption

(* A wipe that is over has taken all of what it is about. *)
LEMMA WipeEnds ==
    ASSUME TypeInv, WipeBooks, Wiped
    PROVE  /\ pc' = "ok" /\ total' = removal /\ UNCHANGED <<cache, command, before>>
           /\ before.size = TotalSize + removal.bytes
           /\ command.op = "clean" => \A e \in Entry : ~Is(e)
  <1>1. pc = "wipe" /\ mods = {} /\ todo = {} /\ UNCHANGED <<cache, command, before>>
    BY DEF Wiped, Idle
  <1>2. \A i \in Item : Scope(i) => ~Present(i)
    BY <1>1 DEF WipeBooks
  <1>3. ASSUME NEW m \in Module, command.mod \in {NoVersion, m}, NEW i \in Items(m) PROVE FALSE
    <2>1. i \in Item /\ Present(i) /\ ModuleOf(i) = m
      BY <1>3, ItemModule DEF Items
    <2>2. Scope(i)
      BY <1>3, <2>1, CommandType, CachePruneAssumption DEF Scope, TypeInv, CachePruneAssumption
    <2> QED BY <1>2, <2>1, <2>2
  <1>4. pc' = "ok" /\ total' = removal
    BY <1>3 DEF Wiped, Goto
  <1>5. PICK g : g = Outside
    OBVIOUS
  <1>6. PICK h : h = Weight
    OBVIOUS
  <1>7. \A i \in Item : h[i] = g[i]
    BY <1>2, <1>5, <1>6 DEF Outside, Weight
  <1>8. SumOf(h, Item) = SumOf(g, Item)
    BY <1>7, ItemFinite, SumSame
  <1>9. TotalSize = SumOf(h, Item)
    BY <1>6, TotalFor DEF TypeInv
  <1>10. before.size = removal.bytes + SumOf(g, Item)
    BY <1>1, <1>5 DEF WipeBooks
  <1>11. \A i \in Item : h[i] \in Nat
    BY <1>6, WeightType DEF TypeInv
  <1>12. SumOf(h, Item) \in Nat
    BY <1>11, ItemFinite, SumType
  <1>13. before.size = TotalSize + removal.bytes
    BY <1>8, <1>9, <1>10, <1>12, BooksTyped
  <1>14. ASSUME command.op = "clean", NEW e \in Entry PROVE ~Is(e)
    <2>1. <<"entry", e>> \in Item /\ Scope(<<"entry", e>>)
      BY <1>14, ItemIn DEF Scope
    <2> QED BY <1>2, <2>1 DEF Present, Is
  <1> QED BY <1>1, <1>4, <1>13, <1>14

LEMMA BalanceKept ==
    ASSUME TypeInv, TypeInv', Control, OwnStep, Balance, Flight, WipeBooks PROVE Balance'
  <1>0. UNCHANGED <<command, before>> /\ before.size \in Nat /\ before'.size \in Nat
    BY OwnApart DEF Balance
  <1>1. CASE EmptyEntry
    <2>1. TotalSize' + entry[Target].size = TotalSize /\ TotalSize \in Nat /\ TotalSize' \in Nat
      BY <1>1, EmptyEntryDoes, EntryWeight
    <2>2. before.size = TotalSize + total.bytes /\ Held \in Nat /\ Held' = Held
      BY <1>1, EmptyEntryDoes DEF Balance, Busy, Held, NamesTarget, AliasBytes
    <2>3. before'.size + Held' = TotalSize' + total'.bytes + removal'.bytes
      BY <1>1, <2>1, <2>2, EmptyEntryDoes, BooksTyped
    <2> QED BY <1>1, <2>3, EmptyEntryDoes DEF Balance, Busy
  <1>2. CASE RemoveEntry
    <2>1. TotalSize' = TotalSize
      BY <1>2, RemoveEntryDoes, EntryWeight
    <2>2. before.size + Held = TotalSize + total.bytes + removal.bytes /\ Held' = Held
      BY <1>2, RemoveEntryDoes DEF Balance, Busy, Held, NamesTarget
    <2> QED BY <1>2, <2>1, <2>2, RemoveEntryDoes DEF Balance, Busy
  <1>3. CASE MatchAlias
    <2>1. pc = "matchAlias" /\ UNCHANGED cache
      BY <1>3 DEF MatchAlias, Removing
    <2>2. TotalSize' = TotalSize /\ TotalSize \in Nat
      BY <2>1, TotalSame
    <2>3. before.size + Held = TotalSize + total.bytes + removal.bytes
      BY <2>1 DEF Balance, Busy
    <2>4. CASE NamesTarget
      <3>1. pc' = "dropAlias" /\ UNCHANGED <<queue, removal, total>>
        BY <1>3, <2>4 DEF MatchAlias, Goto
      <3>2. Held' = Held
        BY <2>1, <3>1 DEF Held, NamesTarget, Target, cache
      <3> QED BY <1>0, <2>2, <2>3, <3>1, <3>2 DEF Balance, Busy
    <2>5. CASE ~NamesTarget
      <3>1. Removed
        BY <1>3, <2>5 DEF MatchAlias
      <3>2. before.size + 0 = TotalSize + total.bytes + removal.bytes
        BY <2>3, <2>5 DEF Held
      <3>3. before'.size = TotalSize' + total'.bytes
        <4>1. PICK n \in Nat, k \in Nat, r \in Nat : n = TotalSize /\ k = total.bytes /\ r = removal.bytes
          BY <2>2, BooksTyped
        <4>2. before'.size + 0 = n + k + r
          BY <1>0, <3>2, <4>1
        <4>3. TotalSize' = n /\ total'.bytes = k + r
          BY <2>2, <3>1, <4>1, RemovedDoes
        <4> QED BY <1>0, <4>2, <4>3
      <3>4. pc' \in {"next", "ok"}
        BY <3>1, RemovedDoes
      <3> QED BY <1>0, <3>3, <3>4 DEF Balance, Busy
    <2> QED BY <2>4, <2>5
  <1>4. CASE DropAlias
    <2>1. TotalSize' + AliasBytes = TotalSize /\ TotalSize \in Nat /\ TotalSize' \in Nat
      BY <1>4, DropAliasDoes, AliasWeight
    <2>2. before.size + AliasBytes = TotalSize + total.bytes + removal.bytes
      BY <1>4, DropAliasDoes DEF Balance, Busy, Held
    <2>3. PICK n \in Nat, k \in Nat, r \in Nat : n = TotalSize' /\ k = total.bytes /\ r = removal.bytes
      BY <2>1, BooksTyped
    <2>4. before.size + 1 = (n + 1) + k + r
      BY <2>1, <2>2, <2>3 DEF AliasBytes
    <2>5. total'.bytes = k + r /\ pc' \in {"next", "ok"}
      BY <1>4, <2>3, DropAliasDoes, RemovedDoes
    <2>6. before'.size = TotalSize' + total'.bytes
      BY <1>0, <2>3, <2>4, <2>5
    <2> QED BY <1>0, <2>5, <2>6 DEF Balance, Busy
  <1>5. CASE Wipe
    <2>1. CASE Wiped
      BY <1>0, <2>1, WipeEnds, TotalSame DEF Balance, Busy
    <2>2. CASE ~Wiped
      BY <1>0, <1>5, <2>2 DEF Wipe, WipeModule, WipeItem, Balance, Busy
    <2> QED BY <2>1, <2>2
  <1>6. CASE ~EmptyEntry /\ ~RemoveEntry /\ ~MatchAlias /\ ~DropAlias /\ ~Wipe
    <2>1. UNCHANGED <<cache, total>>
      BY <1>6, Removes, Totals DEF Wipe
    <2>2. pc \notin Busy \union {"wipe"}
      BY <1>6 DEF OwnStep, Start, Measure, MeasureModule, MeasureItem, MeasureFails, MeasuredRoot, MeasuredEntry,
              MeasuredModule, MeasuredCache, Measured, Inspect, ListVersions, ReadLatestAlias, InspectEntry,
              InspectFails, EndOfModule, Inspected, Prune, SelectEntries, NextEntry, AllRemoved, RemoveVersion,
              AliasVanishes, MatchAliasSize, Removing, Busy
    <2>3. pc' \notin Busy
      BY <1>6, Labels DEF Busy
    <2> QED BY <1>0, <2>1, <2>2, <2>3, TotalSame DEF Balance
  <1> QED BY <1>1, <1>2, <1>3, <1>4, <1>5, <1>6

LEMMA GoneFinite == IsFiniteSet(Gone) /\ Cardinality(Gone) \in Nat
  <1>1. Gone \subseteq Entry
    BY DEF Gone
  <1> QED BY <1>1, EntryFinite, FS_Subset, FS_CardinalityType

LEMMA GoneSame ==
    ASSUME UNCHANGED before, \A e \in Entry : Is(e)' <=> Is(e)
    PROVE  Gone' = Gone
  BY DEF Gone, Was

LEMMA CountedKept ==
    ASSUME TypeInv, TypeInv', Control, OwnStep, Flight, WipeBooks, Counted PROVE Counted'
  <1>0. UNCHANGED <<command, before>>
    BY OwnApart
  <1> SUFFICES ASSUME \A e \in Entry : Is(e)' => Is(e)
               PROVE  command'.op # "remove" /\ pc' # "wipe" =>
                        Cardinality(Gone)' = total'.entries + IF pc' \in {"matchAlias", "dropAlias"} THEN 1 ELSE 0
    <2>1. ASSUME NEW e \in Entry PROVE Is(e)' => Is(e)
      <3>1. CASE UNCHANGED entry
        BY <3>1 DEF Is
      <3>2. CASE EmptyEntry
        BY <3>2, EmptyEntryDoes DEF Is
      <3>3. CASE RemoveEntry
        BY <3>3, RemoveEntryDoes DEF Is
      <3>4. ASSUME NEW i \in Item, WipeItem(i) PROVE Is(e)' => Is(e)
        BY <3>4 DEF WipeItem, Is
      <3> QED BY <3>1, <3>2, <3>3, <3>4, Removes DEF cache, DropAlias
    <2> QED BY <1>0, <2>1 DEF Counted, Was
  <1> SUFFICES ASSUME command.op # "remove", pc' # "wipe"
               PROVE  Cardinality(Gone)' = total'.entries + IF pc' \in {"matchAlias", "dropAlias"} THEN 1 ELSE 0
    BY <1>0
  <1>1. CASE EmptyEntry
    <2>1. \A e \in Entry : Is(e)' <=> Is(e)
      BY <1>1, EmptyEntryDoes DEF Is
    <2>2. Gone' = Gone
      BY <1>0, <2>1, GoneSame
    <2>3. Cardinality(Gone) = total.entries
      BY <1>1, EmptyEntryDoes, BooksTyped DEF Counted
    <2>4. pc' = "rmdir" /\ total' = total
      BY <1>1, EmptyEntryDoes
    <2> QED BY <2>2, <2>3, <2>4, BooksTyped
  <1>2. CASE RemoveEntry
    <2>1. Gone' = Gone \union {Target} /\ Target \notin Gone
      <3>1. \A e \in Entry : Is(e)' <=> Is(e) /\ e # Target
        BY <1>2, RemoveEntryDoes DEF Is
      <3>2. Was(Target) /\ Is(Target) /\ Target \in Entry
        BY <1>2, RemoveEntryDoes DEF Counted
      <3> QED BY <1>0, <3>1, <3>2 DEF Gone, Was
    <2>2. Cardinality(Gone \union {Target}) = Cardinality(Gone) + 1
      BY <2>1, GoneFinite, FS_AddElement
    <2>3. Cardinality(Gone) = total.entries
      BY <1>2, RemoveEntryDoes, BooksTyped DEF Counted
    <2>4. pc' = "matchAlias" /\ total' = total
      BY <1>2, RemoveEntryDoes
    <2> QED BY <2>1, <2>2, <2>3, <2>4
  <1>3. CASE MatchAlias
    <2>1. pc = "matchAlias" /\ UNCHANGED entry
      BY <1>3 DEF MatchAlias, Removing, cache
    <2>2. Gone' = Gone
      BY <1>0, <2>1, GoneSame DEF Is
    <2>3. Cardinality(Gone) = total.entries + 1 /\ removal.entries = 1
      BY <2>1 DEF Counted, Flight, Clearing
    <2>4. CASE NamesTarget
      <3>1. pc' = "dropAlias" /\ UNCHANGED total
        BY <1>3, <2>4 DEF MatchAlias, Goto
      <3> QED BY <2>2, <2>3, <3>1
    <2>5. CASE ~NamesTarget
      <3>1. Removed
        BY <1>3, <2>5 DEF MatchAlias
      <3> QED BY <2>2, <2>3, <3>1, RemovedDoes, BooksTyped
    <2> QED BY <2>4, <2>5
  <1>4. CASE DropAlias
    <2>1. Gone' = Gone
      BY <1>0, <1>4, DropAliasDoes, GoneSame DEF Is
    <2>2. Cardinality(Gone) = total.entries + 1 /\ removal.entries = 1
      BY <1>4, DropAliasDoes DEF Counted, Flight, Clearing
    <2> QED BY <1>4, <2>1, <2>2, DropAliasDoes, RemovedDoes, BooksTyped
  <1>5. CASE Wipe
    <2>1. Wiped
      BY <1>5 DEF Wipe, WipeModule, WipeItem
    <2>2. pc' = "ok" /\ total' = removal /\ UNCHANGED entry
      BY <2>1, WipeEnds DEF cache
    <2>3. command.op = "clean" /\ pc = "wipe"
      BY <2>1 DEF Wiped, Control
    <2>4. removal.entries = Cardinality({e \in Entry : Was(e)})
      BY <2>3 DEF WipeBooks
    <2>5. Gone' = {e \in Entry : Was(e)}
      BY <1>0, <2>1, <2>2, <2>3, WipeEnds DEF Gone, Was, Is
    <2>6. Cardinality(Gone)' = removal.entries
      BY <2>4, <2>5
    <2> QED BY <2>2, <2>6, BooksTyped
  <1>6. CASE ~EmptyEntry /\ ~RemoveEntry /\ ~MatchAlias /\ ~DropAlias /\ ~Wipe
    <2>1. UNCHANGED <<cache, total>>
      BY <1>6, Removes, Totals DEF Wipe
    <2>2. pc \notin {"matchAlias", "dropAlias", "wipe"}
      BY <1>6 DEF OwnStep, Start, Measure, MeasureModule, MeasureItem, MeasureFails, MeasuredRoot, MeasuredEntry,
              MeasuredModule, MeasuredCache, Measured, Inspect, ListVersions, ReadLatestAlias, InspectEntry,
              InspectFails, EndOfModule, Inspected, Prune, SelectEntries, NextEntry, AllRemoved, RemoveVersion,
              AliasVanishes, MatchAliasSize, Removing
    <2>3. pc' \notin {"matchAlias", "dropAlias"}
      BY <1>6, Labels
    <2>4. Gone' = Gone
      BY <1>0, <2>1, GoneSame DEF Is, cache
    <2> QED BY <2>1, <2>2, <2>3, <2>4 DEF Counted
  <1> QED BY <1>1, <1>2, <1>3, <1>4, <1>5, <1>6

(* All of it together, in a cache nobody else has changed.                 *)
QuietBooks == Quiet => Books

LEMMA InitBooks == Init => QuietBooks
  <1> SUFFICES ASSUME Init PROVE Books
    BY DEF QuietBooks
  <1>1. TypeInv
    BY InitTypes
  <1>2. /\ pc = "start" /\ removal = Nothing /\ total = Nothing /\ before.size = TotalSize
        /\ before.entry = entry /\ before.alias = alias
    BY DEF Init
  <1>3. TotalSize \in Nat
    BY <1>1, TotalType
  <1>4. Gone = {}
    BY <1>2 DEF Gone, Was, Is
  <1>5. Balance
    BY <1>2, <1>3 DEF Balance, Busy, Nothing
  <1>6. Counted
    BY <1>2, <1>4, FS_EmptySet DEF Counted, Was, Is, Nothing
  <1> QED BY <1>2, <1>5, <1>6 DEF Books, Intact, Flight, Walked, WipeBooks, Clearing, Walking

LEMMA BooksKept == TypeInv /\ TypeInv' /\ Control /\ QuietBooks /\ [Next]_vars => QuietBooks'
  <1> SUFFICES ASSUME TypeInv, TypeInv', Control, QuietBooks, [Next]_vars, Quiet' PROVE Books'
    BY DEF QuietBooks
  <1>1. Books
    BY QuietStep DEF QuietBooks
  <1>2. CASE OwnStep
    <2>1. Intact' /\ Flight'
      BY <1>1, <1>2, IntactKept, FlightKept DEF Books
    <2>2. Walked' /\ WipeBooks'
      BY <1>1, <1>2, WalkedKept, WipingKept DEF Books
    <2>3. Balance' /\ Counted'
      BY <1>1, <1>2, BalanceKept, CountedKept DEF Books
    <2> QED BY <2>1, <2>2, <2>3 DEF Books
  <1>3. CASE UNCHANGED <<pc, work, cache>>
    <2>0. UNCHANGED <<pc, pass, mods, todo, queue, removal, total, entry, staged, alias, stray, command, before>>
      BY <1>3, QuietStep DEF work, cache
    <2>1. TotalSize' = TotalSize /\ Weight' = Weight
      BY <1>3, TotalSame, WeightSame
    <2>2. Intact'
      BY <1>1, <2>0 DEF Books, Intact, BeforeRemoval, Nothing
    <2>3. Flight'
      BY <1>1, <2>0 DEF Books, Flight, Held, NamesTarget, Target, Is, Nothing, Clearing, Walking
    <2>4. Walked'
      <3>1. Seen' = Seen
        BY <2>0, <2>1 DEF Seen, Scope
      <3>2. SumOf(Seen, Item)' = SumOf(Seen, Item)
        BY <3>1
      <3> QED BY <1>1, <2>0, <3>2 DEF Books, Walked, Scope
    <2>5. WipeBooks'
      <3>1. Outside' = Outside
        BY <2>0, <2>1 DEF Outside, Scope
      <3>2. SumOf(Outside, Item)' = SumOf(Outside, Item)
        BY <3>1
      <3> QED BY <1>1, <2>0, <3>2 DEF Books, WipeBooks, Scope, Present, Was
    <2>6. Balance'
      BY <1>1, <2>0, <2>1 DEF Books, Balance, Held, NamesTarget, Target, Busy
    <2>7. Counted'
      <3>1. Gone' = Gone
        BY <2>0 DEF Gone, Was, Is
      <3> QED BY <1>1, <2>0, <3>1 DEF Books, Counted, Was, Is
    <2> QED BY <2>2, <2>3, <2>4, <2>5, <2>6, <2>7 DEF Books
  <1> QED BY <1>2, <1>3, QuietStep

LEMMA BooksBalance == Spec => []QuietBooks
  <1>1. ControlInv => Control
    BY DEF ControlInv
  <1> QED BY <1>1, InitBooks, BooksKept, Types, Controls, PTL DEF Spec

LEMMA AccountingNow == TypeInv /\ QuietBooks => AccountingExact
  <1> SUFFICES ASSUME TypeInv, QuietBooks, pc \in Result, touched = {}
               PROVE  /\ total.bytes = before.size - TotalSize
                      /\ command.op # "remove" => total.entries = Cardinality({e \in Entry : Was(e) /\ ~Is(e)})
    BY DEF AccountingExact, Returned
  <1>1. Books
    BY DEF QuietBooks, Quiet
  <1>2. before.size = TotalSize + total.bytes /\ before.size \in Nat
    BY <1>1 DEF Books, Balance, Result, Busy
  <1>3. TotalSize \in Nat
    BY TotalType
  <1>4. command.op # "remove" => Cardinality(Gone) = total.entries + 0
    BY <1>1 DEF Books, Counted, Result
  <1> QED BY <1>2, <1>3, <1>4, BooksTyped DEF Gone

(* Whatever a removal, a clean or a prune returns with, the bytes it       *)
(* reports are the bytes that are gone, latest included, and the entries a *)
(* clean or a prune reports are the version directories that are gone, in  *)
(* a cache nobody else changes.                                            *)
THEOREM RemovalAccounted == Spec => []AccountingExact
  BY AccountingNow, Types, BooksBalance, PTL

-----------------------------------------------------------------------------
(* Prune by size. *)

(* What an entry took with it when it was removed. *)
SizeBefore ==
    [e \in Entry |-> IF Was(e) THEN before.entry[e].size + (IF before.alias[e[1]] = e[2] THEN AliasBytes ELSE 0)
                     ELSE 0]

LEMMA SizeBeforeType == ASSUME TypeInv PROVE \A e \in Entry : SizeBefore[e] \in Nat
  <1> SUFFICES ASSUME NEW e \in Entry PROVE SizeBefore[e] \in Nat
    OBVIOUS
  <1>1. CASE Was(e)
    <2>1. before.entry[e] \in VersionDir
      BY <1>1 DEF TypeInv, TypeOK, Was
    <2>2. before.entry[e].size \in Nat
      BY <2>1 DEF VersionDir
    <2> QED BY <1>1, <2>2 DEF SizeBefore, AliasBytes
  <1>2. CASE ~Was(e)
    BY <1>2 DEF SizeBefore
  <1> QED BY <1>1, <1>2

LEMMA SizeBeforeSame == UNCHANGED before => SizeBefore' = SizeBefore
  BY DEF SizeBefore, Was

(* What a prune has not removed is as it was. *)
AsBefore ==
    /\ \A m \in Module : alias[m] \in {before.alias[m], NoVersion}
    /\ \A e \in Entry : Is(e) /\ ~(pc = "rmdir" /\ e = Target) => entry[e] = before.entry[e]

(* What it has freed is what went with the entries that are gone.          *)
Freed ==
    /\ pc \notin {"matchAlias", "dropAlias"} => total.bytes = SumOf(SizeBefore, Gone)
    /\ pc \in {"matchAlias", "dropAlias"} => total.bytes + removal.bytes = SumOf(SizeBefore, Gone)
    /\ pc \in {"empty", "rmdir", "matchAlias", "dropAlias"} => removal.bytes = SizeBefore[Target]

LEMMA AsBeforeKept ==
    ASSUME TypeInv, Control, OwnStep, command.op = "prune", Flight, AsBefore PROVE AsBefore'
  <1>0. UNCHANGED <<command, before>> /\ pc # "wipe"
    BY OwnApart DEF Control
  <1>1. CASE UNCHANGED cache
    <2>1. UNCHANGED <<entry, alias>>
      BY <1>1 DEF cache
    <2>2. pc # "rmdir"
      <3> SUFFICES ASSUME pc = "rmdir" PROVE FALSE
        OBVIOUS
      <3>1. RemoveEntry
        BY DEF OwnStep, Start, Measure, MeasureModule, MeasureItem, MeasureFails, MeasuredRoot, MeasuredEntry,
              MeasuredModule, MeasuredCache, Measured, Inspect, ListVersions, ReadLatestAlias, InspectEntry,
              InspectFails, EndOfModule, Inspected, Prune, SelectEntries, NextEntry, AllRemoved, RemoveVersion,
              AliasVanishes, MatchAliasSize, EmptyEntry, MatchAlias, DropAlias, Removing, Wipe, WipeModule,
              WipeItem, Wiped
      <3> QED BY <2>1, <3>1, RemoveEntryDoes
    <2> QED BY <1>0, <1>1, <2>1, <2>2 DEF AsBefore, Is
  <1>2. CASE EmptyEntry
    BY <1>0, <1>2, EmptyEntryDoes DEF AsBefore, Is
  <1>3. CASE RemoveEntry
    BY <1>0, <1>3, RemoveEntryDoes DEF AsBefore, Is
  <1>4. CASE DropAlias
    <2>1. alias' = [alias EXCEPT ![Target[1]] = NoVersion] /\ UNCHANGED entry /\ pc = "dropAlias"
      BY <1>4, DropAliasDoes
    <2> QED BY <1>0, <2>1 DEF AsBefore, Is, TypeInv, TypeOK
  <1> QED BY <1>0, <1>1, <1>2, <1>3, <1>4, Removes DEF WipeItem

LEMMA HeldBefore ==
    ASSUME TypeInv, Quiet, Follows, AsBefore, Counted, pc = "aliasSize", Target \in Entry, Is(Target)
    PROVE  entry[Target].size + Held = SizeBefore[Target]
  <1>1. Was(Target) /\ entry[Target] = before.entry[Target]
    BY DEF Counted, AsBefore
  <1>2. PICK m \in Module, v \in Version : Target = <<m, v>>
    BY DEF Entry
  <1>3. alias[m] = v => before.alias[m] = v
    BY CachePruneAssumption DEF AsBefore, CachePruneAssumption
  <1>4. ASSUME before.alias[m] = v PROVE alias[m] = v
    <2>1. Tracked(m, v)
      BY <1>1, <1>2, <1>4 DEF Tracked, Untouched, Quiet
    <2>2. Following(m, v)
      BY <2>1 DEF Follows
    <2> QED BY <1>2, <2>2 DEF Following, Emptying, Together
  <1>5. Held = IF before.alias[Target[1]] = Target[2] THEN AliasBytes ELSE 0
    BY <1>2, <1>3, <1>4 DEF Held, NamesTarget
  <1> QED BY <1>1, <1>5 DEF SizeBefore

LEMMA FreedKept ==
    ASSUME TypeInv, TypeInv', Control, OwnStep, command.op = "prune", Quiet, Flight, Counted, Follows, AsBefore, Freed
    PROVE  Freed'
  <1>0. UNCHANGED <<command, before>> /\ SizeBefore' = SizeBefore /\ pc # "wipe"
    BY OwnApart, SizeBeforeSame DEF Control
  <1>1. CASE EmptyEntry
    <2>1. \A e \in Entry : Is(e)' <=> Is(e)
      BY <1>1, EmptyEntryDoes DEF Is
    <2>2. Gone' = Gone
      BY <1>0, <2>1, GoneSame
    <2>3. SumOf(SizeBefore, Gone)' = SumOf(SizeBefore, Gone)
      BY <1>0, <2>2
    <2> QED BY <1>0, <1>1, <2>3, EmptyEntryDoes DEF Freed
  <1>2. CASE RemoveEntry
    <2>1. Gone' = Gone \union {Target} /\ Target \notin Gone
      <3>1. \A e \in Entry : Is(e)' <=> Is(e) /\ e # Target
        BY <1>2, RemoveEntryDoes DEF Is
      <3>2. Was(Target) /\ Is(Target) /\ Target \in Entry
        BY <1>2, RemoveEntryDoes DEF Counted
      <3> QED BY <1>0, <3>1, <3>2 DEF Gone, Was
    <2>2. PICK S, f, x : S = Gone \union {Target} /\ f = SizeBefore /\ x = Target
      OBVIOUS
    <2>3. IsFiniteSet(S)
      BY <2>2, GoneFinite, FS_AddElement
    <2>4. \A e \in S : f[e] \in Nat
      BY <1>2, <2>2, SizeBeforeType, RemoveEntryDoes DEF Gone
    <2>5. SumOf(f, S) = f[x] + SumOf(f, S \ {x})
      BY <2>2, <2>3, <2>4, SumTake
    <2>6. S \ {x} = Gone
      BY <2>1, <2>2
    <2>7. SumOf(SizeBefore, Gone)' = SumOf(f, S)
      BY <1>0, <2>1, <2>2
    <2>8. total.bytes = SumOf(f, S \ {x}) /\ removal.bytes = f[x]
      BY <1>2, <2>2, <2>6, RemoveEntryDoes DEF Freed
    <2>9. total'.bytes + removal'.bytes = SumOf(SizeBefore, Gone)'
      BY <1>2, <2>5, <2>7, <2>8, RemoveEntryDoes, BooksTyped
    <2> QED BY <1>0, <1>2, <2>9, RemoveEntryDoes DEF Freed
  <1>3. CASE MatchAlias
    <2>1. pc = "matchAlias" /\ UNCHANGED entry
      BY <1>3 DEF MatchAlias, Removing, cache
    <2>2. Gone' = Gone
      BY <1>0, <2>1, GoneSame DEF Is
    <2>3. SumOf(SizeBefore, Gone)' = SumOf(SizeBefore, Gone)
      BY <1>0, <2>2
    <2>4. CASE NamesTarget
      <3>1. pc' = "dropAlias" /\ UNCHANGED <<queue, total, removal>>
        BY <1>3, <2>4 DEF MatchAlias, Goto
      <3> QED BY <1>0, <2>1, <2>3, <3>1 DEF Freed, Target
    <2>5. CASE ~NamesTarget
      <3>1. pc' \in {"next", "ok"} /\ total'.bytes = total.bytes + removal.bytes
        BY <1>3, <2>5, RemovedDoes DEF MatchAlias
      <3> QED BY <2>1, <2>3, <3>1 DEF Freed
    <2> QED BY <2>4, <2>5
  <1>4. CASE DropAlias
    <2>1. Gone' = Gone
      BY <1>0, <1>4, DropAliasDoes, GoneSame DEF Is
    <2>2. SumOf(SizeBefore, Gone)' = SumOf(SizeBefore, Gone)
      BY <1>0, <2>1
    <2>3. pc' \in {"next", "ok"} /\ total'.bytes = total.bytes + removal.bytes
      BY <1>4, DropAliasDoes, RemovedDoes
    <2> QED BY <1>4, <2>2, <2>3, DropAliasDoes DEF Freed
  <1>5. CASE MatchAliasSize
    <2>1. pc = "aliasSize" /\ pc' = "empty" /\ UNCHANGED <<queue, total, cache>> /\ queue # <<>>
          /\ removal' = [removal EXCEPT !.bytes = @ + (IF NamesTarget THEN AliasBytes ELSE 0)]
      BY <1>5 DEF MatchAliasSize, Removing, Goto
    <2>2. Is(Target) /\ removal.bytes = entry[Target].size /\ Target \in Entry /\ Target' = Target
      BY <2>1, TargetType DEF Flight, Target
    <2>3. removal'.bytes = removal.bytes + Held
      BY <2>1 DEF TypeInv, TypeOK, Held
    <2>4. removal'.bytes = SizeBefore[Target]
      BY <2>1, <2>2, <2>3, HeldBefore
    <2>5. Gone' = Gone
      BY <1>0, <2>1, GoneSame DEF Is, cache
    <2>6. SumOf(SizeBefore, Gone)' = SumOf(SizeBefore, Gone)
      BY <1>0, <2>5
    <2> QED BY <1>0, <2>1, <2>2, <2>4, <2>6 DEF Freed
  <1>6. CASE ~EmptyEntry /\ ~RemoveEntry /\ ~MatchAlias /\ ~DropAlias /\ ~MatchAliasSize
    <2>1. UNCHANGED <<cache, total>>
      BY <1>0, <1>6, Removes, Totals DEF WipeItem, Wiped
    <2>2. pc \notin {"matchAlias", "dropAlias"}
      BY <1>6 DEF OwnStep, Start, Measure, MeasureModule, MeasureItem, MeasureFails, MeasuredRoot, MeasuredEntry,
              MeasuredModule, MeasuredCache, Measured, Inspect, ListVersions, ReadLatestAlias, InspectEntry,
              InspectFails, EndOfModule, Inspected, Prune, SelectEntries, NextEntry, AllRemoved, RemoveVersion,
              AliasVanishes, Removing, Wipe, Wiped, WipeModule, WipeItem
    <2>3. pc' \notin {"empty", "rmdir", "matchAlias", "dropAlias"}
      BY <1>6, Labels
    <2>4. Gone' = Gone
      BY <1>0, <2>1, GoneSame DEF Is, cache
    <2>5. SumOf(SizeBefore, Gone)' = SumOf(SizeBefore, Gone)
      BY <1>0, <2>4
    <2> QED BY <2>1, <2>2, <2>3, <2>5 DEF Freed
  <1> QED BY <1>1, <1>2, <1>3, <1>4, <1>5, <1>6

(* What the inspection of a prune has measured is what is there.           *)
Sized == pc \in Walking \union {"select"} => measured = TotalSize

LEMMA InspectKeeps == ASSUME Inspect
    PROVE pc \in Walking /\ UNCHANGED <<pass, measured, queue, cache>>
  BY DEF Inspect, ListVersions, ReadLatestAlias, InspectEntry, InspectFails, EndOfModule, Inspected, work, inventory,
         Walking

(* The walks of an inspection begin at its sizes.                          *)
LEMMA WalkingFrom == ASSUME OwnStep, command.op = "prune", pc' \in Walking \union {"select"}
    PROVE MeasuredRoot \/ Inspect
  <1>1. CASE Start
    BY <1>1 DEF Start, Walk, Goto, Walking
  <1>2. CASE Measure
    BY <1>2 DEF Measure, MeasureModule, MeasureItem, MeasureFails, MeasuredEntry, MeasuredModule,
                MeasuredCache, Measured, Vanished, Walk, Goto, Walking
  <1>3. CASE Prune
    BY <1>3 DEF Prune, SelectEntries, NextEntry, AllRemoved, Walk, Goto, Walking
  <1>4. CASE RemoveVersion
    BY <1>4 DEF RemoveVersion, AliasVanishes, MatchAliasSize, EmptyEntry, RemoveEntry, MatchAlias, DropAlias,
                Removed, Goto, Walking
  <1>5. CASE Wipe
    BY <1>5 DEF Wipe, WipeModule, WipeItem, Wiped, Goto, Walking
  <1> QED BY <1>1, <1>2, <1>3, <1>4, <1>5 DEF OwnStep

LEMMA SizedKept ==
    ASSUME TypeInv, TypeInv', OwnStep, command.op = "prune", Walked, Sized PROVE Sized'
  <1> SUFFICES ASSUME pc' \in Walking \union {"select"} PROVE measured' = TotalSize'
    BY DEF Sized
  <1>1. CASE MeasuredRoot
    <2>1. Measured /\ queue = <<>> /\ measured' = removal.bytes /\ UNCHANGED cache
      BY <1>1 DEF MeasuredRoot
    <2>2. TotalSize = removal.bytes
      BY <2>1, WalkEnds
    <2> QED BY <2>1, <2>2, TotalSame
  <1>2. CASE Inspect
    BY <1>2, InspectKeeps, TotalSame DEF Sized
  <1> QED BY <1>1, <1>2, WalkingFrom

(* With a limit, a prune that returns has looked again.                    *)
Fits ==
    command.max # NoLimit =>
        /\ pc = "ok" => TotalSize <= command.max
        /\ pc = "sizeError" => TotalSize > command.max

LEMMA LimitReturns == ASSUME OwnStep, Control, command.op = "prune", command.max # NoLimit, pc' \in {"ok", "sizeError"}
    PROVE Inspected
  <1>0. pc # "wipe" /\ Inspecting
    BY DEF Control, Inspecting
  <1>1. CASE Start
    BY <1>1 DEF Start, Walk, Goto
  <1>2. CASE Measure
    <2>1. ~\E i \in Item : MeasureFails(i)
      BY <1>0 DEF MeasureFails, Vanished, Goto
    <2> QED BY <1>0, <1>2, <2>1 DEF Measure, MeasureModule, MeasureItem, MeasuredRoot, MeasuredEntry, MeasuredModule,
                MeasuredCache, Measured, Walk, Goto
  <1>3. CASE Inspect
    BY <1>3 DEF Inspect, ListVersions, ReadLatestAlias, InspectEntry, InspectFails, EndOfModule, Goto
  <1>4. CASE Prune
    BY <1>4 DEF Prune, SelectEntries, NextEntry, AllRemoved, Walk, Goto
  <1>5. CASE RemoveVersion
    BY <1>5 DEF RemoveVersion, AliasVanishes, MatchAliasSize, EmptyEntry, RemoveEntry, MatchAlias, DropAlias,
                Removed, Goto
  <1>6. CASE Wipe
    BY <1>0, <1>6 DEF Wipe, WipeModule, WipeItem, Wiped
  <1> QED BY <1>1, <1>2, <1>3, <1>4, <1>5, <1>6 DEF OwnStep

LEMMA FitsKept ==
    ASSUME TypeInv, TypeInv', OwnStep, Control, command.op = "prune", Sized PROVE Fits'
  <1>0. UNCHANGED command
    BY OwnApart
  <1> SUFFICES ASSUME command.max # NoLimit, pc' \in {"ok", "sizeError"}
               PROVE  /\ pc' = "ok" => TotalSize' <= command.max
                      /\ pc' = "sizeError" => TotalSize' > command.max
    BY <1>0 DEF Fits
  <1>1. Inspected
    BY LimitReturns
  <1>2. pc = "list" /\ UNCHANGED cache
    BY <1>1 DEF Inspected
  <1>3. pc' = IF measured > command.max THEN "sizeError" ELSE "ok"
    <2>1. pass # 1
      BY <1>1 DEF Inspected, Goto
    <2> QED BY <1>1, <2>1 DEF Inspected, Goto
  <1>4. measured = TotalSize
    BY <1>2 DEF Sized, Walking
  <1>5. TotalSize' = TotalSize /\ TotalSize \in Nat
    BY <1>2, TotalSame
  <1>6. command.max \in Int
    BY CommandType DEF TypeInv
  <1> QED BY <1>3, <1>4, <1>5, <1>6

(* What the first inspection of a prune has listed is as it was.           *)
ListedRight(e) ==
    listed[e] # NoEntry =>
        Was(e) /\ listed[e].size = SizeBefore[e] /\ listed[e].modified = before.entry[e].modified

Listings ==
    pass = 1 /\ pc \in Walking \union {"select"} =>
        /\ \A e \in Entry : ListedRight(e)
        /\ pc = "inspect" => named = alias[at]
        /\ pc \in {"readAlias", "inspect"} => \A i \in todo : ModuleOf(i) = at

LEMMA InspectEntryListings ==
    ASSUME TypeInv, Control, command.op = "prune", Intact, Listings, NEW e \in Entry, InspectEntry(e)
    PROVE  Listings'
  <1>0. UNCHANGED <<before, pass, pc, at, named, cache>> /\ pc = "inspect" /\ SizeBefore' = SizeBefore
        /\ todo' = todo \ {<<"entry", e>>} /\ listed' = [listed EXCEPT ![e] = Listing(e)]
        /\ <<"entry", e>> \in todo /\ entry[e] # NoEntry
    BY SizeBeforeSame DEF InspectEntry, Idle, FirstItem
  <1> SUFFICES ASSUME pass = 1 PROVE Listings'
    BY <1>0 DEF Listings
  <1>1. queue = <<>> /\ entry = before.entry /\ alias = before.alias
    BY <1>0 DEF Control, Walking, Intact, BeforeRemoval
  <1>2. e[1] = at /\ named = alias[at]
    <2>1. ModuleOf(<<"entry", e>>) = at
      BY <1>0 DEF Listings, Walking
    <2> QED BY <1>0, <2>1 DEF ModuleOf, Listings, Walking
  <1>3. Listing(e).size = SizeBefore[e] /\ Listing(e).modified = before.entry[e].modified /\ Was(e)
    <2>1. Was(e)
      BY <1>0, <1>1 DEF Was
    <2>2. Listing(e).size = before.entry[e].size + IF before.alias[e[1]] = e[2] THEN AliasBytes ELSE 0
      BY <1>1, <1>2 DEF Listing, Directory
    <2>3. Listing(e).modified = before.entry[e].modified
      BY <1>1 DEF Listing, Directory
    <2> QED BY <2>1, <2>2, <2>3 DEF SizeBefore
  <1>4. ASSUME NEW f \in Entry PROVE ListedRight(f)'
    <2>1. CASE f = e
      <3>1. listed'[f] = Listing(e)
        BY <1>0, <2>1 DEF TypeInv, TypeOK
      <3> QED BY <1>0, <1>3, <2>1, <3>1 DEF ListedRight, Was
    <2>2. CASE f # e
      <3>1. listed'[f] = listed[f]
        BY <1>0, <2>2 DEF TypeInv, TypeOK
      <3>2. ListedRight(f)
        BY <1>0 DEF Listings, Walking
      <3> QED BY <1>0, <3>1, <3>2 DEF ListedRight, Was
    <2> QED BY <2>1, <2>2
  <1>5. \A i \in todo' : ModuleOf(i) = at
    BY <1>0 DEF Listings, Walking
  <1>6. named' = alias'[at'] /\ at' = at
    BY <1>0, <1>2 DEF cache
  <1> QED BY <1>4, <1>5, <1>6 DEF Listings, ModuleOf

LEMMA ListingsKept ==
    ASSUME TypeInv, Control, OwnStep, command.op = "prune", Intact, Listings PROVE Listings'
  <1> SUFFICES ASSUME pass' = 1, pc' \in Walking \union {"select"} PROVE Listings'
    BY DEF Listings
  <1>0. UNCHANGED before /\ SizeBefore' = SizeBefore
    BY OwnApart, SizeBeforeSame
  <1>1. CASE MeasuredRoot
    <2>1. pc' = "list" /\ listed' = NothingListed
      BY <1>1 DEF MeasuredRoot, Walk, Goto
    <2> QED BY <2>1 DEF Listings, ListedRight, NothingListed
  <1>2. CASE Inspect
    <2>0. pass = 1 /\ pc \in Walking /\ UNCHANGED cache
      BY <1>2, InspectKeeps
    <2>1. \A e \in Entry : ListedRight(e)
      BY <2>0 DEF Listings
    <2>2. UNCHANGED listed => \A e \in Entry : ListedRight(e)'
      BY <1>0, <2>1 DEF ListedRight, Was
    <2>3. ASSUME NEW m \in Module, ListVersions(m) PROVE Listings'
      <3>1. UNCHANGED listed /\ at' = m /\ pc' = "readAlias" /\ \A i \in todo' : i \in Items(m)
        BY <2>3 DEF ListVersions, Goto
      <3>2. \A i \in todo' : ModuleOf(i) = m
        BY <3>1, ItemModule DEF Items
      <3> QED BY <2>2, <3>1, <3>2 DEF Listings, ModuleOf
    <2>4. CASE ReadLatestAlias
      <3>1. UNCHANGED <<listed, at, todo>> /\ named' = alias[at] /\ pc = "readAlias" /\ UNCHANGED alias
        BY <2>0, <2>4 DEF ReadLatestAlias, cache
      <3>2. \A i \in todo' : ModuleOf(i) = at'
        BY <2>0, <3>1 DEF Listings
      <3> QED BY <2>2, <3>1, <3>2 DEF Listings, ModuleOf
    <2>5. ASSUME NEW e \in Entry, InspectEntry(e) PROVE Listings'
      BY <2>5, InspectEntryListings
    <2>6. ASSUME NEW i \in Item, InspectFails(i) PROVE Listings'
      BY <2>6 DEF InspectFails, Goto, Walking
    <2>7. CASE EndOfModule
      <3>1. UNCHANGED listed /\ pc' = "list"
        BY <2>7 DEF EndOfModule, Goto, work, inventory
      <3> QED BY <2>2, <3>1 DEF Listings
    <2>8. CASE Inspected
      <3>1. UNCHANGED listed /\ pc' \notin {"readAlias", "inspect"}
        BY <2>8 DEF Inspected, Goto, Report, work, inventory
      <3> QED BY <2>2, <3>1 DEF Listings
    <2> QED BY <1>2, <2>3, <2>4, <2>5, <2>6, <2>7, <2>8 DEF Inspect
  <1> QED BY <1>1, <1>2, WalkingFrom

SizePrune == command.op = "prune" /\ command.max # NoLimit

(* The order a prune takes entries in, as it was at the start.             *)
Older(f, e) ==
    \/ before.entry[f].modified < before.entry[e].modified
    \/ before.entry[f].modified = before.entry[e].modified /\ Rank[f] < Rank[e]

OlderThan(e) == {f \in Entry : Was(f) /\ Older(f, e)}

(* Without all that is older than e the cache would still not fit.         *)
Over(e) == before.size > command.max + SumOf(SizeBefore, OlderThan(e))

Young(e) == command.older = NoLimit \/ before.entry[e].modified > now - command.older

(* What a prune by size takes is what is old or what makes the cache too   *)
(* large, and it takes all of the latter.                                  *)
Chosen(e) == (Taken(e) => ~Young(e) \/ Over(e)) /\ (~Taken(e) => ~Over(e))

Choice == SizePrune /\ AfterSelection => \A e \in Entry : Was(e) => Chosen(e)

LEMMA OverSame == ASSUME UNCHANGED <<before, command>>, NEW e PROVE Over(e)' <=> Over(e)
  <1>1. OlderThan(e)' = OlderThan(e)
    BY DEF OlderThan, Older, Was
  <1>2. SumOf(SizeBefore, OlderThan(e))' = SumOf(SizeBefore, OlderThan(e))
    BY <1>1, SizeBeforeSame
  <1> QED BY <1>2 DEF Over

LEMMA BeforeTypes == ASSUME TypeInv, NEW e \in Entry, Was(e)
    PROVE before.entry[e].modified \in Int /\ before.entry[e].size \in Nat
  <1>1. before.entry[e] \in VersionDir
    BY DEF TypeInv, TypeOK, Was
  <1> QED BY <1>1 DEF VersionDir

LEMMA OverSelected ==
    ASSUME TypeInv, Control, Noted, Quiet, Intact, Balance, Sized, Listings, SizePrune, pc = "select",
           NEW e \in Entry, Was(e)
    PROVE  e \in Aged \union Oversize <=> ~Young(e) \/ Over(e)
  <1>1. BeforeRemoval /\ pass = 1
    BY DEF Control, BeforeRemoval
  <1>2. total.bytes = 0
    BY <1>1 DEF Intact, Nothing
  <1>3. before.size = TotalSize + 0
    BY <1>2 DEF Balance, Busy
  <1>4. before.size \in Nat /\ measured = TotalSize
    BY DEF Balance, Sized
  <1>5. measured = before.size
    BY <1>3, <1>4 DEF TypeInv, TypeOK
  <1>6. Listed = {f \in Entry : Was(f)}
    <2>1. ASSUME NEW f \in Entry, Was(f) PROVE listed[f] # NoEntry
      BY <2>1, SelectedMet DEF Alone, Untouched, Quiet, Met
    <2>2. ASSUME NEW f \in Entry, listed[f] # NoEntry PROVE Was(f)
      BY <1>1, <2>2 DEF Listings, ListedRight
    <2> QED BY <2>1, <2>2 DEF Listed
  <1>7. \A f \in Listed : listed[f].size = SizeBefore[f] /\ listed[f].modified = before.entry[f].modified
    BY <1>1 DEF Listings, ListedRight, Listed
  <1>8. \A f \in Listed : before.entry[f].modified \in Int
    BY <1>6, BeforeTypes
  <1>9. now \in Nat /\ (command.older # NoLimit => command.older \in Int)
    BY CommandType DEF TypeInv, TypeOK
  <1>10. \A f \in Listed : f \in Aged <=> ~Young(f)
    BY <1>7, <1>8, <1>9 DEF Aged, Young
  <1>11. ASSUME e \notin Aged PROVE Aged \union {f \in Listed \ Aged : Earlier(f, e)} = OlderThan(e)
    <2>1. e \in Listed
      BY <1>6
    <2>2. \A f \in Listed : Earlier(f, e) <=> Older(f, e)
      BY <1>7, <2>1 DEF Earlier, Older
    <2>3. \A f \in Aged : Older(f, e)
      <3> SUFFICES ASSUME NEW f \in Aged PROVE before.entry[f].modified < before.entry[e].modified
        BY DEF Older
      <3>1. f \in Listed
        BY DEF Aged
      <3> QED BY <1>8, <1>9, <1>10, <1>11, <2>1, <3>1 DEF Young
    <2>4. Aged \subseteq Listed
      BY DEF Aged
    <2> QED BY <1>6, <2>2, <2>3, <2>4 DEF OlderThan
  <1>12. ASSUME e \notin Aged PROVE e \in Oversize <=> Over(e)
    <2>1. OlderThan(e) \subseteq Listed /\ IsFiniteSet(OlderThan(e))
      <3>1. OlderThan(e) \subseteq Entry
        BY DEF OlderThan
      <3> QED BY <1>6, <3>1, EntryFinite, FS_Subset DEF OlderThan
    <2>2. ListedSize(OlderThan(e)) = SumOf(SizeBefore, OlderThan(e))
      <3>1. PICK g : g = SizeBefore
        OBVIOUS
      <3>2. \A f \in OlderThan(e) : listed[f].size = g[f]
        BY <1>7, <2>1, <3>1
      <3>3. ListedSize(OlderThan(e)) = SumOf(g, OlderThan(e))
        BY <2>1, <3>2, ListedIs
      <3> QED BY <3>1, <3>3
    <2>3. e \in Oversize <=> measured > command.max + ListedSize(OlderThan(e))
      BY <1>6, <1>11, <1>12 DEF Oversize, SizePrune
    <2> QED BY <1>5, <2>2, <2>3 DEF Over
  <1>13. e \in Oversize => e \notin Aged
    BY DEF Oversize
  <1>14. e \in Listed
    BY <1>6
  <1>15. e \in Aged <=> ~Young(e)
    BY <1>10, <1>14
  <1> QED BY <1>12, <1>13, <1>15

LEMMA SelectChoice ==
    ASSUME TypeInv, Control, Noted, Quiet, Intact, Balance, Sized, Listings, SizePrune, SelectEntries
    PROVE  Choice'
  <1>1. pc = "select" /\ pc' = "next" /\ UNCHANGED <<entry, before, command, now>>
        /\ queue' \in Sorted(Aged \union Oversize)
    BY DEF SelectEntries, Goto, cache, Idle
  <1> SUFFICES ASSUME NEW e \in Entry, Was(e) PROVE Chosen(e)'
    BY <1>1 DEF Choice, Was
  <1>2. e \in Aged \union Oversize <=> ~Young(e) \/ Over(e)
    BY <1>1, OverSelected
  <1>3. entry[e] # NoEntry
    BY <1>1 DEF Intact, BeforeRemoval, Control, Was
  <1>4. Taken(e)' <=> e \in Aged \union Oversize
    <2>1. Taken(e)' <=> \E n \in DOMAIN queue' : queue'[n] = e
      BY <1>1, <1>3 DEF Taken, Pending
    <2> QED BY <1>1, <2>1 DEF Sorted
  <1>5. (Over(e)' <=> Over(e)) /\ (Young(e)' <=> Young(e))
    BY <1>1, OverSame DEF Young
  <1> QED BY <1>2, <1>4, <1>5 DEF Chosen

LEMMA AfterBack ==
    ASSUME TypeInv, Control, OwnStep, command.op = "prune", AfterSelection', ~SelectEntries
    PROVE  AfterSelection
  <1>1. CASE Start
    <2>1. UNCHANGED <<pass, queue>> /\ pc' \in {"policy", "measure"} /\ pass = 1 /\ queue = <<>>
      BY <1>1 DEF Start, OneVersion, Walk, Goto, Control
    <2> QED BY <2>1 DEF AfterSelection, Clearing
  <1>2. CASE Measure
    <2>1. pc = "measure" /\ UNCHANGED pass
      BY <1>2 DEF Measure, MeasureModule, MeasureItem, MeasureFails, MeasuredRoot, MeasuredEntry, MeasuredModule,
                MeasuredCache, Measured
    <2>2. queue = <<>> => queue' = <<>> /\ pc' \in {"measure", "list", "error"}
      BY <1>2 DEF Measure, MeasureModule, MeasureItem, MeasureFails, MeasuredRoot, MeasuredEntry, MeasuredModule,
                MeasuredCache, Measured, Vanished, Walk, Goto, Inspecting
    <2> QED BY <2>1, <2>2 DEF AfterSelection, Clearing
  <1>3. CASE Inspect
    <2>1. pc \in Walking /\ UNCHANGED <<pass, queue>> /\ queue = <<>>
      BY <1>3, InspectKeeps DEF Control
    <2>2. ASSUME pass # 2 PROVE pc' \in {"readAlias", "inspect", "error", "list", "select"}
      BY <1>3, <2>2 DEF Inspect, ListVersions, ReadLatestAlias, InspectEntry, InspectFails, EndOfModule, Inspected,
                  Goto, TypeInv, TypeOK
    <2> QED BY <2>1, <2>2 DEF AfterSelection, Clearing
  <1>4. CASE Prune
    BY <1>4 DEF Prune, NextEntry, AllRemoved, AfterSelection
  <1>5. CASE RemoveVersion
    BY <1>5 DEF RemoveVersion, AliasVanishes, MatchAliasSize, EmptyEntry, RemoveEntry, MatchAlias, DropAlias, Removing,
                AfterSelection, Clearing
  <1>6. CASE Wipe
    BY <1>6 DEF Wipe, WipeModule, WipeItem, Wiped, Control
  <1> QED BY <1>1, <1>2, <1>3, <1>4, <1>5, <1>6 DEF OwnStep

LEMMA HeadTaken ==
    ASSUME TypeInv, queue # <<>>, NEW e
    PROVE  (\E n \in DOMAIN queue : queue[n] = e)
             <=> e = Target \/ \E n \in DOMAIN Tail(queue) : Tail(queue)[n] = e
  <1>1. queue \in Seq(Entry)
    BY DEF TypeInv, TypeOK
  <1> QED BY <1>1, TailHas DEF Target

(* What is taken stays taken, and nothing else is taken after the          *)
(* selection.                                                              *)
LEMMA TakenSteady ==
    ASSUME TypeInv, Control, LeavingTouched, OwnStep, command.op = "prune", Quiet, Flight, ~SelectEntries,
           NEW e \in Entry
    PROVE  Taken(e)' <=> Taken(e)
  <1>0. pc # "wipe"
    BY DEF Control
  <1>1. ASSUME NEW i \in Item, MeasureFails(i), queue # <<>> PROVE Taken(e)' <=> Taken(e)
    <2>1. pc = "measure" /\ pc' = "next" /\ queue' = Tail(queue) /\ UNCHANGED entry
      BY <1>1 DEF MeasureFails, Vanished, Goto, cache
    <2>2. i = <<"entry", Head(queue)>> /\ ~Present(i)
      BY <1>1, <2>1, QuietLeaving DEF MeasureFails, FirstItem, Control
    <2>3. entry[Target] = NoEntry
      BY <2>2 DEF Present, Target
    <2> QED BY <1>1, <2>1, <2>3, HeadTaken DEF Taken, Pending
  <1>2. CASE EmptyEntry
    BY <1>2, EmptyEntryDoes DEF Taken, Pending
  <1>3. CASE RemoveEntry
    <2>1. queue # <<>>
      BY <1>3 DEF RemoveEntry, Removing
    <2> QED BY <1>3, <2>1, HeadTaken, RemoveEntryDoes DEF Taken, Pending
  <1>4. CASE MatchAlias \/ DropAlias
    <2>1. pc \in {"matchAlias", "dropAlias"} /\ UNCHANGED entry
      BY <1>4 DEF MatchAlias, DropAlias, Removing, cache
    <2>2. \/ pc' = "dropAlias" /\ queue' = queue
          \/ pc' = "next" /\ queue' = Tail(queue)
      BY <1>4 DEF MatchAlias, DropAlias, Removed, Goto
    <2> QED BY <2>1, <2>2 DEF Taken, Pending
  <1>5. CASE MatchAliasSize \/ AliasVanishes \/ Prune
    BY <1>5 DEF MatchAliasSize, AliasVanishes, Prune, NextEntry, AllRemoved, Removing, Walk, Goto, work, cache,
                Taken, Pending
  <1>6. CASE Start
    BY <1>6 DEF Start, OneVersion, Walk, Goto, cache, Taken, Pending
  <1>7. CASE Inspect
    <2>1. pc \in Walking /\ UNCHANGED <<queue, entry>>
      BY <1>7, InspectKeeps DEF cache
    <2>2. pc' \notin {"matchAlias", "dropAlias"}
      BY <1>7 DEF Inspect, ListVersions, ReadLatestAlias, InspectEntry, InspectFails, EndOfModule, Inspected, Report,
                  Goto
    <2> QED BY <2>1, <2>2 DEF Taken, Pending, Walking
  <1>8. CASE Measure /\ ~\E i \in Item : MeasureFails(i) /\ queue # <<>>
    <2>1. UNCHANGED <<queue, entry>> /\ pc = "measure" /\ pc' \notin {"matchAlias", "dropAlias"}
      BY <1>8 DEF Measure, MeasureModule, MeasureItem, MeasureFails, MeasuredRoot, MeasuredEntry, MeasuredModule,
                MeasuredCache, Measured, Vanished, Walk, Goto, Inspecting, cache
    <2> QED BY <2>1 DEF Taken, Pending
  <1>9. ~Wipe
    BY <1>0 DEF Wipe, WipeModule, WipeItem, Wiped
  <1> QED BY <1>1, <1>2, <1>3, <1>4, <1>5, <1>6, <1>7, <1>8, <1>9 DEF OwnStep, RemoveVersion

LEMMA ChoiceKept ==
    ASSUME TypeInv, Control, LeavingTouched, Noted, OwnStep, command.op = "prune", Quiet, Intact, Balance, Flight,
           Sized, Listings, Choice
    PROVE  Choice'
  <1>0. UNCHANGED <<command, before, now>>
    BY OwnApart
  <1>1. CASE SelectEntries /\ SizePrune
    BY <1>1, SelectChoice
  <1>2. CASE ~SelectEntries
    <2> SUFFICES ASSUME SizePrune', AfterSelection', NEW e \in Entry, Was(e)' PROVE Chosen(e)'
      BY DEF Choice
    <2>1. SizePrune /\ Was(e) /\ AfterSelection
      BY <1>0, <1>2, AfterBack DEF SizePrune, Was
    <2>2. Chosen(e)
      BY <2>1 DEF Choice
    <2>3. (Over(e)' <=> Over(e)) /\ (Young(e)' <=> Young(e)) /\ (Taken(e)' <=> Taken(e))
      BY <1>0, <1>2, OverSame, TakenSteady DEF Young
    <2> QED BY <2>2, <2>3 DEF Chosen
  <1> QED BY <1>0, <1>1, <1>2 DEF Choice, SizePrune

PruneBooks == AsBefore /\ Freed /\ Sized /\ Fits /\ Listings /\ Choice

(* The same for a prune.                                                   *)
QuietPrune == Quiet /\ command.op = "prune" => PruneBooks

LEMMA InitPrune == Init => QuietPrune
  <1> SUFFICES ASSUME Init PROVE PruneBooks
    BY DEF QuietPrune
  <1>1. /\ pc = "start" /\ total = Nothing /\ before.entry = entry /\ before.alias = alias /\ queue = <<>> /\ pass = 1
    BY DEF Init
  <1>2. Gone = {}
    BY <1>1 DEF Gone, Was, Is
  <1>3. SumOf(SizeBefore, Gone) = 0
    <2>1. PICK f : f = SizeBefore
      OBVIOUS
    <2>2. SumOf(f, {}) = 0
      BY SumEmpty
    <2> QED BY <1>2, <2>1, <2>2
  <1> QED BY <1>1, <1>3 DEF PruneBooks, AsBefore, Freed, Sized, Fits, Listings, Choice, AfterSelection, Clearing,
                            Walking, Nothing

LEMMA PruneKept ==
    TypeInv /\ TypeInv' /\ ControlInv /\ Noted /\ Follows /\ QuietBooks /\ QuietPrune /\ [Next]_vars => QuietPrune'
  <1> SUFFICES ASSUME TypeInv, TypeInv', ControlInv, Noted, Follows, QuietBooks, QuietPrune, [Next]_vars, Quiet',
                      command'.op = "prune"
               PROVE  PruneBooks'
    BY DEF QuietPrune
  <1>0. Quiet /\ command.op = "prune" /\ UNCHANGED <<command, before>> /\ SizeBefore' = SizeBefore
    BY QuietStep, SizeBeforeSame
  <1>1. Books /\ PruneBooks /\ Control /\ LeavingTouched
    BY <1>0 DEF QuietBooks, QuietPrune, ControlInv
  <1>2. CASE OwnStep
    <2>1. AsBefore' /\ Freed'
      BY <1>0, <1>1, <1>2, AsBeforeKept, FreedKept DEF Books, PruneBooks
    <2>2. Sized' /\ Fits'
      BY <1>0, <1>1, <1>2, SizedKept, FitsKept DEF Books, PruneBooks
    <2>3. Listings'
      BY <1>0, <1>1, <1>2, ListingsKept DEF Books, PruneBooks
    <2>4. Choice'
      BY <1>0, <1>1, <1>2, ChoiceKept DEF Books, PruneBooks
    <2> QED BY <2>1, <2>2, <2>3, <2>4 DEF PruneBooks
  <1>3. CASE UNCHANGED <<pc, work, cache>>
    <2>0. UNCHANGED <<pc, pass, mods, todo, measured, listed, at, named, queue, removal, total, entry, alias>>
      BY <1>3 DEF work, inventory, cache
    <2>1. TotalSize' = TotalSize
      BY <1>3, TotalSame
    <2>2. AsBefore'
      BY <1>0, <1>1, <2>0 DEF PruneBooks, AsBefore, Is, Target
    <2>3. Freed'
      <3>1. Gone' = Gone
        BY <1>0, <2>0 DEF Gone, Was, Is
      <3>2. SumOf(SizeBefore, Gone)' = SumOf(SizeBefore, Gone)
        BY <1>0, <3>1
      <3> QED BY <1>0, <1>1, <2>0, <3>2 DEF PruneBooks, Freed, Target
    <2>4. Sized' /\ Fits'
      BY <1>0, <1>1, <2>0, <2>1 DEF PruneBooks, Sized, Fits
    <2>5. Listings'
      BY <1>0, <1>1, <2>0 DEF PruneBooks, Listings, ListedRight, ModuleOf, Was
    <2>6. Choice'
      <3> SUFFICES ASSUME SizePrune', AfterSelection', NEW e \in Entry, Was(e)' PROVE Chosen(e)'
        BY DEF Choice
      <3>1. SizePrune /\ Was(e) /\ AfterSelection
        BY <1>0, <2>0 DEF SizePrune, Was, AfterSelection
      <3>2. Chosen(e)
        BY <1>1, <3>1 DEF PruneBooks, Choice
      <3>3. (Over(e)' <=> Over(e)) /\ (Taken(e)' <=> Taken(e))
        BY <1>0, <2>0, OverSame DEF Taken, Pending
      <3>4. ~Young(e) => ~Young(e)'
        <4>1. now \in Nat /\ (now' = now \/ now' = now + 1) /\ (command.older # NoLimit => command.older \in Int)
          BY QuietStep, CommandType DEF TypeInv, TypeOK
        <4>2. before.entry[e].modified \in Int
          BY <3>1, BeforeTypes
        <4> QED BY <1>0, <4>1, <4>2 DEF Young
      <3> QED BY <3>2, <3>3, <3>4 DEF Chosen
    <2> QED BY <2>2, <2>3, <2>4, <2>5, <2>6 DEF PruneBooks
  <1> QED BY <1>2, <1>3, QuietStep

LEMMA PrunesBooked == Spec => []QuietPrune
  <1>1. ControlInv => Control
    BY DEF ControlInv
  <1> QED BY <1>1, InitPrune, PruneKept, Types, Controls, Notes, AllFollow, BooksBalance, PTL DEF Spec

-----------------------------------------------------------------------------
(* What a prune by size has kept.                                          *)

LEMMA OlderOrder ==
    ASSUME TypeInv, NEW e \in Entry, NEW f \in Entry, Was(e), Was(f)
    PROVE  /\ e # f => Older(e, f) \/ Older(f, e)
           /\ ~(Older(e, f) /\ Older(f, e))
           /\ ~Older(e, e)
           /\ \A g \in Entry : Was(g) /\ Older(e, f) /\ Older(f, g) => Older(e, g)
  <1>1. \A g \in Entry : Was(g) => before.entry[g].modified \in Int
    BY BeforeTypes
  <1>2. \A g \in Entry : Rank[g] \in Nat
    BY CachePruneAssumption DEF CachePruneAssumption
  <1>3. Rank[e] = Rank[f] => e = f
    BY CachePruneAssumption DEF CachePruneAssumption
  <1>4. e # f => Older(e, f) \/ Older(f, e)
    BY <1>1, <1>2, <1>3 DEF Older
  <1>5. ~(Older(e, f) /\ Older(f, e)) /\ ~Older(e, e)
    BY <1>1, <1>2 DEF Older
  <1>6. ASSUME NEW g \in Entry, Was(g), Older(e, f), Older(f, g) PROVE Older(e, g)
    BY <1>1, <1>2, <1>6 DEF Older
  <1> QED BY <1>4, <1>5, <1>6

(* A set of entries has an oldest one.                                     *)
LEMMA Oldest ==
    ASSUME TypeInv, NEW T, T \subseteq {e \in Entry : Was(e)}, T # {}
    PROVE  \E f \in T : \A g \in T : g = f \/ Older(f, g)
  <1> DEFINE U == {e \in Entry : Was(e)}
             P == {S \in SUBSET U : S # {} => \E f \in S : \A g \in S : g = f \/ Older(f, g)}
  <1>1. IsFiniteSet(U)
    BY EntryFinite, FS_Subset
  <1>2. ASSUME NEW S \in SUBSET U, \A x \in S : S \ {x} \in P PROVE S \in P
    <2> SUFFICES ASSUME S # {} PROVE \E f \in S : \A g \in S : g = f \/ Older(f, g)
      OBVIOUS
    <2>1. PICK x \in S : TRUE
      OBVIOUS
    <2>2. CASE S \ {x} = {}
      BY <2>1, <2>2
    <2>3. CASE S \ {x} # {}
      <3>1. PICK f \in S \ {x} : \A g \in S \ {x} : g = f \/ Older(f, g)
        BY <1>2, <2>1, <2>3
      <3>2. f \in Entry /\ x \in Entry /\ Was(f) /\ Was(x) /\ f # x
        BY <2>1, <3>1
      <3>3. Older(x, f) \/ Older(f, x)
        BY <3>2, OlderOrder
      <3>4. CASE Older(f, x)
        BY <3>1, <3>4
      <3>5. CASE Older(x, f)
        <4>1. \A g \in S : g = x \/ Older(x, g)
          <5> SUFFICES ASSUME NEW g \in S, g # x PROVE Older(x, g)
            OBVIOUS
          <5>1. g = f \/ Older(f, g)
            BY <3>1
          <5>2. g \in Entry /\ Was(g)
            OBVIOUS
          <5> QED BY <3>2, <3>5, <5>1, <5>2, OlderOrder
        <4> QED BY <2>1, <4>1
      <3> QED BY <3>3, <3>4, <3>5
    <2> QED BY <2>2, <2>3
  <1>3. SUBSET U \subseteq P
    <2> HIDE DEF P, U
    <2> QED BY <1>1, <1>2, SubsetsAreAll
  <1>4. T \in P
    BY <1>3
  <1> QED BY <1>4

(* An entry older than one that makes the cache too large makes it too     *)
(* large itself.                                                           *)
LEMMA OverDown ==
    ASSUME TypeInv, SizePrune, Balance, NEW e \in Entry, NEW f \in Entry, Was(e), Was(f), Over(f), Older(e, f)
    PROVE  Over(e)
  <1>1. PICK S, T : S = OlderThan(f) /\ T = OlderThan(e)
    OBVIOUS
  <1>2. T \subseteq S
    BY <1>1, OlderOrder DEF OlderThan
  <1>3. S \subseteq Entry /\ IsFiniteSet(S)
    BY <1>1, EntryFinite, FS_Subset DEF OlderThan
  <1>4. PICK g : g = SizeBefore
    OBVIOUS
  <1>5. \A x \in S : g[x] \in Nat
    BY <1>3, <1>4, SizeBeforeType
  <1>6. SumOf(g, T) <= SumOf(g, S) /\ SumOf(g, T) \in Nat /\ SumOf(g, S) \in Nat
    <2>1. IsFiniteSet(T)
      BY <1>2, <1>3, FS_Subset
    <2> QED BY <1>2, <1>3, <1>5, <2>1, SumPart, SumType
  <1>7. before.size \in Nat /\ command.max \in Int
    BY CommandType DEF Balance, TypeInv, SizePrune
  <1>8. before.size > command.max + SumOf(g, S)
    BY <1>1, <1>4 DEF Over
  <1>9. before.size > command.max + SumOf(g, T)
    BY <1>6, <1>7, <1>8
  <1> QED BY <1>1, <1>4, <1>9 DEF Over

(* What a set of entries that are gone took with it is part of what is     *)
(* gone.                                                                   *)
LEMMA GoneSum ==
    ASSUME TypeInv, Balance, Freed, pc \in {"ok", "sizeError"}
    PROVE  /\ TotalSize \in Nat
           /\ before.size = TotalSize + SumOf(SizeBefore, Gone)
           /\ \A T : T \subseteq Gone => SumOf(SizeBefore, T) \in Nat /\ TotalSize + SumOf(SizeBefore, T) <= before.size
  <1>1. PICK S : S = Gone
    OBVIOUS
  <1>2. PICK g : g = SizeBefore
    OBVIOUS
  <1>3. IsFiniteSet(S) /\ S \subseteq Entry
    BY <1>1, GoneFinite DEF Gone
  <1>4. \A x \in S : g[x] \in Nat
    BY <1>2, <1>3, SizeBeforeType
  <1>5. TotalSize \in Nat
    BY TotalType
  <1>6. before.size = TotalSize + SumOf(g, S) /\ before.size \in Nat
    BY <1>1, <1>2 DEF Balance, Busy, Freed
  <1>7. ASSUME NEW T, T \subseteq S PROVE SumOf(g, T) \in Nat /\ TotalSize + SumOf(g, T) <= before.size
    <2>1. IsFiniteSet(T)
      BY <1>3, <1>7, FS_Subset
    <2>2. SumOf(g, T) \in Nat /\ SumOf(g, S) \in Nat /\ SumOf(g, T) <= SumOf(g, S)
      BY <1>3, <1>4, <1>7, <2>1, SumType, SumPart
    <2> QED BY <1>5, <1>6, <2>2
  <1> QED BY <1>1, <1>2, <1>5, <1>6, <1>7

LEMMA Returns ==
    ASSUME Control, Counted, Choice, SizePrune, pc \in {"ok", "sizeError"}, NEW e \in Entry
    PROVE  /\ Is(e) => Was(e) /\ ~Over(e)
           /\ Was(e) /\ ~Is(e) /\ Young(e) => Over(e)
  <1>1. queue = <<>> /\ AfterSelection
    BY DEF Control, SizePrune, AfterSelection
  <1>2. Pending = <<>> /\ DOMAIN Pending = {}
    BY <1>1 DEF Pending
  <1>3. Taken(e) <=> ~Is(e)
    BY <1>2 DEF Taken, Is
  <1>4. Was(e) => Chosen(e)
    BY <1>1 DEF Choice
  <1>5. Is(e) => Was(e)
    BY DEF Counted
  <1> QED BY <1>3, <1>4, <1>5 DEF Chosen

(* What is left when a prune by size fails is not an entry: without what   *)
(* is older than the oldest one left the cache would fit, and that is gone. *)
LEMMA FailsEmpty ==
    ASSUME TypeInv, Control, Balance, Counted, Freed, Fits, Choice, SizePrune, pc = "sizeError", NEW e \in Entry
    PROVE  ~Is(e)
  <1> SUFFICES ASSUME Is(e) PROVE FALSE
    OBVIOUS
  <1>1. PICK T : T = {f \in Entry : Is(f)}
    OBVIOUS
  <1>2. T \subseteq {f \in Entry : Was(f)} /\ e \in T
    BY <1>1 DEF Counted
  <1>3. PICK f \in T : \A g \in T : g = f \/ Older(f, g)
    BY <1>2, Oldest
  <1>4. f \in Entry /\ Is(f) /\ Was(f) /\ ~Over(f)
    BY <1>1, <1>3, Returns
  <1>5. OlderThan(f) \subseteq Gone
    <2> SUFFICES ASSUME NEW g \in Entry, Was(g), Older(g, f), Is(g) PROVE FALSE
      BY DEF OlderThan, Gone
    <2>1. g = f \/ Older(f, g)
      BY <1>1, <1>3
    <2> QED BY <1>4, <2>1, OlderOrder
  <1>6. TotalSize \in Nat /\ SumOf(SizeBefore, OlderThan(f)) \in Nat
        /\ TotalSize + SumOf(SizeBefore, OlderThan(f)) <= before.size
    BY <1>5, GoneSum
  <1>7. before.size \in Nat /\ command.max \in Int
    BY CommandType DEF Balance, TypeInv, SizePrune
  <1>8. ~(before.size > command.max + SumOf(SizeBefore, OlderThan(f)))
    BY <1>4 DEF Over
  <1>9. TotalSize > command.max
    BY DEF Fits, SizePrune
  <1> QED BY <1>6, <1>7, <1>8, <1>9

(* An entry that was too young and is gone is older than all that is left. *)
LEMMA TakenOlder ==
    ASSUME TypeInv, Control, Balance, Counted, Choice, SizePrune, pc \in {"ok", "sizeError"},
           NEW e \in Entry, Was(e), ~Is(e), Young(e), NEW f \in Entry, Is(f)
    PROVE  Older(e, f)
  <1>1. Over(e) /\ ~Over(f) /\ Was(f) /\ e # f
    BY Returns
  <1>2. ~Older(f, e)
    BY <1>1, OverDown
  <1> QED BY <1>1, <1>2, OlderOrder

(* With the youngest of them the cache would not fit.                      *)
LEMMA TakenNeeded ==
    ASSUME TypeInv, Control, Balance, Counted, Freed, Choice, SizePrune, pc \in {"ok", "sizeError"},
           NEW e \in Entry, Was(e), ~Is(e), Young(e),
           \A f \in Entry : f # e /\ Was(f) /\ ~Is(f) /\ Young(f) => Older(f, e)
    PROVE  TotalSize + SizeBefore[e] > command.max
  <1>1. Over(e)
    BY Returns
  <1>2. PICK S, T, g : S = Gone \ {e} /\ T = OlderThan(e) /\ g = SizeBefore
    OBVIOUS
  <1>3. S \subseteq T
    <2> SUFFICES ASSUME NEW f \in Entry, f # e, Was(f), ~Is(f) PROVE Older(f, e)
      BY <1>2 DEF Gone, OlderThan
    <2>1. CASE Young(f)
      BY <2>1
    <2>2. CASE ~Young(f)
      <3>1. before.entry[f].modified \in Int /\ before.entry[e].modified \in Int
        BY BeforeTypes
      <3>2. now \in Nat /\ command.older \in Int /\ command.older # NoLimit
        BY <2>2, CommandType DEF Young, TypeInv, TypeOK
      <3> QED BY <2>2, <3>1, <3>2 DEF Young, Older
    <2> QED BY <2>1, <2>2
  <1>4. T \subseteq Entry /\ IsFiniteSet(T) /\ IsFiniteSet(S)
    BY <1>2, <1>3, EntryFinite, FS_Subset DEF OlderThan
  <1>5. \A x \in Entry : g[x] \in Nat
    BY <1>2, SizeBeforeType
  <1>6. SumOf(g, S) \in Nat /\ SumOf(g, T) \in Nat /\ SumOf(g, S) <= SumOf(g, T)
    BY <1>3, <1>4, <1>5, SumType, SumPart
  <1>7. SumOf(g, Gone) = g[e] + SumOf(g, S)
    <2>1. PICK G : G = Gone
      OBVIOUS
    <2>2. IsFiniteSet(G) /\ e \in G /\ G \subseteq Entry
      BY <2>1, GoneFinite DEF Gone
    <2>3. SumOf(g, G) = g[e] + SumOf(g, G \ {e})
      BY <1>5, <2>2, SumTake
    <2> QED BY <1>2, <2>1, <2>3
  <1>8. before.size = TotalSize + SumOf(g, Gone) /\ TotalSize \in Nat
    BY <1>2, GoneSum
  <1>9. before.size > command.max + SumOf(g, T)
    BY <1>1, <1>2 DEF Over
  <1>10. g[e] \in Nat /\ command.max \in Int
    BY <1>5, CommandType DEF TypeInv, SizePrune
  <1>11. TotalSize + g[e] > command.max
    BY <1>6, <1>7, <1>8, <1>9, <1>10
  <1> QED BY <1>2, <1>11

LEMMA SizeNow == TypeInv /\ Control /\ QuietBooks /\ QuietPrune => SizeExact
  <1> DEFINE young(e) == command.older = NoLimit \/ before.entry[e].modified > now - command.older
             gone == {e \in Entry : Was(e) /\ ~Is(e) /\ young(e)}
             older(e, f) == \/ before.entry[e].modified < before.entry[f].modified
                            \/ /\ before.entry[e].modified = before.entry[f].modified
                               /\ Rank[e] < Rank[f]
             latest(e) == IF before.alias[e[1]] = e[2] THEN AliasBytes ELSE 0
  <1> SUFFICES ASSUME TypeInv, Control, QuietBooks, QuietPrune, command.op = "prune", pc \in {"ok", "sizeError"},
                      command.max # NoLimit, touched = {}
               PROVE  /\ pc = "ok" => TotalSize <= command.max
                      /\ pc = "sizeError" => \A e \in Entry : ~Is(e)
                      /\ \A e \in gone : /\ \A f \in Entry : Is(f) => older(e, f)
                                         /\ (\A f \in gone \ {e} : older(f, e)) =>
                                              TotalSize + before.entry[e].size + latest(e) > command.max
    BY DEF SizeExact, Returned
  <1>1. Books /\ PruneBooks /\ SizePrune
    BY DEF QuietBooks, QuietPrune, Quiet, SizePrune
  <1>2. Balance /\ Counted /\ Freed /\ Fits /\ Choice
    BY <1>1 DEF Books, PruneBooks
  <1>3. \A e, f : (older(e, f) <=> Older(e, f)) /\ (young(e) <=> Young(e))
    BY DEF Older, Young
  <1>4. pc = "ok" => TotalSize <= command.max
    BY <1>2 DEF Fits
  <1>5. pc = "sizeError" => \A e \in Entry : ~Is(e)
    BY <1>1, <1>2, FailsEmpty
  <1>6. ASSUME NEW e \in gone
        PROVE  /\ \A f \in Entry : Is(f) => older(e, f)
               /\ (\A f \in gone \ {e} : older(f, e)) => TotalSize + before.entry[e].size + latest(e) > command.max
    <2>1. e \in Entry /\ Was(e) /\ ~Is(e) /\ Young(e)
      BY <1>3
    <2>2. \A f \in Entry : Is(f) => older(e, f)
      BY <1>1, <1>2, <1>3, <2>1, TakenOlder
    <2>3. ASSUME \A f \in gone \ {e} : older(f, e)
          PROVE  TotalSize + before.entry[e].size + latest(e) > command.max
      <3>1. \A f \in Entry : f # e /\ Was(f) /\ ~Is(f) /\ Young(f) => Older(f, e)
        BY <1>3, <2>3
      <3>2. TotalSize + SizeBefore[e] > command.max
        BY <1>1, <1>2, <2>1, <3>1, TakenNeeded
      <3>3. SizeBefore[e] = before.entry[e].size + latest(e)
        BY <2>1 DEF SizeBefore
      <3>4. TotalSize \in Nat /\ before.entry[e].size \in Nat /\ latest(e) \in Nat
        BY <2>1, TotalType, BeforeTypes DEF AliasBytes
      <3>5. TotalSize + before.entry[e].size + latest(e) = TotalSize + (before.entry[e].size + latest(e))
        BY <3>4
      <3> QED BY <3>2, <3>3, <3>5
    <2> QED BY <2>2, <2>3
  <1> QED BY <1>4, <1>5, <1>6

(* In a cache nobody else changes a prune by size that succeeds leaves a   *)
(* cache that fits and one that fails leaves no entry; it keeps no entry   *)
(* older than one it took for its size, and with the last one it took the  *)
(* cache would not fit.                                                    *)
THEOREM PruneBySize == Spec => []SizeExact
  <1>1. ControlInv => Control
    BY DEF ControlInv
  <1> QED BY <1>1, SizeNow, Types, Controls, BooksBalance, PrunesBooked, PTL

(* A prune takes entries and the aliases that name them, and takes an      *)
(* entry whole or not at all.                                              *)
EntriesOnly ==
    Returned({"prune"}, Result) =>
        /\ touched = {} => \A e \in Entry : Is(e) => entry[e] = before.entry[e]
        /\ \A e \in Entry : Untouched("staged", e) => staged[e] = before.staged[e]
        /\ \A m \in Module : m \in before.stray => m \in stray

LEMMA EntriesOnlyNow == Kept /\ QuietPrune => EntriesOnly
  <1> SUFFICES ASSUME Kept, QuietPrune, command.op = "prune", pc \in Result
               PROVE  /\ touched = {} => \A e \in Entry : Is(e) => entry[e] = before.entry[e]
                      /\ \A e \in Entry : Untouched("staged", e) => staged[e] = before.staged[e]
                      /\ \A m \in Module : m \in before.stray => m \in stray
    BY DEF EntriesOnly, Returned
  <1>1. touched = {} => AsBefore
    BY DEF QuietPrune, Quiet, PruneBooks
  <1>2. pc # "rmdir"
    BY DEF Result
  <1>3. touched = {} => \A e \in Entry : Is(e) => entry[e] = before.entry[e]
    BY <1>1, <1>2 DEF AsBefore
  <1> QED BY <1>3 DEF Kept, Inspecting

(* Whatever a prune returns with, staging directories and unexpected files *)
(* nobody else touched are still there, and in a cache nobody else changes *)
(* every entry that is left is as it was.                                  *)
THEOREM PruneTakesEntriesOnly == Spec => []EntriesOnly
  BY EntriesOnlyNow, Keeps, PrunesBooked, PTL
=============================================================================
