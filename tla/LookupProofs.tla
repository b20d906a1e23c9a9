---------------------------- MODULE LookupProofs ----------------------------
(***************************************************************************)
(* Theorems about Lookup for every world, every sequence of requests and   *)
(* import paths of any length.                                             *)
(***************************************************************************)
EXTENDS Lookup, WellFoundedInduction, TLAPS

Route == {"local", "stdlib", "buildList", "replace", "goCache", "scutCache", "remote"}

Given == world \in Worlds /\ request \in Requests /\ route \in Route

LEMMA GivenInit == Init => Given
  BY DEF Init, Given, Route

LEMMA ChainOrder ==
    /\ Chain[Step("local") + 1] = "stdlib"
    /\ Chain[Step("stdlib") + 1] = "buildList"
    /\ Chain[Step("buildList") + 1] = "replace"
    /\ Chain[Step("replace") + 1] = "goCache"
    /\ Chain[Step("goCache") + 1] = "scutCache"
    /\ Chain[Step("scutCache") + 1] = "remote"
  <1>1. DOMAIN Chain = 1..7
    BY DEF Chain
  <1>2. /\ Chain[1] = "local" /\ Chain[2] = "stdlib" /\ Chain[3] = "buildList" /\ Chain[4] = "replace"
        /\ Chain[5] = "goCache" /\ Chain[6] = "scutCache" /\ Chain[7] = "remote"
    BY DEF Chain
  <1>3. \A i \in 1..7 : i = 1 \/ i = 2 \/ i = 3 \/ i = 4 \/ i = 5 \/ i = 6 \/ i = 7
    OBVIOUS
  <1>4. \A i, j \in 1..7 : Chain[i] = Chain[j] => i = j
    BY <1>2, <1>3
  <1> HIDE DEF Chain
  <1>5. \A i \in 1..7 : Step(Chain[i]) = i
    BY <1>1, <1>4 DEF Step
  <1> QED BY <1>2, <1>5

LEMMA GivenNext == Given /\ [Next]_vars => Given'
  <1> SUFFICES ASSUME Given, [Next]_vars PROVE Given'
    OBVIOUS
  <1>1. CASE NextLookup
    BY <1>1, LookupAssumption DEF LookupAssumption, NextLookup, Given, Route
  <1>2. CASE TakePackage
    BY <1>2 DEF TakePackage, Given, Route
  <1>3. CASE Fetch
    <2>1. UNCHANGED <<world, request>>
      BY <1>3 DEF Fetch
    <2>2. route' = route \/ route' = Chain[Step(route) + 1]
      BY <1>3 DEF Fetch, Answered
    <2> QED BY <1>3, <2>1, <2>2, ChainOrder DEF Fetch, Given, Route
  <1>4. CASE UNCHANGED vars
    BY <1>4 DEF vars, Given
  <1> QED
    BY <1>1, <1>2, <1>3, <1>4
    DEF Next, Given, ReadArguments, TakeCandidate, IndexUnreadable, LeaveCandidate, ReadBuildList,
        RemoteMisses, RemoteFails, RemoteDelivers, AskRemote, Excluded, NotParsed, Found, SymbolMissing, GiveUp

-----------------------------------------------------------------------------
(* The network is the last resort.                                         *)

(* What the fetchers asked so far have not got.                            *)
Cleared ==
    LET pkg == importPath
        sel == Select(pkg)
        mv  == <<sel.src, sel.srcVer>>
    IN  pc = "fetch" =>
        /\ route \notin {"local", "stdlib"} => In(world.std, pkg).kind = "none"
        /\ route \in {"replace", "goCache", "scutCache", "remote"} =>
              /\ buildList # "unread"
              /\ Listed(pkg).local =>
                   In(world.list[Listed(pkg).mod].tree, Below(pkg, Listed(pkg).mod)).kind = "none"
        /\ route \in {"scutCache", "remote"} /\ External(sel) => mv \notin DOMAIN world.goCache
        /\ route = "remote" /\ External(sel) => mv \notin DOMAIN store

LEMMA StdlibPasses ==
    ASSUME Given, NEW pkg, StdlibAnswer(pkg).is = "pass"
    PROVE  In(world.std, pkg).kind = "none"
  <1>1. CASE IsLocal(pkg)
    BY <1>1, LookupAssumption DEF LookupAssumption, Given, In, NoGoFiles
  <1>2. CASE ~IsLocal(pkg)
    BY <1>2 DEF StdlibAnswer, FromDir, Fails, Gives
  <1> QED BY <1>1, <1>2

LEMMA BuildListPasses ==
    ASSUME NEW pkg, BuildListAnswer(pkg).is = "pass", Listed(pkg).local
    PROVE  In(world.list[Listed(pkg).mod].tree, Below(pkg, Listed(pkg).mod)).kind = "none"
  BY DEF BuildListAnswer, FromDir, Fails, Gives

LEMMA ArchivesDoNotPass ==
    ASSUME NEW from, NEW pkg, NEW sel, NEW arch, NEW who
    PROVE  FromArchive(from, pkg, sel, arch, who).is # "pass"
  BY DEF FromArchive, Fails, Gives

LEMMA GoCachePasses ==
    ASSUME NEW pkg, External(Select(pkg)), GoCacheAnswer(pkg).is = "pass"
    PROVE  <<Select(pkg).src, Select(pkg).srcVer>> \notin DOMAIN world.goCache
  BY ArchivesDoNotPass DEF GoCacheAnswer, InGoCache, Fails

LEMMA ScutCachePasses ==
    ASSUME NEW pkg, External(Select(pkg)), ScutCacheAnswer(pkg).is = "pass"
    PROVE  <<Select(pkg).src, Select(pkg).srcVer>> \notin DOMAIN store
  BY ArchivesDoNotPass DEF ScutCacheAnswer, InStore

LEMMA ClearedInit == Init => Cleared
  BY DEF Init, Cleared

LEMMA FetchClears == Given /\ Cleared /\ Fetch => Cleared'
  <1> SUFFICES ASSUME Given, Cleared, Fetch, pc' = "fetch" PROVE Cleared'
    BY DEF Cleared
  <1> DEFINE pkg == importPath
  <1>1. UNCHANGED <<world, request, store, buildList, importPath>> /\ pc = "fetch"
    BY DEF Fetch, caches, packages
  <1>2. Answer(pkg).is = "pass" /\ route' = Chain[Step(route) + 1]
    BY <1>1 DEF Fetch, Answered, Failed, Return
  <1>3. In(world.std, pkg)' = In(world.std, pkg) /\ Select(pkg)' = Select(pkg) /\ Listed(pkg)' = Listed(pkg)
    BY <1>1 DEF In, Select, Listed, Required, Wanted
  <1>4. CASE route = "local"
    BY <1>2, <1>4, ChainOrder DEF Cleared
  <1>5. CASE route = "stdlib"
    <2>1. StdlibAnswer(pkg).is = "pass"
      BY <1>2, <1>5 DEF Answer
    <2>2. In(world.std, pkg).kind = "none"
      BY <2>1, StdlibPasses
    <2> QED BY <1>1, <1>2, <1>3, <1>5, <2>2, ChainOrder DEF Cleared
  <1>6. CASE route = "buildList"
    <2>1. BuildListAnswer(pkg).is = "pass"
      BY <1>2, <1>6 DEF Answer
    <2>2. Listed(pkg).local =>
             In(world.list[Listed(pkg).mod].tree, Below(pkg, Listed(pkg).mod)).kind = "none"
      BY <2>1, BuildListPasses
    <2>3. buildList # "unread"
      BY <1>6 DEF Fetch
    <2> QED BY <1>1, <1>2, <1>3, <1>6, <2>2, <2>3, ChainOrder DEF Cleared, In
  <1>7. CASE route = "replace"
    BY <1>1, <1>2, <1>3, <1>7, ChainOrder DEF Cleared, In
  <1>8. CASE route = "goCache"
    <2>1. GoCacheAnswer(pkg).is = "pass"
      BY <1>2, <1>8 DEF Answer
    <2>2. External(Select(pkg)) => <<Select(pkg).src, Select(pkg).srcVer>> \notin DOMAIN world.goCache
      BY <2>1, GoCachePasses
    <2> QED BY <1>1, <1>2, <1>3, <1>8, <2>2, ChainOrder DEF Cleared, In, External
  <1>9. CASE route = "scutCache"
    <2>1. ScutCacheAnswer(pkg).is = "pass"
      BY <1>2, <1>9 DEF Answer
    <2>2. External(Select(pkg)) => <<Select(pkg).src, Select(pkg).srcVer>> \notin DOMAIN store
      BY <2>1, ScutCachePasses
    <2> QED BY <1>1, <1>2, <1>3, <1>9, <2>2, ChainOrder DEF Cleared, In, External
  <1> QED BY <1>4, <1>5, <1>6, <1>7, <1>8, <1>9 DEF Fetch, Given, Route

LEMMA FailedEnds == ASSUME NEW e, Failed(e) PROVE pc' # "fetch"
  BY DEF Failed, Return

LEMMA ClearedNext == Given /\ Cleared /\ [Next]_vars => Cleared'
  <1> SUFFICES ASSUME Given, Cleared, [Next]_vars, pc' = "fetch" PROVE Cleared'
    BY DEF Cleared
  <1>1. CASE TakePackage
    BY <1>1 DEF TakePackage, Cleared
  <1>2. CASE ReadBuildList
    BY <1>2 DEF ReadBuildList, packages, Cleared, In
  <1>3. CASE Fetch
    BY <1>3, FetchClears
  <1>4. CASE RemoteDelivers
    BY <1>4, FailedEnds DEF RemoteDelivers, NotFetched
  <1>5. CASE LeaveCandidate \/ RemoteMisses \/ RemoteFails \/ Excluded
    BY <1>5, FailedEnds DEF LeaveCandidate, RemoteMisses, RemoteFails, Excluded, NotFetched
  <1>6. CASE UNCHANGED vars
    BY <1>6 DEF vars, caches, packages, Cleared, In, Select, Listed, Required, Wanted, External
  <1> QED
    BY <1>1, <1>2, <1>3, <1>4, <1>5, <1>6
    DEF Next, NextLookup, ReadArguments, TakeCandidate, IndexUnreadable, NotParsed, Found, SymbolMissing,
        GiveUp, Return

LEMMA NothingHeld ==
    ASSUME Given, Cleared, pc = "fetch", route = "remote"
    PROVE  ~Held(importPath)
  <1> DEFINE pkg == importPath
  <1>1. In(world.std, pkg).kind = "none"
    BY DEF Cleared
  <1>2. ASSUME Select(pkg).local PROVE Listed(pkg) = Select(pkg)
    BY <1>2 DEF Select, Required, NoSelection
  <1>3. Select(pkg).local =>
           In(world.list[Select(pkg).mod].tree, Below(pkg, Select(pkg).mod)).kind = "none"
    BY <1>2 DEF Cleared
  <1>4. External(Select(pkg)) =>
           /\ <<Select(pkg).src, Select(pkg).srcVer>> \notin DOMAIN world.goCache
           /\ <<Select(pkg).src, Select(pkg).srcVer>> \notin DOMAIN store
    BY DEF Cleared
  <1> HIDE DEF pkg
  <1>5. ~Held(pkg)
    BY <1>1, <1>3, <1>4 DEF Held
  <1> QED BY <1>5 DEF pkg

(* No proxy and no repository is asked for a package that GOROOT, the      *)
(* build list or, in the selected version, one of the caches has.          *)
THEOREM NetworkIsLast == Spec => NetworkLast
  <1>1. Given /\ Cleared /\ [Next]_vars => [\A pkg \in asked' \ asked : ~Held(pkg)]_vars
    <2> SUFFICES ASSUME Given, Cleared, Next, NEW pkg \in asked' \ asked PROVE ~Held(pkg)
      OBVIOUS
    <2>1. AskRemote
      <3>1. asked' = {} \/ UNCHANGED asked \/ AskRemote
        BY DEF Next, NextLookup, ReadArguments, TakeCandidate, IndexUnreadable, TakePackage, LeaveCandidate,
               ReadBuildList, Fetch, RemoteMisses, RemoteFails, RemoteDelivers, Excluded, NotParsed, Found,
               SymbolMissing, GiveUp, history
      <3> QED BY <3>1
    <2>2. pc = "fetch" /\ route = "remote" /\ pkg = importPath
      BY <2>1 DEF AskRemote
    <2> QED BY <2>2, NothingHeld
  <1> QED BY <1>1, GivenInit, ClearedInit, GivenNext, ClearedNext, PTL DEF Spec, NetworkLast

-----------------------------------------------------------------------------
(* What an archive that answers has been checked against.                  *)

(* Who is said to vouch for an archive does.                               *)
Vouches(who, mv, arch) ==
    /\ who = "goSum" => <<mv, arch>> \in vouched
    /\ who = "goCache" => mv \in DOMAIN world.goCache /\ world.goCache[mv] = [intact |-> TRUE, arch |-> arch]
    /\ who \notin Provenance => Knows(who, mv, arch)

StoreInv ==
    /\ Recorded(request) \subseteq vouched
    /\ \A mv \in DOMAIN store : store[mv].arch \in Archive /\ Vouches(store[mv].who, mv, store[mv].arch)

(* The archive s is read from may be used.                                 *)
Vouched(s) ==
    LET mv == <<s.src, s.srcVer>>
        db == Database(request.env)
    IN  /\ mv \in DOMAIN request.goSum => request.goSum[mv] = {s.arch}
        /\ \/ db = "off"
           \/ s.src \in Exempt(request.env)
           \/ <<mv, s.arch>> \in vouched
           \/ Knows(db, mv, s.arch)
           \/ /\ mv \in DOMAIN world.goCache
              /\ world.goCache[mv] = [intact |-> TRUE, arch |-> s.arch]

(* s is what the selected module version has under the path asked for.     *)
Selected(s, sel) ==
    External(sel) =>
        /\ s.mod = sel.mod /\ s.ver = sel.ver /\ s.src = sel.src /\ s.srcVer = sel.srcVer
        /\ s.content = In(Tree[s.arch], Below(s.pkg, sel.mod))

Good(s) == s.arch # "none" => Vouched(s) /\ Selected(s, Select(s.pkg))

(* An answer is none, an error or a source that may be used.               *)
Valid(answer) ==
    \/ answer.is = "pass"
    \/ answer.is = "error" /\ answer.err \in Error
    \/ answer.is = "source" /\ answer.source.from # "none" /\ Good(answer.source)

LEMMA VoucherIsRight ==
    ASSUME Given, StoreInv, NEW src, NEW ver, NEW arch \in Archive, NEW who,
           Vouches(who, <<src, ver>>, arch),
           Voucher(src, ver, arch, who) # "none"
    PROVE  LET mv == <<src, ver>>
               db == Database(request.env)
           IN  /\ mv \in DOMAIN request.goSum => request.goSum[mv] = {arch} /\ <<mv, arch>> \in vouched
               /\ \/ db = "off"
                  \/ src \in Exempt(request.env)
                  \/ <<mv, arch>> \in vouched
                  \/ Knows(db, mv, arch)
                  \/ /\ mv \in DOMAIN world.goCache
                     /\ world.goCache[mv] = [intact |-> TRUE, arch |-> arch]
  <1> DEFINE mv == <<src, ver>>
             db == Database(request.env)
  <1>1. db \notin Provenance
    BY LookupAssumption DEF LookupAssumption, Given
  <1>2. CASE mv \in DOMAIN request.goSum
    <2>1. request.goSum[mv] = {arch}
      BY <1>2 DEF Voucher
    <2>2. <<mv, arch>> \in Recorded(request)
      BY <1>2, <2>1 DEF Recorded
    <2> QED BY <1>2, <2>1, <2>2 DEF StoreInv
  <1>3. CASE mv \notin DOMAIN request.goSum /\ db # "off" /\ src \notin Exempt(request.env)
    <2>1. CASE Satisfies(who, request.env)
      <3>1. who \in {"goSum", "goCache", db}
        BY <2>1 DEF Satisfies
      <3>2. who = db => Knows(db, mv, arch)
        BY <1>1 DEF Vouches
      <3> QED BY <1>3, <3>1, <3>2 DEF Vouches
    <2>2. CASE ~Satisfies(who, request.env)
      <3>1. Voucher(src, ver, arch, who) = IF request.online /\ Knows(db, mv, arch) THEN db ELSE "none"
        BY <1>3, <2>2 DEF Voucher
      <3> QED BY <1>3, <3>1
    <2> QED BY <2>1, <2>2
  <1> QED BY <1>2, <1>3

LEMMA ArchiveIsValid ==
    ASSUME Given, StoreInv, NEW from, from # "none", NEW pkg, NEW sel, NEW arch \in Archive, NEW who,
           Vouches(who, <<sel.src, sel.srcVer>>, arch),
           External(Select(pkg)) => sel = Select(pkg)
    PROVE  Valid(FromArchive(from, pkg, sel, arch, who))
  <1> DEFINE content == In(Tree[arch], Below(pkg, sel.mod))
             s == [Source(from, pkg, content) EXCEPT !.mod = sel.mod, !.ver = sel.ver,
                      !.src = sel.src, !.srcVer = sel.srcVer, !.arch = arch]
             answer == FromArchive(from, pkg, sel, arch, who)
  <1>1. CASE Voucher(sel.src, sel.srcVer, arch, who) = "none" \/ content.kind = "none"
    <2>1. answer = Fails("unverified") \/ answer = Fails("absent")
      BY <1>1 DEF FromArchive
    <2> QED BY <2>1 DEF Valid, Fails, Error
  <1>2. CASE Voucher(sel.src, sel.srcVer, arch, who) # "none" /\ content.kind # "none"
    <2>1. answer = Gives(s)
      BY <1>2 DEF FromArchive
    <2>2. /\ s.from = from /\ s.pkg = pkg /\ s.content = content /\ s.mod = sel.mod /\ s.ver = sel.ver
          /\ s.src = sel.src /\ s.srcVer = sel.srcVer /\ s.arch = arch
      BY DEF Source
    <2> HIDE DEF s
    <2>3. Vouched(s)
      BY <1>2, <2>2, VoucherIsRight DEF Vouched
    <2>4. Selected(s, Select(s.pkg))
      BY <2>2 DEF Selected
    <2>5. Good(s)
      BY <2>3, <2>4 DEF Good
    <2>6. answer.is = "source" /\ answer.source = s
      BY <2>1 DEF Gives
    <2> QED BY <2>2, <2>5, <2>6 DEF Valid
  <1> QED BY <1>1, <1>2

LEMMA DirIsValid ==
    ASSUME NEW from, from # "none", NEW pkg, NEW content
    PROVE  Valid(FromDir(from, pkg, content))
  <1>1. Valid(Pass)
    BY DEF Valid, Pass
  <1>2. Valid(Fails("failed"))
    BY DEF Valid, Fails, Error
  <1>3. Valid(Gives(Source(from, pkg, content)))
    BY DEF Valid, Gives, Source, Good
  <1> QED BY <1>1, <1>2, <1>3 DEF FromDir

LEMMA GoCacheIsValid ==
    ASSUME Given, StoreInv, NEW pkg, NEW sel, External(Select(pkg)) => sel = Select(pkg)
    PROVE  Valid(InGoCache(pkg, sel))
  <1> DEFINE mv == <<sel.src, sel.srcVer>>
  <1>1. CASE mv \notin DOMAIN world.goCache
    BY <1>1 DEF InGoCache, Valid, Pass
  <1>2. CASE mv \in DOMAIN world.goCache /\ ~world.goCache[mv].intact
    BY <1>2 DEF InGoCache, Valid, Fails, Error
  <1>3. CASE mv \in DOMAIN world.goCache /\ world.goCache[mv].intact
    <2> DEFINE arch == world.goCache[mv].arch
    <2>1. world.goCache[mv] \in [arch : Archive, intact : BOOLEAN]
      BY <1>3, LookupAssumption DEF LookupAssumption, Given
    <2>2. arch \in Archive /\ world.goCache[mv] = [intact |-> TRUE, arch |-> arch]
      BY <1>3, <2>1
    <2>3. Vouches("goCache", mv, arch)
      BY <1>3, <2>2 DEF Vouches, Provenance
    <2>4. Valid(FromArchive("goCache", pkg, sel, arch, "goCache"))
      BY <2>2, <2>3, ArchiveIsValid
    <2> QED BY <1>3, <2>4 DEF InGoCache
  <1> QED BY <1>1, <1>2, <1>3

LEMMA StoreIsValid ==
    ASSUME Given, StoreInv, NEW pkg, NEW sel, External(Select(pkg)) => sel = Select(pkg)
    PROVE  Valid(InStore(pkg, sel))
  <1> DEFINE mv == <<sel.src, sel.srcVer>>
  <1>1. CASE mv \notin DOMAIN store
    BY <1>1 DEF InStore, Valid, Pass
  <1>2. CASE mv \in DOMAIN store
    <2>1. store[mv].arch \in Archive /\ Vouches(store[mv].who, mv, store[mv].arch)
      BY <1>2 DEF StoreInv
    <2>2. Valid(FromArchive("scutCache", pkg, sel, store[mv].arch, store[mv].who))
      BY <2>1, ArchiveIsValid
    <2> QED BY <1>2, <2>2 DEF InStore
  <1> QED BY <1>1, <1>2

(* A set of positions has a first one.                                     *)
LEMMA FirstExists ==
    ASSUME NEW ends \in SUBSET Nat, ends # {}
    PROVE  (CHOOSE i \in ends : \A j \in ends : i <= j) \in ends
  <1> DEFINE Less == OpToRel(<, Nat)
  <1>1. \E i \in ends : \A j \in ends : ~(<<j, i>> \in Less)
    BY NatLessThanWellFounded, WFMin
  <1>2. \A i, j \in ends : j < i => <<j, i>> \in Less
    BY DEF OpToRel
  <1> HIDE DEF Less
  <1>3. \A i, j \in ends : <<j, i>> \notin Less => i <= j
    BY <1>2
  <1>4. \E i \in ends : \A j \in ends : i <= j
    BY <1>1, <1>3
  <1> QED BY <1>4

LEMMA WalkIsValid ==
    ASSUME NEW answers, NEW ends \in SUBSET Nat, \A i \in ends : Valid(answers[i])
    PROVE  Valid(Walk(answers, ends))
  BY FirstExists DEF Walk, Valid, Pass

LEMMA AnswerIsValid ==
    ASSUME Given, StoreInv, route # "remote", NEW pkg
    PROVE  Valid(Answer(pkg))
  <1> DEFINE paths == ModulePaths(pkg)
  <1>1. DOMAIN paths \subseteq Nat
    BY DEF ModulePaths
  <1>2. Valid(LocalAnswer(pkg))
    BY DirIsValid DEF LocalAnswer, Valid, Pass, Fails, Error
  <1>3. Valid(StdlibAnswer(pkg))
    BY DirIsValid DEF StdlibAnswer, Valid, Pass
  <1>4. Valid(BuildListAnswer(pkg))
    BY DirIsValid DEF BuildListAnswer, Valid, Pass
  <1>5. Valid(ReplaceAnswer(pkg))
    BY DirIsValid DEF ReplaceAnswer, Valid, Pass
  <1>6. Valid(GoCacheAnswer(pkg))
    <2>1. CASE External(Select(pkg))
      BY <2>1, GoCacheIsValid DEF GoCacheAnswer
    <2>2. CASE ~External(Select(pkg))
      <3> DEFINE answers == [i \in DOMAIN paths |->
                      IF Malformed(paths[i]) /\ request.version = 0 THEN Fails("failed")
                      ELSE InGoCache(pkg, Plain(paths[i], Newest(paths[i])))]
                 absent_ == {i \in DOMAIN answers : IsAbsent(answers[i])}
      <3>1. \A i \in DOMAIN answers : Valid(answers[i])
        BY <2>2, GoCacheIsValid DEF Valid, Fails, Error
      <3>2. GoCacheAnswer(pkg) = Walk(answers, Decisive(answers)) \/ GoCacheAnswer(pkg) = Walk(answers, absent_)
        BY <2>2 DEF GoCacheAnswer
      <3>3. Decisive(answers) \subseteq DOMAIN answers /\ absent_ \subseteq DOMAIN answers
        BY DEF Decisive
      <3>4. DOMAIN answers \subseteq Nat
        BY <1>1
      <3> HIDE DEF answers, absent_
      <3>5. Valid(Walk(answers, Decisive(answers))) /\ Valid(Walk(answers, absent_))
        BY <3>1, <3>3, <3>4, WalkIsValid
      <3> QED BY <3>2, <3>5
    <2> QED BY <2>1, <2>2
  <1>7. Valid(ScutCacheAnswer(pkg))
    <2>1. CASE External(Select(pkg))
      BY <2>1, StoreIsValid DEF ScutCacheAnswer
    <2>2. CASE ~External(Select(pkg))
      <3> DEFINE answers == [i \in DOMAIN paths |-> InStore(pkg, Plain(paths[i], CachedVersion(paths[i])))]
      <3>1. \A i \in DOMAIN answers : Valid(answers[i])
        BY <2>2, StoreIsValid
      <3>2. ScutCacheAnswer(pkg) = Walk(answers, Decisive(answers))
        BY <2>2 DEF ScutCacheAnswer
      <3>3. Decisive(answers) \subseteq DOMAIN answers
        BY DEF Decisive
      <3>4. DOMAIN answers \subseteq Nat
        BY <1>1
      <3> HIDE DEF answers
      <3>5. Valid(Walk(answers, Decisive(answers)))
        BY <3>1, <3>3, <3>4, WalkIsValid
      <3> QED BY <3>2, <3>5
    <2> QED BY <2>1, <2>2
  <1> QED BY <1>2, <1>3, <1>4, <1>5, <1>6, <1>7 DEF Answer, Given, Route

SourceInv == pc = "examine" \/ (pc = "done" /\ result.is = "found") => Good(source)

AnswerInv == StoreInv /\ SourceInv

LEMMA AnswerInit == Init => AnswerInv
  <1> SUFFICES ASSUME Init PROVE AnswerInv
    OBVIOUS
  <1>1. StoreInv
    BY DEF Init, StoreInv
  <1>2. SourceInv
    BY DEF Init, SourceInv
  <1> QED BY <1>1, <1>2 DEF AnswerInv

(* What is kept when nothing is stored.                                    *)
LEMMA StoreStays ==
    ASSUME StoreInv, UNCHANGED <<world, request, store, vouched>>
    PROVE  StoreInv'
  BY DEF StoreInv, Vouches, Recorded, Knows

LEMMA GoodStays ==
    ASSUME NEW s, Good(s), UNCHANGED <<world, request, buildList, vouched>>, source' = s
    PROVE  Good(source)'
  <1>1. Select(s.pkg)' = Select(s.pkg)
    BY DEF Select, Listed, Required, Wanted
  <1>2. Vouched(s)' = Vouched(s)
    BY DEF Vouched, Knows
  <1> QED BY <1>1, <1>2 DEF Good, Selected, External, Vouched, Knows

LEMMA SourceStays ==
    ASSUME Good(source), UNCHANGED <<world, request, buildList, vouched, source>>
    PROVE  Good(source)'
  <1>1. Select(source.pkg)' = Select(source.pkg)
    BY DEF Select, Listed, Required, Wanted
  <1>2. Vouched(source)' = Vouched(source)
    BY DEF Vouched, Knows
  <1> QED BY <1>1, <1>2 DEF Good, Selected, External

LEMMA FailedReports == ASSUME NEW e \in Error, Failed(e) PROVE pc' # "examine" /\ ~(pc' = "done" /\ result'.is = "found")
  BY DEF Failed, Return, Error

LEMMA AnswersFetch == Given /\ AnswerInv /\ Fetch => AnswerInv'
  <1> SUFFICES ASSUME Given, AnswerInv, Fetch PROVE AnswerInv'
    OBVIOUS
  <1>1. UNCHANGED <<world, request, store, buildList, vouched>> /\ pc = "fetch" /\ route # "remote"
    BY DEF Fetch, caches
  <1>2. StoreInv /\ StoreInv'
    BY <1>1, StoreStays DEF AnswerInv
  <1>3. PICK answer : Valid(answer) /\ Answered(answer)
    BY <1>1, <1>2, AnswerIsValid DEF Fetch
  <1>4. CASE answer.is = "pass"
    BY <1>1, <1>2, <1>4, <1>3 DEF Answered, AnswerInv, SourceInv
  <1>5. CASE answer.is = "error"
    <2>1. answer.err \in Error /\ Failed(answer.err)
      BY <1>3, <1>5 DEF Valid, Answered
    <2> QED BY <1>2, <2>1, FailedReports DEF AnswerInv, SourceInv
  <1>6. CASE answer.is = "source"
    <2>1. Good(answer.source) /\ source' = answer.source
      BY <1>3, <1>6 DEF Valid, Answered
    <2>2. Good(source)'
      BY <1>1, <2>1, GoodStays
    <2> QED BY <1>2, <2>2 DEF AnswerInv, SourceInv
  <1> QED BY <1>3, <1>4, <1>5, <1>6 DEF Valid

LEMMA RemoteVouches ==
    ASSUME Given, StoreInv, NEW src, NEW ver, NEW arch \in Archive, NEW who,
           who = Voucher(src, ver, arch, "none"), who # "none"
    PROVE  Vouches(who, <<src, ver>>, arch)
  <1> DEFINE mv == <<src, ver>>
             db == Database(request.env)
  <1>1. db \notin Provenance
    BY LookupAssumption DEF LookupAssumption, Given
  <1>2. CASE mv \in DOMAIN request.goSum
    <2>1. request.goSum[mv] = {arch} /\ who = "goSum"
      BY <1>2 DEF Voucher
    <2>2. <<mv, arch>> \in Recorded(request)
      BY <1>2, <2>1 DEF Recorded
    <2> QED BY <2>1, <2>2 DEF StoreInv, Vouches, Provenance
  <1>3. CASE mv \notin DOMAIN request.goSum /\ who \in {"policyOff", "policySkip"}
    BY <1>3 DEF Vouches, Provenance
  <1>4. CASE mv \notin DOMAIN request.goSum /\ who \notin {"policyOff", "policySkip"}
    <2>1. ~Satisfies("none", request.env)
      BY <1>1 DEF Satisfies, Provenance
    <2>2. who = IF request.online /\ Knows(db, mv, arch) THEN db ELSE "none"
      BY <1>4, <2>1 DEF Voucher
    <2> QED BY <1>1, <2>2 DEF Vouches, Provenance
  <1> QED BY <1>2, <1>3, <1>4

(* Once vouched for, an archive is not verified again.                     *)
LEMMA VouchedTwice ==
    ASSUME Given, NEW src, NEW ver, NEW arch, NEW who,
           who = Voucher(src, ver, arch, "none"), who # "none"
    PROVE  Voucher(src, ver, arch, who) # "none"
  <1> DEFINE mv == <<src, ver>>
             db == Database(request.env)
  <1>1. db \notin Provenance
    BY LookupAssumption DEF LookupAssumption, Given
  <1>2. CASE mv \in DOMAIN request.goSum \/ db = "off" \/ src \in Exempt(request.env)
    BY <1>2 DEF Voucher
  <1>3. CASE mv \notin DOMAIN request.goSum /\ db # "off" /\ src \notin Exempt(request.env)
    <2>1. ~Satisfies("none", request.env)
      BY <1>1 DEF Satisfies, Provenance
    <2>2. who = IF request.online /\ Knows(db, mv, arch) THEN db ELSE "none"
      BY <1>3, <2>1 DEF Voucher
    <2>3. Voucher(src, ver, arch, db) = db
      BY <1>3 DEF Voucher, Satisfies
    <2> QED BY <2>2, <2>3
  <1> QED BY <1>2, <1>3

LEMMA AnswersDeliver == Given /\ AnswerInv /\ RemoteDelivers => AnswerInv'
  <1> SUFFICES ASSUME Given, AnswerInv, RemoteDelivers PROVE AnswerInv'
    OBVIOUS
  <1> DEFINE pkg == importPath
  <1>1. UNCHANGED <<world, request, buildList, vouched>>
    BY DEF RemoteDelivers, AskRemote
  <1>2. PICK sel \in RemoteSelections(pkg), arch \in Archive, kept \in BOOLEAN :
          LET mv  == <<sel.src, sel.srcVer>>
              who == Voucher(sel.src, sel.srcVer, arch, "none")
              answer == FromArchive("remote", pkg, sel, arch, who)
          IN  /\ \/ who = "none" /\ Failed("unverified")
                 \/ who # "none" /\ NotFetched
                 \/ who # "none" /\ IsAbsent(answer) /\ Failed("absent")
                 \/ who # "none" /\ ~IsAbsent(answer) /\ source' = answer.source /\ pc' = "examine"
              /\ IF kept /\ who # "none"
                   THEN store' = Kept(mv, [arch |-> arch, who |-> who])
                   ELSE UNCHANGED store
    BY DEF RemoteDelivers, caches
  <1> DEFINE mv  == <<sel.src, sel.srcVer>>
             who == Voucher(sel.src, sel.srcVer, arch, "none")
             answer == FromArchive("remote", pkg, sel, arch, who)
  <1>3. who # "none" => Vouches(who, mv, arch)
    BY RemoteVouches DEF AnswerInv
  <1>4. StoreInv'
    <2>1. CASE kept /\ who # "none"
      <3> HIDE DEF who
      <3>1. store' = [x \in (DOMAIN store) \union {mv} |->
                        IF x \in DOMAIN store THEN store[x] ELSE [arch |-> arch, who |-> who]]
        BY <1>2, <2>1 DEF Kept, who
      <3>2. ASSUME NEW x \in DOMAIN store' PROVE store'[x].arch \in Archive /\ Vouches(store'[x].who, x, store'[x].arch)
        BY <1>3, <2>1, <3>1 DEF AnswerInv, StoreInv
      <3>3. ASSUME NEW x \in DOMAIN store' PROVE Vouches(store[x].who, x, store[x].arch)'
        BY <1>1, <3>2 DEF Vouches, Knows
      <3>4. Recorded(request)' \subseteq vouched'
        BY <1>1 DEF AnswerInv, StoreInv, Recorded
      <3> QED BY <3>2, <3>3, <3>4 DEF StoreInv
    <2>2. CASE ~(kept /\ who # "none")
      BY <1>1, <1>2, <2>2, StoreStays DEF AnswerInv
    <2> QED BY <2>1, <2>2
  <1>5. SourceInv'
    <2>1. CASE Failed("unverified") \/ Failed("absent")
      BY <2>1, FailedReports DEF SourceInv, Error
    <2>2. CASE NotFetched
      BY <2>2 DEF NotFetched, SourceInv
    <2>3. CASE who # "none" /\ ~IsAbsent(answer) /\ source' = answer.source /\ pc' = "examine"
      <3>1. External(Select(pkg)) => sel = Select(pkg)
        BY <1>2 DEF RemoteSelections
      <3>2. Valid(answer)
        BY <1>3, <2>3, <3>1, ArchiveIsValid DEF AnswerInv
      <3>3. answer.is = "source"
        <4>1. Voucher(sel.src, sel.srcVer, arch, who) # "none"
          BY <2>3, VouchedTwice
        <4>2. answer = Fails("absent") \/ answer.is = "source"
          BY <4>1 DEF FromArchive, Gives
        <4> QED BY <2>3, <4>2 DEF IsAbsent, Fails
      <3>4. Good(answer.source)
        BY <3>2, <3>3 DEF Valid
      <3>5. Good(source)'
        BY <1>1, <2>3, <3>4, GoodStays
      <3> QED BY <3>5 DEF SourceInv
    <2> QED BY <1>2, <2>1, <2>2, <2>3
  <1> QED BY <1>4, <1>5 DEF AnswerInv

(* Of several interpretations only the first is about a package alone; any *)
(* other gives way to the next one if its symbol is not there.             *)
Shape(cs) ==
    /\ Len(cs) \in Nat
    /\ Len(cs) > 1 => \A k \in 1..Len(cs) : cs[k].continue \/ cs[k].symbol = <<>>

(* A failure that is not evidence of absence is put aside or reported.     *)
FailInv ==
    /\ at \in Nat \ {0} /\ Shape(cands)
    /\ pc \in {"package", "fetch", "examine"} => at <= Len(cands)
    /\ {symbolErr, literalErr} \subseteq Error \union {"none"}
    /\ pc = "arguments" => failures = {}
    /\ pc # "done" => result.is = "none"
    /\ failures # {} /\ ~absent =>
         \/ pc = "done" /\ result.is \notin {"notFound", "missed"}
         \/ pc # "done" /\ Len(cands) > 1 /\ (symbolErr # "none" \/ literalErr # "none")

LEMMA OneArgShape ==
    ASSUME NEW arg \in Seq(Seq(STRING) \ {<<>>}) \ {<<>>}
    PROVE  Shape(OneArg(arg))
  <1> DEFINE n == Len(Last(arg)) - 1
             one == Candidate("full", arg, <<>>, FALSE)
             more == [k \in 1..n |-> Split(arg, k)]
             S == {one} \union {Split(arg, k) : k \in 1..n}
  <1>1. n \in Nat
    <2>1. Len(arg) \in 1..Len(arg)
      OBVIOUS
    <2>2. arg[Len(arg)] \in Seq(STRING) \ {<<>>}
      BY <2>1
    <2>3. Len(arg[Len(arg)]) \in Nat \ {0}
      BY <2>2
    <2> QED BY <2>3 DEF Last
  <1>2. one.symbol = <<>>
    BY DEF Candidate
  <1>3. \A k \in 1..n : Split(arg, k).continue
    BY DEF Split, Candidate
  <1> HIDE DEF n, one
  <1>4. <<one>> \in Seq(S) /\ more \in Seq(S) /\ Len(more) = n
    BY <1>1
  <1>5. Shape(<<one>> \o more)
    <2>1. Len(<<one>> \o more) = 1 + n
      BY <1>1, <1>4
    <2>2. \A k \in 1..(1 + n) : (<<one>> \o more)[k] \in S
      BY <1>1, <1>4, <2>1
    <2>3. \A c \in S : c.continue \/ c.symbol = <<>>
      BY <1>2, <1>3
    <2> HIDE DEF more, S
    <2> QED BY <1>1, <2>1, <2>2, <2>3 DEF Shape
  <1>6. \A c : Shape(<<c>>)
    BY DEF Shape
  <1> QED BY <1>5, <1>6 DEF OneArg, n, one

LEMMA AtMostTwo ==
    ASSUME NEW S, NEW args \in Seq(S), Len(args) <= 2
    PROVE  \/ args = <<>>
           \/ Len(args) = 1 /\ args # <<>> /\ args[1] \in S
           \/ Len(args) = 2 /\ args # <<>>
  <1>1. Len(args) \in {0, 1, 2}
    <2>1. Len(args) \in Nat
      OBVIOUS
    <2> DEFINE n == Len(args)
    <2> HIDE DEF n
    <2>2. n \in Nat /\ n <= 2 => n \in {0, 1, 2}
      OBVIOUS
    <2> QED BY <2>1, <2>2 DEF n
  <1>2. Len(args) = 0 => args = <<>>
    OBVIOUS
  <1>3. Len(args) # 0 => args # <<>>
    OBVIOUS
  <1>4. Len(args) = 1 => args[1] \in S
    OBVIOUS
  <1> QED BY <1>1, <1>2, <1>3, <1>4

LEMMA CandidatesShape ==
    ASSUME NEW r \in Requests, WellFormed(r.args)
    PROVE  Shape(Candidates(r.args))
  <1> DEFINE Arg == Seq(Seq(STRING) \ {<<>>}) \ {<<>>}
             args == r.args
  <1>1. args \in Seq(Arg) /\ Len(args) <= 2
    BY LookupAssumption DEF LookupAssumption, WellFormed
  <1>2. \A arg \in Arg : Shape(OneArg(arg))
    BY OneArgShape
  <1>3. \A c : Shape(<<c>>)
    BY DEF Shape
  <1> HIDE DEF Arg, args
  <1>4. \/ args = <<>>
        \/ Len(args) = 1 /\ args # <<>> /\ args[1] \in Arg
        \/ Len(args) = 2 /\ args # <<>>
    BY <1>1, AtMostTwo
  <1>5. Shape(Candidates(args))
    BY <1>2, <1>3, <1>4 DEF Candidates, TwoArgs
  <1> QED BY <1>5 DEF args

LEMMA EmptyShape == Shape(<<>>)
  BY DEF Shape

LEMMA FailInit == Init => FailInv
  BY EmptyShape DEF Init, FailInv, NoResult

LEMMA FailedKeeps ==
    ASSUME FailInv, NEW e \in Error, Failed(e), UNCHANGED cands,
           pc \in {"package", "fetch", "examine"}
    PROVE  FailInv'
  <1>1. CASE e = "absent"
    <2>1. absent'
      BY <1>1 DEF Failed
    <2>2. /\ pc' = "candidate" /\ at' = at + 1 /\ result' = result
          /\ symbolErr' = symbolErr /\ literalErr' = literalErr
      BY <1>1 DEF Failed
    <2> QED BY <2>1, <2>2 DEF FailInv, Shape
  <1>2. CASE e # "absent" /\ Len(cands) > 1
    <2>1. pc' = "candidate" /\ at' = at + 1 /\ result' = result
      BY <1>2 DEF Failed
    <2>2. {symbolErr', literalErr'} \subseteq Error \union {"none"}
      BY <1>2 DEF Failed, FailInv, FirstError
    <2>3. symbolErr' # "none" \/ literalErr' # "none"
      BY <1>2 DEF Failed, FailInv, FirstError, Error
    <2> QED BY <1>2, <2>1, <2>2, <2>3 DEF FailInv, Shape
  <1>3. CASE e # "absent" /\ ~(Len(cands) > 1)
    BY <1>3 DEF Failed, Return, FailInv, Shape, Error
  <1> QED BY <1>1, <1>2, <1>3

(* A step from one label to another that puts no error aside.              *)
Goes == UNCHANGED <<cands, absent, symbolErr, literalErr, failures>>

LEMMA GoesKeeps ==
    ASSUME FailInv, Goes, pc # "arguments", pc # "done", pc' \notin {"done", "arguments"}, UNCHANGED result,
           at' = at \/ at' = at + 1, pc' \in {"package", "fetch", "examine"} => at' <= Len(cands)
    PROVE  FailInv'
  BY DEF FailInv, Goes, Shape

LEMMA ReturnKeeps ==
    ASSUME FailInv, Goes, UNCHANGED at, NEW v, Return(v),
           failures # {} /\ ~absent => v \notin {"notFound", "missed"}
    PROVE  FailInv'
  BY DEF FailInv, Goes, Shape, Return

LEMMA FailNext == Given /\ StoreInv /\ FailInv /\ [Next]_vars => FailInv'
  <1> SUFFICES ASSUME Given, StoreInv, FailInv, [Next]_vars PROVE FailInv'
    OBVIOUS
  <1>1. CASE NextLookup
    BY <1>1, EmptyShape DEF NextLookup, FailInv, NoResult
  <1>2. CASE ReadArguments
    <2>1. UNCHANGED <<at, absent, symbolErr, literalErr, failures>> /\ failures = {} /\ pc' \in {"candidate", "done"}
      BY <1>2 DEF ReadArguments, Return, history, FailInv
    <2>2. Shape(cands')
      BY <1>2, CandidatesShape DEF ReadArguments, Given, FailInv
    <2>3. pc' = "candidate" => result' = result
      BY <1>2 DEF ReadArguments, Return
    <2>4. pc = "arguments"
      BY <1>2 DEF ReadArguments
    <2> QED BY <2>1, <2>2, <2>3, <2>4 DEF FailInv
  <1>3. CASE TakeCandidate
    <2>1. Goes /\ pc = "candidate" /\ pc' = "package" /\ UNCHANGED <<at, result>> /\ at <= Len(cands)
      BY <1>3 DEF TakeCandidate, Goes, resolve, history
    <2> QED BY <2>1, GoesKeeps
  <1>4. CASE IndexUnreadable
    <2>1. Goes /\ UNCHANGED at /\ Return("failed")
      BY <1>4 DEF IndexUnreadable, Goes, resolve, history
    <2> QED BY <2>1, ReturnKeeps
  <1>5. CASE TakePackage \/ ReadBuildList
    <2>1. Goes /\ pc \in {"package", "fetch"} /\ pc' = "fetch" /\ UNCHANGED <<at, result>>
      BY <1>5 DEF TakePackage, ReadBuildList, Goes, resolve, history
    <2> QED BY <2>1, GoesKeeps DEF FailInv
  <1>6. CASE LeaveCandidate
    <2>1. CASE excluded
      BY <1>6, <2>1, FailedKeeps DEF LeaveCandidate, Error
    <2>2. CASE ~excluded
      <3>1. Goes /\ pc = "package" /\ pc' = "candidate" /\ at' = at + 1 /\ UNCHANGED result
        BY <1>6, <2>2 DEF LeaveCandidate, Goes
      <3> QED BY <3>1, GoesKeeps
    <2> QED BY <2>1, <2>2
  <1>7. CASE Fetch
    <2>1. pc = "fetch" /\ route # "remote" /\ UNCHANGED cands
      BY <1>7 DEF Fetch
    <2>2. PICK answer : Valid(answer) /\ Answered(answer)
      BY <1>7, <2>1, AnswerIsValid DEF Fetch
    <2>3. CASE answer.is = "error"
      <3>1. answer.err \in Error /\ Failed(answer.err)
        BY <2>2, <2>3 DEF Valid, Answered
      <3> QED BY <2>1, <3>1, FailedKeeps
    <2>4. CASE answer.is # "error"
      <3>1. Goes /\ pc' \in {"fetch", "examine"} /\ UNCHANGED <<at, result>>
        BY <2>1, <2>2, <2>4 DEF Answered, Goes
      <3> QED BY <2>1, <3>1, GoesKeeps DEF FailInv
    <2> QED BY <2>3, <2>4
  <1>8. CASE RemoteFails
    BY <1>8, FailedKeeps DEF RemoteFails, AskRemote, Error
  <1>9. CASE RemoteMisses \/ RemoteDelivers
    <2> DEFINE Examines == pc' = "examine" /\ UNCHANGED <<at, absent, symbolErr, literalErr, result, failures>>
    <2>1. pc = "fetch" /\ UNCHANGED cands
      BY <1>9 DEF RemoteMisses, RemoteDelivers, AskRemote
    <2>2. Failed("unverified") \/ Failed("absent") \/ NotFetched \/ Examines
      <3>1. CASE RemoteMisses
        BY <3>1 DEF RemoteMisses
      <3>2. CASE RemoteDelivers
        <4> HIDE DEF Examines
        <4>1. UNCHANGED <<at, absent, symbolErr, literalErr, result, failures>> /\ pc' = "examine" => Examines
          BY DEF Examines
        <4> QED BY <3>2, <4>1 DEF RemoteDelivers
      <3> QED BY <1>9, <3>1, <3>2
    <2>3. CASE Failed("unverified") \/ Failed("absent")
      BY <2>1, <2>3, FailedKeeps DEF Error
    <2>4. CASE NotFetched \/ Examines
      <3>1. Goes /\ pc' \in {"package", "examine"} /\ UNCHANGED <<at, result>>
        BY <2>1, <2>4 DEF NotFetched, Goes
      <3> QED BY <2>1, <3>1, GoesKeeps DEF FailInv
    <2> HIDE DEF Examines
    <2> QED BY <2>2, <2>3, <2>4
  <1>10. CASE Excluded
    <2>1. pc = "examine" /\ UNCHANGED cands
      BY <1>10 DEF Excluded
    <2>2. CASE Failed("excluded")
      BY <2>1, <2>2, FailedKeeps DEF Error
    <2>3. CASE pc' = "package" /\ UNCHANGED <<at, absent, symbolErr, literalErr, result, failures>>
      <3>1. Goes
        BY <2>1, <2>3 DEF Goes
      <3> QED BY <2>1, <2>3, <3>1, GoesKeeps DEF FailInv
    <2> QED BY <1>10, <2>2, <2>3 DEF Excluded
  <1>11. CASE NotParsed \/ Found
    <2>1. Goes /\ UNCHANGED at /\ (Return("unparsable") \/ Return("found"))
      BY <1>11 DEF NotParsed, Found, Goes, resolve, history
    <2> QED BY <2>1, ReturnKeeps
  <1>12. CASE SymbolMissing
    <2>1. pc = "examine" /\ Goes /\ UNCHANGED at /\ cands[at].symbol # <<>>
      BY <1>12 DEF SymbolMissing, Parsed, HasSymbol, Goes, resolve, history
    <2>2. CASE cands[at].continue
      <3>1. pc' = "package" /\ UNCHANGED result
        BY <1>12, <2>2 DEF SymbolMissing
      <3> QED BY <2>1, <3>1, GoesKeeps DEF FailInv
    <2>3. CASE ~cands[at].continue
      <3>1. Return("missed")
        BY <1>12, <2>3 DEF SymbolMissing
      <3>2. at \in 1..Len(cands)
        BY <2>1 DEF FailInv, Shape
      <3>3. ~(Len(cands) > 1)
        BY <2>1, <2>3, <3>2 DEF FailInv, Shape
      <3>4. ~(failures # {} /\ ~absent)
        BY <2>1, <3>3 DEF FailInv
      <3> QED BY <2>1, <3>1, <3>4, ReturnKeeps
    <2> QED BY <2>2, <2>3
  <1>13. CASE GiveUp
    <2>1. pc = "candidate" /\ Goes /\ UNCHANGED at
      BY <1>13 DEF GiveUp, Goes, resolve, history
    <2>2. PICK v : /\ Return(v)
                   /\ v = IF absent THEN "notFound"
                          ELSE IF symbolErr # "none" THEN symbolErr
                          ELSE IF literalErr # "none" THEN literalErr
                          ELSE IF \A c \in ToSet(cands) : c.symbol = <<>> THEN "notFound" ELSE "missed"
      BY <1>13 DEF GiveUp
    <2>3. ASSUME failures # {}, ~absent PROVE v \notin {"notFound", "missed"}
      <3>1. symbolErr # "none" \/ literalErr # "none"
        BY <2>1, <2>3 DEF FailInv
      <3>2. v \in {symbolErr, literalErr} \ {"none"}
        BY <2>2, <2>3, <3>1
      <3> QED BY <3>2 DEF FailInv, Error
    <2> QED BY <2>1, <2>2, <2>3, ReturnKeeps
  <1>14. CASE UNCHANGED vars
    BY <1>14 DEF vars, FailInv, Shape
  <1> QED
    BY <1>1, <1>2, <1>3, <1>4, <1>5, <1>6, <1>7, <1>8, <1>9, <1>10, <1>11, <1>12, <1>13, <1>14 DEF Next

LEMMA AnswerNext == Given /\ FailInv /\ AnswerInv /\ [Next]_vars => AnswerInv'
  <1> SUFFICES ASSUME Given, FailInv, AnswerInv, [Next]_vars PROVE AnswerInv'
    OBVIOUS
  <1>1. CASE NextLookup
    <2>1. UNCHANGED <<world, store>> /\ vouched' = vouched \union Recorded(request') /\ pc' = "arguments"
      BY <1>1 DEF NextLookup, caches
    <2>2. Recorded(request)' \subseteq vouched'
      BY <2>1 DEF Recorded
    <2>3. ASSUME NEW mv \in DOMAIN store PROVE Vouches(store[mv].who, mv, store[mv].arch)'
      BY <2>1 DEF AnswerInv, StoreInv, Vouches, Knows
    <2> QED BY <2>1, <2>2, <2>3 DEF AnswerInv, StoreInv, SourceInv
  <1>2. CASE Fetch
    BY <1>2, AnswersFetch
  <1>3. CASE RemoteDelivers
    BY <1>3, AnswersDeliver
  <1>4. CASE ReadBuildList
    <2>1. UNCHANGED <<world, request, store, vouched, pc>> /\ pc = "fetch"
      BY <1>4 DEF ReadBuildList, caches, history
    <2>2. StoreInv'
      BY <2>1, StoreStays DEF AnswerInv
    <2> QED BY <2>1, <2>2 DEF AnswerInv, SourceInv
  <1>5. CASE Found
    <2>1. UNCHANGED <<world, request, store, buildList, vouched, source>> /\ pc = "examine"
      BY <1>5 DEF Found, Parsed, caches, history
    <2>2. Good(source)
      BY <2>1 DEF AnswerInv, SourceInv
    <2>3. Good(source)'
      BY <2>1, <2>2, SourceStays
    <2>4. StoreInv'
      BY <2>1, StoreStays DEF AnswerInv
    <2> QED BY <2>3, <2>4 DEF AnswerInv, SourceInv
  <1>6. CASE LeaveCandidate \/ RemoteFails \/ Excluded \/ RemoteMisses
    <2>1. UNCHANGED <<world, request, store, vouched>>
      BY <1>6 DEF LeaveCandidate, RemoteFails, RemoteMisses, Excluded, AskRemote, caches
    <2>2. pc' # "examine" /\ ~(pc' = "done" /\ result'.is = "found")
      BY <1>6, FailedReports DEF LeaveCandidate, RemoteFails, RemoteMisses, Excluded, NotFetched, Error
    <2> QED BY <2>1, <2>2, StoreStays DEF AnswerInv, SourceInv
  <1>7. CASE ReadArguments \/ TakeCandidate \/ IndexUnreadable \/ TakePackage \/ NotParsed \/ SymbolMissing
    <2>1. UNCHANGED <<world, request, store, vouched>>
      BY <1>7 DEF ReadArguments, TakeCandidate, IndexUnreadable, TakePackage, NotParsed, SymbolMissing, caches, history
    <2>2. pc' # "examine" /\ ~(pc' = "done" /\ result'.is = "found")
      BY <1>7 DEF ReadArguments, TakeCandidate, IndexUnreadable, TakePackage, NotParsed, SymbolMissing, Return
    <2> QED BY <2>1, <2>2, StoreStays DEF AnswerInv, SourceInv
  <1>8. CASE UNCHANGED vars
    <2>1. UNCHANGED <<world, request, store, buildList, vouched, source, pc, result>>
      BY <1>8 DEF vars, caches
    <2>2. StoreInv'
      BY <2>1, StoreStays DEF AnswerInv
    <2>3. Good(source) => Good(source)'
      BY <2>1, SourceStays
    <2> QED BY <2>1, <2>2, <2>3 DEF AnswerInv, SourceInv
  <1>9. CASE GiveUp
    <2>1. UNCHANGED <<world, request, store, vouched>>
      BY <1>9 DEF GiveUp, caches, history
    <2>2. pc' = "done" /\ result'.is # "found"
      BY <1>9 DEF GiveUp, Return, FailInv, Error
    <2> QED BY <2>1, <2>2, StoreStays DEF AnswerInv, SourceInv
  <1> QED BY <1>1, <1>2, <1>3, <1>4, <1>5, <1>6, <1>7, <1>8, <1>9 DEF Next

LookupInv == Given /\ FailInv /\ AnswerInv

LEMMA LookupCorrect == Spec => []LookupInv
  <1>1. Init => LookupInv
    BY GivenInit, FailInit, AnswerInit DEF LookupInv
  <1>2. LookupInv /\ [Next]_vars => LookupInv'
    BY GivenNext, FailNext, AnswerNext DEF LookupInv, AnswerInv
  <1> QED BY <1>1, <1>2, PTL DEF Spec

(* An archive that answers a lookup is one that go.sum does not contradict *)
(* and that somebody this environment trusts has vouched for.              *)
THEOREM AnswersAreVouched == Spec => []AnswerVouched
  <1>1. LookupInv => AnswerVouched
    <2> SUFFICES ASSUME LookupInv, result.is = "found", source.arch # "none" PROVE AnswerVouched
      BY DEF AnswerVouched
    <2>1. Vouched(source)
      BY DEF LookupInv, FailInv, AnswerInv, SourceInv, Good
    <2> QED BY <2>1 DEF AnswerVouched, Vouched
  <1> QED BY <1>1, LookupCorrect, PTL

(* Documentation that comes from an archive comes from the version the     *)
(* build list or go.mod selects, under the import path asked for.          *)
THEOREM SelectionsAreHonoured == Spec => []SelectionHonoured
  <1>1. LookupInv => SelectionHonoured
    <2> SUFFICES ASSUME LookupInv, result.is = "found", source.arch # "none" PROVE SelectionHonoured
      BY DEF SelectionHonoured
    <2>1. Selected(source, Select(source.pkg))
      BY DEF LookupInv, FailInv, AnswerInv, SourceInv, Good
    <2> QED BY <2>1 DEF SelectionHonoured, Selected
  <1> QED BY <1>1, LookupCorrect, PTL

(* A lookup whose interpretations met a failing source is reported as not  *)
(* found only if a cached module is evidence of that.                      *)
THEOREM FailuresAreReported == Spec => []FailureReported
  <1>1. LookupInv => FailureReported
    BY DEF LookupInv, FailInv, FailureReported
  <1> QED BY <1>1, LookupCorrect, PTL

-----------------------------------------------------------------------------
(* Types.                                                                  *)

(* The caches: an alias names an archive that is there.                    *)
Caches ==
    /\ \A mv \in DOMAIN store : store[mv].arch \in Archive /\ store[mv].who \in Voucher_
    /\ \A m \in DOMAIN latest : <<m, latest[m]>> \in DOMAIN store

Control ==
    /\ buildList \in {"unread", "read", "failed"}
    /\ pc \in {"arguments", "candidate", "package", "fetch", "examine", "done"}
    /\ at \in 1..(Len(cands) + 1)
    /\ pc = "arguments" => at = 1
    /\ excluded \in BOOLEAN /\ absent \in BOOLEAN
    /\ result \in [is : Verdict \union {"none"}, at : Nat]
    /\ failures \subseteq Nat \X Error

Fetched == pc = "examine" => source.from # "none"

LEMMA CachesInit == Init => Caches
  BY DEF Init, Caches

(* Who vouches for an archive that is delivered.                           *)
LEMMA VoucherIsKnown ==
    ASSUME Given, NEW src, NEW ver, NEW arch, Voucher(src, ver, arch, "none") # "none"
    PROVE  Voucher(src, ver, arch, "none") \in Voucher_
  <1> DEFINE db == Database(request.env)
             who == Voucher(src, ver, arch, "none")
  <1>1. db \notin Provenance /\ db \in DOMAIN world.sums \union {"off"}
    BY LookupAssumption DEF LookupAssumption, Given
  <1>2. ~Satisfies("none", request.env)
    BY <1>1 DEF Satisfies, Provenance
  <1>3. who \in {"goSum", "policyOff", "policySkip", "none"} \/ (who = db /\ db # "off")
    BY <1>2 DEF Voucher
  <1> HIDE DEF who, db
  <1>4. who \in Voucher_ \union {"none"}
    BY <1>1, <1>3 DEF Voucher_
  <1> QED BY <1>4 DEF who

LEMMA CachesDeliver == Given /\ Caches /\ RemoteDelivers => Caches'
  <1> SUFFICES ASSUME Given, Caches, RemoteDelivers PROVE Caches'
    OBVIOUS
  <1>1. world' = world
    BY DEF RemoteDelivers, AskRemote
  <1>2. PICK sel \in RemoteSelections(importPath), arch \in Archive, kept \in BOOLEAN :
          LET mv  == <<sel.src, sel.srcVer>>
              who == Voucher(sel.src, sel.srcVer, arch, "none")
          IN  IF kept /\ who # "none"
                THEN /\ store' = Kept(mv, [arch |-> arch, who |-> who])
                     /\ latest' = latest \/ latest' = Aliased(sel.src, sel.srcVer)
                ELSE UNCHANGED caches
    BY DEF RemoteDelivers
  <1> DEFINE mv  == <<sel.src, sel.srcVer>>
             who == Voucher(sel.src, sel.srcVer, arch, "none")
  <1>3. who # "none" => who \in Voucher_
    BY VoucherIsKnown
  <1>4. CASE kept /\ who # "none"
    <2> HIDE DEF who
    <2>1. store' = [x \in (DOMAIN store) \union {mv} |->
                      IF x \in DOMAIN store THEN store[x] ELSE [arch |-> arch, who |-> who]]
      BY <1>2, <1>4 DEF Kept, who
    <2>2. latest' = latest \/ latest' = Aliased(sel.src, sel.srcVer)
      BY <1>2, <1>4 DEF who
    <2>3. \A x \in DOMAIN store' : store'[x].arch \in Archive /\ store'[x].who \in Voucher_
      BY <1>3, <1>4, <2>1 DEF Caches
    <2>4. \A m \in DOMAIN latest' : <<m, latest'[m]>> \in DOMAIN store'
      BY <2>1, <2>2 DEF Caches, Aliased
    <2> QED BY <1>1, <2>3, <2>4 DEF Caches, Voucher_
  <1>5. CASE ~(kept /\ who # "none")
    BY <1>1, <1>2, <1>5 DEF Caches, caches, Voucher_
  <1> QED BY <1>4, <1>5

LEMMA CachesNext == Given /\ Caches /\ [Next]_vars => Caches'
  <1> SUFFICES ASSUME Given, Caches, [Next]_vars PROVE Caches'
    OBVIOUS
  <1>1. CASE RemoteDelivers
    BY <1>1, CachesDeliver
  <1>2. CASE UNCHANGED <<world, store, latest>>
    BY <1>2 DEF Caches, Voucher_
  <1> QED
    BY <1>1, <1>2
    DEF Next, NextLookup, ReadArguments, TakeCandidate, IndexUnreadable, TakePackage, LeaveCandidate,
        ReadBuildList, Fetch, RemoteMisses, RemoteFails, AskRemote, Excluded, NotParsed, Found,
        SymbolMissing, GiveUp, caches, vars

LEMMA ControlInit == Init => Control
  <1> SUFFICES ASSUME Init PROVE Control
    OBVIOUS
  <1>1. /\ buildList = "unread" /\ pc = "arguments" /\ at = 1 /\ cands = <<>>
        /\ excluded = FALSE /\ absent = FALSE /\ failures = {}
    BY DEF Init
  <1>2. result = [is |-> "none", at |-> 0]
    BY DEF Init, NoResult
  <1>3. at \in 1..(Len(cands) + 1)
    BY <1>1
  <1>4. result \in [is : Verdict \union {"none"}, at : Nat]
    BY <1>2
  <1> QED BY <1>1, <1>3, <1>4 DEF Control

LEMMA FailedControl ==
    ASSUME Control, FailInv, NEW e \in Error, Failed(e), UNCHANGED <<cands, buildList, excluded>>,
           pc \in {"package", "fetch", "examine"}
    PROVE  Control'
  <1>1. at \in Nat /\ at <= Len(cands) /\ Len(cands) \in Nat
    BY DEF Control, FailInv, Shape
  <1>2. failures' \subseteq Nat \X Error
    BY <1>1 DEF Failed, Control
  <1>3. CASE e = "absent" \/ Len(cands) > 1
    <2>1. at' = at + 1 /\ pc' = "candidate" /\ absent' \in BOOLEAN /\ UNCHANGED result
      BY <1>3 DEF Failed, Control
    <2>2. at' \in 1..(Len(cands) + 1)
      <3> DEFINE n == Len(cands)
      <3> HIDE DEF n
      <3>1. \A i, k \in Nat : i <= k => i + 1 \in 1..(k + 1)
        OBVIOUS
      <3> QED BY <1>1, <2>1, <3>1 DEF n
    <2> QED BY <1>2, <2>1, <2>2 DEF Control
  <1>4. CASE ~(e = "absent" \/ Len(cands) > 1)
    <2>1. pc' = "done" /\ result' = [is |-> e, at |-> at] /\ UNCHANGED <<at, absent>>
      BY <1>4 DEF Failed, Return
    <2> QED BY <1>1, <1>2, <2>1 DEF Control, Verdict
  <1> QED BY <1>3, <1>4

LEMMA ReturnControl ==
    ASSUME Control, Goes, UNCHANGED <<at, buildList, excluded>>, NEW v \in Verdict, Return(v)
    PROVE  Control'
  BY DEF Control, Goes, Return

(* From one label to the next.                                             *)
LEMMA GoesControl ==
    ASSUME Control, Goes, UNCHANGED <<at, result>>, buildList' \in {"unread", "read", "failed"},
           excluded' \in BOOLEAN, pc' \in {"candidate", "package", "fetch", "examine"}
    PROVE  Control'
  BY DEF Control, Goes

LEMMA ControlNext == Given /\ StoreInv /\ FailInv /\ Control /\ [Next]_vars => Control'
  <1> SUFFICES ASSUME Given, StoreInv, FailInv, Control, [Next]_vars PROVE Control'
    OBVIOUS
  <1> USE DEF packages, resolve, history
  <1>1. CASE NextLookup
    <2>1. /\ buildList' = "unread" /\ pc' = "arguments" /\ at' = 1 /\ cands' = <<>>
          /\ excluded' = FALSE /\ absent' = FALSE /\ failures' = {}
      BY <1>1 DEF NextLookup
    <2>2. result' = [is |-> "none", at |-> 0]
      BY <1>1 DEF NextLookup, NoResult
    <2>3. at' \in 1..(Len(cands') + 1)
      BY <2>1
    <2>4. result' \in [is : Verdict \union {"none"}, at : Nat]
      BY <2>2
    <2> QED BY <2>1, <2>3, <2>4 DEF Control, Verdict, Error
  <1>2. CASE ReadArguments
    <2>1. UNCHANGED <<at, buildList, excluded, absent, failures>> /\ pc = "arguments" /\ at = 1
      BY <1>2 DEF ReadArguments, Control
    <2>2. Len(cands') \in Nat
      BY <1>2, CandidatesShape DEF ReadArguments, Given, FailInv, Shape
    <2>3. \/ pc' = "candidate" /\ UNCHANGED result
          \/ pc' = "done" /\ result' = [is |-> "usage", at |-> at]
      BY <1>2 DEF ReadArguments, Return
    <2>4. at' \in 1..(Len(cands') + 1)
      BY <2>1, <2>2
    <2>5. at \in Nat
      BY <2>1
    <2>6. result' \in [is : Verdict \union {"none"}, at : Nat]
      BY <2>3, <2>5 DEF Control, Verdict
    <2> QED BY <2>1, <2>3, <2>4, <2>6 DEF Control
  <1>3. CASE TakeCandidate \/ TakePackage \/ ReadBuildList
    <2>1. Goes /\ UNCHANGED <<at, result>> /\ pc' \in {"package", "fetch"}
      BY <1>3 DEF TakeCandidate, TakePackage, ReadBuildList, Goes
    <2>2. buildList' \in {"unread", "read", "failed"} /\ excluded' \in BOOLEAN
      BY <1>3 DEF TakeCandidate, TakePackage, ReadBuildList, Control
    <2> QED BY <2>1, <2>2, GoesControl
  <1>4. CASE IndexUnreadable \/ NotParsed \/ Found
    <2>1. Goes /\ UNCHANGED <<at, buildList, excluded>> /\ (Return("failed") \/ Return("unparsable") \/ Return("found"))
      BY <1>4 DEF IndexUnreadable, NotParsed, Found, Goes
    <2> QED BY <2>1, ReturnControl DEF Verdict, Error
  <1>5. CASE LeaveCandidate
    <2>1. CASE excluded
      BY <1>5, <2>1, FailedControl DEF LeaveCandidate, Error
    <2>2. CASE ~excluded
      <3>1. at <= Len(cands) /\ Len(cands) \in Nat
        BY <1>5 DEF LeaveCandidate, FailInv, Shape
      <3> QED BY <1>5, <2>2, <3>1 DEF LeaveCandidate, Control
    <2> QED BY <2>1, <2>2
  <1>6. CASE Fetch
    <2>1. pc = "fetch" /\ route # "remote" /\ UNCHANGED <<cands, buildList, excluded>>
      BY <1>6 DEF Fetch
    <2>2. PICK answer : Valid(answer) /\ Answered(answer)
      BY <1>6, <2>1, AnswerIsValid DEF Fetch
    <2>3. CASE answer.is = "error"
      <3>1. answer.err \in Error /\ Failed(answer.err)
        BY <2>2, <2>3 DEF Valid, Answered
      <3> QED BY <2>1, <3>1, FailedControl
    <2>4. CASE answer.is # "error"
      <3>1. Goes /\ pc' \in {"fetch", "examine"} /\ UNCHANGED <<at, result>>
        BY <2>1, <2>2, <2>4 DEF Answered, Goes
      <3> QED BY <2>1, <3>1, GoesControl DEF Control
    <2> QED BY <2>3, <2>4
  <1>7. CASE RemoteMisses \/ RemoteFails \/ RemoteDelivers
    <2> DEFINE Examines == pc' = "examine" /\ UNCHANGED <<at, absent, symbolErr, literalErr, result, failures>>
    <2>1. pc = "fetch" /\ UNCHANGED <<cands, buildList, excluded>>
      BY <1>7 DEF RemoteMisses, RemoteFails, RemoteDelivers, AskRemote
    <2>2. Failed("failed") \/ Failed("unverified") \/ Failed("absent") \/ NotFetched \/ Examines
      <3>1. CASE RemoteMisses \/ RemoteFails
        BY <3>1 DEF RemoteMisses, RemoteFails
      <3>2. CASE RemoteDelivers
        <4> HIDE DEF Examines
        <4>1. UNCHANGED <<at, absent, symbolErr, literalErr, result, failures>> /\ pc' = "examine" => Examines
          BY DEF Examines
        <4> QED BY <3>2, <4>1 DEF RemoteDelivers
      <3> QED BY <1>7, <3>1, <3>2
    <2>3. CASE Failed("failed") \/ Failed("unverified") \/ Failed("absent")
      BY <2>1, <2>3, FailedControl DEF Error
    <2>4. CASE NotFetched \/ Examines
      <3>1. Goes /\ pc' \in {"package", "examine"} /\ UNCHANGED <<at, result>>
        BY <2>1, <2>4 DEF NotFetched, Goes
      <3> QED BY <2>1, <3>1, GoesControl DEF Control
    <2> HIDE DEF Examines
    <2> QED BY <2>2, <2>3, <2>4
  <1>8. CASE Excluded
    <2>1. pc = "examine" /\ UNCHANGED <<cands, buildList>>
      BY <1>8 DEF Excluded
    <2>2. CASE Failed("excluded") /\ UNCHANGED excluded
      BY <2>1, <2>2, FailedControl DEF Error
    <2>3. CASE excluded' = TRUE /\ pc' = "package" /\ UNCHANGED <<at, absent, symbolErr, literalErr, result, failures>>
      <3>1. Goes
        BY <2>1, <2>3 DEF Goes
      <3> QED BY <2>1, <2>3, <3>1, GoesControl DEF Control
    <2> QED BY <1>8, <2>2, <2>3 DEF Excluded
  <1>9. CASE SymbolMissing
    <2>1. Goes /\ UNCHANGED <<at, buildList, excluded>>
      BY <1>9 DEF SymbolMissing, Goes
    <2>2. CASE pc' = "package" /\ UNCHANGED result
      BY <2>1, <2>2, GoesControl DEF Control
    <2>3. CASE Return("missed")
      BY <2>1, <2>3, ReturnControl DEF Verdict
    <2> QED BY <1>9, <2>2, <2>3 DEF SymbolMissing
  <1>10. CASE GiveUp
    <2>1. Goes /\ UNCHANGED <<at, buildList, excluded>>
      BY <1>10 DEF GiveUp, Goes
    <2>2. PICK v : Return(v) /\ v \in {"notFound", "missed"} \union ({symbolErr, literalErr} \ {"none"})
      BY <1>10 DEF GiveUp
    <2>3. v \in Verdict
      BY <2>2 DEF FailInv, Verdict
    <2> QED BY <2>1, <2>2, <2>3, ReturnControl
  <1>11. CASE UNCHANGED vars
    BY <1>11 DEF vars, Control
  <1> QED BY <1>1, <1>2, <1>3, <1>4, <1>5, <1>6, <1>7, <1>8, <1>9, <1>10, <1>11 DEF Next

LEMMA FetchedNext == Given /\ StoreInv /\ Fetched /\ [Next]_vars => Fetched'
  <1> SUFFICES ASSUME Given, StoreInv, Fetched, [Next]_vars, pc' = "examine" PROVE Fetched'
    BY DEF Fetched
  <1>1. CASE Fetch
    <2>1. PICK answer : Valid(answer) /\ Answered(answer)
      BY <1>1, AnswerIsValid DEF Fetch
    <2>2. answer.is = "source" /\ source' = answer.source
      BY <1>1, <2>1 DEF Fetch, Answered, Failed, Return
    <2> QED BY <2>1, <2>2 DEF Valid, Fetched
  <1>2. CASE RemoteDelivers
    <2>1. PICK sel \in RemoteSelections(importPath), arch \in Archive :
            LET who == Voucher(sel.src, sel.srcVer, arch, "none")
                answer == FromArchive("remote", importPath, sel, arch, who)
            IN  who # "none" /\ ~IsAbsent(answer) /\ source' = answer.source
      BY <1>2 DEF RemoteDelivers, AskRemote, Failed, Return, NotFetched
    <2> DEFINE who == Voucher(sel.src, sel.srcVer, arch, "none")
               content == In(Tree[arch], Below(importPath, sel.mod))
               s == [Source("remote", importPath, content) EXCEPT !.mod = sel.mod, !.ver = sel.ver,
                       !.src = sel.src, !.srcVer = sel.srcVer, !.arch = arch]
    <2>2. Voucher(sel.src, sel.srcVer, arch, who) # "none"
      BY <2>1, VouchedTwice
    <2>3. FromArchive("remote", importPath, sel, arch, who) = Gives(s)
      BY <2>1, <2>2 DEF FromArchive, IsAbsent, Fails
    <2>4. s.from = "remote"
      BY DEF Source
    <2> HIDE DEF s, who
    <2>5. source' = s
      BY <2>1, <2>3 DEF Gives, who
    <2> QED BY <2>4, <2>5 DEF Fetched
  <1>3. CASE UNCHANGED <<pc, source>>
    BY <1>3 DEF Fetched
  <1> QED
    BY <1>1, <1>2, <1>3
    DEF Next, NextLookup, ReadArguments, TakeCandidate, IndexUnreadable, TakePackage, LeaveCandidate,
        ReadBuildList, RemoteMisses, RemoteFails, Excluded, NotParsed, Found,
        SymbolMissing, GiveUp, Failed, NotFetched, Return, vars

TypeInv == LookupInv /\ Caches /\ Control /\ Fetched

LEMMA TypesHold == Spec => []TypeInv
  <1>1. Init => Caches /\ Control /\ Fetched
    BY CachesInit, ControlInit DEF Init, Fetched
  <1>2. LookupInv /\ Caches /\ Control /\ Fetched /\ [Next]_vars => (Caches /\ Control /\ Fetched)'
    BY CachesNext, ControlNext, FetchedNext DEF LookupInv, AnswerInv
  <1> QED BY <1>1, <1>2, LookupCorrect, PTL DEF Spec, TypeInv

(* Every alias in the cache names an archive that is there, every archive  *)
(* is recorded with who vouched for it, and the search is where its        *)
(* candidates allow.                                                       *)
THEOREM LookupsTyped == Spec => []TypeOK
  <1>1. TypeInv => TypeOK
    <2> SUFFICES ASSUME TypeInv PROVE TypeOK
      OBVIOUS
    <2>1. route \in ToSet(Chain)
      <3>1. \A i \in 1..7 : Chain[i] \in ToSet(Chain)
        BY DEF ToSet, Chain
      <3>2. /\ Chain[1] = "local" /\ Chain[2] = "stdlib" /\ Chain[3] = "buildList" /\ Chain[4] = "replace"
            /\ Chain[5] = "goCache" /\ Chain[6] = "scutCache" /\ Chain[7] = "remote"
        BY DEF Chain
      <3> QED BY <3>1, <3>2 DEF TypeInv, LookupInv, Given, Route
    <2>2. pc = "examine" => source # NoSource
      BY DEF TypeInv, Fetched, NoSource, Source
    <2>3. pc \in {"package", "fetch", "examine"} => at <= Len(cands)
      BY DEF TypeInv, LookupInv, FailInv
    <2>4. {symbolErr, literalErr} \subseteq Error \union {"none"}
      BY DEF TypeInv, LookupInv, FailInv
    <2>5. world \in Worlds /\ request \in Requests
      BY DEF TypeInv, LookupInv, Given
    <2> QED BY <2>1, <2>2, <2>3, <2>4, <2>5 DEF TypeInv, Caches, Control, TypeOK
  <1> QED BY <1>1, TypesHold, PTL

-----------------------------------------------------------------------------
(* Which interpretation answers.                                           *)

(* The first interpretation is the whole argument, any other a split of it,*)
(* each one period further to the right.                                   *)
Ranked(cs) ==
    /\ DOMAIN cs = 1..Len(cs)
    /\ \A i \in 1..Len(cs) : cs[i].kind = "suffix" => cs[i].continue
    /\ Len(cs) > 1 => \A i, j \in 1..Len(cs) : i <= j => Before(cs[i], cs[j])

LEMMA SplitAt ==
    ASSUME NEW arg \in Seq(Seq(STRING) \ {<<>>}) \ {<<>>}, NEW k \in 1..(Len(Last(arg)) - 1)
    PROVE  LET c == Split(arg, k)
           IN  Len(Last(c.pkg)) = k /\ c.symbol # <<>> /\ c.continue
  <1> DEFINE last == Last(arg)
  <1>1. last \in Seq(STRING) \ {<<>>}
    <2>1. Len(arg) \in 1..Len(arg)
      OBVIOUS
    <2> QED BY <2>1 DEF Last
  <1> HIDE DEF last
  <1>2. k \in 1..(Len(last) - 1)
    BY DEF last
  <1>3. SubSeq(last, 1, k) \in Seq(STRING) /\ Len(SubSeq(last, 1, k)) = k
    BY <1>1, <1>2
  <1>4. SubSeq(last, k + 1, Len(last)) # <<>>
    <2>1. Len(SubSeq(last, k + 1, Len(last))) = Len(last) - k
      BY <1>1, <1>2
    <2>2. Len(last) - k # 0
      BY <1>1, <1>2
    <2> QED BY <2>1, <2>2
  <1>5. \A s \in Seq(Seq(STRING)), e \in Seq(STRING) : Last(Append(s, e)) = e
    BY DEF Last
  <1>6. Front(arg) \in Seq(Seq(STRING))
    BY DEF Front
  <1>7. Last(Append(Front(arg), SubSeq(last, 1, k))) = SubSeq(last, 1, k)
    BY <1>3, <1>5, <1>6
  <1> QED BY <1>3, <1>4, <1>7 DEF Split, Candidate, last

LEMMA OneArgRanked ==
    ASSUME NEW arg \in Seq(Seq(STRING) \ {<<>>}) \ {<<>>}
    PROVE  Ranked(OneArg(arg))
  <1> DEFINE n == Len(Last(arg)) - 1
             one == Candidate("full", arg, <<>>, FALSE)
             more == [k \in 1..n |-> Split(arg, k)]
             S == {one} \union {Split(arg, k) : k \in 1..n}
             cs == <<one>> \o more
  <1>1. n \in Nat
    <2>1. Len(arg) \in 1..Len(arg)
      OBVIOUS
    <2>2. arg[Len(arg)] \in Seq(STRING) \ {<<>>}
      BY <2>1
    <2>3. Len(arg[Len(arg)]) \in Nat \ {0}
      BY <2>2
    <2> QED BY <2>3 DEF Last
  <1>2. one.symbol = <<>> /\ one.kind = "full"
    BY DEF Candidate
  <1>3. \A k \in 1..n : Len(Last(more[k].pkg)) = k /\ more[k].symbol # <<>> /\ more[k].continue
    BY SplitAt
  <1> HIDE DEF n, one
  <1>4. <<one>> \in Seq(S) /\ more \in Seq(S) /\ Len(more) = n
    BY <1>1
  <1>5. cs \in Seq(S) /\ Len(cs) = n + 1 /\ DOMAIN cs = 1..(n + 1)
    BY <1>1, <1>4
  <1>6. cs[1] = one /\ \A k \in 2..(n + 1) : cs[k] = more[k - 1]
    BY <1>1, <1>4
  <1> HIDE DEF more, cs
  <1>7. \A i \in 2..(n + 1) : /\ Len(Last(cs[i].pkg)) = i - 1
                              /\ cs[i].symbol # <<>> /\ cs[i].continue
    <2> TAKE i \in 2..(n + 1)
    <2>1. i - 1 \in 1..n
      BY <1>1
    <2> QED BY <1>3, <1>6, <2>1
  <1>8. Ranked(cs)
    <2>1. \A i \in 1..(n + 1) : i = 1 \/ i \in 2..(n + 1)
      BY <1>1
    <2>2. \A i \in 1..(n + 1) : cs[i].kind = "suffix" => cs[i].continue
      BY <1>2, <1>6, <1>7, <2>1
    <2>3. ASSUME NEW i \in 1..(n + 1), NEW j \in 1..(n + 1), i <= j PROVE Before(cs[i], cs[j])
      <3>1. CASE i = 1
        BY <1>2, <1>6, <3>1 DEF Before
      <3>2. CASE i \in 2..(n + 1)
        <4>1. j \in 2..(n + 1) /\ i - 1 <= j - 1
          BY <1>1, <2>3, <3>2
        <4> QED BY <1>7, <3>2, <4>1 DEF Before
      <3> QED BY <2>1, <3>1, <3>2
    <2> QED BY <1>1, <1>5, <2>2, <2>3 DEF Ranked
  <1>9. ASSUME NEW c, c.kind # "suffix" PROVE Ranked(<<c>>)
    <2>1. Len(<<c>>) = 1 /\ DOMAIN <<c>> = 1..1 /\ <<c>>[1] = c
      OBVIOUS
    <2> QED BY <1>9, <2>1 DEF Ranked
  <1>10. /\ Candidate("local", arg, <<>>, FALSE).kind # "suffix"
         /\ Candidate("current", <<>>, arg[1], FALSE).kind # "suffix"
    BY DEF Candidate
  <1> QED BY <1>8, <1>9, <1>10 DEF OneArg, n, one, more, cs

LEMMA CandidatesRanked ==
    ASSUME NEW r \in Requests, WellFormed(r.args)
    PROVE  Ranked(Candidates(r.args))
  <1> DEFINE Arg == Seq(Seq(STRING) \ {<<>>}) \ {<<>>}
             args == r.args
  <1>1. args \in Seq(Arg) /\ Len(args) <= 2
    BY LookupAssumption DEF LookupAssumption, WellFormed
  <1>2. \A arg \in Arg : Ranked(OneArg(arg))
    BY OneArgRanked
  <1>3. ASSUME NEW c, c.kind = "suffix" => c.continue PROVE Ranked(<<c>>)
    <2>1. Len(<<c>>) = 1 /\ DOMAIN <<c>> = 1..1 /\ <<c>>[1] = c
      OBVIOUS
    <2> QED BY <1>3, <2>1 DEF Ranked
  <1> HIDE DEF Arg, args
  <1>4. \/ args = <<>>
        \/ Len(args) = 1 /\ args # <<>> /\ args[1] \in Arg
        \/ Len(args) = 2 /\ args # <<>>
    BY <1>1, AtMostTwo
  <1>5. CASE args = <<>>
    <2>1. Candidates(args) = <<Candidate("current", <<>>, <<>>, FALSE)>>
      <3>1. Len(args) # 1 /\ Len(args) # 2
        BY <1>5
      <3> QED BY <1>5, <3>1 DEF Candidates
    <2>2. Candidate("current", <<>>, <<>>, FALSE).kind # "suffix"
      BY DEF Candidate
    <2>3. Ranked(Candidates(args))
      BY <1>3, <2>1, <2>2
    <2> QED BY <2>3 DEF args
  <1>6. CASE Len(args) = 1 /\ args # <<>> /\ args[1] \in Arg
    BY <1>2, <1>6 DEF Candidates, args
  <1>7. CASE Len(args) = 2 /\ args # <<>>
    <2> DEFINE kind == IF IsLocal(args[1]) THEN "local" ELSE KindOf(args[1])
    <2>1. Candidates(args) = <<Candidate(kind, args[1], args[2][1], kind = "suffix")>>
      BY <1>7 DEF Candidates, TwoArgs
    <2> HIDE DEF kind
    <2> QED BY <1>3, <2>1 DEF Candidate, args
  <1> QED BY <1>4, <1>5, <1>6, <1>7

LEMMA EmptyRanked == Ranked(<<>>)
  BY DEF Ranked

Ordered == Ranked(cands)

LEMMA OrderedInit == Init => Ordered
  BY EmptyRanked DEF Init, Ordered

LEMMA OrderedNext == Given /\ Ordered /\ [Next]_vars => Ordered'
  <1> SUFFICES ASSUME Given, Ordered, [Next]_vars PROVE Ordered'
    OBVIOUS
  <1>1. CASE NextLookup
    BY <1>1, EmptyRanked DEF NextLookup, Ordered
  <1>2. CASE ReadArguments
    BY <1>2, CandidatesRanked DEF ReadArguments, Given, Ordered
  <1>3. CASE UNCHANGED cands
    BY <1>3 DEF Ordered
  <1> QED
    BY <1>1, <1>2, <1>3
    DEF Next, TakeCandidate, IndexUnreadable, TakePackage, LeaveCandidate, ReadBuildList, Fetch,
        RemoteMisses, RemoteFails, RemoteDelivers, AskRemote, Excluded, NotParsed, Found,
        SymbolMissing, GiveUp, resolve, vars


(* A package of GOROOT that has Go files.                                  *)
Standard(p) == p \in DOMAIN world.std /\ world.std[p].kind \in {"go", "unparsable"}

(* No interpretation before the current one is documented by GOROOT.       *)
Behind == \A i \in 1..Len(cands) : i < at => Documenting(cands[i]) = {}

(* While the current one is tried: the documenting package is still to     *)
(* come or asked for, and nothing but GOROOT can answer before it.         *)
Pending ==
    pc \in {"package", "fetch", "examine"} /\ Documenting(cands[at]) # {} =>
        /\ \A p \in matches : Standard(p)
        /\ \E p \in Documenting(cands[at]) : p \in matches \/ (pc # "package" /\ p = importPath)
        /\ cands[at].kind = "full" => matches \subseteq {cands[at].pkg}
        /\ pc # "package" =>
              /\ Standard(importPath)
              /\ cands[at].kind = "full" => importPath = cands[at].pkg
        /\ pc = "fetch" => route \in {"local", "stdlib"}
        /\ pc = "examine" => source.content = world.std[importPath]

Concluded ==
    pc = "done" =>
        /\ result.is = "found" => result.at = at /\ at <= Len(cands)
        /\ result.is \in {"notFound", "missed"} =>
              \A i \in 1..Len(cands) : Documenting(cands[i]) = {}

Search == Behind /\ Pending /\ Concluded

LEMMA SearchInit == Init => Search
  BY DEF Init, Search, Behind, Pending, Concluded

(* What GOROOT documents does not change during a lookup.                  *)
LEMMA DocumentingStays ==
    ASSUME UNCHANGED <<world, request>>, NEW c
    PROVE  Documenting(c)' = Documenting(c)
  BY DEF Documenting, Built

LEMMA DocumentedIsStandard ==
    ASSUME NEW c, NEW p \in Documenting(c)
    PROVE  /\ Standard(p) /\ world.std[p].kind = "go" /\ Built(world.std[p])
           /\ c.symbol = <<>> \/ c.symbol \in world.std[p].symbols
           /\ c.kind = "full" => p = c.pkg
           /\ c.kind \in {"full", "suffix"}
           /\ c.kind = "suffix" => p \in Group(world.std, <<>>, c.pkg)
  <1>1. In(world.std, p).kind = "go"
    BY DEF Documenting
  <1>2. p \in DOMAIN world.std /\ In(world.std, p) = world.std[p]
    BY <1>1 DEF In, NoGoFiles
  <1>3. c.kind = "full" => p = c.pkg
    BY DEF Documenting
  <1>4. c.kind \in {"full", "suffix"}
    BY DEF Documenting
  <1>5. c.kind = "suffix" => p \in Group(world.std, <<>>, c.pkg)
    BY DEF Documenting
  <1>6. Built(world.std[p]) /\ (c.symbol = <<>> \/ c.symbol \in world.std[p].symbols)
    BY <1>2 DEF Documenting
  <1> QED BY <1>1, <1>2, <1>3, <1>4, <1>5, <1>6 DEF Standard

LEMMA GroupIsStandard ==
    ASSUME Given, NEW suffix, NEW p \in Group(world.std, <<>>, suffix)
    PROVE  Standard(p)
  <1>1. PICK q \in Indexed(world.std) : world.std[q].kind \in {"go", "unparsable"} /\ p = <<>> \o q
    BY DEF Group, Index
  <1>2. q \in DOMAIN world.std
    BY DEF Indexed
  <1>3. q \in Seq(Seq(STRING))
    BY <1>2, LookupAssumption DEF LookupAssumption, Given
  <1>4. <<>> \o q = q
    BY <1>3
  <1> QED BY <1>1, <1>2, <1>4 DEF Standard

(* A step from an interpretation that GOROOT does not document.            *)
LEMMA NothingHere ==
    ASSUME FailInv, Search, pc \in {"package", "fetch", "examine"}, Documenting(cands[at]) = {},
           UNCHANGED <<world, request, cands>>,
           \/ pc' # "done" /\ at' = at
           \/ pc' = "candidate" /\ at' = at + 1
           \/ pc' = "done" /\ at' = at /\ result'.is \notin {"found", "notFound", "missed"}
    PROVE  Search'
  <1>1. at \in Nat /\ Len(cands) \in Nat
    BY DEF FailInv, Shape
  <1>2. \A i \in 1..Len(cands) : Documenting(cands[i])' = Documenting(cands[i])
    BY DocumentingStays
  <1>3. at' = at => Documenting(cands[at])' = {}
    <2> SUFFICES ASSUME at' = at PROVE Documenting(cands[at])' = {}
      OBVIOUS
    <2>1. PICK c : c = cands[at]
      OBVIOUS
    <2>2. Documenting(c)' = {}
      BY <2>1, DocumentingStays
    <2>3. (cands[at])' = c
      BY <2>1
    <2> QED BY <2>2, <2>3
  <1>4. \A i \in 1..Len(cands) : i < at' => Documenting(cands[i]) = {}
    <2>1. \A i \in 1..Len(cands) : i < at + 1 => i < at \/ i = at
      BY <1>1
    <2> QED BY <2>1 DEF Search, Behind
  <1>5. Behind'
    BY <1>2, <1>4 DEF Behind
  <1>6. Pending'
    BY <1>3 DEF Pending
  <1>7. Concluded'
    BY DEF Concluded
  <1> QED BY <1>5, <1>6, <1>7 DEF Search

LEMMA FailedLeaves ==
    ASSUME NEW e \in Error, Failed(e)
    PROVE  \/ pc' = "candidate" /\ at' = at + 1
           \/ pc' = "done" /\ at' = at /\ result'.is \notin {"found", "notFound", "missed"}
  BY DEF Failed, Return, Error


(* The fetchers before GOROOT pass, and GOROOT has it.                     *)
LEMMA StandardFetched ==
    ASSUME Given, Fetch, route \in {"local", "stdlib"}, Standard(importPath)
    PROVE  /\ UNCHANGED <<at, result>>
           /\ \/ pc' = "fetch" /\ pc = "fetch" /\ route' = "stdlib"
              \/ pc' = "examine" /\ source'.content = world.std[importPath]
  <1>1. ~IsLocal(importPath)
    BY LookupAssumption DEF LookupAssumption, Given, Standard
  <1>2. In(world.std, importPath) = world.std[importPath]
    BY DEF In, Standard
  <1>3. Answered(Answer(importPath)) /\ pc = "fetch"
    BY DEF Fetch
  <1>4. CASE route = "local"
    <2>1. Answer(importPath) = Pass
      BY <1>1, <1>4 DEF Answer, LocalAnswer
    <2>2. Answer(importPath).is = "pass"
      BY <2>1 DEF Pass
    <2> QED BY <1>3, <1>4, <2>2, ChainOrder DEF Answered
  <1>5. CASE route = "stdlib"
    <2> DEFINE s == Source("stdlib", importPath, world.std[importPath])
    <2>1. Answer(importPath) = Gives(s)
      BY <1>1, <1>2, <1>5 DEF Answer, StdlibAnswer, FromDir, Standard
    <2>2. Answer(importPath).is = "source" /\ Answer(importPath).source = s
      BY <2>1 DEF Gives
    <2>3. s.content = world.std[importPath]
      BY DEF Source
    <2> HIDE DEF s
    <2> QED BY <1>3, <2>2, <2>3 DEF Answered
  <1> QED BY <1>4, <1>5

(* A step during which the current interpretation stays and that returns   *)
(* nothing.                                                                *)
LEMMA StillHere ==
    ASSUME Search, UNCHANGED <<world, request, cands, at>>, pc' # "done", Pending'
    PROVE  Search'
  <1>1. \A i \in 1..Len(cands) : Documenting(cands[i])' = Documenting(cands[i])
    BY DocumentingStays
  <1>2. Behind'
    BY <1>1 DEF Search, Behind
  <1> QED BY <1>2 DEF Search, Concluded

(* A step that ends the lookup otherwise than with not found.              *)
LEMMA EndsHere ==
    ASSUME Search, UNCHANGED <<world, request, cands, at>>, NEW v, Return(v),
           v = "found" => at <= Len(cands), v \notin {"notFound", "missed"}
    PROVE  Search'
  <1>1. \A i \in 1..Len(cands) : Documenting(cands[i])' = Documenting(cands[i])
    BY DocumentingStays
  <1>2. Behind'
    BY <1>1 DEF Search, Behind
  <1>3. pc' = "done" /\ result'.is = v /\ result'.at = at
    BY DEF Return
  <1>4. Pending' /\ Concluded'
    BY <1>3 DEF Pending, Concluded
  <1> QED BY <1>2, <1>4 DEF Search

LEMMA SearchTakes == Given /\ FailInv /\ Ordered /\ Search /\ (TakeCandidate \/ TakePackage) => Search'
  <1> SUFFICES ASSUME Given, FailInv, Ordered, Search, TakeCandidate \/ TakePackage PROVE Search'
    OBVIOUS
  <1>1. UNCHANGED <<world, request, cands, at>> /\ pc' \in {"package", "fetch"}
    BY DEF TakeCandidate, TakePackage, resolve
  <1> SUFFICES Pending'
    <2>1. pc' # "done"
      BY <1>1
    <2> QED BY <1>1, <2>1, StillHere
  <1>2. PICK c : c = cands[at]
    OBVIOUS
  <1>3. (cands[at])' = c /\ Documenting(c)' = Documenting(c)
    BY <1>1, <1>2, DocumentingStays
  <1>4. \A p : Standard(p)' = Standard(p)
    BY <1>1 DEF Standard
  <1>5. CASE Documenting(c) = {}
    BY <1>3, <1>5 DEF Pending
  <1>6. ASSUME Documenting(c) # {}, TakeCandidate PROVE Pending'
    <2>1. PICK p \in Documenting(c) : TRUE
      BY <1>6
    <2>2. CASE c.kind = "full"
      <3>1. p = c.pkg /\ Standard(p)
        BY <2>1, <2>2, DocumentedIsStandard
      <3>2. matches' = {c.pkg} /\ pc' = "package"
        BY <1>2, <1>6, <2>2 DEF TakeCandidate
      <3> QED BY <1>3, <1>4, <2>1, <3>1, <3>2 DEF Pending
    <2>3. CASE c.kind = "suffix"
      <3>1. p \in Group(world.std, <<>>, c.pkg)
        BY <2>1, <2>3, DocumentedIsStandard
      <3>2. matches' = Group(world.std, <<>>, c.pkg) /\ pc' = "package"
        BY <1>2, <1>6, <2>3, <3>1 DEF TakeCandidate, MatchSuffix
      <3>3. \A q \in matches' : Standard(q)
        BY <3>2, GroupIsStandard
      <3> QED BY <1>3, <1>4, <2>1, <2>3, <3>1, <3>2, <3>3 DEF Pending
    <2> QED BY <2>1, <2>2, <2>3, DocumentedIsStandard
  <1>7. ASSUME Documenting(c) # {}, TakePackage PROVE Pending'
    <2>1. PICK q \in matches : importPath' = q /\ matches' = matches \ {q}
      BY <1>7 DEF TakePackage
    <2>2. /\ \A p \in matches : Standard(p)
          /\ \E p \in Documenting(c) : p \in matches
          /\ c.kind = "full" => matches \subseteq {c.pkg}
      BY <1>2, <1>7 DEF TakePackage, Search, Pending
    <2>3. pc' = "fetch" /\ route' \in {"local", "stdlib"}
      BY <1>7 DEF TakePackage
    <2> QED BY <1>3, <1>4, <2>1, <2>2, <2>3 DEF Pending
  <1> QED BY <1>5, <1>6, <1>7

LEMMA SearchFetches ==
    Given /\ StoreInv /\ FailInv /\ Search /\ (ReadBuildList \/ Fetch) => Search'
  <1> SUFFICES ASSUME Given, StoreInv, FailInv, Search, ReadBuildList \/ Fetch PROVE Search'
    OBVIOUS
  <1>1. UNCHANGED <<world, request, cands, matches, importPath>> /\ pc = "fetch"
    BY DEF ReadBuildList, Fetch, resolve, packages
  <1>2. PICK c : c = cands[at]
    OBVIOUS
  <1>3. Documenting(c)' = Documenting(c)
    BY <1>1, DocumentingStays
  <1>4. CASE ReadBuildList
    <2>1. UNCHANGED <<at, pc, route, result>> /\ route = "buildList"
      BY <1>4 DEF ReadBuildList, resolve
    <2>2. Documenting(cands[at]) = {}
      BY <1>1, <2>1 DEF Search, Pending
    <2> QED BY <1>1, <2>1, <2>2, NothingHere
  <1>5. CASE Fetch /\ Documenting(c) = {}
    <2>1. route # "remote"
      BY <1>5 DEF Fetch
    <2>2. PICK answer : Valid(answer) /\ Answered(answer)
      BY <1>5, <2>1, AnswerIsValid DEF Fetch
    <2>3. CASE answer.is = "error"
      <3>1. answer.err \in Error /\ Failed(answer.err)
        BY <2>2, <2>3 DEF Valid, Answered
      <3>2. \/ pc' = "candidate" /\ at' = at + 1
            \/ pc' = "done" /\ at' = at /\ result'.is \notin {"found", "notFound", "missed"}
        BY <3>1, FailedLeaves
      <3> QED BY <1>1, <1>2, <1>5, <3>2, NothingHere
    <2>4. CASE answer.is # "error"
      <3>1. pc' \in {"fetch", "examine"} /\ UNCHANGED at
        BY <1>1, <2>2, <2>4 DEF Answered
      <3> QED BY <1>1, <1>2, <1>5, <3>1, NothingHere
    <2> QED BY <2>3, <2>4
  <1>6. CASE Fetch /\ Documenting(c) # {}
    <2>1. /\ \A p \in matches : Standard(p)
          /\ \E p \in Documenting(c) : p \in matches \/ p = importPath
          /\ c.kind = "full" => matches \subseteq {c.pkg}
          /\ Standard(importPath)
          /\ c.kind = "full" => importPath = c.pkg
          /\ route \in {"local", "stdlib"}
      BY <1>1, <1>2, <1>6 DEF Search, Pending
    <2>2. /\ UNCHANGED at
          /\ \/ pc' = "fetch" /\ route' = "stdlib"
             \/ pc' = "examine" /\ source'.content = world.std[importPath]
      BY <1>6, <2>1, StandardFetched
    <2>3. \A p : Standard(p)' = Standard(p)
      BY <1>1 DEF Standard
    <2>4. (cands[at])' = c
      BY <1>1, <1>2, <2>2
    <2>5. Pending'
      BY <1>1, <1>3, <2>1, <2>2, <2>3, <2>4 DEF Pending, Standard
    <2> QED BY <1>1, <2>2, <2>5, StillHere
  <1> QED BY <1>4, <1>5, <1>6

LEMMA SearchRemote ==
    FailInv /\ Search /\ (RemoteMisses \/ RemoteFails \/ RemoteDelivers) => Search'
  <1> SUFFICES ASSUME FailInv, Search, RemoteMisses \/ RemoteFails \/ RemoteDelivers PROVE Search'
    OBVIOUS
  <1>1. UNCHANGED <<world, request, cands>> /\ pc = "fetch" /\ route = "remote"
    BY DEF RemoteMisses, RemoteFails, RemoteDelivers, AskRemote
  <1>2. Documenting(cands[at]) = {}
    BY <1>1 DEF Search, Pending
  <1>3. \/ Failed("failed") \/ Failed("unverified") \/ Failed("absent")
        \/ pc' \in {"package", "examine"} /\ UNCHANGED at
    BY DEF RemoteMisses, RemoteFails, RemoteDelivers, NotFetched
  <1>4. CASE Failed("failed") \/ Failed("unverified") \/ Failed("absent")
    <2>1. \/ pc' = "candidate" /\ at' = at + 1
          \/ pc' = "done" /\ at' = at /\ result'.is \notin {"found", "notFound", "missed"}
      BY <1>4, FailedLeaves DEF Error
    <2> QED BY <1>1, <1>2, <2>1, NothingHere
  <1>5. CASE pc' \in {"package", "examine"} /\ UNCHANGED at
    BY <1>1, <1>2, <1>5, NothingHere
  <1> QED BY <1>3, <1>4, <1>5


(* The source is looked at.  If GOROOT documents the interpretation and    *)
(* this package does not answer it, another one is still to come.          *)
LEMMA OthersLeft ==
    ASSUME Search, pc = "examine", Documenting(cands[at]) # {}, ~(Parsed /\ HasSymbol)
    PROVE  /\ cands[at].kind = "suffix"
           /\ \A p \in matches : Standard(p)
           /\ \E p \in Documenting(cands[at]) : p \in matches
  <1> DEFINE c == cands[at]
  <1>1. /\ \A p \in matches : Standard(p)
        /\ source.content = world.std[importPath]
        /\ c.kind = "full" => importPath = c.pkg
        /\ \E p \in Documenting(c) : p \in matches \/ p = importPath
    BY DEF Search, Pending
  <1>2. importPath \notin Documenting(c)
    <2> SUFFICES ASSUME importPath \in Documenting(c) PROVE FALSE
      OBVIOUS
    <2>1. /\ source.content.kind = "go" /\ Built(source.content)
          /\ c.symbol = <<>> \/ c.symbol \in source.content.symbols
      BY <1>1, DocumentedIsStandard
    <2> QED BY <2>1 DEF Parsed, HasSymbol
  <1>3. PICK p \in Documenting(c) : p \in matches
    BY <1>1, <1>2
  <1>4. c.kind = "full" => p = c.pkg
    BY DocumentedIsStandard
  <1>5. c.kind \in {"full", "suffix"}
    BY DocumentedIsStandard
  <1> HIDE DEF c
  <1>6. c.kind = "suffix"
    BY <1>1, <1>2, <1>4, <1>5
  <1> QED BY <1>1, <1>3, <1>6 DEF c

LEMMA SearchLooks ==
    FailInv /\ Ordered /\ Search /\ (Excluded \/ NotParsed \/ Found \/ SymbolMissing) => Search'
  <1> SUFFICES ASSUME FailInv, Ordered, Search, Excluded \/ NotParsed \/ Found \/ SymbolMissing PROVE Search'
    OBVIOUS
  <1>1. UNCHANGED <<world, request, cands, matches>> /\ pc = "examine"
    BY DEF Excluded, NotParsed, Found, SymbolMissing, Parsed, resolve, packages
  <1>2. at \in 1..Len(cands) /\ at <= Len(cands)
    BY <1>1 DEF FailInv, Shape
  <1>3. PICK c : c = cands[at]
    OBVIOUS
  <1>4. Documenting(c)' = Documenting(c) /\ \A p : Standard(p)' = Standard(p)
    BY <1>1, DocumentingStays DEF Standard
  <1>5. CASE NotParsed \/ Found
    <2>1. UNCHANGED at /\ (Return("unparsable") \/ Return("found"))
      BY <1>5 DEF NotParsed, Found
    <2> QED BY <1>1, <1>2, <2>1, EndsHere
  <1>6. CASE Excluded /\ Documenting(c) = {}
    <2>1. Failed("excluded") \/ (pc' = "package" /\ UNCHANGED at)
      BY <1>6 DEF Excluded
    <2>2. Failed("excluded") =>
            \/ pc' = "candidate" /\ at' = at + 1
            \/ pc' = "done" /\ at' = at /\ result'.is \notin {"found", "notFound", "missed"}
      BY FailedLeaves DEF Error
    <2> QED BY <1>1, <1>3, <1>6, <2>1, <2>2, NothingHere
  <1>7. CASE SymbolMissing /\ Documenting(c) = {}
    <2>1. UNCHANGED at /\ c.symbol # <<>>
      BY <1>3, <1>7 DEF SymbolMissing, HasSymbol, resolve
    <2>2. CASE c.continue
      <3>1. pc' = "package"
        BY <1>3, <1>7, <2>2 DEF SymbolMissing
      <3> QED BY <1>1, <1>3, <1>7, <2>1, <3>1, NothingHere
    <2>3. CASE ~c.continue
      <3>1. pc' = "done" /\ result'.is = "missed"
        BY <1>3, <1>7, <2>3 DEF SymbolMissing, Return
      <3>2. ~(Len(cands) > 1)
        BY <1>2, <1>3, <2>1, <2>3 DEF FailInv, Shape
      <3>3. \A i \in 1..Len(cands) : i = at
        BY <1>2, <3>2 DEF FailInv, Shape
      <3>4. \A i \in 1..Len(cands) : Documenting(cands[i])' = Documenting(cands[i])
        BY <1>1, DocumentingStays
      <3>5. \A i \in 1..Len(cands) : Documenting(cands[i]) = {}
        BY <1>3, <1>7, <3>3
      <3> QED BY <1>1, <3>1, <3>4, <3>5 DEF Search, Behind, Pending, Concluded
    <2> QED BY <2>2, <2>3
  <1>8. CASE (Excluded \/ SymbolMissing) /\ Documenting(c) # {}
    <2>1. ~(Parsed /\ HasSymbol)
      BY <1>8 DEF Excluded, SymbolMissing, Parsed
    <2>2. /\ c.kind = "suffix"
          /\ \A p \in matches : Standard(p)
          /\ \E p \in Documenting(c) : p \in matches
      BY <1>1, <1>3, <1>8, <2>1, OthersLeft
    <2>3. c.continue
      BY <1>2, <1>3, <2>2 DEF Ordered, Ranked
    <2>4. pc' = "package" /\ UNCHANGED at
      BY <1>3, <1>8, <2>2, <2>3 DEF Excluded, SymbolMissing, resolve
    <2>5. (cands[at])' = c
      BY <1>1, <1>3, <2>4
    <2>6. Pending'
      BY <1>1, <1>4, <2>2, <2>4, <2>5 DEF Pending
    <2> QED BY <1>1, <2>4, <2>6, StillHere
  <1> QED BY <1>5, <1>6, <1>7, <1>8

LEMMA SearchNext ==
    Given /\ StoreInv /\ FailInv /\ Control /\ Ordered /\ Search /\ [Next]_vars => Search'
  <1> SUFFICES ASSUME Given, StoreInv, FailInv, Control, Ordered, Search, [Next]_vars PROVE Search'
    OBVIOUS
  <1>1. CASE NextLookup
    BY <1>1 DEF NextLookup, Search, Behind, Pending, Concluded
  <1>2. CASE ReadArguments
    <2>1. /\ UNCHANGED at /\ at = 1
          /\ pc' = "candidate" \/ (pc' = "done" /\ result'.is = "usage")
      BY <1>2 DEF ReadArguments, Return, Control
    <2> QED BY <2>1 DEF Search, Behind, Pending, Concluded
  <1>3. CASE IndexUnreadable
    <2>1. UNCHANGED <<world, request, cands, at>> /\ Return("failed")
      BY <1>3 DEF IndexUnreadable, resolve
    <2> QED BY <2>1, EndsHere
  <1>4. CASE LeaveCandidate
    <2>1. UNCHANGED <<world, request, cands>> /\ pc = "package" /\ matches = {}
      BY <1>4 DEF LeaveCandidate
    <2>2. Documenting(cands[at]) = {}
      BY <2>1 DEF Search, Pending
    <2>3. Failed("excluded") \/ (pc' = "candidate" /\ at' = at + 1)
      BY <1>4 DEF LeaveCandidate
    <2>4. Failed("excluded") =>
            \/ pc' = "candidate" /\ at' = at + 1
            \/ pc' = "done" /\ at' = at /\ result'.is \notin {"found", "notFound", "missed"}
      BY FailedLeaves DEF Error
    <2> QED BY <2>1, <2>2, <2>3, <2>4, NothingHere
  <1>5. CASE GiveUp
    <2>1. UNCHANGED <<world, request, cands, at>> /\ at > Len(cands) /\ pc' = "done"
      BY <1>5 DEF GiveUp, Return, resolve
    <2>2. \A i \in 1..Len(cands) : Documenting(cands[i])' = Documenting(cands[i])
      BY <2>1, DocumentingStays
    <2>3. at \in Nat /\ Len(cands) \in Nat
      BY DEF FailInv, Shape
    <2>4. \A i \in 1..Len(cands) : i < at
      BY <2>1, <2>3
    <2>5. \A i \in 1..Len(cands) : Documenting(cands[i]) = {}
      BY <2>4 DEF Search, Behind
    <2>6. result'.is # "found"
      BY <1>5 DEF GiveUp, Return, FailInv, Error
    <2> QED BY <2>1, <2>2, <2>5, <2>6 DEF Search, Behind, Pending, Concluded
  <1>6. CASE UNCHANGED vars
    <2>1. UNCHANGED <<world, request, cands, at, matches, importPath, pc, route, source, result>>
      BY <1>6 DEF vars
    <2>2. \A i \in 1..Len(cands) : Documenting(cands[i])' = Documenting(cands[i])
      BY <2>1, DocumentingStays
    <2>3. Documenting(cands[at])' = Documenting(cands[at])
      <3>1. PICK c : c = cands[at]
        OBVIOUS
      <3>2. (cands[at])' = c /\ Documenting(c)' = Documenting(c)
        BY <2>1, <3>1, DocumentingStays
      <3> QED BY <3>1, <3>2
    <2>4. Pending'
      BY <2>1, <2>3 DEF Search, Pending, Standard
    <2> QED BY <2>1, <2>2, <2>4 DEF Search, Behind, Concluded
  <1> QED
    BY <1>1, <1>2, <1>3, <1>4, <1>5, <1>6, SearchTakes, SearchFetches, SearchRemote, SearchLooks DEF Next

SearchInv == TypeInv /\ Ordered /\ Search

LEMMA SearchHolds == Spec => []SearchInv
  <1>1. Init => Ordered /\ Search
    BY OrderedInit, SearchInit
  <1>2. TypeInv /\ Ordered /\ Search /\ [Next]_vars => (Ordered /\ Search)'
    BY OrderedNext, SearchNext DEF TypeInv, LookupInv, AnswerInv
  <1> QED BY <1>1, <1>2, TypesHold, PTL DEF Spec, SearchInv

(* An interpretation that GOROOT documents is neither reported as missing  *)
(* nor passed over for one further to the right.                           *)
THEOREM DocumentedIsFound == Spec => []NonePassedOver
  <1>1. SearchInv => NonePassedOver
    <2> SUFFICES ASSUME SearchInv, NEW c \in ToSet(cands), Documenting(c) # {}
                 PROVE  /\ result.is \notin {"notFound", "missed"}
                        /\ result.is = "found" /\ Len(cands) > 1 => Before(cands[result.at], c)
      BY DEF NonePassedOver
    <2>1. Len(cands) \in Nat /\ at \in Nat \ {0}
      BY DEF SearchInv, TypeInv, LookupInv, FailInv, Shape
    <2>2. PICK i \in 1..Len(cands) : c = cands[i]
      BY DEF ToSet, SearchInv, Ordered, Ranked
    <2>3. result.is # "none" => pc = "done"
      BY DEF SearchInv, TypeInv, LookupInv, FailInv
    <2>4. result.is \notin {"notFound", "missed"}
      BY <2>2, <2>3 DEF SearchInv, Search, Concluded
    <2>5. ASSUME result.is = "found", Len(cands) > 1 PROVE Before(cands[result.at], c)
      <3>1. result.at = at /\ at <= Len(cands)
        BY <2>3, <2>5 DEF SearchInv, Search, Concluded
      <3>2. ~(i < at)
        BY <2>2 DEF SearchInv, Search, Behind
      <3>3. at \in 1..Len(cands) /\ at <= i
        BY <2>1, <2>2, <3>1, <3>2
      <3> QED BY <2>2, <2>5, <3>1, <3>3 DEF SearchInv, Ordered, Ranked
    <2> QED BY <2>4, <2>5
  <1> QED BY <1>1, SearchHolds, PTL
=============================================================================
