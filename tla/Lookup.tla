------------------------------- MODULE Lookup -------------------------------
(***************************************************************************)
(* scut gotools doc: from the arguments to the source of one package.      *)
(* LookupResolver reads the arguments as one or more interpretations and   *)
(* tries them in turn; for each, Resolver asks a chain of fetchers: local  *)
(* directory, GOROOT, build list, go.mod replacements, Go module cache,    *)
(* scut module cache, network.  Lookups follow each other over the same    *)
(* caches, each under its own environment.                                 *)
(*                                                                         *)
(* An import path is a sequence of elements, an element the sequence of    *)
(* identifiers between its periods: a.b/c.D is <<<<a, b>>, <<c, D>>>>.     *)
(* A directory tree is a function from relative paths to what the package  *)
(* there contains.  An archive stands for the bytes of a module ZIP and    *)
(* their hash.  One call of a fetcher is one step; the network, which      *)
(* RemoteRoutes models in detail, delivers, misses or fails.               *)
(***************************************************************************)
EXTENDS Integers, Sequences, SequencesExt, FiniteSets

CONSTANTS
    Exported,   \* identifiers that begin with a capital
    GitHosts,   \* github.com and the like
    Skipped,    \* vendor, testdata and dot directories
    Rank,       \* lexical order of path elements
    Archive, Tree,     \* archives, and the directory tree in each
    Worlds,     \* what is on disk and on the network
    Requests,   \* arguments and environment of one invocation
    Repeated,   \* the requests that may follow one another
    MaxLookups

VARIABLES
    world, request,
    store, latest,      \* the scut cache: archives with provenance, aliases
    buildList,          \* go list: "unread", "read" or "failed"
    cands, at,          \* interpretations of the arguments, the current one
    matches, importPath,   \* packages it may name that were not tried, the one that is
    excluded,              \* constraints left one of them out
    route, source,      \* fetcher that is asked, what was fetched
    absent, symbolErr, literalErr,   \* errors put aside
    pc, result,
    lookups, vouched, asked, failures   \* history

resolve == <<cands, absent, symbolErr, literalErr>>
packages == <<matches, importPath, excluded>>
caches  == <<store, latest>>
history == <<lookups, vouched, asked, failures>>
vars == <<world, request, store, latest, buildList, cands, at, matches, importPath, excluded,
          route, source, absent, symbolErr, literalErr, pc, result,
          lookups, vouched, asked, failures>>

-----------------------------------------------------------------------------
(* Contents of directories and archives.                                   *)
Targets == {"linux", "windows"}

Package(targets, symbols) == [kind |-> "go", targets |-> targets, symbols |-> symbols]
NoGoFiles  == [kind |-> "none", targets |-> {}, symbols |-> {}]
Unreadable == [NoGoFiles EXCEPT !.kind = "unreadable"]
Unparsable == [Package(Targets, {}) EXCEPT !.kind = "unparsable"]

In(tree, rel) == IF rel \in DOMAIN tree THEN tree[rel] ELSE NoGoFiles

Below(pkg, mod) == SubSeq(pkg, Len(mod) + 1, Len(pkg))

(* The longest module path of mods that pkg is in, or the empty one.       *)
LongestPrefix(mods, pkg) ==
    LET in == {m \in mods : IsPrefix(m, pkg)} \union {<<>>}
    IN  CHOOSE m \in in : \A n \in in : Len(n) <= Len(m)

Dot == <<".">>
DotDot == <<"..">>
IsLocal(path) == path # <<>> /\ path[1] \in {Dot, DotDot}

-----------------------------------------------------------------------------
(* The Go environment: process, then the user's go/env unless GOENV=off,   *)
(* then GOROOT/go.env.  An empty value counts as unset, but an empty one   *)
(* in the user's file still hides that of GOROOT.                          *)
FileValues(env) ==
    IF env.goenvOff THEN env.goroot
    ELSE [n \in DOMAIN env.user \union DOMAIN env.goroot |->
            IF n \in DOMAIN env.user THEN env.user[n] ELSE env.goroot[n]]

Setting(env, name, fallback) ==
    LET files == FileValues(env)
        Set(vals) == name \in DOMAIN vals /\ vals[name] # {}
    IN  IF Set(env.process) THEN env.process[name]
        ELSE IF Set(files) THEN files[name] ELSE fallback

Exempt(env) == Setting(env, "GONOSUMDB", Setting(env, "GOPRIVATE", {}))
Database(env) == CHOOSE d \in Setting(env, "GOSUMDB", {"sum"}) : TRUE
GOOS(env) == CHOOSE t \in Setting(env, "GOOS", {"linux"}) : TRUE

-----------------------------------------------------------------------------
(* The interpretations of the arguments (lookupCandidates).                *)
Candidate(kind, pkg, symbol, continue) ==
    [kind |-> kind, pkg |-> pkg, symbol |-> symbol, continue |-> continue]

KindOf(pkg) == IF Len(pkg) > 1 THEN "full" ELSE "suffix"

Split(arg, k) ==
    LET last == Last(arg)
        pkg  == Append(Front(arg), SubSeq(last, 1, k))
    IN  Candidate(KindOf(pkg), pkg, SubSeq(last, k + 1, Len(last)), TRUE)

(* Mutant: the shortest package path is tried first.                       *)
OneArgShortest(arg) ==
    IF IsLocal(arg) THEN <<Candidate("local", arg, <<>>, FALSE)>>
    ELSE [k \in 1..(Len(Last(arg)) - 1) |-> Split(arg, k)]
           \o <<Candidate("full", arg, <<>>, FALSE)>>

OneArg(arg) ==
    IF IsLocal(arg) THEN <<Candidate("local", arg, <<>>, FALSE)>>
    ELSE IF Len(arg) = 1 /\ arg[1][1] \in Exported
      THEN <<Candidate("current", <<>>, arg[1], FALSE)>>
    ELSE <<Candidate("full", arg, <<>>, FALSE)>>
           \o [k \in 1..(Len(Last(arg)) - 1) |-> Split(arg, k)]

TwoArgs(arg, symbol) ==
    LET kind == IF IsLocal(arg) THEN "local" ELSE KindOf(arg)
    IN  <<Candidate(kind, arg, symbol, kind = "suffix")>>

Candidates(args) ==
    CASE args = <<>>    -> <<Candidate("current", <<>>, <<>>, FALSE)>>
      [] Len(args) = 1  -> OneArg(args[1])
      [] Len(args) = 2  -> TwoArgs(args[1], args[2][1])

(* At most one period in a symbol, at most two arguments.                  *)
WellFormed(args) == Len(args) <= 2 /\ \A c \in ToSet(Candidates(args)) : Len(c.symbol) <= 2

CurrentPackage == IF world.mod = <<>> THEN <<Dot>> ELSE <<Dot>> \o world.cwd

(* The package index: GOROOT, and only without a match the own module.     *)
Indexed(tree) == {p \in DOMAIN tree : \A k \in DOMAIN p : p[k] \notin Skipped}

Index(tree, root) == {root \o p : p \in {q \in Indexed(tree) : tree[q].kind \in {"go", "unparsable"}}}

Earlier(p, q) ==
    \/ Len(p) < Len(q)
    \/ /\ Len(p) = Len(q)
       /\ \E k \in DOMAIN p : SubSeq(p, 1, k - 1) = SubSeq(q, 1, k - 1) /\ Rank[p[k]] < Rank[q[k]]

Group(tree, root, suffix) == {p \in Index(tree, root) : p # <<>> /\ IsSuffix(suffix, p)}

IndexFails(tree) == \E p \in Indexed(tree) : tree[p].kind = "unreadable"

MatchSuffix(suffix) ==
    LET std == Group(world.std, <<>>, suffix)
    IN  IF std # {} \/ world.mod = <<>> THEN std ELSE Group(world.own, world.mod, suffix)

MatchFails(suffix) ==
    \/ IndexFails(world.std)
    \/ /\ Group(world.std, <<>>, suffix) = {}
       /\ world.mod # <<>> /\ IndexFails(world.own)

-----------------------------------------------------------------------------
(* Which module a package belongs to (ModuleSelectorChain).                *)
NoSelection == [mod |-> <<>>, ver |-> 0, src |-> <<>>, srcVer |-> 0, local |-> FALSE]

Wanted(ver) == request.version \in {0, ver}

Listed(pkg) ==
    LET m == LongestPrefix(DOMAIN world.list, pkg)
    IN  IF buildList = "read" /\ m # <<>> /\ Wanted(world.list[m].ver)
          THEN [mod |-> m] @@ [world.list[m] EXCEPT !.tree = {}] ELSE NoSelection

Required(pkg) ==
    LET m == LongestPrefix(DOMAIN world.required, pkg)
    IN  IF m # <<>> /\ Wanted(world.required[m])
          THEN [NoSelection EXCEPT !.mod = m, !.src = m, !.ver = world.required[m], !.srcVer = world.required[m]]
          ELSE NoSelection

Select(pkg) == IF Listed(pkg).mod # <<>> THEN Listed(pkg) ELSE Required(pkg)

(* Selected, and not read from a directory.                                *)
External(sel) == sel.mod # <<>> /\ ~sel.local /\ sel.srcVer # 0

ModulePaths(pkg) ==
    LET min == IF Len(pkg) >= 3 /\ pkg[1] \in GitHosts THEN 3 ELSE 2
    IN  [i \in 1..(Len(pkg) - min + 1) |-> SubSeq(pkg, 1, Len(pkg) - i + 1)]

-----------------------------------------------------------------------------
(* The answers of a fetcher.                                               *)
Source(from, pkg, content) ==
    [from |-> from, pkg |-> pkg, content |-> content, mod |-> <<>>, ver |-> 0,
     src |-> <<>>, srcVer |-> 0, arch |-> "none"]
NoSource == Source("none", <<>>, NoGoFiles)

Pass     == [is |-> "pass"]
Fails(e) == [is |-> "error", err |-> e]
Gives(s) == [is |-> "source", source |-> s]

FromDir(from, pkg, content) ==
    CASE content.kind = "none"       -> Pass
      [] content.kind = "unreadable" -> Fails("failed")
      [] OTHER                       -> Gives(Source(from, pkg, content))

(* ModuleArchiveVerifier: who vouches for an archive, "none" if nobody.    *)
(* Mutant: any recorded provenance will do.                                *)
SatisfiesAny(who, env) == who # "none"

Satisfies(who, env) == who \in {"goSum", "goCache", Database(env)} \ {"off"}

Knows(db, mv, arch) == mv \in DOMAIN world.sums[db] /\ world.sums[db][mv] = arch

Voucher(src, ver, arch, who) ==
    LET mv == <<src, ver>>
        env == request.env
        Keep(policy) == IF who # "none" THEN who ELSE policy
    IN  IF mv \in DOMAIN request.goSum
          THEN IF request.goSum[mv] = {arch} THEN "goSum" ELSE "none"
        ELSE IF Database(env) = "off" THEN Keep("policyOff")
        ELSE IF src \in Exempt(env) THEN Keep("policySkip")
        ELSE IF Satisfies(who, env) THEN who
        ELSE IF request.online /\ Knows(Database(env), mv, arch) THEN Database(env)
        ELSE "none"

FromArchive(from, pkg, sel, arch, who) ==
    LET content == In(Tree[arch], Below(pkg, sel.mod))
    IN  IF Voucher(sel.src, sel.srcVer, arch, who) = "none" THEN Fails("unverified")
        ELSE IF content.kind = "none" THEN Fails("absent")
        ELSE Gives([Source(from, pkg, content) EXCEPT !.mod = sel.mod, !.ver = sel.ver,
                      !.src = sel.src, !.srcVer = sel.srcVer, !.arch = arch])

Plain(mod, ver) == [NoSelection EXCEPT !.mod = mod, !.src = mod, !.ver = ver, !.srcVer = ver]

(* Of the answers for the module paths the first one that ends the walk.   *)
Walk(answers, ends) ==
    IF ends = {} THEN Pass ELSE answers[CHOOSE i \in ends : \A j \in ends : i <= j]

IsAbsent(answer) == answer.is = "error" /\ answer.err = "absent"
Decides(answer)  == answer # Pass /\ ~IsAbsent(answer)
Decisive(answers) == {i \in DOMAIN answers : Decides(answers[i])}

InGoCache(pkg, sel) ==
    LET mv == <<sel.src, sel.srcVer>>
    IN  IF mv \notin DOMAIN world.goCache THEN Pass
        ELSE IF ~world.goCache[mv].intact THEN Fails("failed")
        ELSE FromArchive("goCache", pkg, sel, world.goCache[mv].arch, "goCache")

InStore(pkg, sel) ==
    LET mv == <<sel.src, sel.srcVer>>
    IN  IF mv \notin DOMAIN store THEN Pass
        ELSE FromArchive("scutCache", pkg, sel, store[mv].arch, store[mv].who)

(* module.CheckPath wants a period in the first element.                   *)
Malformed(mod) == Len(mod[1]) = 1

(* Only the newest version of each module path is looked into.             *)
Newest(mod) ==
    LET vs == {mv[2] : mv \in {x \in DOMAIN world.goCache : x[1] = mod}}
    IN  IF request.version # 0 THEN request.version
        ELSE IF vs = {} THEN 0 ELSE CHOOSE v \in vs : \A w \in vs : w <= v

CachedVersion(mod) ==
    IF request.version # 0 THEN request.version
    ELSE IF mod \in DOMAIN latest THEN latest[mod] ELSE 0

(* Mutant: the walk over module paths ignores the selected version.        *)
GoCacheWalk(pkg) ==
    LET paths   == ModulePaths(pkg)
        answers == [i \in DOMAIN paths |-> InGoCache(pkg, Plain(paths[i], Newest(paths[i])))]
    IN  Walk(answers, Decisive(answers))

GoCacheAnswer(pkg) ==
    LET paths   == ModulePaths(pkg)
        answers == [i \in DOMAIN paths |->
                      IF Malformed(paths[i]) /\ request.version = 0 THEN Fails("failed")
                      ELSE InGoCache(pkg, Plain(paths[i], Newest(paths[i])))]
    IN  IF External(Select(pkg)) THEN InGoCache(pkg, Select(pkg))
        ELSE IF Decisive(answers) # {} THEN Walk(answers, Decisive(answers))
        ELSE Walk(answers, {i \in DOMAIN answers : IsAbsent(answers[i])})

ScutCacheAnswer(pkg) ==
    LET paths   == ModulePaths(pkg)
        answers == [i \in DOMAIN paths |-> InStore(pkg, Plain(paths[i], CachedVersion(paths[i])))]
    IN  IF External(Select(pkg)) THEN InStore(pkg, Select(pkg))
        ELSE Walk(answers, Decisive(answers))

LocalAnswer(pkg) ==
    IF ~IsLocal(pkg) THEN Pass
    ELSE IF pkg[1] = DotDot THEN Fails("outside")
    ELSE LET rel == Tail(pkg)
             got == FromDir("local", world.mod \o rel, In(world.own, rel))
         IN  IF got = Pass THEN Fails("noGoFiles") ELSE got

StdlibAnswer(pkg) == IF IsLocal(pkg) THEN Pass ELSE FromDir("stdlib", pkg, In(world.std, pkg))

BuildListAnswer(pkg) ==
    LET sel == Listed(pkg)
    IN  IF ~sel.local THEN Pass
        ELSE FromDir("buildList", pkg, In(world.list[sel.mod].tree, Below(pkg, sel.mod)))

ReplaceAnswer(pkg) ==
    LET m == LongestPrefix(DOMAIN world.replaced, pkg)
    IN  IF m = <<>> THEN Pass
        ELSE FromDir("replace", pkg, In(world.replaced[m], Below(pkg, m)))

-----------------------------------------------------------------------------
(* Mutant: the network is asked before the scut cache.                     *)
ChainRemoteEarly == <<"local", "stdlib", "buildList", "replace", "goCache", "remote", "scutCache">>

Chain == <<"local", "stdlib", "buildList", "replace", "goCache", "scutCache", "remote">>
Step(r) == CHOOSE i \in DOMAIN Chain : Chain[i] = r

Error == {"failed", "outside", "noGoFiles", "unverified", "excluded", "absent"}
Verdict == {"found", "notFound", "missed", "usage", "unparsable"} \union Error
Voucher_ == {"goSum", "goCache", "policyOff", "policySkip"} \union DOMAIN world.sums

Provenance == {"none", "goSum", "goCache", "policyOff", "policySkip"}

ASSUME LookupAssumption ==
    /\ Repeated \subseteq Requests
    /\ MaxLookups \in Nat
    /\ \A w \in Worlds : \A pkg \in DOMAIN w.std : pkg \in Seq(Seq(STRING)) /\ ~IsLocal(pkg)
    /\ \A w \in Worlds : \A mv \in DOMAIN w.goCache :
          w.goCache[mv] \in [arch : Archive, intact : BOOLEAN]
    /\ \A r \in Requests : Database(r.env) \notin Provenance
    /\ \A r \in Requests, w \in Worlds : Database(r.env) \in DOMAIN w.sums \union {"off"}
    /\ \A r \in Requests : r.args \in Seq(Seq(Seq(STRING) \ {<<>>}) \ {<<>>})

TypeOK ==
    /\ world \in Worlds /\ request \in Requests
    /\ \A mv \in DOMAIN store : store[mv].arch \in Archive /\ store[mv].who \in Voucher_
    /\ \A m \in DOMAIN latest : <<m, latest[m]>> \in DOMAIN store
    /\ buildList \in {"unread", "read", "failed"}
    /\ pc \in {"arguments", "candidate", "package", "fetch", "examine", "done"}
    /\ at \in 1..(Len(cands) + 1)
    /\ pc \in {"package", "fetch", "examine"} => at <= Len(cands)
    /\ route \in ToSet(Chain)
    /\ pc = "examine" => source # NoSource
    /\ excluded \in BOOLEAN /\ absent \in BOOLEAN
    /\ {symbolErr, literalErr} \subseteq Error \union {"none"}
    /\ result \in [is : Verdict \union {"none"}, at : Nat]
    /\ failures \subseteq Nat \X Error

NoResult == [is |-> "none", at |-> 0]

Recorded(r) == {x \in (DOMAIN r.goSum) \X Archive : r.goSum[x[1]] = {x[2]}}

Init ==
    /\ world \in Worlds /\ request \in Requests
    /\ store = <<>> /\ latest = <<>>
    /\ lookups = 1
    /\ vouched = Recorded(request)
    /\ buildList = "unread" /\ cands = <<>> /\ at = 1 /\ matches = {}
    /\ importPath = <<>> /\ excluded = FALSE
    /\ route = "local" /\ source = NoSource /\ pc = "arguments" /\ result = NoResult
    /\ absent = FALSE /\ symbolErr = "none" /\ literalErr = "none" /\ asked = {} /\ failures = {}

(* The user asks again, perhaps under another environment.                 *)
NextLookup ==
    /\ pc = "done" /\ lookups < MaxLookups
    /\ request \in Repeated /\ request' \in Repeated
    /\ lookups' = lookups + 1
    /\ vouched' = vouched \union Recorded(request')
    /\ buildList' = "unread" /\ cands' = <<>> /\ at' = 1 /\ matches' = {}
    /\ importPath' = <<>> /\ excluded' = FALSE
    /\ route' = "local" /\ source' = NoSource /\ pc' = "arguments" /\ result' = NoResult
    /\ absent' = FALSE /\ symbolErr' = "none" /\ literalErr' = "none" /\ asked' = {} /\ failures' = {}
    /\ UNCHANGED <<world, caches>>

Return(verdict) == pc' = "done" /\ result' = [is |-> verdict, at |-> at]

ReadArguments ==
    /\ pc = "arguments"
    /\ IF WellFormed(request.args)
         THEN cands' = Candidates(request.args) /\ pc' = "candidate" /\ UNCHANGED result
         ELSE Return("usage") /\ UNCHANGED cands
    /\ UNCHANGED <<world, request, caches, buildList, at, packages, route, source,
                   absent, symbolErr, literalErr, history>>

TakeCandidate ==
    /\ pc = "candidate" /\ at <= Len(cands)
    /\ LET c == cands[at] IN
         /\ c.kind = "suffix" => ~MatchFails(c.pkg)
         /\ matches' = IF c.kind = "suffix" THEN MatchSuffix(c.pkg)
                       ELSE IF c.kind = "current" THEN {CurrentPackage} ELSE {c.pkg}
    /\ excluded' = FALSE
    /\ pc' = "package"
    /\ UNCHANGED <<world, request, caches, buildList, resolve, at, importPath, route, source, result, history>>

IndexUnreadable ==
    /\ pc = "candidate" /\ at <= Len(cands)
    /\ cands[at].kind = "suffix" /\ MatchFails(cands[at].pkg)
    /\ Return("failed")
    /\ UNCHANGED <<world, request, caches, buildList, resolve, at, packages, route, source, history>>

(* Mutant: the error put aside is forgotten.                               *)
FirstErrorLost(current, e) == current

(* An error of this interpretation: of several, put it aside and go on.    *)
FirstError(current, e) == IF current # "none" THEN current ELSE e

Failed(e) ==
    /\ failures' = failures \union {<<at, e>>}
    /\ IF e = "absent" \/ Len(cands) > 1
         THEN /\ at' = at + 1 /\ pc' = "candidate"
              /\ absent' = (absent \/ e = "absent")
              /\ symbolErr' = IF e # "absent" /\ cands[at].symbol # <<>>
                                THEN FirstError(symbolErr, e) ELSE symbolErr
              /\ literalErr' = IF e # "absent" /\ cands[at].symbol = <<>>
                                 THEN FirstError(literalErr, e) ELSE literalErr
              /\ UNCHANGED result
         ELSE Return(e) /\ UNCHANGED <<at, absent, symbolErr, literalErr>>

(* The shortest path first, then the lexically smallest.                   *)
TakePackage ==
    /\ pc = "package"
    /\ \E p \in matches :
         /\ \A q \in matches \ {p} : Earlier(p, q)
         /\ importPath' = p /\ matches' = matches \ {p}
    /\ route' = IF world.mod = <<>> THEN "stdlib" ELSE "local"
    /\ pc' = "fetch"
    /\ UNCHANGED <<world, request, caches, buildList, resolve, at, excluded, source, result, history>>

LeaveCandidate ==
    /\ pc = "package" /\ matches = {}
    /\ IF excluded THEN Failed("excluded")
       ELSE /\ at' = at + 1 /\ pc' = "candidate"
            /\ UNCHANGED <<absent, symbolErr, literalErr, result, failures>>
    /\ UNCHANGED <<world, request, caches, buildList, cands, packages, route, source,
                   lookups, vouched, asked>>

(* sync.Once: one attempt for the invocation, limited to two seconds.      *)
ReadBuildList ==
    /\ pc = "fetch" /\ route = "buildList" /\ buildList = "unread"
    /\ buildList' \in {"failed"} \union (IF world.list # <<>> THEN {"read"} ELSE {})
    /\ UNCHANGED <<world, request, caches, resolve, at, packages, route, source, pc, result, history>>

Answered(answer) ==
    \/ /\ answer.is = "pass"
       /\ route' = Chain[Step(route) + 1]
       /\ UNCHANGED <<at, pc, source, absent, symbolErr, literalErr, result, failures>>
    \/ /\ answer.is = "error"
       /\ Failed(answer.err) /\ UNCHANGED <<route, source>>
    \/ /\ answer.is = "source"
       /\ source' = answer.source /\ pc' = "examine"
       /\ UNCHANGED <<at, route, absent, symbolErr, literalErr, result, failures>>

Answer(pkg) ==
    CASE route = "local"     -> LocalAnswer(pkg)
      [] route = "stdlib"    -> StdlibAnswer(pkg)
      [] route = "buildList" -> BuildListAnswer(pkg)
      [] route = "replace"   -> ReplaceAnswer(pkg)
      [] route = "goCache"   -> GoCacheAnswer(pkg)
      [] route = "scutCache" -> ScutCacheAnswer(pkg)

Fetch ==
    /\ pc = "fetch" /\ route # "remote"
    /\ route = "buildList" => buildList # "unread"
    /\ Answered(Answer(importPath))
    /\ UNCHANGED <<world, request, caches, buildList, cands, packages, lookups, vouched, asked>>

NotFetched ==
    /\ pc' = "package"
    /\ UNCHANGED <<at, source, absent, symbolErr, literalErr, result, failures>>

(* RemoteFetcher, see RemoteRoutes.                                        *)
AskRemote ==
    /\ pc = "fetch" /\ route = "remote"
    /\ asked' = asked \union {importPath}
    /\ UNCHANGED <<world, request, buildList, cands, packages, route,
                   lookups, vouched>>

RemoteMisses == AskRemote /\ request.online /\ NotFetched /\ UNCHANGED caches

RemoteFails ==
    AskRemote /\ Failed("failed") /\ UNCHANGED <<caches, source>>

RemoteSelections(pkg) ==
    IF External(Select(pkg)) THEN {Select(pkg)}
    ELSE {Plain(m, v) : m \in {n \in ToSet(ModulePaths(pkg)) : ~Malformed(n)},
                        v \in IF request.version # 0 THEN {request.version} ELSE world.offered}

(* Mutant: a write that failed is taken for one that did not.              *)
KeptNot(mv, entry) == store

(* An archive that is there stays.                                         *)
Kept(mv, entry) ==
    [x \in DOMAIN store \union {mv} |-> IF x \in DOMAIN store THEN store[x] ELSE entry]

Aliased(mod, ver) ==
    [m \in DOMAIN latest \union {mod} |-> IF m = mod THEN ver ELSE latest[m]]

(* Verified, cached if possible, and only then read.                       *)
RemoteDelivers ==
    /\ AskRemote /\ request.online
    /\ \E sel \in RemoteSelections(importPath), arch \in Archive, kept \in BOOLEAN :
         LET mv  == <<sel.src, sel.srcVer>>
             who == Voucher(sel.src, sel.srcVer, arch, "none")
             answer == FromArchive("remote", importPath, sel, arch, who)
         IN  /\ \/ /\ who = "none"
                   /\ Failed("unverified") /\ UNCHANGED source
                \/ /\ who # "none" /\ IsAbsent(answer)
                   /\ IF External(Select(importPath)) THEN Failed("absent") /\ UNCHANGED source
                      ELSE NotFetched
                \/ /\ who # "none" /\ ~IsAbsent(answer)
                   /\ source' = answer.source /\ pc' = "examine"
                   /\ UNCHANGED <<at, absent, symbolErr, literalErr, result, failures>>
             /\ IF kept /\ who # "none"
                  THEN /\ store' = Kept(mv, [arch |-> arch, who |-> who])
                       /\ latest' = IF request.version = 0 /\ ~External(Select(importPath))
                                      THEN Aliased(sel.src, sel.srcVer) ELSE latest
                  ELSE UNCHANGED caches

(* The source is there: build constraints, parser, symbol.                 *)
Built(content) == GOOS(request.env) \in content.targets

Excluded ==
    /\ pc = "examine" /\ ~Built(source.content)
    /\ IF cands[at].kind = "suffix"
         THEN /\ excluded' = TRUE /\ pc' = "package"
              /\ UNCHANGED <<at, absent, symbolErr, literalErr, result, failures>>
         ELSE Failed("excluded") /\ UNCHANGED excluded
    /\ UNCHANGED <<world, request, caches, buildList, cands, matches, importPath, route, source, lookups, vouched, asked>>

Parsed == pc = "examine" /\ Built(source.content) /\ source.content.kind = "go"

NotParsed ==
    /\ pc = "examine" /\ Built(source.content) /\ source.content.kind # "go"
    /\ Return("unparsable")
    /\ UNCHANGED <<world, request, caches, buildList, resolve, at, packages, route, source, history>>

HasSymbol == cands[at].symbol = <<>> \/ cands[at].symbol \in source.content.symbols

Found ==
    /\ Parsed /\ HasSymbol
    /\ Return("found")
    /\ UNCHANGED <<world, request, caches, buildList, resolve, at, packages, route, source, history>>

SymbolMissing ==
    /\ Parsed /\ ~HasSymbol
    /\ IF cands[at].continue
         THEN pc' = "package" /\ UNCHANGED result
         ELSE Return("missed")
    /\ UNCHANGED <<world, request, caches, buildList, resolve, at, packages, route, source, history>>

(* No interpretation is left: which error the user sees.                   *)
GiveUp ==
    /\ pc = "candidate" /\ at > Len(cands)
    /\ Return(IF absent THEN "notFound"
              ELSE IF symbolErr # "none" THEN symbolErr
              ELSE IF literalErr # "none" THEN literalErr
              ELSE IF \A c \in ToSet(cands) : c.symbol = <<>> THEN "notFound" ELSE "missed")
    /\ UNCHANGED <<world, request, caches, buildList, resolve, at, packages, route, source, history>>

Next ==
    \/ NextLookup \/ ReadArguments \/ TakeCandidate \/ IndexUnreadable \/ TakePackage
    \/ LeaveCandidate \/ ReadBuildList \/ Fetch \/ RemoteMisses \/ RemoteFails
    \/ RemoteDelivers \/ Excluded \/ NotParsed \/ Found \/ SymbolMissing \/ GiveUp

Spec == Init /\ [][Next]_vars

-----------------------------------------------------------------------------
(* D-030: the network is the last resort.  While the build list or go.mod  *)
(* selects a version that one of the caches holds, or a directory has the  *)
(* package, nothing is asked of a proxy or repository.                     *)
Held(pkg) ==
    LET sel == Select(pkg)
        mv  == <<sel.src, sel.srcVer>>
    IN  \/ In(world.std, pkg).kind # "none"
        \/ /\ sel.local
           /\ In(world.list[sel.mod].tree, Below(pkg, sel.mod)).kind # "none"
        \/ /\ External(sel)
           /\ mv \in DOMAIN world.goCache \/ mv \in DOMAIN store

NetworkLast == [][\A pkg \in asked' \ asked : ~Held(pkg)]_vars

(* D-012: where the build list or go.mod selects a version, documentation  *)
(* that comes from an archive comes from the one of that module version,   *)
(* under the import path that was asked for.                               *)
SelectionHonoured ==
    result.is = "found" /\ source.arch # "none" /\ External(Select(source.pkg)) =>
        LET sel == Select(source.pkg)
        IN  /\ source.mod = sel.mod /\ source.ver = sel.ver
            /\ source.src = sel.src /\ source.srcVer = sel.srcVer
            /\ source.content = In(Tree[source.arch], Below(source.pkg, sel.mod))

(* D-027, D-030: an archive that answers a lookup is one that no sum in    *)
(* go.sum contradicts; where this environment asks for a checksum database *)
(* that database has its sum, or Go did verify it, or a go.sum did.  What  *)
(* an earlier lookup was allowed to skip does not count.                   *)
AnswerVouched ==
    LET mv == <<source.src, source.srcVer>>
        db == Database(request.env)
    IN  result.is = "found" /\ source.arch # "none" =>
          /\ mv \in DOMAIN request.goSum => request.goSum[mv] = {source.arch}
          /\ \/ db = "off"
             \/ source.src \in Exempt(request.env)
             \/ <<mv, source.arch>> \in vouched
             \/ Knows(db, mv, source.arch)
             \/ /\ mv \in DOMAIN world.goCache
                /\ world.goCache[mv] = [intact |-> TRUE, arch |-> source.arch]

(* What Resolve's deferred errors are for: a lookup is reported as not     *)
(* found only if no interpretation met a failing source, or if a cached    *)
(* module is evidence that the package does not exist.                     *)
FailureReported ==
    result.is \in {"notFound", "missed"} => failures = {} \/ absent

(* go doc's order of interpretations: the whole argument is tried as an    *)
(* import path, then it is split at each period from the left.  One that   *)
(* GOROOT documents is never passed over: neither reported as missing, nor *)
(* answered by a later one, whatever the interpretations before it ran     *)
(* into and whatever else its path matches.                                *)
Documenting(c) ==
    LET Ok(content) == content.kind = "go" /\ Built(content)
                         /\ (c.symbol = <<>> \/ c.symbol \in content.symbols)
        Named == IF c.kind = "full" THEN {c.pkg}
                 ELSE IF c.kind = "suffix" THEN Group(world.std, <<>>, c.pkg) ELSE {}
    IN  {p \in Named : Ok(In(world.std, p))}

Before(c, d) ==
    \/ c.symbol = <<>>
    \/ d.symbol # <<>> /\ Len(Last(c.pkg)) <= Len(Last(d.pkg))

NonePassedOver ==
    \A c \in ToSet(cands) : Documenting(c) # {} =>
        /\ result.is \notin {"notFound", "missed"}
        /\ result.is = "found" /\ Len(cands) > 1 => Before(cands[result.at], c)

(* docs/content/cli/gotools.md: a package whose files the active build     *)
(* context excludes is not misreported as absent.                          *)
ExcludedReported ==
    result.is = "notFound" => \A i \in 1..Len(cands) : <<i, "excluded">> \notin failures
=============================================================================
