---------------------------- MODULE RemoteRoutes ----------------------------
(***************************************************************************)
(* RemoteFetcher: one documentation lookup that no local source could      *)
(* answer, on its way through the routes of GOPROXY: module proxies, the   *)
(* implicit noproxy route, direct Git and off.  Whatever a route delivers  *)
(* is verified (ModuleArchiveVerifier) and cached (ArchiveStore) before    *)
(* the package is taken from it.                                           *)
(*                                                                         *)
(* The lookup is sequential.  What is not under its control is chosen by   *)
(* the environment: the answers of proxies, repositories and the checksum  *)
(* database, failures of the cache, and the context being cancelled.       *)
(*                                                                         *)
(* An archive stands for the bytes of a module ZIP and for their hash.     *)
(* The matching of GOPRIVATE-like patterns is given by the set of module   *)
(* paths it holds for.                                                     *)
(***************************************************************************)
EXTENDS Naturals, Sequences, FiniteSets

CONSTANTS
    Proxy,       \* proxy URLs
    Module,      \* module paths
    Candidates,  \* the module paths that are prefixes of the package path
    Depth,       \* their lengths
    Version,     \* canonical versions
    Archive,
    Authentic,   \* the archive whose hash the checksum database has
    Queries,     \* the lookups considered: policy and request
    NoProxy, NoModule, NoVersion, NoArchive

VARIABLES
    query,     \* policy and request of this lookup
    routes,    \* parsed GOPROXY
    at,        \* index of the route that is tried
    pc,
    todo,      \* module paths this proxy has not been asked for
    first,     \* the one go-import discovery puts first
    cur,       \* module, version and bytes in hand, and whether verified
    tried,     \* why each earlier route failed
    best,      \* the error to report
    result,
    stored,    \* archives put into the cache
    latest,    \* latest aliases recorded
    asked,     \* module paths asked of a route
    discovered,  \* routes on which go-import discovery asked the path's own host
    sums,      \* versions asked of the checksum database, and through whom
    evidence   \* versions proxies reported as latest

walk    == <<todo, first>>
cache   == <<stored, latest>>
history == <<asked, discovered, sums, evidence>>
vars == <<query, routes, at, pc, todo, first, cur, tried, best, result,
          stored, latest, asked, discovered, sums, evidence>>

-----------------------------------------------------------------------------
Route == [kind : {"url", "noproxy", "direct", "off"},
          proxy : Proxy \union {NoProxy}, pipe : BOOLEAN]

Url(x, pipe)  == [kind |-> "url", proxy |-> x, pipe |-> pipe]
Special(kind) == [kind |-> kind, proxy |-> NoProxy, pipe |-> FALSE]

Entry == {r \in Route : r.kind # "noproxy"}

Query ==
    [list     : Seq(Entry),            \* GOPROXY
     noproxy  : BOOLEAN,               \* GONOPROXY is not empty
     private  : SUBSET Module,         \* it matches these
     exempt   : SUBSET Module,         \* GONOSUMDB, or GOSUMDB=off
     database : BOOLEAN,               \* GOSUMDB names a URL
     version  : {"latest", "exact", "named"},
     selected : Module \union {NoModule},                \* by the build list
     pinned   : Version,               \* its version, or an exact request
     recorded : [Module \X Version -> Archive \union {NoArchive}]]  \* go.sum

ASSUME RemoteRoutesAssumption ==
    /\ Candidates \subseteq Module
    /\ Depth \in [Candidates -> Nat]
    /\ Authentic \in Archive
    /\ NoProxy \notin Proxy
    /\ NoModule \notin Module
    /\ NoVersion \notin Version
    /\ NoArchive \notin Archive
    /\ Queries \subseteq Query
    /\ \A q \in Queries : q.private # {} => q.noproxy

(* parseProxyRoutes: off and direct end the list. *)
Kept(list) == {i \in DOMAIN list : \A j \in 1..(i - 1) : list[j].kind = "url"}

Listed(list) == SubSeq(list, 1, Cardinality(Kept(list)))

Routes(q) ==
    IF q.noproxy /\ q.list # <<Special("direct")>>
      THEN <<Special("noproxy")>> \o Listed(q.list) ELSE Listed(q.list)

(* Errors that errors.Is reports as fs.ErrNotExist or not applicable. *)
NotFound == {"notApplicable", "useProxy", "noProxy", "disabled", "missing"}

Error == NotFound \union {"failed", "absent", "mismatch"}

Selected  == query.selected # NoModule
Floating  == ~Selected /\ query.version = "latest"
Canonical == Selected \/ query.version = "exact"
Here      == routes[at]

InHand(m, v, a) == [mod |-> m, ver |-> v, arch |-> a, verified |-> FALSE]
Nothing == InHand(NoModule, NoVersion, NoArchive)
NoError == [err |-> "none", rank |-> 0, from |-> 0]

Label == {"parse", "route", "version", "zip", "verify", "database", "put", "alias",
          "extract", "clone", "ssh", "checkout", "done"}

TypeOK ==
    /\ query \in Queries
    /\ routes \in Seq(Route)
    /\ pc \in Label
    /\ at \in Nat
    /\ pc \notin {"parse", "done"} => at \in DOMAIN routes
    /\ todo \subseteq Module
    /\ first \in Module \union {NoModule}
    /\ cur \in [mod : Module \union {NoModule}, ver : Version \union {NoVersion},
                arch : Archive \union {NoArchive}, verified : BOOLEAN]
    /\ tried \in Seq(Error)
    /\ best \in [err : Error \union {"none"}, rank : 0..2, from : Nat]
    /\ result \in {"none", "found", "failed", "cancelled"}
    /\ stored \in [Module \X Version -> Archive \union {NoArchive}]
    /\ latest \in [Module -> Version \union {NoVersion}]
    /\ asked \subseteq Nat \X Module
    /\ discovered \subseteq Nat
    /\ sums \subseteq (Proxy \union {NoProxy}) \X Module \X (Version \union {NoVersion})
    /\ evidence \subseteq Module \X Version

Init ==
    /\ query \in Queries
    /\ routes = <<>>
    /\ at = 1
    /\ pc = "parse"
    /\ todo = {}
    /\ first = NoModule
    /\ cur = Nothing
    /\ tried = <<>>
    /\ best = NoError
    /\ result = "none"
    /\ stored = [mv \in Module \X Version |-> NoArchive]
    /\ latest = [m \in Module |-> NoVersion]
    /\ asked = {}
    /\ discovered = {}
    /\ sums = {}
    /\ evidence = {}

-----------------------------------------------------------------------------
(* RemoteFetcher.Fetch: the loop over the routes. *)

Parse ==
    /\ pc = "parse"
    /\ LET parsed == Routes(query) IN
         IF \A i \in DOMAIN parsed : parsed[i].kind = "noproxy"
           THEN pc' = "done" /\ result' = "failed" /\ UNCHANGED routes
           ELSE pc' = "route" /\ routes' = parsed /\ UNCHANGED result
    /\ UNCHANGED <<query, at, todo, first, cur, tried, best, cache, history>>

Rank(kind, err) ==
    CASE kind = "direct" \/ (kind = "noproxy" /\ err # "useProxy") -> 2
      [] kind \in {"url", "off"} /\ err \notin NotFound -> 1
      [] OTHER -> 0

(* Mutant: of two such errors the first one is kept. *)
BetterFirst(err) ==
    LET rank == Rank(Here.kind, err) IN
    IF best.err = "none" \/ rank > best.rank
      THEN [err |-> err, rank |-> rank, from |-> at] ELSE best

(* A direct error is reported rather than a proxy's, a proxy's rather than *)
(* a first "not found"; of two such, the later one.                        *)
Better(err) ==
    LET rank == Rank(Here.kind, err) IN
    IF best.err = "none" \/ (rank > 0 /\ rank >= best.rank)
      THEN [err |-> err, rank |-> rank, from |-> at] ELSE best

Leaves(err) ==
    /\ tried' = Append(tried, err)
    /\ best' = Better(err)
    /\ cur' = Nothing
    /\ todo' = {}
    /\ first' = NoModule

GiveUp    == pc' = "done" /\ result' = "failed" /\ UNCHANGED at
NextRoute == pc' = "route" /\ at' = at + 1 /\ UNCHANGED result

(* Mutant: the last route is not told apart. *)
RouteFailsAndGoesOn(err) ==
    /\ Leaves(err)
    /\ IF err \notin NotFound /\ ~Here.pipe THEN GiveUp ELSE NextRoute

(* Mutant: comma and pipe are swapped. *)
RouteFailsInverted(err) ==
    /\ Leaves(err)
    /\ IF at = Len(routes) \/ (err \notin NotFound /\ Here.pipe) THEN GiveUp ELSE NextRoute

RouteFails(err) ==
    /\ Leaves(err)
    /\ IF at = Len(routes) \/ (err \notin NotFound /\ ~Here.pipe) THEN GiveUp ELSE NextRoute

Found ==
    /\ pc' = "done"
    /\ result' = "found"
    /\ UNCHANGED <<walk, cur, at, tried, best>>

(* The context is consulted when a route has failed. *)
Cancelled ==
    /\ pc \notin {"parse", "done"}
    /\ pc' = "done"
    /\ result' = "cancelled"
    /\ UNCHANGED <<query, routes, at, walk, cur, tried, best, cache, history>>

On(label, kinds) == pc = label /\ Here.kind \in kinds

Continue(label) == pc' = label /\ UNCHANGED <<at, tried, best, result>>

Off ==
    /\ On("route", {"off"})
    /\ RouteFails("disabled")
    /\ UNCHANGED <<query, routes, cache, history>>

-----------------------------------------------------------------------------
(* ProxyFetcher. *)

(* go-import discovery, which asks the host the package path begins with,  *)
(* comes before GONOPROXY is looked at.                                    *)
ProxyRoute ==
    /\ On("route", {"url"})
    /\ ~Selected
    /\ discovered' = discovered \union {at}
    /\ todo' = Candidates \ query.private
    /\ first' \in todo' \union {NoModule}
    /\ Continue("version")
    /\ UNCHANGED <<query, routes, cur, cache, asked, sums, evidence>>

(* Mutant: GONOPROXY is not consulted for a selected module. *)
ProxyRouteAnyone ==
    /\ On("route", {"url"})
    /\ Selected
    /\ cur' = InHand(query.selected, query.pinned, NoArchive)
    /\ Continue("zip")
    /\ UNCHANGED <<query, routes, walk, cache, history>>

ProxyRouteSelected ==
    /\ On("route", {"url"})
    /\ Selected
    /\ IF query.selected \in query.private
         THEN RouteFails("noProxy")
         ELSE /\ cur' = InHand(query.selected, query.pinned, NoArchive)
              /\ Continue("zip")
              /\ UNCHANGED walk
    /\ UNCHANGED <<query, routes, cache, history>>

(* The discovered module path is asked for first, then longer ones before  *)
(* shorter ones.                                                           *)
IsNext(m) == m = first \/ (first = NoModule /\ \A n \in todo : Depth[n] <= Depth[m])

Without(m) ==
    /\ todo' = todo \ {m}
    /\ first' = IF first = m THEN NoModule ELSE first

Ask(m) == asked' = asked \union {<<at, m>>}

ProxyVersion ==
    /\ pc = "version"
    /\ \E m \in todo :
         /\ IsNext(m)
         /\ Ask(m)
         /\ \/ /\ Without(m)
               /\ Continue("version")
               /\ UNCHANGED <<cur, evidence>>
            \/ RouteFails("failed") /\ UNCHANGED evidence
            \/ \E v \in Version :
                 /\ cur' = InHand(m, v, NoArchive)
                 /\ Without(m)
                 /\ evidence' = IF query.version = "latest" THEN evidence \union {<<m, v>>} ELSE evidence
                 /\ Continue("zip")
    /\ UNCHANGED <<query, routes, cache, discovered, sums>>

ProxyExhausted ==
    /\ pc = "version"
    /\ todo = {}
    /\ RouteFails("notApplicable")
    /\ UNCHANGED <<query, routes, cache, history>>

(* The proxy does not have it: on to the next module path. *)
NextCandidate ==
    /\ cur' = Nothing
    /\ Continue("version")
    /\ UNCHANGED walk

ProxyZip ==
    /\ pc = "zip"
    /\ Ask(cur.mod)
    /\ \/ IF Selected THEN RouteFails("notApplicable") ELSE NextCandidate
       \/ RouteFails("failed")
       \/ \E a \in Archive :
            /\ cur' = [cur EXCEPT !.arch = a]
            /\ Continue("verify")
            /\ UNCHANGED walk
    /\ UNCHANGED <<query, routes, cache, discovered, sums, evidence>>

(* An archive that is stored stays. *)
StorePut ==
    stored' = [stored EXCEPT ![<<cur.mod, cur.ver>>] = IF @ = NoArchive THEN cur.arch ELSE @]

(* Mutant: latest is recorded although the archive was not stored. *)
ProxyPutOrNot ==
    /\ On("put", {"url"})
    /\ StorePut \/ UNCHANGED stored
    /\ Continue(IF Floating THEN "alias" ELSE "extract")
    /\ UNCHANGED <<query, routes, walk, cur, latest, history>>

(* latest is recorded once the archive is stored. *)
ProxyPut ==
    /\ On("put", {"url"})
    /\ \/ StorePut /\ Continue(IF Floating THEN "alias" ELSE "extract")
       \/ Continue("extract") /\ UNCHANGED stored
    /\ UNCHANGED <<query, routes, walk, cur, latest, history>>

ProxySetLatest ==
    /\ pc = "alias"
    /\ latest' \in {latest, [latest EXCEPT ![cur.mod] = cur.ver]}
    /\ Continue("extract")
    /\ UNCHANGED <<query, routes, walk, cur, stored, history>>

ProxyExtract ==
    /\ On("extract", {"url"})
    /\ \/ Found
       \/ IF Selected THEN RouteFails("absent") ELSE NextCandidate
       \/ RouteFails("failed")
    /\ UNCHANGED <<query, routes, cache, history>>

-----------------------------------------------------------------------------
(* ModuleArchiveVerifier and the checksum database. *)

Recorded == query.recorded[<<cur.mod, cur.ver>>]

Accept ==
    /\ cur' = [cur EXCEPT !.verified = TRUE]
    /\ Continue(IF Here.kind = "url" THEN "put" ELSE "extract")
    /\ UNCHANGED walk

(* Mutant: without a recorded sum the archive is accepted. *)
VerifyRecordedOnly ==
    /\ pc = "verify"
    /\ IF Recorded \in {cur.arch, NoArchive} THEN Accept ELSE RouteFails("mismatch")
    /\ UNCHANGED <<query, routes, cache, history>>

Verify ==
    /\ pc = "verify"
    /\ \/ RouteFails("failed")      \* not a module ZIP
       \/ Recorded = cur.arch /\ Accept
       \/ Recorded \notin {cur.arch, NoArchive} /\ RouteFails("mismatch")
       \/ Recorded = NoArchive /\ cur.mod \in query.exempt /\ Accept
       \/ /\ Recorded = NoArchive /\ cur.mod \notin query.exempt
          /\ Continue("database")
          /\ UNCHANGED <<cur, walk>>
    /\ UNCHANGED <<query, routes, cache, history>>

(* initBase: the URL of GOSUMDB, or the first proxy that supports the      *)
(* database, or the database itself (NoProxy). Any proxy may be that first *)
(* one: the ones before it may not know the database.                      *)
Bases == {NoProxy} \union
    {routes[i].proxy : i \in {j \in DOMAIN routes : routes[j].kind = "url" /\ ~query.database}}

(* A base that answers 404 or 410 makes an error that is fs.ErrNotExist;   *)
(* whether it still is one after the sumdb client is left open.            *)
DatabaseFails == \E err \in {"missing", "failed"} : RouteFails(err)

Database ==
    /\ pc = "database"
    /\ \/ DatabaseFails /\ UNCHANGED sums
       \/ \E base \in Bases :
            /\ sums' = sums \union {<<base, cur.mod, cur.ver>>}
            /\ DatabaseFails \/ (cur.arch = Authentic /\ Accept)
    /\ UNCHANGED <<query, routes, cache, asked, discovered, evidence>>

-----------------------------------------------------------------------------
(* GitFetcher. *)

(* The repository is resolved, by go-import discovery unless the host is   *)
(* one whose layout is known; then come the checks that precede a clone,   *)
(* GONOPROXY the first.                                                    *)
GitRoute ==
    /\ On("route", {"noproxy", "direct"})
    /\ discovered' \in {discovered, discovered \union {at}}
    /\ \/ RouteFails("notApplicable")
       \/ \E m \in IF Selected THEN {query.selected} ELSE Candidates :
            IF Here.kind = "noproxy" /\ m \notin query.private THEN RouteFails("useProxy")
            ELSE \/ RouteFails("failed")     \* GOVCS, transport or layout
                 \/ /\ Floating => m \in query.exempt
                    /\ cur' = InHand(m, IF Canonical THEN query.pinned ELSE NoVersion, NoArchive)
                    /\ Continue("clone")
                    /\ UNCHANGED walk
    /\ UNCHANGED <<query, routes, cache, asked, sums, evidence>>

GitClone ==
    /\ pc = "clone"
    /\ Ask(cur.mod)
    /\ \/ \E next \in {"checkout", "ssh"} : Continue(next) /\ UNCHANGED <<cur, walk>>
       \/ \E err \in {"missing", "failed"} : RouteFails(err)
    /\ UNCHANGED <<query, routes, cache, discovered, sums, evidence>>

(* Authentication failed: once more with SSH. *)
GitRetry ==
    /\ pc = "ssh"
    /\ \/ Continue("checkout") /\ UNCHANGED <<cur, walk>>
       \/ RouteFails("failed")
    /\ UNCHANGED <<query, routes, cache, history>>

(* A canonical version is made an archive of and verified. *)
GitCheckout ==
    /\ pc = "checkout"
    /\ \/ RouteFails("failed")
       \/ \E a \in Archive :
            /\ cur' = [cur EXCEPT !.arch = a]
            /\ Continue(IF Canonical THEN "verify" ELSE "extract")
            /\ UNCHANGED walk
    /\ UNCHANGED <<query, routes, cache, history>>

GitExtract ==
    /\ On("extract", {"noproxy", "direct"})
    /\ \/ RouteFails("failed")
       \/ IF cur.verified THEN Continue("put") /\ UNCHANGED <<cur, walk>> ELSE Found
    /\ UNCHANGED <<query, routes, cache, history>>

GitPut ==
    /\ On("put", {"noproxy", "direct"})
    /\ StorePut \/ UNCHANGED stored
    /\ Found
    /\ UNCHANGED <<query, routes, latest, history>>

-----------------------------------------------------------------------------
Proxied == \/ ProxyRoute \/ ProxyRouteSelected \/ ProxyVersion \/ ProxyExhausted \/ ProxyZip
           \/ ProxyPut \/ ProxySetLatest \/ ProxyExtract

Direct == \/ GitRoute \/ GitClone \/ GitRetry \/ GitCheckout \/ GitExtract \/ GitPut

Progress == Parse \/ Off \/ Proxied \/ Direct \/ Verify \/ Database

Next == Progress \/ Cancelled

Spec == Init /\ [][Next]_vars

-----------------------------------------------------------------------------
(* GOPROXY as the user wrote it begins after the implicit route. *)
Implicit == Len(routes) - Len(Listed(query.list))

(* On behalf of a route somebody is asked, the route itself or the host    *)
(* that go-import discovery turns to, only after every earlier entry of    *)
(* GOPROXY has failed, with "not found" if a comma followed it, and never  *)
(* past "direct" or "off"; and the lookup gives up early only after        *)
(* another error where a comma follows.                                    *)
FallbackRule ==
    /\ \A i \in {ask[1] : ask \in asked} \union discovered : \A j \in 1..(i - 1) :
         /\ tried[j] \in NotFound \/ (j > Implicit /\ query.list[j - Implicit].pipe)
         /\ j > Implicit => query.list[j - Implicit].kind = "url"
    /\ result = "failed" /\ Len(tried) < Len(routes) =>
         tried[Len(tried)] \notin NotFound /\ ~routes[Len(tried)].pipe

(* The error a failed lookup reports is the last one of a direct route; if *)
(* there is none, the last proxy error that says more than "not found";    *)
(* if there is none, the first error.                                      *)
ErrorByRank ==
    LET direct == {j \in DOMAIN tried : \/ routes[j].kind = "direct"
                                        \/ routes[j].kind = "noproxy" /\ tried[j] # "useProxy"}
        hard   == {j \in DOMAIN tried : tried[j] \notin NotFound}
        from   == best.from
    IN result = "failed" /\ tried # <<>> =>
         /\ best.err = tried[from]
         /\ \/ from \in direct /\ \A j \in direct : j <= from
            \/ direct = {} /\ from \in hard /\ \A j \in hard : j <= from
            \/ direct = {} /\ hard = {} /\ from = 1

(* Who learns which module somebody looks up. As a route of GOPROXY, a     *)
(* proxy is asked for no private module, the implicit direct route for     *)
(* private ones only, and "off" for none. The checksum database is asked   *)
(* for no module that is exempt and for no version whose sum is recorded.  *)
(* A proxy may pass that question on, and so learn of a private module     *)
(* that is not exempt, but only if GOPROXY lists it and GOSUMDB names no   *)
(* URL. Discovery tells the path to the host it begins with, private or    *)
(* not, but not on behalf of "off", nor on behalf of a proxy that is to be *)
(* asked for a module the build list selected.                             *)
PrivacyRespected ==
    /\ \A ask \in asked :
         CASE routes[ask[1]].kind = "url"     -> ask[2] \notin query.private
           [] routes[ask[1]].kind = "noproxy" -> ask[2] \in query.private
           [] OTHER                           -> routes[ask[1]].kind = "direct"
    /\ \A s \in sums :
         /\ s[2] \notin query.exempt
         /\ query.recorded[<<s[2], s[3]>>] = NoArchive
         /\ s[1] # NoProxy =>
              ~query.database /\ \E i \in DOMAIN routes : routes[i].kind = "url" /\ routes[i].proxy = s[1]
    /\ \A i \in discovered : /\ routes[i].kind # "off"
                             /\ routes[i].kind = "url" => ~Selected

Trusted(m, v, a) ==
    \/ query.recorded[<<m, v>>] = a
    \/ query.recorded[<<m, v>>] = NoArchive /\ (m \in query.exempt \/ a = Authentic)

(* What enters the cache is what go.sum records or, failing that, what the *)
(* checksum database has or the policy exempts, whichever route it came    *)
(* by; so is what a lookup returns, but for a branch, tag or default       *)
(* branch read directly from Git, which has no archive.                    *)
OnlyVerified ==
    /\ \A m \in Module, v \in Version :
         stored[<<m, v>>] # NoArchive => Trusted(m, v, stored[<<m, v>>])
    /\ result = "found" /\ (Here.kind = "url" \/ Canonical) => Trusted(cur.mod, cur.ver, cur.arch)
    /\ result = "found" /\ Floating => Here.kind = "url" \/ cur.mod \in query.exempt

(* A recorded latest is a version a proxy reported as the module's latest  *)
(* and whose verified archive is in the cache (decision D-018).            *)
LatestIsEvidence ==
    \A m \in Module : latest[m] # NoVersion =>
        <<m, latest[m]>> \in evidence /\ stored[<<m, latest[m]>>] # NoArchive

=============================================================================
