------------------------- MODULE RemoteRoutesProofs -------------------------
(***************************************************************************)
(* Theorems about RemoteRoutes for every policy and request, route lists   *)
(* of any length, and any number of modules, versions and archives.        *)
(***************************************************************************)
EXTENDS RemoteRoutes, FiniteSetTheorems, TLAPS

(* From here on a module is in hand. *)
Holding == {"zip", "verify", "database", "put", "alias", "extract", "clone", "ssh", "checkout"}

InHandInv == pc \in Holding => cur.mod \in Module

StartInv == pc = "parse" => at = 1 /\ asked = {} /\ discovered = {} /\ tried = <<>>

TypeInv == TypeOK /\ InHandInv /\ StartInv

(* GOPROXY is cut after direct or off, and stays a list of entries. *)
LEMMA ListedType == ASSUME NEW list \in Seq(Entry) PROVE Listed(list) \in Seq(Entry)
<1>1. IsFiniteSet(Kept(list)) /\ Cardinality(Kept(list)) <= Len(list)
  <2> DEFINE last == Len(list)
  <2>0. last \in Nat
    OBVIOUS
  <2>1. IsFiniteSet(1..last) /\ Cardinality(1..last) = last
    <3> HIDE DEF last
    <3> QED
      BY <2>0, FS_Interval
  <2>2. Kept(list) \subseteq 1..last
    BY DEF Kept
  <2> QED
    BY <2>1, <2>2, FS_Subset
<1>2. Cardinality(Kept(list)) \in Nat
  BY <1>1, FS_CardinalityType
<1> DEFINE n == Cardinality(Kept(list))
<1>3. \A i \in 1..n : list[i] \in Entry
  BY <1>1, <1>2
<1> HIDE DEF n
<1> QED
  BY <1>1, <1>2, <1>3 DEF Listed, n

LEMMA RoutesType == ASSUME NEW q \in Queries PROVE Routes(q) \in Seq(Route)
<1>1. q.list \in Seq(Entry)
  BY RemoteRoutesAssumption DEF RemoteRoutesAssumption, Query
<1>2. Listed(q.list) \in Seq(Route)
  <2>1. Listed(q.list) \in Seq(Entry)
    BY <1>1, ListedType
  <2> QED
    BY <2>1 DEF Entry
<1>3. <<Special("noproxy")>> \in Seq(Route)
  BY DEF Special, Route
<1> QED
  BY <1>2, <1>3 DEF Routes

LEMMA TypeInit == Init => TypeInv
<1> SUFFICES ASSUME Init PROVE TypeInv
  OBVIOUS
<1>1. cur \in [mod : Module \union {NoModule}, ver : Version \union {NoVersion},
               arch : Archive \union {NoArchive}, verified : BOOLEAN]
  BY DEF Init, Nothing, InHand
<1>2. best \in [err : Error \union {"none"}, rank : 0..2, from : Nat]
  BY DEF Init, NoError
<1>3. stored \in [Module \X Version -> Archive \union {NoArchive}]
  BY DEF Init
<1>4. latest \in [Module -> Version \union {NoVersion}]
  BY DEF Init
<1>5. routes \in Seq(Route) /\ tried \in Seq(Error) /\ at \in Nat /\ StartInv
  BY DEF Init, StartInv
<1>6. query \in Queries /\ pc \in Label /\ pc = "parse"
  BY DEF Init, Label
<1>7. todo \subseteq Module /\ first \in Module \union {NoModule}
  BY DEF Init
<1>8. /\ result \in {"none", "found", "failed", "cancelled"}
      /\ asked \subseteq Nat \X Module
      /\ discovered \subseteq Nat
      /\ sums \subseteq (Proxy \union {NoProxy}) \X Module \X (Version \union {NoVersion})
      /\ evidence \subseteq Module \X Version
  BY DEF Init
<1> QED
  BY <1>1, <1>2, <1>3, <1>4, <1>5, <1>6, <1>7, <1>8 DEF TypeOK, TypeInv, InHandInv, Holding

(* What a failed route leaves behind. *)
LEMMA RouteFailsType ==
  ASSUME TypeInv, NEW err \in Error, RouteFails(err),
         pc \notin {"parse", "done"},
         UNCHANGED <<query, routes>>
  PROVE  /\ tried' \in Seq(Error)
         /\ best' \in [err : Error \union {"none"}, rank : 0..2, from : Nat]
         /\ cur' \in [mod : Module \union {NoModule}, ver : Version \union {NoVersion},
                      arch : Archive \union {NoArchive}, verified : BOOLEAN]
         /\ todo' \subseteq Module
         /\ first' \in Module \union {NoModule}
         /\ result' \in {"none", "found", "failed", "cancelled"}
         /\ at' \in Nat
         /\ pc' \in {"done", "route"}
         /\ pc' # "done" => at' \in DOMAIN routes'
<1> USE DEF TypeInv, TypeOK
<1>1. tried' \in Seq(Error)
  BY DEF RouteFails, Leaves
<1>2. best' \in [err : Error \union {"none"}, rank : 0..2, from : Nat]
  <2>1. Rank(Here.kind, err) \in 0..2
    BY DEF Rank
  <2> QED
    BY <2>1 DEF RouteFails, Leaves, Better
<1>3. cur' \in [mod : Module \union {NoModule}, ver : Version \union {NoVersion},
                arch : Archive \union {NoArchive}, verified : BOOLEAN]
  BY DEF RouteFails, Leaves, Nothing, InHand
<1>4. todo' \subseteq Module /\ first' \in Module \union {NoModule}
  BY DEF RouteFails, Leaves
<1>5. CASE GiveUp
  BY <1>1, <1>2, <1>3, <1>4, <1>5 DEF GiveUp
<1>6. CASE NextRoute /\ at # Len(routes)
  <2>1. at \in DOMAIN routes /\ routes \in Seq(Route)
    OBVIOUS
  <2>2. at + 1 \in DOMAIN routes
    BY <1>6, <2>1
  <2> QED
    BY <1>1, <1>2, <1>3, <1>4, <1>6, <2>2 DEF NextRoute
<1> QED
  BY <1>5, <1>6 DEF RouteFails

(* Everything RouteFails does not mention and the actions leave alone. *)
LEMMA RouteFailsTypeInv ==
  ASSUME TypeInv, NEW err \in Error, RouteFails(err),
         pc \notin {"parse", "done"},
         UNCHANGED <<query, routes, stored, latest, evidence>>,
         asked' \subseteq Nat \X Module,
         discovered' \subseteq Nat,
         sums' \subseteq (Proxy \union {NoProxy}) \X Module \X (Version \union {NoVersion})
  PROVE  TypeInv'
<1>1. pc' \in Label \ Holding
  BY RouteFailsType DEF Label, Holding
<1> QED
  BY <1>1, RouteFailsType DEF TypeInv, TypeOK, InHandInv, StartInv

LEMMA AskType ==
  ASSUME TypeInv, NEW m \in Module, Ask(m)
  PROVE  asked' \subseteq Nat \X Module
BY DEF Ask, TypeInv, TypeOK

(* A route that goes on: only what is in hand and what is left to ask may  *)
(* have changed.                                                           *)
LEMMA ContinueTypeInv ==
  ASSUME TypeInv, pc \notin {"parse", "done"},
         NEW label \in Label \ {"parse", "done"}, Continue(label),
         label \in Holding => cur'.mod \in Module,
         cur' \in [mod : Module \union {NoModule}, ver : Version \union {NoVersion},
                   arch : Archive \union {NoArchive}, verified : BOOLEAN],
         todo' \subseteq Module, first' \in Module \union {NoModule},
         stored' \in [Module \X Version -> Archive \union {NoArchive}],
         latest' \in [Module -> Version \union {NoVersion}],
         asked' \subseteq Nat \X Module,
         discovered' \subseteq Nat,
         sums' \subseteq (Proxy \union {NoProxy}) \X Module \X (Version \union {NoVersion}),
         evidence' \subseteq Module \X Version,
         UNCHANGED <<query, routes>>
  PROVE  TypeInv'
<1>1. pc' = label /\ UNCHANGED <<at, tried, best, result>>
  BY DEF Continue
<1> QED
  BY <1>1 DEF TypeInv, TypeOK, InHandInv, StartInv

LEMMA InHandType ==
  ASSUME NEW m \in Module \union {NoModule}, NEW v \in Version \union {NoVersion},
         NEW a \in Archive \union {NoArchive}
  PROVE  /\ InHand(m, v, a) \in [mod : Module \union {NoModule}, ver : Version \union {NoVersion},
                                 arch : Archive \union {NoArchive}, verified : BOOLEAN]
         /\ InHand(m, v, a).mod = m /\ InHand(m, v, a).ver = v
         /\ InHand(m, v, a).arch = a /\ ~InHand(m, v, a).verified
BY DEF InHand

LEMMA QueryType ==
  ASSUME TypeInv
  PROVE  /\ query.private \subseteq Module /\ query.exempt \subseteq Module
         /\ query.selected \in Module \union {NoModule}
         /\ query.pinned \in Version
         /\ query.version \in {"latest", "exact", "named"}
         /\ query.recorded \in [Module \X Version -> Archive \union {NoArchive}]
         /\ Selected => query.selected \in Module
         /\ Candidates \subseteq Module
BY RemoteRoutesAssumption DEF RemoteRoutesAssumption, TypeInv, TypeOK, Query, Selected

LEMMA FoundTypeInv ==
  ASSUME TypeInv, Found, UNCHANGED <<query, routes, latest, asked, discovered, sums, evidence>>,
         stored' \in [Module \X Version -> Archive \union {NoArchive}]
  PROVE  TypeInv'
BY DEF Found, walk, TypeInv, TypeOK, InHandInv, StartInv, Holding, Label

LEMMA StorePutType ==
  ASSUME TypeInv, StorePut
  PROVE  stored' \in [Module \X Version -> Archive \union {NoArchive}]
BY DEF StorePut, TypeInv, TypeOK

LEMMA TypeProxied == TypeInv /\ Proxied => TypeInv'
<1> SUFFICES ASSUME TypeInv, Proxied PROVE TypeInv'
  OBVIOUS
<1> USE DEF walk, cache, history
<1>1. CASE ProxyRoute
  <2>1. todo' \subseteq Module /\ first' \in Module \union {NoModule}
    BY <1>1, QueryType DEF ProxyRoute
  <2>2. Continue("version") /\ pc = "route" /\ discovered' \subseteq Nat
    BY <1>1 DEF ProxyRoute, On, TypeInv, TypeOK
  <2> QED
    BY <1>1, <2>1, <2>2, ContinueTypeInv DEF ProxyRoute, TypeInv, TypeOK, Label, Holding
<1>2. CASE ProxyRouteSelected
  <2>1. CASE query.selected \in query.private
    BY <1>2, <2>1, RouteFailsTypeInv DEF ProxyRouteSelected, On, TypeInv, TypeOK, Error, NotFound
  <2>2. CASE query.selected \notin query.private
    <3>1. cur' = InHand(query.selected, query.pinned, NoArchive) /\ query.selected \in Module
      BY <1>2, <2>2, QueryType DEF ProxyRouteSelected
    <3>2. Continue("zip") /\ pc = "route" /\ UNCHANGED <<walk, query, routes, cache, history>>
      BY <1>2, <2>2 DEF ProxyRouteSelected, On
    <3>3. /\ cur' \in [mod : Module \union {NoModule}, ver : Version \union {NoVersion},
                       arch : Archive \union {NoArchive}, verified : BOOLEAN]
          /\ cur'.mod \in Module
      BY <3>1, QueryType, InHandType
    <3> QED
      BY <3>2, <3>3, ContinueTypeInv DEF TypeInv, TypeOK, Label
  <2> QED
    BY <2>1, <2>2
<1>3. CASE ProxyVersion
  <2> PICK m \in todo : ProxyVersion!2!(m)
    BY <1>3 DEF ProxyVersion
  <2>0. pc = "version" /\ m \in Module /\ UNCHANGED <<query, routes, cache, discovered, sums>>
    BY <1>3 DEF ProxyVersion, TypeInv, TypeOK
  <2>1. asked' \subseteq Nat \X Module
    BY <2>0, AskType
  <2>2. CASE RouteFails("failed") /\ UNCHANGED evidence
    BY <2>0, <2>1, <2>2, RouteFailsTypeInv DEF Error, TypeInv, TypeOK
  <2>3. CASE Without(m) /\ Continue("version") /\ UNCHANGED <<cur, evidence>>
    BY <2>0, <2>1, <2>3, ContinueTypeInv DEF Without, TypeInv, TypeOK, Label, Holding
  <2>4. ASSUME NEW v \in Version, cur' = InHand(m, v, NoArchive), Without(m), Continue("zip"),
               evidence' = IF query.version = "latest" THEN evidence \union {<<m, v>>} ELSE evidence
        PROVE  TypeInv'
    <3>1. /\ cur' \in [mod : Module \union {NoModule}, ver : Version \union {NoVersion},
                       arch : Archive \union {NoArchive}, verified : BOOLEAN]
          /\ cur'.mod \in Module
      BY <2>0, <2>4, InHandType
    <3>2. evidence' \subseteq Module \X Version
      BY <2>0, <2>4 DEF TypeInv, TypeOK
    <3> QED
      BY <2>0, <2>1, <2>4, <3>1, <3>2, ContinueTypeInv DEF Without, TypeInv, TypeOK, Label
  <2> QED
    BY <2>2, <2>3, <2>4
<1>4. CASE ProxyExhausted
  BY <1>4, RouteFailsTypeInv DEF ProxyExhausted, Error, NotFound, TypeInv, TypeOK
<1>5. CASE ProxyZip
  <2>0. pc = "zip" /\ cur.mod \in Module /\ UNCHANGED <<query, routes, cache, discovered, sums, evidence>>
    BY <1>5 DEF ProxyZip, TypeInv, InHandInv, StartInv, Holding
  <2>1. asked' \subseteq Nat \X Module
    BY <1>5, <2>0, AskType DEF ProxyZip
  <2>2. ASSUME NEW err \in {"notApplicable", "failed"}, RouteFails(err) PROVE TypeInv'
    BY <2>0, <2>1, <2>2, RouteFailsTypeInv DEF Error, NotFound, TypeInv, TypeOK
  <2>3. CASE NextCandidate
    BY <2>0, <2>1, <2>3, ContinueTypeInv, InHandType DEF NextCandidate, Nothing, TypeInv, TypeOK, Label, Holding
  <2>4. ASSUME NEW a \in Archive, cur' = [cur EXCEPT !.arch = a], Continue("verify"), UNCHANGED walk
        PROVE  TypeInv'
    BY <2>0, <2>1, <2>4, ContinueTypeInv DEF TypeInv, TypeOK, Label
  <2> QED
    BY <1>5, <2>2, <2>3, <2>4 DEF ProxyZip
<1>6. CASE ProxyPut
  <2>0. pc = "put" /\ UNCHANGED <<query, routes, walk, cur, latest, history>>
    BY <1>6 DEF ProxyPut, On
  <2>1. stored' \in [Module \X Version -> Archive \union {NoArchive}]
    BY <1>6, StorePutType DEF ProxyPut, TypeInv, TypeOK
  <2>2. \E label \in {"alias", "extract"} : Continue(label)
    BY <1>6 DEF ProxyPut
  <2> QED
    BY <2>0, <2>1, <2>2, ContinueTypeInv DEF TypeInv, TypeOK, Label, InHandInv, StartInv, Holding
<1>7. CASE ProxySetLatest
  <2>1. latest' \in [Module -> Version \union {NoVersion}]
    BY <1>7 DEF ProxySetLatest, TypeInv, TypeOK
  <2> QED
    BY <1>7, <2>1, ContinueTypeInv DEF ProxySetLatest, TypeInv, TypeOK, Label, InHandInv, StartInv, Holding
<1>8. CASE ProxyExtract
  <2>0. pc = "extract" /\ UNCHANGED <<query, routes, cache, history>>
    BY <1>8 DEF ProxyExtract, On
  <2>1. CASE Found
    BY <2>0, <2>1, FoundTypeInv DEF TypeInv, TypeOK
  <2>2. ASSUME NEW err \in {"absent", "failed"}, RouteFails(err) PROVE TypeInv'
    BY <2>0, <2>2, RouteFailsTypeInv DEF Error, TypeInv, TypeOK
  <2>3. CASE NextCandidate
    BY <2>0, <2>3, ContinueTypeInv, InHandType DEF NextCandidate, Nothing, TypeInv, TypeOK, Label, Holding
  <2> QED
    BY <1>8, <2>1, <2>2, <2>3 DEF ProxyExtract
<1> QED
  BY <1>1, <1>2, <1>3, <1>4, <1>5, <1>6, <1>7, <1>8 DEF Proxied

LEMMA AcceptTypeInv ==
  ASSUME TypeInv, pc \in {"verify", "database"}, Accept,
         UNCHANGED <<query, routes, cache, asked, discovered, evidence>>,
         sums' \subseteq (Proxy \union {NoProxy}) \X Module \X (Version \union {NoVersion})
  PROVE  TypeInv'
<1>1. cur' = [cur EXCEPT !.verified = TRUE] /\ UNCHANGED walk
  BY DEF Accept
<1>2. \E label \in {"put", "extract"} : Continue(label)
  BY DEF Accept
<1>3. cur'.mod \in Module
  BY <1>1 DEF TypeInv, TypeOK, InHandInv, StartInv, Holding
<1> QED
  BY <1>1, <1>2, <1>3, ContinueTypeInv DEF walk, cache, TypeInv, TypeOK, Label

LEMMA TypeVerified == TypeInv /\ (Verify \/ Database) => TypeInv'
<1> SUFFICES ASSUME TypeInv, Verify \/ Database PROVE TypeInv'
  OBVIOUS
<1> USE DEF walk, cache, history
<1>0. pc \in {"verify", "database"} /\ cur.mod \in Module
  BY DEF Verify, Database, TypeInv, InHandInv, StartInv, Holding
<1>1. ASSUME NEW err \in {"missing", "failed", "mismatch"}, RouteFails(err),
             UNCHANGED <<query, routes, cache, asked, discovered, evidence>>,
             sums' \subseteq (Proxy \union {NoProxy}) \X Module \X (Version \union {NoVersion})
      PROVE  TypeInv'
  BY <1>0, <1>1, RouteFailsTypeInv DEF Error, NotFound, TypeInv, TypeOK
<1>2. CASE Verify
  <2>1. UNCHANGED <<query, routes, cache, history>>
    BY <1>2 DEF Verify
  <2>2. CASE Accept
    BY <1>0, <2>1, <2>2, AcceptTypeInv DEF TypeInv, TypeOK
  <2>3. CASE Continue("database") /\ UNCHANGED <<cur, walk>>
    BY <1>0, <2>1, <2>3, ContinueTypeInv DEF TypeInv, TypeOK, Label
  <2>4. CASE RouteFails("failed") \/ RouteFails("mismatch")
    BY <1>1, <2>1, <2>4 DEF TypeInv, TypeOK
  <2> QED
    BY <1>2, <2>2, <2>3, <2>4 DEF Verify
<1>3. CASE Database
  <2>1. UNCHANGED <<query, routes, cache, asked, discovered, evidence>>
    BY <1>3 DEF Database
  <2>2. Bases \subseteq Proxy \union {NoProxy}
    <3>1. \A i \in DOMAIN routes : routes[i] \in Route
      BY DEF TypeInv, TypeOK
    <3> QED
      BY <3>1 DEF Bases, Route
  <2>3. sums' \subseteq (Proxy \union {NoProxy}) \X Module \X (Version \union {NoVersion})
    BY <1>0, <1>3, <2>2 DEF Database, TypeInv, TypeOK
  <2>4. RouteFails("missing") \/ RouteFails("failed") \/ Accept
    BY <1>3 DEF Database, DatabaseFails
  <2> QED
    BY <1>0, <1>1, <2>1, <2>3, <2>4, AcceptTypeInv
<1> QED
  BY <1>2, <1>3

LEMMA TypeDirect == TypeInv /\ Direct => TypeInv'
<1> SUFFICES ASSUME TypeInv, Direct PROVE TypeInv'
  OBVIOUS
<1> USE DEF walk, cache, history
<1>0. ASSUME NEW err \in {"notApplicable", "useProxy", "missing", "failed"}, RouteFails(err),
             pc \notin {"parse", "done"}, UNCHANGED <<query, routes, cache, sums, evidence>>,
             asked' \subseteq Nat \X Module, discovered' \subseteq Nat
      PROVE  TypeInv'
  BY <1>0, RouteFailsTypeInv DEF Error, NotFound, TypeInv, TypeOK
<1>1. CASE GitRoute
  <2>0. /\ pc = "route" /\ UNCHANGED <<query, routes, cache, asked, sums, evidence>>
        /\ discovered' \subseteq Nat
    BY <1>1 DEF GitRoute, On, TypeInv, TypeOK
  <2>1. CASE \E err \in {"notApplicable", "useProxy", "failed"} : RouteFails(err)
    BY <1>0, <2>0, <2>1 DEF TypeInv, TypeOK
  <2>2. ASSUME NEW m \in IF Selected THEN {query.selected} ELSE Candidates,
               cur' = InHand(m, IF Canonical THEN query.pinned ELSE NoVersion, NoArchive),
               Continue("clone"), UNCHANGED walk
        PROVE  TypeInv'
    <3>1. m \in Module
      BY QueryType
    <3>2. (IF Canonical THEN query.pinned ELSE NoVersion) \in Version \union {NoVersion}
      BY QueryType
    <3>3. /\ cur' \in [mod : Module \union {NoModule}, ver : Version \union {NoVersion},
                       arch : Archive \union {NoArchive}, verified : BOOLEAN]
          /\ cur'.mod \in Module
      BY <2>2, <3>1, <3>2, InHandType
    <3> QED
      BY <2>0, <2>2, <3>3, ContinueTypeInv DEF TypeInv, TypeOK, Label
  <2> QED
    BY <1>1, <2>1, <2>2 DEF GitRoute
<1>2. CASE GitClone
  <2>0. pc = "clone" /\ cur.mod \in Module /\ UNCHANGED <<query, routes, cache, discovered, sums, evidence>>
    BY <1>2 DEF GitClone, TypeInv, InHandInv, StartInv, Holding
  <2>1. asked' \subseteq Nat \X Module
    BY <1>2, <2>0, AskType DEF GitClone
  <2>2. CASE \E next \in {"checkout", "ssh"} : Continue(next) /\ UNCHANGED <<cur, walk>>
    BY <2>0, <2>1, <2>2, ContinueTypeInv DEF TypeInv, TypeOK, Label
  <2> QED
    BY <1>0, <1>2, <2>0, <2>1, <2>2 DEF GitClone, TypeInv, TypeOK
<1>3. CASE GitRetry
  <2>1. CASE Continue("checkout") /\ UNCHANGED <<cur, walk>>
    BY <1>3, <2>1, ContinueTypeInv DEF GitRetry, TypeInv, TypeOK, Label, InHandInv, StartInv, Holding
  <2> QED
    BY <1>0, <1>3, <2>1 DEF GitRetry, TypeInv, TypeOK
<1>4. CASE GitCheckout
  <2>1. ASSUME NEW a \in Archive, NEW label \in {"verify", "extract"},
               cur' = [cur EXCEPT !.arch = a], Continue(label), UNCHANGED walk
        PROVE  TypeInv'
    BY <1>4, <2>1, ContinueTypeInv DEF GitCheckout, TypeInv, TypeOK, Label, InHandInv, StartInv, Holding
  <2> QED
    BY <1>0, <1>4, <2>1 DEF GitCheckout, TypeInv, TypeOK
<1>5. CASE GitExtract
  <2>1. CASE Continue("put") /\ UNCHANGED <<cur, walk>>
    BY <1>5, <2>1, ContinueTypeInv DEF GitExtract, On, TypeInv, TypeOK, Label, InHandInv, StartInv, Holding
  <2>2. CASE Found
    BY <1>5, <2>2, FoundTypeInv DEF GitExtract, TypeInv, TypeOK
  <2> QED
    BY <1>0, <1>5, <2>1, <2>2 DEF GitExtract, On, TypeInv, TypeOK
<1>6. CASE GitPut
  BY <1>6, FoundTypeInv, StorePutType DEF GitPut, TypeInv, TypeOK
<1> QED
  BY <1>1, <1>2, <1>3, <1>4, <1>5, <1>6 DEF Direct

LEMMA TypeInvStep == TypeInv /\ [Next]_vars => TypeInv'
<1> SUFFICES ASSUME TypeInv, [Next]_vars PROVE TypeInv'
  OBVIOUS
<1> USE DEF walk, cache, history
<1>1. CASE UNCHANGED vars
  BY <1>1 DEF vars, TypeInv, TypeOK, InHandInv, StartInv
<1>2. CASE Parse
  <2>1. Routes(query) \in Seq(Route)
    BY RoutesType DEF TypeInv, TypeOK
  <2>2. at = 1
    BY <1>2 DEF Parse, TypeInv, StartInv
  <2> QED
    BY <1>2, <2>1, <2>2 DEF Parse, TypeInv, TypeOK, InHandInv, StartInv, Label, Holding
<1>3. CASE Off
  BY <1>3, RouteFailsTypeInv DEF Off, On, Error, NotFound, TypeInv, TypeOK
<1>4. CASE Cancelled
  BY <1>4 DEF Cancelled, TypeInv, TypeOK, InHandInv, StartInv, Label, Holding
<1> QED
  BY <1>1, <1>2, <1>3, <1>4, TypeProxied, TypeDirect, TypeVerified DEF Next, Progress

(* Type correctness, for route lists of any length. *)
THEOREM TypeCorrect == Spec => []TypeOK
<1>1. TypeInv => TypeOK
  BY DEF TypeInv
<1> QED
  BY <1>1, TypeInit, TypeInvStep, PTL DEF Spec

-----------------------------------------------------------------------------
(* Nothing unverified is cached or returned. *)

FromProxy == {"version", "zip", "alias"}
FromGit   == {"clone", "ssh", "checkout"}

(* Which route a step belongs to. *)
RouteInv ==
    /\ pc \in FromProxy => Here.kind = "url"
    /\ pc \in FromGit => Here.kind \in {"noproxy", "direct"}
    /\ pc \in Holding => Here.kind # "off"
    /\ pc # "done" => result = "none"

(* What is in hand at a step that relies on the verifier. *)
TrustInv ==
    /\ \A m \in Module, v \in Version :
         stored[<<m, v>>] # NoArchive => Trusted(m, v, stored[<<m, v>>])
    /\ cur.verified => Trusted(cur.mod, cur.ver, cur.arch)
    /\ pc = "database" => Recorded = NoArchive
    /\ pc \in {"put", "alias"} => cur.verified
    /\ pc = "extract" /\ (Here.kind = "url" \/ Canonical) => cur.verified
    /\ pc \in {"verify", "zip", "clone", "ssh", "checkout"} => ~cur.verified
    /\ pc \in Holding /\ Here.kind # "url" /\ Floating => cur.mod \in query.exempt
    /\ result = "found" /\ (Here.kind = "url" \/ Canonical) => Trusted(cur.mod, cur.ver, cur.arch)
    /\ result = "found" /\ Floating => Here.kind = "url" \/ cur.mod \in query.exempt

LEMMA RouteInvStep == TypeInv /\ RouteInv /\ [Next]_vars => RouteInv'
<1> SUFFICES ASSUME TypeInv, RouteInv, [Next]_vars PROVE RouteInv'
  OBVIOUS
<1> USE DEF walk, cache, history, RouteInv, FromProxy, FromGit, Holding, Here
<1>1. CASE UNCHANGED vars
  BY <1>1 DEF vars
<1>2. CASE Parse \/ Cancelled
  BY <1>2 DEF Parse, Cancelled
<1>3. ASSUME NEW err, RouteFails(err), result = "none" PROVE RouteInv'
  BY <1>3 DEF RouteFails, GiveUp, NextRoute
<1>4. CASE Off
  BY <1>3, <1>4 DEF Off, On
<1>5. CASE ProxyRoute \/ ProxyRouteSelected \/ ProxyVersion \/ ProxyExhausted
  BY <1>3, <1>5 DEF ProxyRoute, ProxyRouteSelected, ProxyVersion, ProxyExhausted, On, Continue
<1>6. CASE ProxyZip \/ ProxyPut \/ ProxySetLatest \/ ProxyExtract
  BY <1>3, <1>6 DEF ProxyZip, ProxyPut, ProxySetLatest, ProxyExtract, NextCandidate, Found, On, Continue
<1>7. CASE GitRoute \/ GitClone \/ GitRetry \/ GitCheckout
  BY <1>3, <1>7 DEF GitRoute, GitClone, GitRetry, GitCheckout, On, Continue
<1>8. CASE GitExtract \/ GitPut
  BY <1>3, <1>8 DEF GitExtract, GitPut, Found, On, Continue
<1>9. CASE Verify \/ Database
  BY <1>3, <1>9 DEF Verify, Database, DatabaseFails, Accept, Continue
<1> QED
  BY <1>1, <1>2, <1>4, <1>5, <1>6, <1>7, <1>8, <1>9 DEF Next, Progress, Proxied, Direct

LEMMA RouteInvInit == Init => RouteInv /\ TrustInv
BY DEF Init, RouteInv, TrustInv, FromProxy, FromGit, Holding, Nothing, InHand

LEMMA TrustInvFails ==
  ASSUME TrustInv, RouteInv, pc # "done", NEW err, RouteFails(err), UNCHANGED <<query, routes, stored>>
  PROVE  TrustInv'
<1>1. ~cur'.verified /\ pc' \in {"done", "route"} /\ result' # "found"
  BY DEF RouteFails, Leaves, Nothing, InHand, GiveUp, NextRoute, RouteInv
<1> QED
  BY <1>1 DEF TrustInv, Trusted, Holding

LEMMA TrustInvFound ==
  ASSUME TrustInv, Found, UNCHANGED <<query, routes>>, pc \in Holding,
         \A m \in Module, v \in Version :
            stored'[<<m, v>>] # NoArchive => Trusted(m, v, stored'[<<m, v>>]),
         Here.kind = "url" \/ Canonical => cur.verified
  PROVE  TrustInv'
BY DEF TrustInv, Trusted, Holding, Found, walk, Here, Canonical, Selected, Floating

LEMMA TrustInvPut ==
  ASSUME TypeInv, TrustInv, cur.verified, StorePut \/ UNCHANGED stored
  PROVE  \A m \in Module, v \in Version :
            stored'[<<m, v>>] # NoArchive => Trusted(m, v, stored'[<<m, v>>])
<1> SUFFICES ASSUME NEW m \in Module, NEW v \in Version, stored'[<<m, v>>] # NoArchive
             PROVE  Trusted(m, v, stored'[<<m, v>>])
  OBVIOUS
<1>1. CASE StorePut /\ <<m, v>> = <<cur.mod, cur.ver>>
  <2>1. stored'[<<m, v>>] \in {stored[<<m, v>>], cur.arch}
    BY <1>1 DEF StorePut, TypeInv, TypeOK
  <2> QED
    BY <1>1, <2>1 DEF TrustInv
<1>2. CASE stored'[<<m, v>>] = stored[<<m, v>>]
  BY <1>2 DEF TrustInv
<1>3. StorePut /\ <<m, v>> # <<cur.mod, cur.ver>> => stored'[<<m, v>>] = stored[<<m, v>>]
  BY DEF StorePut, TypeInv, TypeOK
<1> QED
  BY <1>1, <1>2, <1>3

LEMMA TrustInvStep == TypeInv /\ RouteInv /\ TrustInv /\ [Next]_vars => TrustInv'
<1> SUFFICES ASSUME TypeInv, RouteInv, TrustInv, [Next]_vars PROVE TrustInv'
  OBVIOUS
<1> USE DEF walk, cache, history
<1>1. CASE UNCHANGED vars
  BY <1>1 DEF vars, TrustInv, Trusted, Recorded, Here, Canonical, Selected, Floating
<1>2. CASE Parse \/ Cancelled
  BY <1>2 DEF Parse, Cancelled, TrustInv, Trusted, RouteInv, Holding
<1>3. CASE Off
  BY <1>3, TrustInvFails DEF Off, On
<1>4. CASE ProxyRoute \/ ProxyRouteSelected
  <2>1. CASE RouteFails("noProxy")
    BY <1>4, <2>1, TrustInvFails DEF ProxyRoute, ProxyRouteSelected, On
  <2>2. \/ /\ UNCHANGED <<query, routes, at, result, stored>>
           /\ Here.kind = "url" /\ pc = "route"
           /\ \/ pc' = "version" /\ cur' = cur
              \/ pc' = "zip" /\ cur' = InHand(query.selected, query.pinned, NoArchive)
        \/ RouteFails("noProxy")
    BY <1>4 DEF ProxyRoute, ProxyRouteSelected, On, Continue
  <2> QED
    BY <1>4, <2>1, <2>2 DEF RouteInv, TrustInv, Trusted, InHand, Here, Holding, Floating, Canonical, Selected
<1>5. CASE ProxyVersion \/ ProxyExhausted
  <2>1. ASSUME NEW err, RouteFails(err) PROVE TrustInv'
    BY <1>5, <2>1, TrustInvFails DEF ProxyVersion, ProxyExhausted
  <2>2. \/ /\ UNCHANGED <<query, routes, at, result, stored>>
           /\ pc = "version"
           /\ \/ pc' = "version" /\ cur' = cur
              \/ pc' = "zip" /\ \E m, v : cur' = InHand(m, v, NoArchive)
        \/ \E err : RouteFails(err)
    BY <1>5 DEF ProxyVersion, ProxyExhausted, Continue
  <2> QED
    BY <2>1, <2>2 DEF TrustInv, Trusted, RouteInv, FromProxy, InHand, Here, Holding, Floating, Canonical, Selected
<1>6. CASE ProxyZip
  <2>1. ASSUME NEW err, RouteFails(err) PROVE TrustInv'
    BY <1>6, <2>1, TrustInvFails DEF ProxyZip
  <2>2. CASE NextCandidate
    BY <1>6, <2>2 DEF ProxyZip, NextCandidate, Continue, TrustInv, Trusted, RouteInv, FromProxy, Nothing,
         InHand, Here, Holding, Floating, Canonical, Selected
  <2>3. ASSUME NEW a \in Archive, cur' = [cur EXCEPT !.arch = a], Continue("verify")
        PROVE  TrustInv'
    <3>1. ~cur'.verified /\ cur'.mod = cur.mod
      BY <1>6, <2>3 DEF ProxyZip, TrustInv, TypeInv, TypeOK
    <3> QED
      BY <1>6, <2>3, <3>1 DEF ProxyZip, Continue, TrustInv, Trusted, RouteInv, FromProxy, Here, Holding,
           Floating, Canonical, Selected
  <2> QED
    BY <1>6, <2>1, <2>2, <2>3 DEF ProxyZip
<1>7. CASE ProxyPut
  <2>1. cur.verified
    BY <1>7 DEF ProxyPut, On, TrustInv
  <2>2. \A m \in Module, v \in Version :
          stored'[<<m, v>>] # NoArchive => Trusted(m, v, stored'[<<m, v>>])
    BY <1>7, <2>1, TrustInvPut DEF ProxyPut
  <2> QED
    BY <1>7, <2>1, <2>2 DEF ProxyPut, On, Continue, TrustInv, Trusted, RouteInv, Here, Holding, Floating, Canonical, Selected
<1>8. CASE ProxySetLatest
  BY <1>8 DEF ProxySetLatest, Continue, TrustInv, Trusted, RouteInv, FromProxy, Here, Holding, Floating, Canonical, Selected
<1>9. CASE ProxyExtract
  <2>1. ASSUME NEW err, RouteFails(err) PROVE TrustInv'
    BY <1>9, <2>1, TrustInvFails DEF ProxyExtract, On
  <2>2. CASE NextCandidate
    BY <1>9, <2>2 DEF ProxyExtract, On, NextCandidate, Continue, TrustInv, Trusted, RouteInv, Nothing,
         InHand, Here, Holding, Floating, Canonical, Selected
  <2>3. CASE Found
    BY <1>9, <2>3, TrustInvFound DEF ProxyExtract, On, TrustInv, Holding
  <2> QED
    BY <1>9, <2>1, <2>2, <2>3 DEF ProxyExtract
<1>10. CASE Verify \/ Database
  <2>1. ASSUME NEW err, RouteFails(err) PROVE TrustInv'
    BY <1>10, <2>1, TrustInvFails DEF Verify, Database
  <2>2. CASE Verify /\ Recorded = NoArchive /\ Continue("database") /\ UNCHANGED <<cur, walk>>
    BY <2>2 DEF Verify, Continue, TrustInv, Trusted, Recorded, RouteInv, Here, Holding,
         Floating, Canonical, Selected
  <2>3. CASE Trusted(cur.mod, cur.ver, cur.arch) /\ Accept
    <3>1. cur' = [cur EXCEPT !.verified = TRUE]
      BY <2>3 DEF Accept
    <3>2. cur'.verified /\ cur'.mod = cur.mod /\ cur'.ver = cur.ver /\ cur'.arch = cur.arch
      BY <3>1 DEF TypeInv, TypeOK
    <3>3. pc' \in {"put", "extract"} /\ pc \in Holding
      BY <1>10, <2>3 DEF Verify, Database, Accept, Continue, Holding
    <3>4. UNCHANGED <<query, routes, stored, at, result>> /\ result = "none"
      BY <1>10, <2>3 DEF Verify, Database, Accept, Continue, RouteInv
    <3> QED
      BY <2>3, <3>2, <3>3, <3>4 DEF TrustInv, Trusted, Recorded, Here, Holding, Floating, Canonical, Selected
  <2>4. CASE Verify
    BY <2>1, <2>2, <2>3, <2>4 DEF Verify, Recorded, Trusted
  <2>5. CASE Database
    BY <2>1, <2>3, <2>5 DEF Database, DatabaseFails, TrustInv, Recorded, Trusted
  <2> QED
    BY <1>10, <2>4, <2>5
<1>11. CASE GitRoute
  <2>1. ASSUME NEW err, RouteFails(err) PROVE TrustInv'
    BY <1>11, <2>1, TrustInvFails DEF GitRoute, On
  <2>2. ASSUME NEW m, Floating => m \in query.exempt,
               cur' = InHand(m, IF Canonical THEN query.pinned ELSE NoVersion, NoArchive), Continue("clone")
        PROVE  TrustInv'
    <3>1. ~cur'.verified /\ cur'.mod = m
      BY <2>2 DEF InHand
    <3>2. UNCHANGED <<query, routes, stored, at, result>> /\ pc' = "clone" /\ result = "none"
      BY <1>11, <2>2 DEF GitRoute, On, Continue, RouteInv
    <3> QED
      BY <2>2, <3>1, <3>2 DEF TrustInv, Trusted, Recorded, Here, Holding, Floating, Canonical, Selected
  <2> QED
    BY <1>11, <2>1, <2>2 DEF GitRoute
<1>12. CASE GitClone \/ GitRetry
  <2>1. ASSUME NEW err, RouteFails(err) PROVE TrustInv'
    BY <1>12, <2>1, TrustInvFails DEF GitClone, GitRetry
  <2>2. ASSUME NEW label \in {"ssh", "checkout"}, Continue(label), UNCHANGED cur PROVE TrustInv'
    BY <1>12, <2>2 DEF GitClone, GitRetry, Continue, TrustInv, Trusted, RouteInv, FromGit, Here, Holding,
         Floating, Canonical, Selected
  <2> QED
    BY <1>12, <2>1, <2>2 DEF GitClone, GitRetry
<1>13. CASE GitCheckout
  <2>1. CASE RouteFails("failed")
    BY <1>13, <2>1, TrustInvFails DEF GitCheckout
  <2>2. ASSUME NEW a \in Archive, cur' = [cur EXCEPT !.arch = a],
               Continue(IF Canonical THEN "verify" ELSE "extract")
        PROVE  TrustInv'
    <3>1. ~cur'.verified /\ cur'.mod = cur.mod
      BY <1>13, <2>2 DEF GitCheckout, TrustInv, TypeInv, TypeOK
    <3>2. UNCHANGED <<query, routes, stored, at, result>> /\ result = "none" /\ pc = "checkout"
      BY <1>13, <2>2 DEF GitCheckout, Continue, RouteInv
    <3>3. Here.kind # "url" /\ pc' = IF Canonical THEN "verify" ELSE "extract"
      BY <2>2, <3>2 DEF Continue, RouteInv, FromGit
    <3> QED
      BY <3>1, <3>2, <3>3 DEF TrustInv, Trusted, Recorded, Here, Holding, Floating, Canonical, Selected
  <2> QED
    BY <1>13, <2>1, <2>2 DEF GitCheckout
<1>14. CASE GitExtract
  <2>1. CASE RouteFails("failed")
    BY <1>14, <2>1, TrustInvFails DEF GitExtract, On
  <2>2. CASE cur.verified /\ Continue("put") /\ UNCHANGED <<cur, walk>>
    BY <1>14, <2>2 DEF GitExtract, On, Continue, TrustInv, Trusted, RouteInv, Here, Holding,
         Floating, Canonical, Selected
  <2>3. CASE Found
    BY <1>14, <2>3, TrustInvFound DEF GitExtract, On, TrustInv, Holding
  <2> QED
    BY <1>14, <2>1, <2>2, <2>3 DEF GitExtract
<1>15. CASE GitPut
  <2>1. cur.verified /\ pc = "put" /\ Found /\ UNCHANGED <<query, routes>>
    BY <1>15 DEF GitPut, On, TrustInv
  <2> QED
    BY <1>15, <2>1, TrustInvPut, TrustInvFound DEF GitPut, Holding
<1> QED
  BY <1>1, <1>2, <1>3, <1>4, <1>5, <1>6, <1>7, <1>8, <1>9, <1>10, <1>11, <1>12, <1>13, <1>14, <1>15
  DEF Next, Progress, Proxied, Direct

(* Only verified archives are cached, and only verified ones returned      *)
(* where there is an archive, whatever the routes deliver.                 *)
THEOREM CachesOnlyVerified == Spec => []OnlyVerified
<1>1. TrustInv => OnlyVerified
  BY DEF TrustInv, OnlyVerified
<1>2. TypeInv /\ [Next]_vars => TypeInv'
  BY TypeInvStep
<1> QED
  BY <1>1, <1>2, TypeInit, RouteInvInit, RouteInvStep, TrustInvStep, PTL DEF Spec

-----------------------------------------------------------------------------
(* Whom a lookup asks. *)

PrivacyInv ==
    /\ PrivacyRespected
    /\ todo \intersect query.private = {}
    /\ pc \in Holding /\ Here.kind = "url" => cur.mod \notin query.private /\ cur.ver \in Version
    /\ pc \in Holding /\ Here.kind = "noproxy" => cur.mod \in query.private
    /\ pc \in FromGit /\ Canonical => cur.ver \in Version
    /\ pc \in {"verify", "database"} => cur.ver \in Version
    /\ pc = "database" => Recorded = NoArchive /\ cur.mod \notin query.exempt
    /\ pc = "parse" => sums = {}

LEMMA PrivacyInit == Init => PrivacyInv
BY DEF Init, PrivacyInv, PrivacyRespected, Holding, FromGit

LEMMA PrivacyFails ==
  ASSUME PrivacyInv, NEW err, RouteFails(err), UNCHANGED <<query, routes>>, PrivacyRespected'
  PROVE  PrivacyInv'
<1>1. pc' \in {"done", "route"} /\ todo' = {}
  BY DEF RouteFails, Leaves, GiveUp, NextRoute
<1> QED
  BY <1>1 DEF PrivacyInv, Holding, FromGit

(* A request of the route that is tried. *)
LEMMA PrivacyAsk ==
  ASSUME PrivacyInv, TypeInv, NEW m, Ask(m), UNCHANGED <<query, routes, discovered, sums>>,
         \/ Here.kind = "url" /\ m \notin query.private
         \/ Here.kind = "noproxy" /\ m \in query.private
         \/ Here.kind = "direct"
  PROVE  PrivacyRespected'
<1>1. UNCHANGED <<query, routes, discovered, sums>> /\ Selected' = Selected
  BY DEF Selected
<1>2. ASSUME NEW ask \in asked'
      PROVE  CASE routes[ask[1]].kind = "url"     -> ask[2] \notin query.private
               [] routes[ask[1]].kind = "noproxy" -> ask[2] \in query.private
               [] OTHER                           -> routes[ask[1]].kind = "direct"
  <2>1. CASE ask \in asked
    BY <2>1 DEF PrivacyInv, PrivacyRespected
  <2>2. CASE ask = <<at, m>>
    BY <2>2 DEF Here
  <2> QED
    BY <2>1, <2>2 DEF Ask
<1> QED
  BY <1>1, <1>2 DEF PrivacyInv, PrivacyRespected

LEMMA PrivacySame ==
  ASSUME PrivacyInv, UNCHANGED <<query, routes, asked, discovered, sums>>
  PROVE  PrivacyRespected'
BY DEF PrivacyInv, PrivacyRespected, Selected

(* Discovery on behalf of the route that is tried. *)
LEMMA PrivacyDiscovers ==
  ASSUME PrivacyInv, UNCHANGED <<query, routes, asked, sums>>,
         discovered' \subseteq discovered \union {at},
         Here.kind # "off", Here.kind = "url" => ~Selected
  PROVE  PrivacyRespected'
BY DEF PrivacyInv, PrivacyRespected, Selected, Here

LEMMA PrivacyProxied == TypeInv /\ RouteInv /\ PrivacyInv /\ Proxied => PrivacyInv'
<1> SUFFICES ASSUME TypeInv, RouteInv, PrivacyInv, Proxied PROVE PrivacyInv'
  OBVIOUS
<1> USE DEF walk, cache, history, Holding, FromGit, FromProxy
<1>0. UNCHANGED <<query, routes>>
  BY DEF Proxied, ProxyRoute, ProxyRouteSelected, ProxyVersion, ProxyExhausted, ProxyZip, ProxyPut,
     ProxySetLatest, ProxyExtract
<1>1. ASSUME NEW err, RouteFails(err), UNCHANGED <<asked, discovered, sums>> PROVE PrivacyInv'
  BY <1>0, <1>1, PrivacyFails, PrivacySame
<1>2. CASE ProxyRoute
  <2>1. PrivacyRespected'
    BY <1>2, PrivacyDiscovers DEF ProxyRoute, On
  <2> QED
    BY <1>2, <2>1 DEF ProxyRoute, Continue, On, Here, PrivacyInv
<1>3. CASE ProxyRouteSelected
  <2>1. CASE cur' = InHand(query.selected, query.pinned, NoArchive) /\ query.selected \notin query.private
             /\ Continue("zip") /\ UNCHANGED walk
    <3>1. cur'.mod \notin query.private /\ cur'.ver \in Version
      BY <2>1, QueryType DEF InHand
    <3> QED
      BY <1>3, <2>1, <3>1, PrivacySame DEF ProxyRouteSelected, Continue, On, Here, PrivacyInv
  <2> QED
    BY <1>1, <1>3, <2>1 DEF ProxyRouteSelected
<1>4. CASE ProxyVersion
  <2> PICK m \in todo : ProxyVersion!2!(m)
    BY <1>4 DEF ProxyVersion
  <2>1. PrivacyRespected'
    <3>1. Here.kind = "url" /\ m \notin query.private
      BY <1>4 DEF ProxyVersion, RouteInv, PrivacyInv
    <3> QED
      BY <1>4, <3>1, PrivacyAsk DEF ProxyVersion
  <2>2. CASE RouteFails("failed")
    BY <1>0, <2>1, <2>2, PrivacyFails
  <2>3. CASE Without(m) /\ Continue("version") /\ UNCHANGED cur
    BY <1>0, <1>4, <2>1, <2>3 DEF ProxyVersion, Without, Continue, Here, PrivacyInv
  <2>4. ASSUME NEW v \in Version, cur' = InHand(m, v, NoArchive), Without(m), Continue("zip")
        PROVE  PrivacyInv'
    <3>1. cur'.mod = m /\ cur'.ver = v
      BY <2>4 DEF InHand
    <3>2. m \notin query.private /\ Here.kind = "url"
      BY <1>4 DEF ProxyVersion, RouteInv, PrivacyInv
    <3> QED
      BY <1>0, <1>4, <2>1, <2>4, <3>1, <3>2 DEF ProxyVersion, Without, Continue, Here, PrivacyInv
  <2> QED
    BY <2>2, <2>3, <2>4
<1>5. CASE ProxyExhausted
  BY <1>1, <1>5 DEF ProxyExhausted
<1>6. CASE ProxyZip
  <2>1. PrivacyRespected'
    <3>1. Here.kind = "url" /\ cur.mod \notin query.private
      BY <1>6 DEF ProxyZip, RouteInv, PrivacyInv
    <3> QED
      BY <1>6, <3>1, PrivacyAsk DEF ProxyZip
  <2>2. ASSUME NEW err, RouteFails(err) PROVE PrivacyInv'
    BY <1>0, <2>1, <2>2, PrivacyFails
  <2>3. CASE NextCandidate
    BY <1>0, <1>6, <2>1, <2>3 DEF ProxyZip, NextCandidate, Continue, PrivacyInv
  <2>4. ASSUME NEW a \in Archive, cur' = [cur EXCEPT !.arch = a], Continue("verify"), UNCHANGED walk
        PROVE  PrivacyInv'
    <3>1. cur'.mod = cur.mod /\ cur'.ver = cur.ver
      BY <2>4 DEF TypeInv, TypeOK
    <3>2. pc = "zip" /\ pc' = "verify" /\ UNCHANGED at /\ Here.kind = "url"
      BY <1>6, <2>4 DEF ProxyZip, Continue, RouteInv
    <3> QED
      BY <1>0, <2>1, <2>4, <3>1, <3>2 DEF Here, PrivacyInv
  <2> QED
    BY <1>6, <2>2, <2>3, <2>4 DEF ProxyZip
<1>7. CASE ProxyPut
  BY <1>7, PrivacySame DEF ProxyPut, Continue, On, Here, PrivacyInv
<1>8. CASE ProxySetLatest
  BY <1>8, PrivacySame DEF ProxySetLatest, Continue, Here, PrivacyInv
<1>9. CASE ProxyExtract
  <2>1. UNCHANGED <<asked, discovered, sums>>
    BY <1>9 DEF ProxyExtract
  <2>2. CASE Found \/ NextCandidate
    BY <1>0, <2>1, <2>2, PrivacySame DEF Found, NextCandidate, Continue, PrivacyInv
  <2> QED
    BY <1>1, <1>9, <2>1, <2>2 DEF ProxyExtract
<1> QED
  BY <1>2, <1>3, <1>4, <1>5, <1>6, <1>7, <1>8, <1>9 DEF Proxied

LEMMA PrivacyDirect == TypeInv /\ RouteInv /\ PrivacyInv /\ Direct => PrivacyInv'
<1> SUFFICES ASSUME TypeInv, RouteInv, PrivacyInv, Direct PROVE PrivacyInv'
  OBVIOUS
<1> USE DEF walk, cache, history, Holding, FromGit, FromProxy
<1>0. UNCHANGED <<query, routes>>
  BY DEF Direct, GitRoute, GitClone, GitRetry, GitCheckout, GitExtract, GitPut
<1>1. ASSUME NEW err, RouteFails(err), UNCHANGED <<asked, discovered, sums>> PROVE PrivacyInv'
  BY <1>0, <1>1, PrivacyFails, PrivacySame
<1>2. CASE GitRoute
  <2>0. PrivacyRespected'
    <3>1. Here.kind \in {"noproxy", "direct"} /\ discovered' \subseteq discovered \union {at}
      BY <1>2 DEF GitRoute, On
    <3> QED
      BY <1>2, <3>1, PrivacyDiscovers DEF GitRoute
  <2>1. ASSUME NEW m \in IF Selected THEN {query.selected} ELSE Candidates,
               ~(Here.kind = "noproxy" /\ m \notin query.private),
               cur' = InHand(m, IF Canonical THEN query.pinned ELSE NoVersion, NoArchive),
               Continue("clone"), UNCHANGED walk
        PROVE  PrivacyInv'
    <3>1. cur'.mod = m /\ (Canonical => cur'.ver \in Version)
      BY <2>1, QueryType DEF InHand
    <3>2. Here.kind # "url" /\ pc' = "clone" /\ UNCHANGED at
      BY <1>2, <2>1 DEF GitRoute, On, Continue
    <3>3. Here' = Here /\ Canonical' = Canonical
      BY <1>0, <3>2 DEF Here, Canonical, Selected
    <3> QED
      BY <1>0, <2>0, <2>1, <3>1, <3>2, <3>3 DEF PrivacyInv
  <2>2. ASSUME NEW err, RouteFails(err) PROVE PrivacyInv'
    BY <1>0, <2>0, <2>2, PrivacyFails
  <2> QED
    BY <1>2, <2>1, <2>2 DEF GitRoute
<1>3. CASE GitClone
  <2>1. PrivacyRespected'
    <3>1. \/ Here.kind = "noproxy" /\ cur.mod \in query.private
          \/ Here.kind = "direct"
      BY <1>3 DEF GitClone, RouteInv, PrivacyInv
    <3> QED
      BY <1>3, <3>1, PrivacyAsk DEF GitClone
  <2>2. ASSUME NEW err, RouteFails(err) PROVE PrivacyInv'
    BY <1>0, <2>1, <2>2, PrivacyFails
  <2>3. ASSUME NEW next \in {"checkout", "ssh"}, Continue(next), UNCHANGED <<cur, walk>> PROVE PrivacyInv'
    BY <1>0, <1>3, <2>1, <2>3 DEF GitClone, Continue, RouteInv, Here, Canonical, Selected, PrivacyInv
  <2> QED
    BY <1>3, <2>2, <2>3 DEF GitClone
<1>4. CASE GitRetry
  <2>1. CASE Continue("checkout") /\ UNCHANGED <<cur, walk>>
    BY <1>0, <1>4, <2>1, PrivacySame DEF GitRetry, Continue, RouteInv, Here, Canonical, Selected, PrivacyInv
  <2> QED
    BY <1>1, <1>4, <2>1 DEF GitRetry
<1>5. CASE GitCheckout
  <2>1. ASSUME NEW a \in Archive, cur' = [cur EXCEPT !.arch = a],
               Continue(IF Canonical THEN "verify" ELSE "extract"), UNCHANGED walk
        PROVE  PrivacyInv'
    <3>1. cur'.mod = cur.mod /\ cur'.ver = cur.ver
      BY <2>1 DEF TypeInv, TypeOK
    <3>2. /\ pc = "checkout" /\ pc' \in {"verify", "extract"} /\ (pc' = "verify" => Canonical)
          /\ UNCHANGED <<at, asked, discovered, sums>>
      BY <1>5, <2>1 DEF GitCheckout, Continue
    <3> QED
      BY <1>0, <2>1, <3>1, <3>2, PrivacySame DEF RouteInv, Here, PrivacyInv
  <2> QED
    BY <1>1, <1>5, <2>1 DEF GitCheckout
<1>6. CASE GitExtract \/ GitPut
  <2>1. UNCHANGED <<asked, discovered, sums>>
    BY <1>6 DEF GitExtract, GitPut
  <2>2. CASE Found
    BY <1>0, <2>1, <2>2, PrivacySame DEF Found, PrivacyInv
  <2>3. CASE GitExtract /\ Continue("put") /\ UNCHANGED <<cur, walk>>
    BY <1>0, <2>1, <2>3, PrivacySame DEF GitExtract, On, Continue, Here, PrivacyInv
  <2> QED
    BY <1>1, <1>6, <2>1, <2>2, <2>3 DEF GitExtract, GitPut
<1> QED
  BY <1>2, <1>3, <1>4, <1>5, <1>6 DEF Direct

LEMMA PrivacyVerified == TypeInv /\ RouteInv /\ PrivacyInv /\ (Verify \/ Database) => PrivacyInv'
<1> SUFFICES ASSUME TypeInv, RouteInv, PrivacyInv, Verify \/ Database PROVE PrivacyInv'
  OBVIOUS
<1> USE DEF walk, cache, history, Holding, FromGit, FromProxy
<1>0. UNCHANGED <<query, routes>> /\ pc \in {"verify", "database"}
  BY DEF Verify, Database
<1>1. PrivacyRespected'
  <2>1. CASE UNCHANGED <<asked, discovered, sums>>
    BY <1>0, <2>1, PrivacySame
  <2>2. ASSUME NEW base \in Bases, sums' = sums \union {<<base, cur.mod, cur.ver>>},
               UNCHANGED <<asked, discovered>>, pc = "database"
        PROVE  PrivacyRespected'
    <3>1. cur.mod \notin query.exempt /\ query.recorded[<<cur.mod, cur.ver>>] = NoArchive
      BY <2>2 DEF PrivacyInv, Recorded
    <3>2. base # NoProxy =>
            ~query.database /\ \E i \in DOMAIN routes : routes[i].kind = "url" /\ routes[i].proxy = base
      BY <2>2 DEF Bases
    <3>3. UNCHANGED <<query, routes, asked, discovered>> /\ Selected' = Selected
      BY <1>0, <2>2 DEF Selected
    <3>4. \A s \in sums' : s \in sums \/ (s[1] = base /\ s[2] = cur.mod /\ s[3] = cur.ver)
      BY <2>2
    <3> QED
      BY <3>1, <3>2, <3>3, <3>4 DEF PrivacyInv, PrivacyRespected
  <2> QED
    BY <2>1, <2>2 DEF Verify, Database
<1>2. ASSUME NEW err, RouteFails(err) PROVE PrivacyInv'
  BY <1>0, <1>1, <1>2, PrivacyFails
<1>3. CASE Accept
  <2>1. cur' = [cur EXCEPT !.verified = TRUE] /\ pc' \in {"put", "extract"} /\ UNCHANGED <<at, walk>>
    BY <1>3 DEF Accept, Continue
  <2>2. cur'.mod = cur.mod /\ cur'.ver = cur.ver
    BY <2>1 DEF TypeInv, TypeOK
  <2> QED
    BY <1>0, <1>1, <2>1, <2>2 DEF Here, PrivacyInv
<1>4. CASE Verify /\ Recorded = NoArchive /\ cur.mod \notin query.exempt /\ Continue("database")
           /\ UNCHANGED <<cur, walk>>
  BY <1>0, <1>1, <1>4 DEF Verify, Continue, Recorded, Here, PrivacyInv
<1> QED
  BY <1>2, <1>3, <1>4 DEF Verify, Database, DatabaseFails

LEMMA PrivacyInvStep == TypeInv /\ RouteInv /\ PrivacyInv /\ [Next]_vars => PrivacyInv'
<1> SUFFICES ASSUME TypeInv, RouteInv, PrivacyInv, [Next]_vars PROVE PrivacyInv'
  OBVIOUS
<1> USE DEF walk, cache, history, Holding, FromGit
<1>1. CASE UNCHANGED vars
  BY <1>1 DEF vars, PrivacyInv, PrivacyRespected, Here, Canonical, Selected, Recorded
<1>2. CASE Parse
  <2>1. asked' = {} /\ discovered' = {} /\ sums' = {} /\ todo' = todo /\ query' = query /\ pc' \in {"done", "route"}
    BY <1>2 DEF Parse, TypeInv, StartInv, PrivacyInv
  <2> QED
    BY <2>1 DEF PrivacyInv, PrivacyRespected
<1>3. CASE Off
  BY <1>3, PrivacySame, PrivacyFails DEF Off
<1>4. CASE Cancelled
  BY <1>4, PrivacySame DEF Cancelled, PrivacyInv
<1> QED
  BY <1>1, <1>2, <1>3, <1>4, PrivacyProxied, PrivacyDirect, PrivacyVerified DEF Next, Progress

(* Whatever the environment answers, over lists of any length: no proxy is *)
(* asked for a private module, and one may learn of it as the way to the   *)
(* checksum database only where PrivacyRespected says.                     *)
THEOREM KeepsPrivate == Spec => []PrivacyRespected
<1>1. PrivacyInv => PrivacyRespected
  BY DEF PrivacyInv
<1> QED
  BY <1>1, TypeInit, TypeInvStep, RouteInvInit, RouteInvStep, PrivacyInit, PrivacyInvStep, PTL DEF Spec

-----------------------------------------------------------------------------
(* What is recorded as latest. *)

EvidenceInv ==
    /\ LatestIsEvidence
    /\ pc \in {"zip", "verify", "database", "put", "alias"} /\ Here.kind = "url" /\ Floating =>
         <<cur.mod, cur.ver>> \in evidence
    /\ pc = "alias" => Floating /\ stored[<<cur.mod, cur.ver>>] # NoArchive
    /\ pc \in {"verify", "database", "put", "alias", "extract"} => cur.arch \in Archive

LEMMA EvidenceInit == Init => EvidenceInv
BY DEF Init, EvidenceInv, LatestIsEvidence

LEMMA EvidenceSame ==
  ASSUME EvidenceInv, UNCHANGED cache, evidence \subseteq evidence'
  PROVE  LatestIsEvidence'
BY DEF EvidenceInv, LatestIsEvidence, cache

LEMMA EvidenceFails ==
  ASSUME EvidenceInv, NEW err, RouteFails(err), UNCHANGED cache, evidence \subseteq evidence'
  PROVE  EvidenceInv'
<1>1. pc' \in {"done", "route"}
  BY DEF RouteFails, GiveUp, NextRoute
<1> QED
  BY <1>1, EvidenceSame DEF EvidenceInv

(* A put keeps what is stored. *)
LEMMA EvidencePut ==
  ASSUME TypeInv, EvidenceInv, cur.arch \in Archive, StorePut \/ UNCHANGED stored,
         UNCHANGED <<latest, evidence>>
  PROVE  /\ LatestIsEvidence'
         /\ StorePut /\ cur.mod \in Module /\ cur.ver \in Version => stored'[<<cur.mod, cur.ver>>] # NoArchive
<1>1. ASSUME NEW mv \in Module \X Version, stored[mv] # NoArchive PROVE stored'[mv] # NoArchive
  BY <1>1 DEF StorePut, TypeInv, TypeOK
<1>2. ASSUME StorePut, cur.mod \in Module, cur.ver \in Version
      PROVE  stored'[<<cur.mod, cur.ver>>] # NoArchive
  <2>1. stored'[<<cur.mod, cur.ver>>] \in {cur.arch, stored[<<cur.mod, cur.ver>>]}
        /\ (stored[<<cur.mod, cur.ver>>] = NoArchive => stored'[<<cur.mod, cur.ver>>] = cur.arch)
    BY <1>2 DEF StorePut, TypeInv, TypeOK
  <2> QED
    BY <2>1, RemoteRoutesAssumption DEF RemoteRoutesAssumption
<1>3. ASSUME NEW m \in Module, latest[m] # NoVersion
      PROVE  <<m, latest[m]>> \in evidence /\ stored'[<<m, latest[m]>>] # NoArchive
  BY <1>1, <1>3 DEF EvidenceInv, LatestIsEvidence, TypeInv, TypeOK
<1> QED
  BY <1>2, <1>3 DEF LatestIsEvidence

LEMMA EvidenceProxied == TypeInv /\ RouteInv /\ PrivacyInv /\ EvidenceInv /\ Proxied => EvidenceInv'
<1> SUFFICES ASSUME TypeInv, RouteInv, PrivacyInv, EvidenceInv, Proxied PROVE EvidenceInv'
  OBVIOUS
<1> USE DEF walk, history, FromProxy
<1>0. UNCHANGED <<query, routes>>
  BY DEF Proxied, ProxyRoute, ProxyRouteSelected, ProxyVersion, ProxyExhausted, ProxyZip, ProxyPut,
     ProxySetLatest, ProxyExtract
<1>1. CASE ProxyRoute \/ ProxyRouteSelected \/ ProxyExhausted
  <2>1. UNCHANGED <<cache, evidence>>
    BY <1>1 DEF ProxyRoute, ProxyRouteSelected, ProxyExhausted
  <2>2. ASSUME NEW err, RouteFails(err) PROVE EvidenceInv'
    BY <2>1, <2>2, EvidenceFails
  <2>3. CASE Continue("version") \/ (Selected /\ Continue("zip"))
    BY <1>0, <2>1, <2>3, EvidenceSame DEF Continue, Floating, Selected, EvidenceInv
  <2> QED
    BY <1>1, <2>2, <2>3 DEF ProxyRoute, ProxyRouteSelected, ProxyExhausted
<1>2. CASE ProxyVersion
  <2> PICK m \in todo : ProxyVersion!2!(m)
    BY <1>2 DEF ProxyVersion
  <2>1. CASE UNCHANGED evidence /\ (RouteFails("failed") \/ Continue("version"))
    BY <1>2, <2>1, EvidenceFails, EvidenceSame DEF ProxyVersion, Continue, EvidenceInv
  <2>2. ASSUME NEW v \in Version, cur' = InHand(m, v, NoArchive), Continue("zip"),
               evidence' = IF query.version = "latest" THEN evidence \union {<<m, v>>} ELSE evidence
        PROVE  EvidenceInv'
    <3>1. cur'.mod = m /\ cur'.ver = v
      BY <2>2 DEF InHand
    <3>2. LatestIsEvidence'
      BY <1>2, <2>2, EvidenceSame DEF ProxyVersion
    <3>3. Floating' => <<m, v>> \in evidence'
      BY <1>0, <2>2 DEF Floating, Selected
    <3> QED
      BY <2>2, <3>1, <3>2, <3>3 DEF Continue, EvidenceInv
  <2> QED
    BY <2>1, <2>2
<1>3. CASE ProxyZip
  <2>0. UNCHANGED <<cache, evidence>>
    BY <1>3 DEF ProxyZip
  <2>1. ASSUME NEW err, RouteFails(err) PROVE EvidenceInv'
    BY <2>0, <2>1, EvidenceFails
  <2>2. CASE NextCandidate
    BY <2>0, <2>2, EvidenceSame DEF NextCandidate, Continue, EvidenceInv
  <2>3. ASSUME NEW a \in Archive, cur' = [cur EXCEPT !.arch = a], Continue("verify")
        PROVE  EvidenceInv'
    <3>1. cur'.mod = cur.mod /\ cur'.ver = cur.ver /\ cur'.arch = a
      BY <2>3 DEF TypeInv, TypeOK
    <3>2. pc = "zip" /\ pc' = "verify" /\ UNCHANGED at
      BY <1>3, <2>3 DEF ProxyZip, Continue
    <3> QED
      BY <1>0, <2>0, <3>1, <3>2, EvidenceSame DEF EvidenceInv, Here, Floating, Selected
  <2> QED
    BY <1>3, <2>1, <2>2, <2>3 DEF ProxyZip
<1>4. CASE ProxyPut
  <2>1. cur.arch \in Archive /\ pc = "put" /\ Here.kind = "url" /\ UNCHANGED <<latest, evidence, cur, at>>
    BY <1>4 DEF ProxyPut, On, Continue, EvidenceInv
  <2>2. cur.mod \in Module /\ cur.ver \in Version
    BY <2>1 DEF TypeInv, InHandInv, PrivacyInv, Holding
  <2>3. LatestIsEvidence' /\ (StorePut => stored'[<<cur.mod, cur.ver>>] # NoArchive)
    BY <1>4, <2>1, <2>2, EvidencePut DEF ProxyPut
  <2>4. \/ StorePut /\ Floating /\ pc' = "alias"
        \/ pc' = "extract"
    BY <1>4 DEF ProxyPut, Continue
  <2> QED
    BY <1>0, <2>1, <2>3, <2>4 DEF EvidenceInv, Here, Floating, Selected
<1>5. CASE ProxySetLatest
  <2>1. Here.kind = "url" /\ pc = "alias" /\ UNCHANGED <<cur, stored, evidence>> /\ pc' = "extract"
    BY <1>5 DEF ProxySetLatest, Continue, RouteInv
  <2>2. <<cur.mod, cur.ver>> \in evidence /\ stored[<<cur.mod, cur.ver>>] # NoArchive /\ cur.arch \in Archive
    BY <2>1 DEF EvidenceInv
  <2>3. ASSUME NEW m \in Module, latest'[m] # NoVersion
        PROVE  <<m, latest'[m]>> \in evidence /\ stored[<<m, latest'[m]>>] # NoArchive
    <3>1. latest'[m] = latest[m] \/ (m = cur.mod /\ latest'[m] = cur.ver)
      BY <1>5 DEF ProxySetLatest, TypeInv, TypeOK
    <3> QED
      BY <2>2, <2>3, <3>1 DEF EvidenceInv, LatestIsEvidence
  <2> QED
    BY <2>1, <2>2, <2>3 DEF EvidenceInv, LatestIsEvidence
<1>6. CASE ProxyExtract
  <2>0. UNCHANGED <<cache, evidence>>
    BY <1>6 DEF ProxyExtract
  <2>1. ASSUME NEW err, RouteFails(err) PROVE EvidenceInv'
    BY <2>0, <2>1, EvidenceFails
  <2>2. CASE NextCandidate \/ Found
    BY <2>0, <2>2, EvidenceSame DEF NextCandidate, Found, Continue, EvidenceInv
  <2> QED
    BY <1>6, <2>1, <2>2 DEF ProxyExtract
<1> QED
  BY <1>1, <1>2, <1>3, <1>4, <1>5, <1>6 DEF Proxied

LEMMA EvidenceOther == TypeInv /\ RouteInv /\ EvidenceInv /\ (Direct \/ Verify \/ Database) => EvidenceInv'
<1> SUFFICES ASSUME TypeInv, RouteInv, EvidenceInv, Direct \/ Verify \/ Database PROVE EvidenceInv'
  OBVIOUS
<1> USE DEF walk, history, FromGit
<1>0. UNCHANGED <<query, routes, latest, evidence>>
  BY DEF Direct, GitRoute, GitClone, GitRetry, GitCheckout, GitExtract, GitPut, Verify, Database, cache
<1>1. ASSUME NEW err, RouteFails(err), UNCHANGED cache PROVE EvidenceInv'
  BY <1>0, <1>1, EvidenceFails
<1>2. CASE GitRoute \/ GitClone \/ GitRetry
  <2>1. ASSUME NEW label \in {"clone", "ssh", "checkout"}, Continue(label) PROVE EvidenceInv'
    BY <1>0, <1>2, <2>1, EvidenceSame DEF GitRoute, GitClone, GitRetry, Continue, EvidenceInv
  <2> QED
    BY <1>1, <1>2, <2>1 DEF GitRoute, GitClone, GitRetry
<1>3. CASE GitCheckout
  <2>1. ASSUME NEW a \in Archive, cur' = [cur EXCEPT !.arch = a],
               Continue(IF Canonical THEN "verify" ELSE "extract")
        PROVE  EvidenceInv'
    <3>1. cur'.arch = a
      BY <2>1 DEF TypeInv, TypeOK
    <3>2. Here.kind # "url" /\ UNCHANGED at /\ UNCHANGED cache /\ pc' \in {"verify", "extract"}
      BY <1>3, <2>1 DEF GitCheckout, Continue, RouteInv
    <3> QED
      BY <1>0, <3>1, <3>2, EvidenceSame DEF EvidenceInv, Here
  <2> QED
    BY <1>1, <1>3, <2>1 DEF GitCheckout
<1>4. CASE GitExtract
  <2>1. CASE Continue("put") /\ UNCHANGED cur
    BY <1>0, <1>4, <2>1, EvidenceSame DEF GitExtract, On, Continue, EvidenceInv, Here
  <2>2. CASE Found
    BY <1>0, <1>4, <2>2, EvidenceSame DEF GitExtract, Found, EvidenceInv
  <2> QED
    BY <1>1, <1>4, <2>1, <2>2 DEF GitExtract
<1>5. CASE GitPut
  <2>1. cur.arch \in Archive /\ pc' = "done"
    BY <1>5 DEF GitPut, On, Found, EvidenceInv
  <2> QED
    BY <1>0, <1>5, <2>1, EvidencePut DEF GitPut, EvidenceInv
<1>6. CASE Verify \/ Database
  <2>0. UNCHANGED cache /\ pc \in {"verify", "database"}
    BY <1>6 DEF Verify, Database
  <2>1. CASE Accept
    <3>1. cur' = [cur EXCEPT !.verified = TRUE] /\ UNCHANGED at /\ pc' \in {"put", "extract"}
      BY <2>1 DEF Accept, Continue
    <3>2. cur'.mod = cur.mod /\ cur'.ver = cur.ver /\ cur'.arch = cur.arch
      BY <3>1 DEF TypeInv, TypeOK
    <3> QED
      BY <1>0, <2>0, <3>1, <3>2, EvidenceSame DEF EvidenceInv, Here, Floating, Selected
  <2>2. CASE Continue("database") /\ UNCHANGED cur
    BY <1>0, <2>0, <2>2, EvidenceSame DEF Continue, EvidenceInv, Here, Floating, Selected
  <2> QED
    BY <1>1, <1>6, <2>0, <2>1, <2>2 DEF Verify, Database, DatabaseFails
<1> QED
  BY <1>2, <1>3, <1>4, <1>5, <1>6 DEF Direct

(* An alias names a version that a proxy reported and the cache holds.     *)
THEOREM LatestHasEvidence == Spec => []LatestIsEvidence
<1>1. TypeInv /\ RouteInv /\ PrivacyInv /\ EvidenceInv /\ [Next]_vars => EvidenceInv'
  <2> SUFFICES ASSUME TypeInv, RouteInv, PrivacyInv, EvidenceInv, [Next]_vars PROVE EvidenceInv'
    OBVIOUS
  <2>1. CASE UNCHANGED vars
    BY <2>1 DEF vars, EvidenceInv, LatestIsEvidence, Here, Floating, Selected
  <2>2. CASE Parse \/ Cancelled
    BY <2>2, EvidenceSame DEF Parse, Cancelled, history, EvidenceInv
  <2>3. CASE Off
    BY <2>3, EvidenceFails DEF Off, history
  <2> QED
    BY <2>1, <2>2, <2>3, EvidenceProxied, EvidenceOther DEF Next, Progress
<1>2. EvidenceInv => LatestIsEvidence
  BY DEF EvidenceInv
<1> QED
  BY <1>1, <1>2, TypeInit, TypeInvStep, RouteInvInit, RouteInvStep, PrivacyInit, PrivacyInvStep,
     EvidenceInit, PTL DEF Spec

-----------------------------------------------------------------------------
(* The order of the routes and the error that is reported. *)

(* The part of GOPROXY that is kept is a prefix; what is before its last   *)
(* entry are proxies.                                                      *)
LEMMA ListedShape ==
  ASSUME NEW list \in Seq(Entry)
  PROVE  /\ Len(Listed(list)) \in Nat /\ Len(Listed(list)) <= Len(list)
         /\ \A i \in 1..Len(Listed(list)) : Listed(list)[i] = list[i]
         /\ \A i \in 1..(Len(Listed(list)) - 1) : list[i].kind = "url"
<1> DEFINE n == Cardinality(Kept(list))
           last == Len(list)
<1>1. last \in Nat /\ DOMAIN list = 1..last
  OBVIOUS
<1>2. Kept(list) \subseteq 1..last
  BY <1>1 DEF Kept
<1>3. n \in Nat /\ n <= last
  <2> HIDE DEF last, n
  <2>1. IsFiniteSet(1..last) /\ Cardinality(1..last) = last
    BY <1>1, FS_Interval
  <2>2. IsFiniteSet(Kept(list)) /\ Cardinality(Kept(list)) <= last
    BY <1>2, <2>1, FS_Subset
  <2> QED
    BY <2>2, FS_CardinalityType DEF n
<1>4. n > 0 => n \in Kept(list)
  <2> SUFFICES ASSUME n > 0, n \notin Kept(list) PROVE FALSE
    OBVIOUS
  <2>1. \A i \in Kept(list) : i < n
    <3> SUFFICES ASSUME NEW i \in Kept(list), ~(i < n) PROVE FALSE
      OBVIOUS
    <3>1. i \in Nat /\ (n < i \/ i = n)
      BY <1>2, <1>3
    <3>2. n \in DOMAIN list /\ \A j \in 1..(n - 1) : j \in 1..(i - 1)
      BY <1>1, <1>2, <1>3, <3>1
    <3>3. n \in Kept(list)
      BY <3>2 DEF Kept
    <3> QED
      BY <3>3
  <2>2. Kept(list) \subseteq 1..(n - 1)
    BY <1>2, <1>3, <2>1
  <2>3. n - 1 \in Nat
    BY <1>3
  <2>4. Cardinality(Kept(list)) <= n - 1
    <3> DEFINE k == n - 1
    <3>1. Kept(list) \subseteq 1..k /\ k \in Nat
      BY <2>2, <2>3
    <3> HIDE DEF k, n
    <3>2. IsFiniteSet(1..k) /\ Cardinality(1..k) = k
      BY <3>1, FS_Interval
    <3>3. Cardinality(Kept(list)) <= k
      BY <3>1, <3>2, FS_Subset
    <3> QED
      BY <3>3 DEF k
  <2> QED
    BY <1>3, <2>4
<1>5. Len(Listed(list)) = n /\ \A i \in 1..n : Listed(list)[i] = list[i]
  <2> HIDE DEF n
  <2> QED
    BY <1>1, <1>3 DEF Listed, n
<1>6. \A i \in 1..(n - 1) : list[i].kind = "url"
  BY <1>3, <1>4 DEF Kept
<1> HIDE DEF n
<1> QED
  BY <1>1, <1>3, <1>5, <1>6

(* How a parsed route relates to the entry of GOPROXY it comes from. *)
LEMMA RoutesShape ==
  ASSUME NEW q \in Queries
  PROVE  LET r == Routes(q)
             skip == Len(r) - Len(Listed(q.list))
         IN /\ skip \in {0, 1}
            /\ \A j \in DOMAIN r :
                 /\ j > skip => r[j] = q.list[j - skip]
                 /\ j <= skip => ~r[j].pipe
                 /\ j > skip /\ j < Len(r) => q.list[j - skip].kind = "url"
<1> DEFINE kept == Listed(q.list)
           r == Routes(q)
<1>1. q.list \in Seq(Entry)
  BY RemoteRoutesAssumption DEF RemoteRoutesAssumption, Query
<1>2. kept \in Seq(Entry)
  BY <1>1, ListedType
<1>3. /\ \A i \in 1..Len(kept) : kept[i] = q.list[i]
      /\ \A i \in 1..(Len(kept) - 1) : q.list[i].kind = "url"
  BY <1>1, ListedShape
<1>4. CASE r = kept
  <2> HIDE DEF kept, r
  <2> QED
    BY <1>2, <1>3, <1>4 DEF kept, r
<1>5. CASE r = <<Special("noproxy")>> \o kept
  <2> HIDE DEF kept
  <2>1. Len(r) = Len(kept) + 1 /\ DOMAIN r = 1..(Len(kept) + 1) /\ Len(kept) \in Nat
    BY <1>2, <1>5
  <2>2. r[1] = Special("noproxy") /\ \A j \in 2..Len(r) : r[j] = kept[j - 1]
    BY <1>2, <1>5, <2>1
  <2>3. Len(r) - Len(kept) = 1 /\ ~r[1].pipe
    BY <2>1, <2>2 DEF Special
  <2>4. ASSUME NEW j \in DOMAIN r, j > 1
        PROVE  r[j] = q.list[j - 1] /\ (j < Len(r) => q.list[j - 1].kind = "url")
    BY <1>3, <2>1, <2>2, <2>4
  <2> HIDE DEF r
  <2> QED
    BY <2>1, <2>3, <2>4 DEF kept, r
<1> QED
  BY <1>4, <1>5 DEF Routes

(* The routes on behalf of which somebody was asked. *)
Reached == {ask[1] : ask \in asked} \union discovered

LEMMA ReachedType == TypeInv => Reached \subseteq Nat
<1> SUFFICES ASSUME TypeInv PROVE Reached \subseteq Nat
  OBVIOUS
<1>1. asked \subseteq Nat \X Module /\ discovered \subseteq Nat
  BY DEF TypeInv, TypeOK
<1>2. \A ask \in asked : ask[1] \in Nat
  BY <1>1
<1> QED
  BY <1>1, <1>2 DEF Reached

OrderInv ==
    /\ routes \in {<<>>, Routes(query)}
    /\ pc = "parse" => routes = <<>>
    /\ tried = <<>> \/ pc # "parse"
    /\ pc # "done" => Len(tried) = at - 1
    /\ \A j \in 1..(at - 1) : tried[j] \in NotFound \/ routes[j].pipe
    /\ Reached # {} => at \in DOMAIN routes
    /\ \A i \in Reached : i <= at
    /\ result = "failed" /\ Len(tried) < Len(routes) =>
         tried[Len(tried)] \notin NotFound /\ ~routes[Len(tried)].pipe

LEMMA OrderInit == Init => OrderInv
BY DEF Init, OrderInv, Reached

LEMMA OrderFails ==
  ASSUME TypeInv, RouteInv, OrderInv, pc \notin {"parse", "done"}, NEW err, RouteFails(err),
         UNCHANGED <<query, routes>>, Reached' \subseteq Reached \union {at}
  PROVE  OrderInv'
<1> USE DEF TypeInv, TypeOK
<1>1. /\ at \in DOMAIN routes /\ at \in Nat /\ routes \in Seq(Route) /\ tried \in Seq(Error)
      /\ Len(tried) = at - 1
  BY DEF OrderInv
<1>2. /\ tried' = Append(tried, err) /\ Len(tried') = at /\ tried'[at] = err
      /\ \A j \in 1..(at - 1) : tried'[j] = tried[j]
  BY <1>1 DEF RouteFails, Leaves
<1>3. \A i \in Reached' : i <= at
  BY <1>1 DEF OrderInv
<1>4. CASE GiveUp /\ (at = Len(routes) \/ (err \notin NotFound /\ ~Here.pipe))
  BY <1>1, <1>2, <1>3, <1>4 DEF GiveUp, OrderInv, Here
<1>5. CASE NextRoute /\ ~(at = Len(routes) \/ (err \notin NotFound /\ ~Here.pipe))
  <2>1. at' = at + 1 /\ pc' = "route" /\ result' = "none"
    BY <1>5 DEF NextRoute, RouteInv
  <2>2. at' \in DOMAIN routes'
    BY <1>1, <1>5, <2>1
  <2>3. \A j \in 1..(at' - 1) : tried'[j] \in NotFound \/ routes'[j].pipe
    BY <1>1, <1>2, <1>5, <2>1 DEF OrderInv, Here
  <2>4. \A i \in Reached' : i <= at'
    <3>1. \A i \in Reached' : i \in Nat
      BY <1>1, ReachedType
    <3> QED
      BY <1>1, <1>3, <2>1, <3>1
  <2> QED
    BY <1>1, <1>2, <2>1, <2>2, <2>3, <2>4 DEF OrderInv
<1> QED
  BY <1>4, <1>5 DEF RouteFails

LEMMA OrderStays ==
  ASSUME TypeInv, OrderInv, pc \notin {"parse", "done"}, result' # "failed",
         UNCHANGED <<query, routes, at, tried>>, Reached' \subseteq Reached \union {at}, pc' # "parse"
  PROVE  OrderInv'
<1>1. at \in DOMAIN routes /\ at \in Nat
  BY DEF TypeInv, TypeOK
<1>2. \A i \in Reached' : i <= at
  BY <1>1 DEF OrderInv
<1> QED
  BY <1>1, <1>2 DEF OrderInv

(* What every step of a route does to the order: it fails the route, or    *)
(* leaves index and errors alone.                                          *)
LEMMA RouteStep ==
  ASSUME TypeInv, RouteInv, Off \/ Proxied \/ Direct \/ Verify \/ Database
  PROVE  /\ pc \notin {"parse", "done"}
         /\ UNCHANGED <<query, routes>>
         /\ Reached' \subseteq Reached \union {at}
         /\ \/ \E err \in Error : RouteFails(err)
            \/ UNCHANGED <<at, tried, best>> /\ result' # "failed" /\ pc' # "parse"
<1> USE DEF walk, cache, history
<1>0. asked' \subseteq asked \union ({at} \X Module) /\ discovered' \subseteq discovered \union {at} =>
        Reached' \subseteq Reached \union {at}
  BY DEF Reached
<1> DEFINE Near == /\ asked' \subseteq asked \union ({at} \X Module)
                   /\ discovered' \subseteq discovered \union {at}
           Ends == \/ \E err \in Error : RouteFails(err)
                   \/ UNCHANGED <<at, tried, best>> /\ result' # "failed" /\ pc' # "parse"
           Goal == pc \notin {"parse", "done"} /\ UNCHANGED <<query, routes>> /\ Near /\ Ends
<1>1. Off => Goal
  BY DEF Off, On, Error, NotFound
<1>2. ProxyRoute \/ ProxyRouteSelected \/ ProxyExhausted \/ ProxyPut \/ ProxySetLatest \/ ProxyExtract => Goal
  BY DEF ProxyRoute, ProxyRouteSelected, ProxyExhausted, ProxyPut, ProxySetLatest, ProxyExtract,
     NextCandidate, Found, On, Continue, RouteInv, Error, NotFound
<1>3. ProxyVersion => Goal
  BY DEF ProxyVersion, Ask, Continue, RouteInv, Error, TypeInv, TypeOK
<1>4. ProxyZip => Goal
  BY DEF ProxyZip, NextCandidate, Ask, Continue, RouteInv, Error, NotFound, TypeInv, InHandInv, Holding
<1>5. GitRoute \/ GitRetry \/ GitCheckout \/ GitExtract \/ GitPut => Goal
  BY DEF GitRoute, GitRetry, GitCheckout, GitExtract, GitPut, Found, On, Continue, RouteInv,
     Error, NotFound
<1>6. GitClone => Goal
  BY DEF GitClone, Ask, Continue, RouteInv, Error, NotFound, TypeInv, InHandInv, Holding
<1>7. Verify \/ Database => Goal
  BY DEF Verify, Database, DatabaseFails, Accept, Continue, RouteInv, Error, NotFound
<1> QED
  BY <1>0, <1>1, <1>2, <1>3, <1>4, <1>5, <1>6, <1>7 DEF Proxied, Direct

LEMMA OrderInvStep == TypeInv /\ RouteInv /\ OrderInv /\ [Next]_vars => OrderInv'
<1> SUFFICES ASSUME TypeInv, RouteInv, OrderInv, [Next]_vars PROVE OrderInv'
  OBVIOUS
<1>1. CASE UNCHANGED vars
  BY <1>1 DEF vars, OrderInv, Reached
<1>2. CASE Parse
  <2>1. /\ at' = 1 /\ asked' = {} /\ discovered' = {} /\ tried' = <<>> /\ query' = query
        /\ \/ routes' = <<>> /\ pc' = "done"
           \/ routes' = Routes(query) /\ pc' = "route" /\ result' = "none"
    BY <1>2 DEF Parse, history, TypeInv, StartInv, OrderInv, RouteInv
  <2> QED
    BY <2>1 DEF OrderInv, Reached
<1>3. CASE Cancelled
  BY <1>3, OrderStays DEF Cancelled, history, Reached
<1>4. CASE Off \/ Proxied \/ Direct \/ Verify \/ Database
  BY <1>4, RouteStep, OrderFails, OrderStays
<1> QED
  BY <1>1, <1>2, <1>3, <1>4 DEF Next, Progress

(* For GOPROXY lists of any length: no route is asked before the separators *)
(* in front of it allow, and no lookup gives up before they require.       *)
THEOREM FollowsFallbackRule == Spec => []FallbackRule
<1>1. TypeInv /\ OrderInv => FallbackRule
  <2> SUFFICES ASSUME TypeInv, OrderInv PROVE FallbackRule
    OBVIOUS
  <2>1. ASSUME NEW i \in Reached, NEW j \in 1..(i - 1)
        PROVE  /\ tried[j] \in NotFound \/ (j > Implicit /\ query.list[j - Implicit].pipe)
               /\ j > Implicit => query.list[j - Implicit].kind = "url"
    <3>1. at \in DOMAIN routes /\ i \in Nat /\ i <= at /\ at \in Nat
      BY ReachedType DEF TypeInv, TypeOK, OrderInv
    <3>2. j \in DOMAIN routes /\ j < Len(routes) /\ j \in 1..(at - 1)
      BY <3>1 DEF TypeInv, TypeOK
    <3>3. routes = Routes(query) /\ query \in Queries
      BY <3>1 DEF TypeInv, TypeOK, OrderInv
    <3>4. /\ Implicit \in {0, 1}
          /\ j > Implicit => routes[j] = query.list[j - Implicit]
          /\ j <= Implicit => ~routes[j].pipe
          /\ j > Implicit => query.list[j - Implicit].kind = "url"
      BY <3>2, <3>3, RoutesShape DEF Implicit
    <3>5. tried[j] \in NotFound \/ routes[j].pipe
      BY <3>2 DEF OrderInv
    <3> QED
      BY <3>2, <3>4, <3>5
  <2> QED
    BY <2>1 DEF FallbackRule, OrderInv, Reached
<1> QED
  BY <1>1, TypeInit, TypeInvStep, RouteInvInit, RouteInvStep, OrderInit, OrderInvStep, PTL DEF Spec

DirectErrors ==
    {j \in DOMAIN tried : \/ routes[j].kind = "direct"
                          \/ routes[j].kind = "noproxy" /\ tried[j] # "useProxy"}
HardErrors == {j \in DOMAIN tried : tried[j] \notin NotFound}

(* The error kept so far is the one of the highest rank. *)
BestInv ==
    /\ tried = <<>> => best = NoError
    /\ tried # <<>> =>
         /\ best.from \in DOMAIN tried
         /\ best.err = tried[best.from]
         /\ best.rank = 2 => best.from \in DirectErrors /\ \A j \in DirectErrors : j <= best.from
         /\ best.rank = 1 => /\ DirectErrors = {}
                             /\ best.from \in HardErrors /\ \A j \in HardErrors : j <= best.from
         /\ best.rank = 0 => DirectErrors = {} /\ HardErrors = {} /\ best.from = 1

LEMMA BestFails ==
  ASSUME TypeInv, RouteInv, OrderInv, BestInv, pc \notin {"parse", "done"}, NEW err \in Error,
         RouteFails(err), UNCHANGED <<query, routes>>
  PROVE  BestInv'
<1> DEFINE rank == Rank(Here.kind, err)
           direct == Here.kind = "direct" \/ (Here.kind = "noproxy" /\ err # "useProxy")
<1>1. /\ at \in DOMAIN routes /\ at \in Nat /\ tried \in Seq(Error) /\ Len(tried) = at - 1
      /\ Here \in Route
  BY DEF TypeInv, TypeOK, OrderInv, Here
<1>2. /\ tried' = Append(tried, err) /\ DOMAIN tried' = 1..at /\ tried'[at] = err
      /\ \A j \in 1..(at - 1) : tried'[j] = tried[j]
      /\ DOMAIN tried = 1..(at - 1)
  BY <1>1 DEF RouteFails, Leaves
<1>3. /\ rank = 2 <=> direct
      /\ rank = 1 <=> ~direct /\ err \notin NotFound
      /\ rank \in 0..2
  BY <1>1 DEF Rank, Route, NotFound
<1>4. /\ DirectErrors' = IF direct THEN DirectErrors \union {at} ELSE DirectErrors
      /\ HardErrors' = IF err \notin NotFound THEN HardErrors \union {at} ELSE HardErrors
  <2>1. routes' = routes /\ Here = routes[at]
    BY DEF Here
  <2>2. \A j \in 1..(at - 1) : /\ j \in DirectErrors' <=> j \in DirectErrors
                               /\ j \in HardErrors' <=> j \in HardErrors
    BY <1>1, <1>2, <2>1 DEF DirectErrors, HardErrors
  <2>3. (at \in DirectErrors' <=> direct) /\ (at \in HardErrors' <=> err \notin NotFound)
    BY <1>1, <1>2, <2>1 DEF DirectErrors, HardErrors
  <2>4. DirectErrors' \subseteq 1..at /\ HardErrors' \subseteq 1..at
        /\ DirectErrors \subseteq 1..(at - 1) /\ HardErrors \subseteq 1..(at - 1)
    BY <1>2 DEF DirectErrors, HardErrors
  <2>5. \A j \in 1..at : j = at \/ j \in 1..(at - 1)
    BY <1>1
  <2> HIDE DEF direct
  <2>6. DirectErrors' = IF direct THEN DirectErrors \union {at} ELSE DirectErrors
    <3>1. \A j : j \in DirectErrors' <=> j \in DirectErrors \/ (direct /\ j = at)
      BY <1>1, <2>2, <2>3, <2>4, <2>5
    <3> QED
      BY <3>1
  <2>7. HardErrors' = IF err \notin NotFound THEN HardErrors \union {at} ELSE HardErrors
    <3>1. \A j : j \in HardErrors' <=> j \in HardErrors \/ (err \notin NotFound /\ j = at)
      BY <1>1, <2>2, <2>3, <2>4, <2>5
    <3> QED
      BY <3>1
  <2> QED
    BY <2>6, <2>7
<1>5. best' = IF best.err = "none" \/ (rank > 0 /\ rank >= best.rank)
                THEN [err |-> err, rank |-> rank, from |-> at] ELSE best
  BY DEF RouteFails, Leaves, Better
<1>6. best.rank \in 0..2 /\ (best.err = "none" <=> tried = <<>>)
  <2>1. tried # <<>> => best.err \in Error
    BY <1>1 DEF BestInv
  <2> QED
    BY <2>1 DEF BestInv, NoError, TypeInv, TypeOK, Error, NotFound
<1>7. DirectErrors \subseteq 1..(at - 1) /\ HardErrors \subseteq 1..(at - 1) /\ tried' # <<>>
  BY <1>1, <1>2 DEF DirectErrors, HardErrors
<1> HIDE DEF rank, direct
<1>8. CASE tried = <<>>
  <2>1. at = 1 /\ DirectErrors = {} /\ HardErrors = {}
    BY <1>1, <1>8 DEF DirectErrors, HardErrors
  <2>2. best' = [err |-> err, rank |-> rank, from |-> at]
    BY <1>5, <1>6, <1>8
  <2> QED
    BY <1>2, <1>3, <1>4, <1>7, <2>1, <2>2 DEF BestInv
<1>9. CASE tried # <<>> /\ rank > 0 /\ rank >= best.rank
  <2>1. best' = [err |-> err, rank |-> rank, from |-> at]
    BY <1>5, <1>9
  <2>2. rank = 1 => DirectErrors = {}
    BY <1>3, <1>6, <1>9 DEF BestInv
  <2>3. \A j \in DirectErrors \union HardErrors \union {at} : j <= at
    BY <1>1, <1>7
  <2>4. best'.from = at /\ best'.err = err /\ best'.rank = rank
    BY <2>1
  <2>5. CASE direct
    <3>1. rank = 2 /\ at \in DirectErrors' /\ \A j \in DirectErrors' : j <= at
      BY <1>3, <1>4, <2>3, <2>5
    <3> QED
      BY <1>1, <1>2, <1>7, <2>4, <3>1 DEF BestInv
  <2>6. CASE ~direct
    <3>1. rank = 1 /\ err \notin NotFound
      BY <1>3, <1>9, <2>6
    <3>2. DirectErrors' = {} /\ at \in HardErrors' /\ \A j \in HardErrors' : j <= at
      BY <1>4, <2>2, <2>3, <2>6, <3>1
    <3> QED
      BY <1>1, <1>2, <1>7, <2>4, <3>1, <3>2 DEF BestInv
  <2> QED
    BY <2>5, <2>6
<1>10. CASE tried # <<>> /\ ~(rank > 0 /\ rank >= best.rank)
  <2>1. best' = best
    BY <1>5, <1>6, <1>10
  <2>2. best.from \in 1..(at - 1) /\ best.err = tried'[best.from] /\ best.from \in DOMAIN tried'
    BY <1>1, <1>2, <1>10 DEF BestInv
  <2>3. /\ best.rank = 2 => DirectErrors' = DirectErrors
        /\ best.rank = 1 => DirectErrors' = DirectErrors /\ HardErrors' = HardErrors
        /\ best.rank = 0 => DirectErrors' = DirectErrors /\ HardErrors' = HardErrors
    BY <1>3, <1>4, <1>6, <1>10
  <2> QED
    BY <1>7, <1>10, <2>1, <2>2, <2>3 DEF BestInv
<1> QED
  BY <1>8, <1>9, <1>10

LEMMA BestInvStep == TypeInv /\ RouteInv /\ OrderInv /\ BestInv /\ [Next]_vars => BestInv'
<1> SUFFICES ASSUME TypeInv, RouteInv, OrderInv, BestInv, [Next]_vars PROVE BestInv'
  OBVIOUS
<1>1. CASE UNCHANGED <<routes, tried, best>>
  BY <1>1 DEF BestInv, DirectErrors, HardErrors
<1>2. CASE UNCHANGED vars \/ Cancelled
  BY <1>1, <1>2 DEF vars, Cancelled
<1>3. CASE Parse
  BY <1>3 DEF Parse, OrderInv, BestInv
<1>4. CASE Off \/ Proxied \/ Direct \/ Verify \/ Database
  BY <1>1, <1>4, RouteStep, BestFails
<1> QED
  BY <1>2, <1>3, <1>4 DEF Next, Progress

(* Of the errors of any number of routes, the one of the highest rank is   *)
(* the one a failed lookup reports.                                        *)
THEOREM ReportsByRank == Spec => []ErrorByRank
<1>1. TypeInv /\ BestInv => ErrorByRank
  BY DEF TypeInv, TypeOK, BestInv, ErrorByRank, DirectErrors, HardErrors
<1>2. Init => BestInv
  BY DEF Init, BestInv
<1> QED
  BY <1>1, <1>2, TypeInit, TypeInvStep, RouteInvInit, RouteInvStep, OrderInit, OrderInvStep,
     BestInvStep, PTL DEF Spec
=============================================================================
