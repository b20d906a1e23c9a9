---------------------------- MODULE MCCachePrune ----------------------------
(* Two modules: m1 with the versions 1 and 2, m2 with version 1.             *)
EXTENDS CachePrune

CONSTANTS m1, m2, v1, v2

MCRank == [e \in {m1, m2} \X {v1, v2} |-> (IF e[1] = m1 THEN 0 ELSE 2) + IF e[2] = v1 THEN 0 ELSE 1]
MCBytes == [e \in {m1, m2} \X {v1, v2} |-> IF e[1] = m1 THEN 3 ELSE 2]

Run(op, mod, ver) == [op |-> op, mod |-> mod, ver |-> ver, older |-> NoLimit, max |-> NoLimit]
Pruning(older, max) == [Run("prune", NoVersion, NoVersion) EXCEPT !.older = older, !.max = max]

MCCommands ==
    {Run("list", m2, NoVersion), Run("verify", NoVersion, NoVersion), Run("verify", m1, NoVersion),
     Run("verify", m1, v1), Run("remove", m1, NoVersion), Run("remove", m1, v1),
     Run("clean", NoVersion, NoVersion),
     Pruning(NoLimit, NoLimit), Pruning(0, NoLimit), Pruning(2, NoLimit), Pruning(1, 4), Pruning(NoLimit, 0),
     Pruning(NoLimit, 4), Pruning(NoLimit, 7), Pruning(2, 6)}

MCCleaning == {Run("clean", NoVersion, NoVersion)}

(* m1@v1 is older than m1@v2 and m2@v1; latest may name a missing version.    *)
AllOf(found) == [e \in {m1, m2} \X {v1, v2} |-> IF e \in DOMAIN found THEN found[e] ELSE NoEntry]

Full == AllOf((<<m1, v1>> :> Directory(3, -2, "valid")) @@ (<<m1, v2>> :> Directory(3, -1, "valid"))
                @@ (<<m2, v1>> :> Directory(2, -1, "valid")))
Partial == AllOf((<<m1, v1>> :> Directory(1, -2, "incomplete"))
                   @@ (<<m2, v1>> :> Directory(2, -1, "valid")))
Empty == AllOf(<<>>)

Holds(entries, stagings, latest, strays) ==
    [entry |-> entries, staged |-> stagings, stray |-> strays,
     alias |-> [x \in {m1, m2} |-> IF x = m1 THEN latest ELSE NoVersion]]

MCCaches ==
    {Holds(Full, Empty, v1, {}), Holds(Full, Empty, v2, {m2}),
     Holds(Partial, Empty, v2, {}), Holds(Partial, AllOf(<<m1, v2>> :> -1), NoVersion, {}),
     Holds(Empty, Empty, NoVersion, {})}
=============================================================================
