--------------------------- MODULE MCRemoteRoutes ---------------------------
(* A package below two candidate module paths, one of which the build list *)
(* may have selected or replaced by a fork.                                *)
EXTENDS RemoteRoutes, TLC

CONSTANTS p1, p2, inner, outer, fork, v1, v2, good, bad

MCProxy == {p1, p2}
MCModule == {inner, outer, fork}
MCCandidates == {inner, outer}
MCDepth == inner :> 2 @@ outer :> 1
MCVersion == {v1, v2}
MCArchive == {good, bad}

GitDirect == Special("direct")
TurnedOff == Special("off")

Lists ==
    {<<>>, <<GitDirect>>, <<TurnedOff>>, <<Url(p1, TRUE), TurnedOff>>,
     <<Url(p1, FALSE), GitDirect>>, <<Url(p1, TRUE), GitDirect>>, <<GitDirect, Url(p1, FALSE)>>}

Recording(a) == [mv \in MCModule \X MCVersion |-> IF mv = <<inner, v1>> THEN a ELSE NoArchive]

Policy(noproxy, private, exempt, a) ==
    [noproxy |-> noproxy, private |-> private, exempt |-> exempt, recorded |-> Recording(a), database |-> FALSE]

(* GONOPROXY empty, matching something else, matching one module or all;   *)
(* GONOSUMDB likewise, or not matching what GONOPROXY does; a sum in       *)
(* go.sum that the delivered archive may or may not have.                  *)
Policies ==
    {Policy(FALSE, {}, {}, NoArchive), Policy(TRUE, {}, {}, bad), Policy(TRUE, {inner}, {inner}, NoArchive),
     Policy(TRUE, {inner}, {}, NoArchive),
     Policy(TRUE, MCModule, MCModule, bad),
     [Policy(FALSE, {}, {outer}, NoArchive) EXCEPT !.database = TRUE]}

Wanted ==
    {[version |-> w[1], selected |-> w[2], pinned |-> v1] :
        w \in {<<"latest", NoModule>>, <<"exact", NoModule>>, <<"named", NoModule>>,
               <<"latest", inner>>, <<"latest", fork>>}}

MCQueries ==
    {[list |-> list] @@ p @@ w : list \in Lists, p \in Policies, w \in Wanted}
    \union
    {[list |-> <<Url(p1, pipe), Url(p2, FALSE)>>] @@ Policy(FALSE, {}, exempt, bad)
       @@ [version |-> "exact", selected |-> inner, pinned |-> v1] :
        pipe \in BOOLEAN, exempt \in SUBSET {inner}}
=============================================================================
