----------------------------- MODULE MCLookup -----------------------------
(* A module h/m that requires h/d, and h/r, which it replaces: by a        *)
(* directory or by h/f.  Archive a2 lacks a package that a1 has.           *)
EXTENDS Lookup

P(elements) == [i \in DOMAIN elements |-> <<elements[i]>>]

Host == <<"h", "io">>
At(elements) == <<Host>> \o P(elements)

d == At(<<"d">>)
m == At(<<"m">>)
r == At(<<"r">>)
f == At(<<"f">>)

MCExported == {"S", "T"}
MCRank == [e \in {<<n>> : n \in {"enc", "json", "text"}} |->
             IF e = <<"json">> THEN 1 ELSE IF e = <<"enc">> THEN 2 ELSE 3]
MCGitHosts == {<<"git", "io">>}
MCSkipped == {<<"vendor">>}
MCArchive == {"a1", "a2"}

Documented == Package(Targets, {<<"S">>, <<"S", "F">>})
Elsewhere == Package({"windows"}, {<<"S">>})

MCTree ==
    [a1 |-> (<<>> :> Documented) @@ (P(<<"x">>) :> Documented) @@ (P(<<"w">>) :> Elsewhere),
     a2 |-> (<<>> :> Package(Targets, {})) @@ (P(<<"w">>) :> Unparsable)]

OwnTree == (<<>> :> Documented) @@ (P(<<"own">>) :> Elsewhere)
Std == (P(<<"text", "json">>) :> Documented) @@ (P(<<"enc", "json">>) :> Elsewhere)
         @@ (P(<<"yaml">>) :> Documented) @@ (<<<<"yaml", "S">>>> :> Package(Targets, {}))

Entry(src, ver, local, tree) == [ver |-> ver, src |-> src, srcVer |-> ver, local |-> local, tree |-> tree]

(* The database "sum" knows the archives a1, the database "alt" a2 for d.  *)
Known == [mv \in {d, r, f} \X {1, 2} |-> "a1"]
Sums == [sum |-> Known, alt |-> [Known EXCEPT ![<<d, 1>>] = "a2"]]

Bare == [mod |-> <<>>, cwd |-> <<>>, own |-> <<>>, std |-> Std, replaced |-> <<>>, required |-> <<>>,
         list |-> <<>>, goCache |-> <<>>, sums |-> Sums, offered |-> {1}]

Project ==
    [Bare EXCEPT !.mod = m, !.cwd = P(<<"own">>), !.own = OwnTree,
       !.required = (d :> 1) @@ (r :> 1),
       !.replaced = (r :> (P(<<"x">>) :> Documented)),
       !.list = (m :> [Entry(m, 0, TRUE, OwnTree) EXCEPT !.srcVer = 0])
                 @@ (d :> Entry(d, 2, FALSE, {}))
                 @@ (r :> Entry(r, 1, TRUE, P(<<"x">>) :> Documented))]

Cached(arch, intact) == [arch |-> arch, intact |-> intact]

MCWorlds ==
    {Bare, Project,
     [Bare EXCEPT !.goCache = (<<d, 1>> :> Cached("a1", TRUE)) @@ (<<d, 2>> :> Cached("a2", TRUE))],
     [Project EXCEPT !.goCache = (<<d, 2>> :> Cached("a1", TRUE)) @@ (<<d, 1>> :> Cached("a2", FALSE)),
                     !.list[r] = Entry(f, 1, FALSE, {}), !.replaced = <<>>],
     [Project EXCEPT !.own = OwnTree @@ (P(<<"vendor">>) :> Unreadable),
                     !.std = Std @@ (P(<<"enc">>) :> Unparsable), !.list = <<>>],
     [Project EXCEPT !.own = OwnTree @@ (P(<<"bad">>) :> Unreadable)]}

NoEnv == [goenvOff |-> FALSE, process |-> <<>>, user |-> <<>>, goroot |-> <<>>]
Process(name, value) == [NoEnv EXCEPT !.process = (name :> value), !.user = (name :> {})]

Request(args, env, goSum, version, online) ==
    [args |-> args, env |-> env, goSum |-> goSum, version |-> version, online |-> online]

Arguments ==
    {<<>>, <<<<<<"S">>>>>>, <<<<<<"git", "io">>, <<"owner">>, <<"repo", "S">>>>>>, <<<<Dot, <<"own">>>>>>, <<<<DotDot>>>>,
     <<<<<<"yaml", "S">>>>>>, <<P(<<"text", "none">>)>>, <<<<<<"json", "S">>>>>>, <<<<<<"json", "S", "T">>>>>>, <<P(<<"own">>), <<<<"S">>>>>>,
     <<At(<<"d", "x">>)>>, <<<<Host, <<"d">>, <<"w", "S">>>>>>, <<<<Host, <<"d", "T">>>>>>,
     <<d, <<<<"T">>>>>>, <<<<Host, <<"r">>, <<"x", "S", "F">>>>>>, <<<<<<"a", "b", "c", "d">>>>>>}

Environments ==
    {NoEnv, Process("GOSUMDB", {"off"}), Process("GOOS", {"windows"}),
     [NoEnv EXCEPT !.user = ("GOPRIVATE" :> {d})],
     [NoEnv EXCEPT !.goenvOff = TRUE, !.user = ("GOPRIVATE" :> {d}), !.goroot = ("GOSUMDB" :> {"alt"})]}

MCRequests ==
    {Request(args, NoEnv, <<>>, 0, TRUE) : args \in Arguments}
    \union
    {Request(<<<<Host, <<"d">>, <<w, "S">>>>>>, env, sum, v, online) :
        w \in {"x", "w"}, env \in Environments,
        sum \in {<<>>, (<<d, 1>> :> {"a1"}), (<<d, 1>> :> {"a1", "a2"})},
        v \in {0, 1}, online \in BOOLEAN}

(* The same package, first where no database is asked, then where one is.  *)
MCRepeated ==
    {Request(<<<<Host, <<"d">>, <<"x", "S">>>>>>, env, sum, v, TRUE) :
        env \in {NoEnv, Process("GOSUMDB", {"off"})},
        sum \in {<<>>, (<<d, 1>> :> {"a1"})}, v \in {0, 1}}
=============================================================================
