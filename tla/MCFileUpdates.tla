-------------------------- MODULE MCFileUpdates --------------------------
EXTENDS FileUpdates, TLC

CONSTANTS p, q, a, b, md, link, exe, v1, v2, v3

MCLinks == link :> a

Command(kind, names) ==
    [kind |-> kind, names |-> names, force |-> FALSE, log |-> FALSE, all |-> FALSE,
     script |-> FALSE, release |-> v1]

Logged(command_) == [command_ EXCEPT !.log = TRUE]

Update(release, script) ==
    [Command("update", <<exe>>) EXCEPT !.release = release, !.script = script]

MCCommands ==
    [x \in {p, q} |->
       IF x = p THEN {Logged(Command("hook", <<a>>)), Command("hook", <<link, md>>),
                      Command("format", <<link, a>>), Update(v2, TRUE)}
       ELSE {Logged(Command("hook", <<link>>)), Command("format", <<link, b>>),
             [Command("format", <<b, a>>) EXCEPT !.force = TRUE],
             Command("check", <<a, md>>), Command("clean", <<>>),
             [Command("clean", <<>>) EXCEPT !.all = TRUE],
             Update(v2, FALSE), Update(v1, TRUE), Update(v3, TRUE)}]
=============================================================================
