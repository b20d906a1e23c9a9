--------------------------- MODULE MCAgentConfig ---------------------------
EXTENDS AgentConfig

CONSTANTS p, q

MCMatcher == [claude |-> [tool |-> "edit", stop |-> "any"], codex |-> [tool |-> "patch"]]
MCDefault == [claude |-> {"tool", "status-line"}, codex |-> {"tool"}]

MCEvent == {"tool", "stop", "other"}

Command(op, as, only) ==
    [op |-> op, agents |-> as, only |-> only, log |-> NoLog, dryRun |-> FALSE]

Writers ==
    {Command("install", {"claude"}, {}), [Command("install", {"claude"}, {"tool"}) EXCEPT !.log = "debug"],
     Command("install", {"codex"}, {}), Command("install", {"codex"}, {"stop"}),
     [Command("install", {"codex"}, {}) EXCEPT !.log = "debug"],
     Command("uninstall", {"claude"}, {}), Command("uninstall", {"codex"}, {}),
     Command("uninstall", {"claude"}, {"stop"}),
     Command("init", Agent, {}), Command("init", {}, {})}

MCCommands ==
    [x \in {p, q} |->
       IF x = p THEN Writers
       ELSE Writers \union
            {Command("status", {"claude"}, {}), Command("doctor", {}, {}),
             [Command("init", Agent, {}) EXCEPT !.dryRun = TRUE]}]

Entry(type, command_, fields) == [type |-> type, command |-> command_, fields |-> fields]
Group(matcher, hooks, fields) == [matcher |-> matcher, hooks |-> hooks, fields |-> fields]

Other == [by |-> "user", surface |-> "other", leaf |-> "lint", log |-> NoLog]
Format == [by |-> "scut", surface |-> "format", leaf |-> "write", log |-> NoLog]

Lint == Group("any", <<Entry("command", Other, {"timeout"})>>, {"async"})
Mixed(a) == Group("any", <<Entry("command", Hook(a, "tool", NoLog), {}), Entry("command", Other, {})>>, {})
Old(a, matcher) == Group(matcher, <<Entry("command", Hook(a, "tool", "debug"), {"timeout"})>>, {})

Settings(line, hooks) == [line |-> line, hooks |-> hooks, keys |-> {"model"}]

MCFiles ==
    {[claude |-> Absent, codex |-> Absent],
     [claude |-> Settings([command |-> StatusLine(NoLog), fields |-> {"padding"}],
                          [tool |-> <<Lint, Old("claude", "edit"), Mixed("claude")>>]),
      codex |-> Settings(NoLine, [tool |-> <<Old("codex", "patch"), Lint>>])],
     [claude |-> Settings([command |-> Other, fields |-> {}],
                          [stop |-> <<Old("claude", "any")>>, other |-> <<Old("claude", "any")>>]),
      codex |-> Settings(NoLine, [tool |-> <<Old("codex", "any"), Mixed("codex")>>, other |-> <<Lint>>])],
     [claude |-> Absent,  codex |-> Torn]}

Host(denied, user, scut, toml) ==
    [denied |-> denied, user |-> user, binaries |-> {"codex"}, scut |-> scut, toml |-> toml]

MCHosts == {Host({}, FALSE, TRUE, "none"), Host({"codex"}, TRUE, FALSE, "off"),
            Host({"claude"}, FALSE, TRUE, "inline")}

(* A user's group next to scut's, with members scut does not know. *)
MCForeignFiles ==
    {[claude |-> Settings(NoLine, [tool |-> <<Lint>>]), codex |-> Settings(NoLine, [tool |-> <<Lint>>])]}

MCInstall == [x \in {p, q} |-> {Command("install", {"claude"}, {}), Command("install", {"codex"}, {})}]
=============================================================================
