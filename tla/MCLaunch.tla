------------------------------ MODULE MCLaunch ------------------------------
EXTENDS Launch

Root == Abs(<<"app">>)
MCProject == Root
MCRunIds == <<"first", "second">>
MCDirs == {Root, Abs(<<"home">>)}

\* The container's environment, a shell in the project, a shell that has the
\* variables of another run left in it, and three that must be refused.
WithToken == [v \in {Token} |-> "token"]
At(config, data) == [v \in PathVars |-> IF v = "CONFIG" THEN config ELSE data]
Container ==
  WithToken @@ At(Here.config, Abs(<<"data">>)) @@ [v \in {"BIND", "IN_CONTAINER"} |-> IF v = "BIND" THEN "0.0.0.0" ELSE "1"]
            @@ [v \in {"CF_ACCESS_AUD", "CF_ACCESS_TEAM"} |-> "set"]
MCEnvironments ==
  {Container,
   WithToken,
   WithToken @@ [v \in {"CONFIG"} |-> Here.config],
   WithToken @@ At(Here.config, Abs(<<"data">>)) @@ [v \in {"RUN_ID", "RUN_ROLE"} |-> IF v = "RUN_ID" THEN "old" ELSE "curator"],
   At(Here.config, Abs(<<"data">>)),
   WithToken @@ [v \in {"DATA_DIR"} |-> Dot],
   WithToken @@ [v \in {"ANTHROPIC_API_KEY"} |-> "key"]}

Plain(verb, role) == [verb |-> verb, role |-> role, prompt |-> None, schema |-> None]
MCCommands ==
  {Plain("serve", "editor"), Plain("run", "editor"), Plain("curate", "curator"), Plain("fetch", "editor"),
   Plain("prune", "editor"), Plain("mcp", "editor"),
   [Plain("run", "editor") EXCEPT !.prompt = Rel(<<"prompts", "editor">>)]}

\* The committed files; another data directory; an edit that is not valid.
MCIds == {"a", "b"}
Feed(id) == [id |-> id, http |-> TRUE, weight |-> 1]
Topic(id) == [id |-> id, name |-> id, weight |-> 1]
Zoned == [k \in {"timezone"} |-> "Asia/Ho_Chi_Minh"]
Elsewhere == Zoned @@ [k \in {"data_dir"} |-> Abs(<<"elsewhere">>)]
Full == [feeds |-> <<Feed("a"), Feed("b")>>, topics |-> <<Topic("a")>>]
MCFiles ==
  {[config |-> Zoned] @@ Full, [config |-> Elsewhere] @@ Full,
   [config |-> Zoned @@ [k \in {"days"} |-> 6]] @@ Full,
   [config |-> Zoned, feeds |-> <<Feed("a"), Feed("a")>>, topics |-> <<>>]}
MCCrons == {"30 6 * * *", "0 7 * * *", "30 7 * * 0"}
=============================================================================
