------------------------------- MODULE Launch -------------------------------
(***************************************************************************)
(* From a command line to the tools of an agent.  A process of dailybrief  *)
(* loads the configuration for itself; a run writes mcp.json and           *)
(* settings.json into its directory and starts `claude` there with a       *)
(* scrubbed environment; `claude` starts the tool server, a process of     *)
(* dailybrief again, which loads the configuration a second time.  The     *)
(* owner may edit the files at any moment.  The run lock, the attempts and *)
(* what a run does are RunLifecycle's and Attempt's.                       *)
(***************************************************************************)
EXTENDS Settings

CONSTANTS
  Processes,     \* started by the owner, a supervisor or cron
  Project,       \* the directory with config/, prompts/ and schemas/
  Dirs,          \* working directories
  Environments,  \* the environments a process may be started with
  Commands,      \* the command lines: [verb, role, prompt, schema, days]
  Files,         \* the versions of the three files an editor may leave
  RunIds,        \* bound: the ids that runs are given, in order
  MaxEdits       \* bound

\* A working directory is absolute.
ASSUME PlaceAssumption == \A d \in Dirs \cup {Project} : d \in Path /\ d.abs
\* The variables and the key that are paths.
ASSUME PathAssumption ==
  /\ \A env \in Environments : \A v \in PathVars \cap DOMAIN env : env[v] \in Path
  /\ \A f \in Files : Parses(f.config) => Filled(f.config).data_dir \in Path
\* `run` and `curate` alone take a prompt.
ASSUME CommandAssumption ==
  \A cmd \in Commands : /\ cmd.role \in Roles /\ cmd.prompt \in Path
                        /\ cmd.verb = "serve" => cmd.prompt = Dot
\* A name is some text, an id is not empty.
ASSUME NameAssumption ==
  /\ {"config", "config.toml", "feeds.toml", "topics.toml", "mcp.json", "settings.json",
      "prompts", "schemas", "runs", "brief.db"} \cup Roles \subseteq Name
  /\ RunIds \in Seq(Name \ {""})

VARIABLES
  disk,    \* the files: [config, feeds, topics]
  proc,    \* per process, its command, environment, directory and configuration
  agent,   \* per process, the agent of its run and the agent's tool server
  runs,    \* how many run ids were given
  edits

launchVars == <<disk, proc, agent, runs, edits>>

-----------------------------------------------------------------------------
(* What a process needs before it does anything *)

Verbs == {"migrate", "fetch", "mcp", "run", "curate", "serve", "reembed", "prune", "scan-transcript"}
Runners == {"run", "curate", "serve"}

None == Dot    \* no override

Here == Paths(Under(Project, Rel(<<"config", "config.toml">>)), Dot)
Committed == {Here.config, Here.feeds, Here.topics, Here.template,
              Here.prompt["editor"], Here.prompt["curator"],
              Here.schema["editor"], Here.schema["curator"]}
Exists(dir, p) == Under(dir, p) \in Committed

\* load_config, and load_all with the other two files.
LoadsConfig(env, dir) ==
  /\ EnvReads(env)
  /\ Exists(dir, ConfigPath(env))
  /\ Parses(disk.config) /\ Valid(Filled(disk.config))
LoadsAll(env, dir) == LoadsConfig(env, dir) /\ ValidFeeds(disk.feeds) /\ ValidTopics(disk.topics)

\* Mutant: config.toml outranks the environment.
FileFirst(env) == Paths(ConfigPath(env), Filled(disk.config).data_dir)

PathsFor(env) == Paths(ConfigPath(env), Config(disk.config, env).data_dir)

Forbidden == {"ANTHROPIC_API_KEY", "ANTHROPIC_AUTH_TOKEN"}
Token == "CLAUDE_CODE_OAUTH_TOKEN"
Inherited == {Token, "CONFIG", "DATA_DIR", "BIND", "RUN_ID", "RUN_ROLE", "IN_CONTAINER"}

\* build_env: it refuses what would outrank the subscription.
Billable(env) == DOMAIN env \cap Forbidden # {}
HasToken(env) == Given(env, Token, "") # ""
Scrubbed(env) == [v \in DOMAIN env \cap Inherited |-> env[v]]

\* Mutant: an override is handed on as it was given.
OverrideAsGiven(dir, p) == p

\* absolute_override: the file is there, and named from the root from now on.
Override(dir, p) == Under(dir, p)
Overrides(dir, p) == p = None \/ Exists(dir, p)

PromptOf(cmd, dir, paths, role) == IF cmd.prompt = None THEN paths.prompt[role] ELSE Override(dir, cmd.prompt)
SchemaOf(cmd, paths, role) == IF cmd.schema = None THEN paths.schema[role] ELSE cmd.schema

\* ServiceRunner::new, which reads the schema at once.
RunnerBuilds(cmd, env, dir, role) ==
  /\ ~Billable(env) /\ HasToken(env)
  /\ Exists(dir, SchemaOf(cmd, PathsFor(env), role))

\* serve: the bind guard, Access, and runners unless the token is missing.
Serves(cmd, env, dir) ==
  LET bind == Config(disk.config, env).bind IN
  /\ BindAllowed(bind, InContainer(env))
  /\ AccessAllowed(env, bind)
  /\ ~Billable(env)
  /\ HasToken(env) => \A r \in Roles : RunnerBuilds(cmd, env, dir, r)

RoleFrom(env) == Given(env, "RUN_ROLE", "editor")

Accepts(cmd, env, dir) ==
  CASE cmd.verb \in {"migrate", "prune"} -> LoadsConfig(env, dir)
    [] cmd.verb = "mcp" -> "RUN_ID" \in DOMAIN env /\ RoleFrom(env) \in Roles /\ LoadsAll(env, dir)
    [] cmd.verb \in {"run", "curate"} ->
         /\ LoadsAll(env, dir)
         /\ Overrides(dir, cmd.prompt) /\ Overrides(dir, cmd.schema)
         /\ RunnerBuilds(cmd, env, dir, cmd.role)
    [] cmd.verb = "serve" -> LoadsAll(env, dir) /\ Serves(cmd, env, dir)
    [] OTHER -> LoadsAll(env, dir)

-----------------------------------------------------------------------------

Off == [pc |-> "off"]
NoAgent == [pc |-> "none"]

LaunchInit ==
  /\ disk \in Files
  /\ proc = [p \in Processes |-> Off]
  /\ agent = [p \in Processes |-> NoAgent]
  /\ runs = 0
  /\ edits = 0

Edit ==
  /\ edits < MaxEdits
  /\ edits' = edits + 1
  /\ disk' \in Files \ {disk}
  /\ UNCHANGED <<proc, agent, runs>>

(* A command line is accepted, and its process has the database open; or it *)
(* is refused (serve, for its environment, after the sweep of RunLifecycle). *)
Start(p) ==
  /\ proc[p] = Off
  /\ \E cmd \in Commands, env \in Environments, dir \in Dirs :
       proc' = [proc EXCEPT ![p] =
         IF Accepts(cmd, env, dir)
           THEN [pc |-> "up", cmd |-> cmd, env |-> env, dir |-> dir, paths |-> PathsFor(env)]
           ELSE [pc |-> "refused"]]
  /\ UNCHANGED <<disk, agent, runs, edits>>

Up(p) == proc[p].pc = "up"
DatabaseOf(p) == Under(proc[p].dir, Database(proc[p].paths))

\* The commands end with what they do; any process may be killed.
Stop(p) ==
  /\ proc[p] # Off
  /\ proc' = [proc EXCEPT ![p] = Off]
  /\ agent' = [agent EXCEPT ![p] = NoAgent]
  /\ UNCHANGED <<disk, runs, edits>>

-----------------------------------------------------------------------------
(* A run *)

\* Which runs a process begins.
RolesOf(p) ==
  IF proc[p].cmd.verb = "serve" THEN {r \in Roles : HasToken(proc[p].env)} ELSE {proc[p].cmd.role}

\* Mutant: mcp.json without the data directory.
McpEnvWithoutData(p, run, role) ==
  [v \in {"RUN_ID", "RUN_ROLE", "CONFIG"} |->
     CASE v = "RUN_ID" -> run [] v = "RUN_ROLE" -> role [] OTHER -> proc[p].paths.config]

\* The environment mcp.json gives the tool server.
McpEnv(p, run, role) ==
  [v \in {"RUN_ID", "RUN_ROLE", "CONFIG", "DATA_DIR"} |->
     CASE v = "RUN_ID" -> run [] v = "RUN_ROLE" -> role
       [] v = "CONFIG" -> proc[p].paths.config [] OTHER -> proc[p].paths.data]

\* What `claude` is started with.
Argv(p, dir, role) ==
  [mcp |-> File(dir, "mcp.json"), settings |-> File(dir, "settings.json"),
   prompt |-> PromptOf(proc[p].cmd, proc[p].dir, proc[p].paths, role)]

\* The agent of a run, in the attempt's directory.
Started(p, run, role) ==
  LET dir == RunDir(proc[p].paths, run)
  IN [pc |-> "started", run |-> run, role |-> role,
      dir |-> Under(proc[p].dir, dir), argv |-> Argv(p, dir, role),
      mcpEnv |-> McpEnv(p, run, role), env |-> Scrubbed(proc[p].env)]

(* The attempt's directory, its files, and the agent inside it. *)
Begin(p) ==
  /\ Up(p) /\ proc[p].cmd.verb \in Runners
  /\ agent[p] = NoAgent
  /\ runs < Len(RunIds)
  /\ Exists(proc[p].dir, proc[p].paths.template)
  /\ \E role \in RolesOf(p) :
       agent' = [agent EXCEPT ![p] = Started(p, RunIds[runs + 1], role)]
  /\ runs' = runs + 1
  /\ UNCHANGED <<disk, proc, edits>>

\* `claude` opens its files from the directory it was started in.
Finds(p) ==
  LET a == agent[p] IN
  /\ \A f \in {a.argv.mcp, a.argv.settings} : Under(a.dir, f) = Under(proc[p].dir, f)
  /\ Exists(a.dir, a.argv.prompt)

\* The tool server's own environment comes over the agent's.
ServerEnv(a) ==
  [v \in DOMAIN a.mcpEnv \cup DOMAIN a.env |-> IF v \in DOMAIN a.mcpEnv THEN a.mcpEnv[v] ELSE a.env[v]]

(* The agent cannot start without its files. *)
Blind(p) ==
  /\ agent[p].pc = "started" /\ ~Finds(p)
  /\ agent' = [agent EXCEPT ![p] = [@ EXCEPT !.pc = "blind"]]
  /\ UNCHANGED <<disk, proc, runs, edits>>

Mcp == [verb |-> "mcp"]

(* The tool server starts: `dailybrief mcp` in the agent's directory. *)
ServerStarts(p) ==
  /\ agent[p].pc = "started" /\ Finds(p)
  /\ LET a == agent[p]
         env == ServerEnv(a)
     IN agent' = [agent EXCEPT ![p] =
          IF Accepts(Mcp, env, a.dir)
            THEN [pc |-> "serving", run |-> a.run, role |-> a.role, serves |-> env["RUN_ID"],
                  as |-> RoleFrom(env), database |-> Under(a.dir, Database(PathsFor(env))),
                  answered |-> {}]
            ELSE [a EXCEPT !.pc = "toolless"]]
  /\ UNCHANGED <<disk, proc, runs, edits>>

EditorTools == {"get_briefing", "fetch_sources", "report_feed_issue", "list_candidates",
                "search_items", "read_item", "select", "publish_digest", "editor_notes"}
CuratorTools == {"get_feedback", "get_profile", "find_feeds", "validate_feed", "propose_change"}
Offers(role) == IF role = "editor" THEN EditorTools ELSE CuratorTools

(* Only a tool of the server's router is ever run: the agent calls the tool *)
(* that ends its work.                                                     *)
Call(p) ==
  /\ agent[p].pc = "serving"
  /\ \E tool \in {"publish_digest", "propose_change"} \cap Offers(agent[p].as) :
       agent' = [agent EXCEPT ![p].answered = @ \cup {tool}]
  /\ UNCHANGED <<disk, proc, runs, edits>>

(* The agent ends, or is killed; a command ends with its run. *)
End(p) ==
  /\ agent[p] # NoAgent
  /\ agent' = [agent EXCEPT ![p] = NoAgent]
  /\ proc' = IF proc[p].cmd.verb = "serve" THEN proc ELSE [proc EXCEPT ![p] = Off]
  /\ UNCHANGED <<disk, runs, edits>>

LaunchNext ==
  \/ Edit
  \/ \E p \in Processes :
       Start(p) \/ Stop(p) \/ Begin(p) \/ Blind(p) \/ ServerStarts(p) \/ Call(p) \/ End(p)

LaunchSpec == LaunchInit /\ [][LaunchNext]_launchVars

-----------------------------------------------------------------------------
(* Properties *)

(* The server an agent talks to works for the run that started the agent:  *)
(* its id, the tools of its role, and the very database in which the run   *)
(* holds the lock and will look for its result, although the server loads  *)
(* a configuration that may have been edited since, from another directory *)
(* and an environment that has passed through `claude`.                    *)
ServerServesItsRun ==
  \A p \in Processes : agent[p].pc = "serving" =>
    /\ agent[p].serves = agent[p].run /\ agent[p].as = agent[p].role
    /\ agent[p].answered \subseteq Offers(agent[p].role)
    /\ agent[p].database = DatabaseOf(p)

(* Absolute paths in the environment are enough: such a run's agent finds  *)
(* its files and its server starts, unless the owner has left files that   *)
(* are not valid.  (With the defaults, which are relative, every agent is  *)
(* blind: it works in the directory of its run.)                           *)
Placed(p) == \A v \in PathVars : Given(proc[p].env, v, Dot).abs
AbsolutePathsReachTheAgent ==
  [][\A p \in Processes :
       /\ agent'[p].pc \in {"blind", "toolless"} /\ agent[p].pc = "started"
       /\ Placed(p)
       => ~LoadsAll(proc[p].env, proc[p].dir)]_launchVars

(* One data directory, one lock: processes that were given the same        *)
(* absolute DAILYBRIEF_DATA_DIR open the same database wherever they are   *)
(* started and whatever config.toml has said since.                        *)
OneDatabase ==
  \A p, q \in Processes :
    (/\ Up(p) /\ Up(q)
     /\ LET at(x) == Given(proc[x].env, "DATA_DIR", Dot) IN at(p) = at(q) /\ at(p).abs)
    => DatabaseOf(p) = DatabaseOf(q)
=============================================================================
