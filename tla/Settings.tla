------------------------------ MODULE Settings ------------------------------
(***************************************************************************)
(* The configuration (src/config): paths and where they resolve, the       *)
(* DAILYBRIEF_* environment, the defaults of config.toml and what a valid  *)
(* one is, the ids of feeds.toml and topics.toml, and the two rules that   *)
(* decide whether the pages may be served.                                 *)
(*                                                                         *)
(* A file is a function from its keys to values, an environment one from   *)
(* the variables that are set.  A path is a sequence of names, absolute or *)
(* not; the empty one is both "" and ".".                                  *)
(***************************************************************************)
EXTENDS Naturals, Sequences, SequencesExt, TLC

CONSTANTS Zones,   \* the time zones chrono_tz knows
          Crons,   \* the expressions croner parses
          Ids      \* the strings that match [a-z0-9][a-z0-9_-]{0,63}

Roles == {"editor", "curator"}

-----------------------------------------------------------------------------
(* Paths *)

Name == STRING
Path == [abs : BOOLEAN, names : Seq(Name)]
Abs(names) == [abs |-> TRUE, names |-> names]
Rel(names) == [abs |-> FALSE, names |-> names]
Dot == Rel(<<>>)

\* PathBuf::join, which is also what opening p with the working directory d does.
Under(d, p) == IF p.abs THEN p ELSE [d EXCEPT !.names = @ \o p.names]
Parent(p) == IF p.names = <<>> THEN Dot ELSE [p EXCEPT !.names = Front(@)]
File(d, name) == Under(d, Rel(<<name>>))

\* Everything is named from config.toml; the data directory is given.
Paths(config, data) ==
  LET dir == Parent(config)
      root == Parent(dir)
  IN [config |-> config, data |-> data,
      feeds |-> File(dir, "feeds.toml"), topics |-> File(dir, "topics.toml"),
      template |-> File(dir, "mcp.json"),
      prompt |-> [r \in Roles |-> Under(root, Rel(<<"prompts", r>>))],
      schema |-> [r \in Roles |-> Under(root, Rel(<<"schemas", r>>))]]

Database(paths) == File(paths.data, "brief.db")
RunDir(paths, id) == Under(paths.data, Rel(<<"runs", id>>))

-----------------------------------------------------------------------------
(* The environment *)

\* The variables that are paths, and the other ones the process reads.
PathVars == {"CONFIG", "DATA_DIR"}
TextVars == {"BIND", "RUN_ID", "RUN_ROLE"}
Given(env, v, default) == IF v \in DOMAIN env THEN env[v] ELSE default

\* Env::from_lookup: a variable that is set is not empty.
EnvReads(env) ==
  /\ \A v \in PathVars \cap DOMAIN env : env[v] # Dot
  /\ \A v \in TextVars \cap DOMAIN env : env[v] # ""
ConfigPath(env) == Given(env, "CONFIG", Rel(<<"config", "config.toml">>))
InContainer(env) == Given(env, "IN_CONTAINER", "0") \in {"1", "true"}

-----------------------------------------------------------------------------
(* config.toml *)

\* The numbers that must not be zero.
Counts ==
  [reads |-> 45, for_you |-> 24, beyond_radar |-> 6, per_source |-> 4, per_topic |-> 8,
   read_text_chars |-> 5000, shown_days |-> 14, candidate_days |-> 7,
   concurrency |-> 6, request_timeout_ms |-> 15000, total_budget_ms |-> 120000,
   body_max_bytes |-> 2097152, dimensions |-> 384, max_turns |-> 120, wall_clock_minutes |-> 15]

Defaults ==
  [bind |-> "127.0.0.1", port |-> 8788, data_dir |-> Rel(<<"data">>),
   cron |-> "30 6 * * *", retention_cron |-> "0 7 * * *", curator_cron |-> "30 7 * * 0",
   days |-> 60, web_search |-> 5, max_redirects |-> 3, dedupe_percent |-> 92,
   model |-> "Xenova/bge-small-en-v1.5", claude_model |-> "opus",
   harness |-> "claude-code", mcp_args |-> <<"mcp">>]

\* The keys of the file (deny_unknown_fields); all but the time zone have a default.
Keys == DOMAIN Counts \cup DOMAIN Defaults \cup {"timezone"}
Parses(file) == DOMAIN file \subseteq Keys /\ "timezone" \in DOMAIN file
Filled(file) ==
  [k \in Keys |-> IF k \in DOMAIN file THEN file[k]
                  ELSE IF k \in DOMAIN Counts THEN Counts[k] ELSE Defaults[k]]

MinRetentionDays == 7

Valid(c) ==
  /\ c.bind # "" /\ c.port \in 1..65535
  /\ c.timezone \in Zones
  /\ {c.cron, c.retention_cron, c.curator_cron} \subseteq Crons
  /\ c.days >= MinRetentionDays
  /\ \A k \in DOMAIN Counts : c[k] > 0
  /\ c.dedupe_percent \in 0..100
  /\ c.model # "" /\ c.claude_model # ""

\* load_config: the environment outranks the file for two of its keys.
Config(file, env) ==
  LET c == Filled(file)
      data == Given(env, "DATA_DIR", c.data_dir)
  IN [c EXCEPT !.data_dir = data, !.bind = Given(env, "BIND", @)]

-----------------------------------------------------------------------------
(* feeds.toml and topics.toml, lists of entries *)

WellFormedIds(entries) ==
  /\ \A n \in DOMAIN entries : entries[n].id \in Ids
  /\ \A m, n \in DOMAIN entries : m # n => entries[m].id # entries[n].id

ValidFeeds(entries) ==
  WellFormedIds(entries) /\ \A n \in DOMAIN entries : entries[n].http /\ entries[n].weight >= 0
ValidTopics(entries) ==
  WellFormedIds(entries) /\ \A n \in DOMAIN entries : entries[n].name # "" /\ entries[n].weight >= 0

-----------------------------------------------------------------------------
(* Serving *)

Loopback == {"127.0.0.1", "localhost", "::1"}
BindAllowed(bind, container) == bind \in Loopback \/ (bind = "0.0.0.0" /\ container)

\* Whether assertions are verified; off loopback they must be.
Verified(env) == {"CF_ACCESS_AUD", "CF_ACCESS_TEAM"} \subseteq DOMAIN env
AccessAllowed(env, bind) ==
  Verified(env) \/ ("CF_ACCESS_AUD" \notin DOMAIN env /\ bind \in Loopback)
=============================================================================
