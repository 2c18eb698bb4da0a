------------------------------- MODULE Upkeep -------------------------------
(***************************************************************************)
(* Retention on a database that its processes open and migrate themselves: *)
(* src/commands/serve.rs and src/commands/prune.rs.  A process prunes only *)
(* while it has the database open, and its death ends both at once.  The   *)
(* service is started again whenever it is down (restart: unless-stopped); *)
(* the command is run when somebody runs it.                               *)
(***************************************************************************)
EXTENDS Migration, Retention

CONSTANTS Service,     \* the pruner that is the service's daily job
          MaxDeaths    \* bound: how many times a process is killed

ASSUME ServiceAssumption == Service \in Pruners /\ Pruners = Processes

VARIABLE deaths

vars == <<migrationVars, retentionVars, deaths>>

TypeOK == MigrationTypeOK /\ RetentionTypeOK /\ deaths \in 0..MaxDeaths

Init == MigrationInit /\ RetentionInit /\ deaths = 0

Opens(p) == Open(p) /\ UNCHANGED <<retentionVars, deaths>>
Migrates(p) == Migrate(p) /\ UNCHANGED <<retentionVars, deaths>>
Plans(p) == life[p] = "open" /\ Plan(p) /\ UNCHANGED <<migrationVars, deaths>>
Prunes(p) == life[p] = "open" /\ Prune(p) /\ UNCHANGED <<migrationVars, deaths>>

(* The command ends with its prune; the service stays. *)
Exits(p) ==
  /\ p # Service /\ life[p] = "open" /\ stage[p] = "idle"
  /\ Leaves(p)
  /\ UNCHANGED <<retentionVars, deaths>>

Dies(p) ==
  /\ life[p] # "off" /\ deaths < MaxDeaths
  /\ Leaves(p) /\ Abandons(p)
  /\ deaths' = deaths + 1

(* Runs begin in a process that has the database open. *)
History ==
  /\ \E p \in Processes : life[p] = "open"
  /\ \E r \in Runs : MakesDir(r) \/ InsertsRow(r) \/ StoresLine(r) \/ RunFinishes(r)
  /\ UNCHANGED <<migrationVars, deaths>>

Ages == TimePasses /\ UNCHANGED <<migrationVars, deaths>>

Next ==
  \/ \E p \in Processes : Opens(p) \/ Migrates(p) \/ Plans(p) \/ Prunes(p) \/ Exits(p) \/ Dies(p)
  \/ History
  \/ Ages

(* What a process does once it is up ends by itself; the service is always *)
(* started again and its cron comes round every day.                       *)
Fairness ==
  /\ \A p \in Processes : WF_vars(Migrates(p)) /\ WF_vars(Prunes(p))
  /\ WF_vars(Opens(Service)) /\ WF_vars(Plans(Service))

Spec == Init /\ [][Next]_vars
FairSpec == Spec /\ Fairness

(* An old run goes in the end, directory and rows, although the service    *)
(* may lose the race for a migration and fail to start, be killed between  *)
(* the two halves of a run, or fail at either.                             *)
ExpiredRunsGo ==
  \A r \in Runs : (row[r] = "finished" /\ Expired(r, Service)) ~> Pruned(r)
=============================================================================
