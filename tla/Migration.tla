------------------------------ MODULE Migration ------------------------------
(***************************************************************************)
(* Opening the database: every process of dailybrief (the service, a       *)
(* command, a tool server) opens the same file and brings its schema up to *)
(* date first (src/db/migrate.rs, src/db/mod.rs).  The ledger is read once *)
(* and outside the transactions, each of which applies one migration and   *)
(* records it.  SQLite lets one connection write at a time; the others     *)
(* wait for it and give up after the busy timeout.                         *)
(***************************************************************************)
EXTENDS Naturals, FiniteSets

CONSTANTS Processes,   \* the processes that open the file
          Newest,        \* how many migrations the program has, in order 1..Newest
          Nobody       \* no process: the write lock is free

ASSUME NewestAssumption == Newest \in Nat \ {0}
ASSUME NobodyAssumption == Nobody \notin Processes

VARIABLES schema,   \* the migrations whose statements are committed
          ledger,   \* the rows of the table migrations
          writer,   \* the process whose transaction holds the write lock
          life,     \* per process: "off", "opening" or "open"
          done,     \* per process: the ids it read from the ledger
          next,     \* per process: the migration its loop is at
          tx        \* per process: what its transaction did, "none", "ran" or "recorded"

migrationVars == <<schema, ledger, writer, life, done, next, tx>>

Migrations == 1..Newest

MigrationTypeOK ==
  /\ schema \subseteq Migrations /\ ledger \subseteq Migrations
  /\ writer \in Processes \cup {Nobody}
  /\ life \in [Processes -> {"off", "opening", "open"}]
  /\ done \in [Processes -> SUBSET Migrations]
  /\ next \in [Processes -> 1..Newest + 1]
  /\ tx \in [Processes -> {"none", "ran", "recorded"}]
  /\ \A p \in Processes : tx[p] # "none" <=> writer = p

MigrationInit ==
  /\ schema = {} /\ ledger = {} /\ writer = Nobody
  /\ life = [p \in Processes |-> "off"]
  /\ done = [p \in Processes |-> {}]
  /\ next = [p \in Processes |-> 1]
  /\ tx = [p \in Processes |-> "none"]

(* The process is gone, or has given up: SQLite rolls its transaction back. *)
Leaves(p) ==
  /\ life' = [life EXCEPT ![p] = "off"]
  /\ tx' = [tx EXCEPT ![p] = "none"]
  /\ writer' = IF writer = p THEN Nobody ELSE writer
  /\ UNCHANGED <<schema, ledger, done, next>>

(* Db::open: the pragmas, then the ids of the ledger. *)
Open(p) ==
  /\ life[p] = "off"
  /\ life' = [life EXCEPT ![p] = "opening"]
  /\ done' = [done EXCEPT ![p] = ledger]
  /\ next' = [next EXCEPT ![p] = 1]
  /\ UNCHANGED <<schema, ledger, writer, tx>>

Pending(p) == next[p] \in Migrations \ done[p]

Skip(p) ==
  /\ life[p] = "opening" /\ next[p] \in done[p]
  /\ next' = [next EXCEPT ![p] = @ + 1]
  /\ UNCHANGED <<schema, ledger, writer, life, done, tx>>

\* Mutant: the statements run outside the transaction.
ApplyAtOnce(p) ==
  /\ life[p] = "opening" /\ Pending(p) /\ tx[p] = "none"
  /\ writer = Nobody /\ next[p] \notin schema
  /\ schema' = schema \cup {next[p]}
  /\ writer' = p
  /\ tx' = [tx EXCEPT ![p] = "ran"]
  /\ UNCHANGED <<ledger, life, done, next>>

(* The statements of a migration, in a transaction that takes the write    *)
(* lock with the first of them.                                            *)
Apply(p) ==
  /\ life[p] = "opening" /\ Pending(p) /\ tx[p] = "none"
  /\ writer = Nobody /\ next[p] \notin schema
  /\ writer' = p
  /\ tx' = [tx EXCEPT ![p] = "ran"]
  /\ UNCHANGED <<schema, ledger, life, done, next>>

(* Another process applied it since the ledger was read: CREATE TABLE      *)
(* fails on a table that is there and the process ends with the error.     *)
AppliedAlready(p) ==
  /\ life[p] = "opening" /\ Pending(p) /\ tx[p] = "none"
  /\ writer = Nobody /\ next[p] \in schema
  /\ Leaves(p)

(* Another process writes for longer than the busy timeout. *)
Busy(p) ==
  /\ life[p] = "opening" /\ Pending(p)
  /\ writer \notin {Nobody, p}
  /\ Leaves(p)

Record(p) ==
  /\ tx[p] = "ran"
  /\ tx' = [tx EXCEPT ![p] = "recorded"]
  /\ UNCHANGED <<schema, ledger, writer, life, done, next>>

Commit(p) ==
  /\ tx[p] = "recorded"
  /\ schema' = schema \cup {next[p]}
  /\ ledger' = ledger \cup {next[p]}
  /\ writer' = Nobody
  /\ tx' = [tx EXCEPT ![p] = "none"]
  /\ next' = [next EXCEPT ![p] = @ + 1]
  /\ UNCHANGED <<life, done>>

Opened(p) ==
  /\ life[p] = "opening" /\ next[p] = Newest + 1
  /\ life' = [life EXCEPT ![p] = "open"]
  /\ UNCHANGED <<schema, ledger, writer, done, next, tx>>

Migrate(p) == Skip(p) \/ Apply(p) \/ AppliedAlready(p) \/ Busy(p)
              \/ Record(p) \/ Commit(p) \/ Opened(p)

(* The ledger says exactly which migrations the schema has, and they were  *)
(* applied in order without a gap: a process that dies inside one leaves   *)
(* neither half of it, two processes never apply one twice, and a process  *)
(* that is open has the whole schema.                                      *)
LedgerIsTheSchema ==
  /\ ledger = schema
  /\ schema = 1..Cardinality(schema)
  /\ \A p \in Processes : life[p] = "open" => schema = Migrations
=============================================================================
