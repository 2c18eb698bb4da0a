---------------------------- MODULE Upkeep_proofs ----------------------------
(***************************************************************************)
(* For any number of processes, migrations, runs, deaths and failures: the *)
(* ledger is the schema, and the files of a run go before its rows.        *)
(***************************************************************************)
EXTENDS Upkeep, FiniteSetTheorems, TLAPS

-----------------------------------------------------------------------------
(* The ledger and the schema *)

\* The schema is a prefix of the migrations.
IsPrefix == \E n \in 0..Newest : schema = 1..n

\* What a process knows of the schema stays true of it: what it read from the
\* ledger, and that everything before its position is applied.
KnowsPrefix(p) ==
  /\ done[p] \subseteq schema
  /\ \A m \in Migrations : m < next[p] => m \in schema
  /\ life[p] = "open" => next[p] = Newest + 1

\* A transaction that has run a migration is the only one to write, so that
\* nobody else applies it before the commit.
WritesTheNext(p) ==
  tx[p] # "none" => life[p] = "opening" /\ next[p] \in Migrations \ schema

LedgerInv ==
  /\ MigrationTypeOK
  /\ ledger = schema
  /\ IsPrefix
  /\ \A p \in Processes : KnowsPrefix(p) /\ WritesTheNext(p)

LEMMA LedgerInit == MigrationInit => LedgerInv
<1> SUFFICES ASSUME MigrationInit PROVE LedgerInv
  OBVIOUS
<1> USE DEF MigrationInit
<1>1. MigrationTypeOK
  BY NewestAssumption, NobodyAssumption DEF MigrationTypeOK, Migrations
<1>2. IsPrefix
  <2>1. schema = 1..0
    BY SMT
  <2> QED
    BY <2>1, NewestAssumption DEF IsPrefix
<1>3. \A p \in Processes : KnowsPrefix(p) /\ WritesTheNext(p)
  BY NewestAssumption DEF KnowsPrefix, WritesTheNext, Migrations
<1> QED
  BY <1>1, <1>2, <1>3 DEF LedgerInv

\* Adding the first migration that is missing keeps the schema a prefix.
LEMMA CommitExtends ==
  ASSUME LedgerInv, NEW p \in Processes, tx[p] # "none", schema' = schema \cup {next[p]}
  PROVE  IsPrefix'
<1>1. PICK n \in 0..Newest : schema = 1..n
  BY DEF LedgerInv, IsPrefix
<1>2. next[p] \in 1..Newest /\ next[p] \notin 1..n
  BY <1>1 DEF LedgerInv, WritesTheNext, Migrations
<1>3. \A m \in 1..Newest : m < next[p] => m \in 1..n
  BY <1>1 DEF LedgerInv, KnowsPrefix, Migrations
<1>4. next[p] = n + 1
  BY <1>2, <1>3, NewestAssumption
<1>5. n + 1 \in 0..Newest /\ schema' = 1..n + 1
  BY <1>1, <1>2, <1>4, NewestAssumption
<1> QED
  BY <1>5 DEF IsPrefix

LEMMA LeavesKeepsLedger ==
  ASSUME LedgerInv, NEW p \in Processes, Leaves(p)
  PROVE  LedgerInv'
<1> USE DEF LedgerInv, Leaves
<1>1. MigrationTypeOK'
  BY NobodyAssumption DEF MigrationTypeOK, Migrations
<1>2. IsPrefix'
  BY DEF IsPrefix
<1>3. ASSUME NEW q \in Processes PROVE KnowsPrefix(q)' /\ WritesTheNext(q)'
  BY <1>3, NobodyAssumption DEF KnowsPrefix, WritesTheNext, Migrations, MigrationTypeOK
<1> QED
  BY <1>1, <1>2, <1>3

LEMMA OpenKeepsLedger ==
  ASSUME LedgerInv, NEW p \in Processes, Open(p)
  PROVE  LedgerInv'
<1> USE DEF LedgerInv, Open
<1>1. MigrationTypeOK'
  BY NewestAssumption DEF MigrationTypeOK, Migrations
<1>2. IsPrefix'
  BY DEF IsPrefix
<1>3. ASSUME NEW q \in Processes PROVE KnowsPrefix(q)' /\ WritesTheNext(q)'
  <2>1. CASE q = p
    BY <2>1, NewestAssumption DEF KnowsPrefix, WritesTheNext, Migrations, MigrationTypeOK
  <2>2. CASE q # p
    BY <2>2 DEF KnowsPrefix, WritesTheNext, Migrations, MigrationTypeOK
  <2> QED
    BY <2>1, <2>2
<1> QED
  BY <1>1, <1>2, <1>3

LEMMA MigrateKeepsLedger ==
  ASSUME LedgerInv, NEW p \in Processes, Migrate(p)
  PROVE  LedgerInv'
<1>1. CASE Skip(p)
  <2> USE <1>1 DEF LedgerInv, Skip
  <2>1. next[p] \in schema /\ next[p] \in Migrations
    BY DEF KnowsPrefix, MigrationTypeOK
  <2>2. MigrationTypeOK'
    BY <2>1, NewestAssumption DEF MigrationTypeOK, Migrations
  <2>3. IsPrefix'
    BY DEF IsPrefix
  <2>4. ASSUME NEW q \in Processes PROVE KnowsPrefix(q)' /\ WritesTheNext(q)'
    <3>1. tx[p] = "none"
      BY <2>1 DEF WritesTheNext, MigrationTypeOK
    <3>2. CASE q = p
      BY <3>1, <3>2, <2>1, NewestAssumption
         DEF KnowsPrefix, WritesTheNext, Migrations, MigrationTypeOK
    <3>3. CASE q # p
      BY <3>3 DEF KnowsPrefix, WritesTheNext, Migrations, MigrationTypeOK
    <3> QED
      BY <3>2, <3>3
  <2> QED
    BY <2>2, <2>3, <2>4
<1>2. CASE Apply(p)
  <2> USE <1>2 DEF LedgerInv, Apply, Pending
  <2>1. MigrationTypeOK'
    BY NobodyAssumption DEF MigrationTypeOK, Migrations
  <2>2. IsPrefix'
    BY DEF IsPrefix
  <2>3. ASSUME NEW q \in Processes PROVE KnowsPrefix(q)' /\ WritesTheNext(q)'
    BY DEF KnowsPrefix, WritesTheNext, Migrations, MigrationTypeOK
  <2> QED
    BY <2>1, <2>2, <2>3
<1>3. CASE AppliedAlready(p) \/ Busy(p)
  BY <1>3, LeavesKeepsLedger DEF AppliedAlready, Busy
<1>4. CASE Record(p)
  <2> USE <1>4 DEF LedgerInv, Record
  <2>1. MigrationTypeOK'
    BY DEF MigrationTypeOK, Migrations
  <2>2. IsPrefix'
    BY DEF IsPrefix
  <2>3. ASSUME NEW q \in Processes PROVE KnowsPrefix(q)' /\ WritesTheNext(q)'
    BY DEF KnowsPrefix, WritesTheNext, Migrations, MigrationTypeOK
  <2> QED
    BY <2>1, <2>2, <2>3
<1>5. CASE Commit(p)
  <2> USE <1>5 DEF LedgerInv, Commit
  <2>1. next[p] \in Migrations /\ life[p] = "opening" /\ writer = p
    BY DEF WritesTheNext, MigrationTypeOK
  <2>2. MigrationTypeOK'
    <3>1. schema' \subseteq Migrations /\ ledger' \subseteq Migrations
      BY <2>1 DEF MigrationTypeOK
    <3>2. next' \in [Processes -> 1..Newest + 1] /\ UNCHANGED <<life, done>>
      BY <2>1, NewestAssumption DEF MigrationTypeOK, Migrations
    <3>3. \A q \in Processes : tx'[q] # "none" <=> writer' = q
      BY <2>1, NobodyAssumption DEF MigrationTypeOK
    <3>4. tx' \in [Processes -> {"none", "ran", "recorded"}]
      BY DEF MigrationTypeOK
    <3> QED
      BY <3>1, <3>2, <3>3, <3>4 DEF MigrationTypeOK, Migrations
  <2>3. IsPrefix'
    BY CommitExtends
  <2>4. ASSUME NEW q \in Processes PROVE KnowsPrefix(q)' /\ WritesTheNext(q)'
    <3>1. CASE q = p
      BY <3>1, <2>1, NewestAssumption DEF KnowsPrefix, WritesTheNext, Migrations, MigrationTypeOK
    <3>2. CASE q # p
      BY <3>2, <2>1 DEF KnowsPrefix, WritesTheNext, Migrations, MigrationTypeOK
    <3> QED
      BY <3>1, <3>2
  <2> QED
    BY <2>2, <2>3, <2>4
<1>6. CASE Opened(p)
  <2> USE <1>6 DEF LedgerInv, Opened
  <2>1. MigrationTypeOK'
    BY DEF MigrationTypeOK, Migrations
  <2>2. IsPrefix'
    BY DEF IsPrefix
  <2>3. tx[p] = "none"
    BY NewestAssumption DEF WritesTheNext, MigrationTypeOK, Migrations
  <2>4. ASSUME NEW q \in Processes PROVE KnowsPrefix(q)' /\ WritesTheNext(q)'
    BY <2>3 DEF KnowsPrefix, WritesTheNext, Migrations, MigrationTypeOK
  <2> QED
    BY <2>1, <2>2, <2>4
<1> QED
  BY <1>1, <1>2, <1>3, <1>4, <1>5, <1>6 DEF Migrate

LEMMA LedgerStutters ==
  ASSUME LedgerInv, UNCHANGED migrationVars
  PROVE  LedgerInv'
BY DEF LedgerInv, migrationVars, MigrationTypeOK, Migrations, IsPrefix, KnowsPrefix, WritesTheNext

LEMMA LedgerStep ==
  ASSUME LedgerInv, [Next]_vars
  PROVE  LedgerInv'
<1>1. ASSUME NEW p \in Processes, Opens(p) PROVE LedgerInv'
  BY <1>1, OpenKeepsLedger DEF Opens
<1>2. ASSUME NEW p \in Processes, Migrates(p) PROVE LedgerInv'
  BY <1>2, MigrateKeepsLedger DEF Migrates
<1>3. ASSUME NEW p \in Processes, Plans(p) \/ Prunes(p) PROVE LedgerInv'
  BY <1>3, LedgerStutters DEF Plans, Prunes
<1>4. ASSUME NEW p \in Processes, Exits(p) \/ Dies(p) PROVE LedgerInv'
  BY <1>4, LeavesKeepsLedger DEF Exits, Dies
<1>5. CASE History \/ Ages
  BY <1>5, LedgerStutters DEF History, Ages
<1>6. CASE UNCHANGED vars
  BY <1>6, LedgerStutters DEF vars
<1> QED
  BY <1>1, <1>2, <1>3, <1>4, <1>5, <1>6 DEF Next

\* The invariant says what the ledger promises: the length of the prefix is
\* the number of migrations applied.
LEMMA LedgerImplies == LedgerInv => LedgerIsTheSchema
<1> SUFFICES ASSUME LedgerInv PROVE LedgerIsTheSchema
  OBVIOUS
<1>1. PICK n \in 0..Newest : schema = 1..n
  BY DEF LedgerInv, IsPrefix
<1>2. Cardinality(1..n) = n
  BY <1>1, NewestAssumption, FS_Interval
<1>3. schema = 1..Cardinality(schema)
  BY <1>1, <1>2
<1>4. ASSUME NEW p \in Processes, life[p] = "open" PROVE schema = Migrations
  <2>1. \A m \in Migrations : m < Newest + 1 => m \in schema
    BY <1>4 DEF LedgerInv, KnowsPrefix
  <2>2. \A m \in Migrations : m < Newest + 1
    BY NewestAssumption DEF Migrations
  <2>3. schema \subseteq Migrations
    BY DEF LedgerInv, MigrationTypeOK
  <2> QED
    BY <2>1, <2>2, <2>3
<1> QED
  BY <1>3, <1>4 DEF LedgerIsTheSchema, LedgerInv

\* Two processes that open the file at once, one that dies in a migration and
\* one that gives up waiting never leave a ledger that differs from the
\* schema, a migration applied twice or out of order, or a process that
\* serves on half of the schema.
THEOREM LedgerTellsTheTruth == Spec => []LedgerIsTheSchema
<1>1. Init => LedgerInv
  BY LedgerInit DEF Init
<1>2. LedgerInv /\ [Next]_vars => LedgerInv'
  BY LedgerStep
<1>3. LedgerInv => LedgerIsTheSchema
  BY LedgerImplies
<1> QED
  BY <1>1, <1>2, <1>3, PTL DEF Spec

-----------------------------------------------------------------------------
(* Files go before rows *)

\* What is on a list has finished and is older than its pruner's window, and
\* stays so: a finished run starts no more, and nothing gets younger.
Doomed(r, p) == row[r] = "finished" /\ Expired(r, p)
ListsAreDoomed == \A p \in Pruners : \A i \in 1..Len(todo[p]) : Doomed(todo[p][i], p)

\* Between the two halves of a run the directory is gone.
HalfwayIsGone == \A p \in Pruners : stage[p] = "rows" => dir[Head(todo[p])] = "none"

FilesInv ==
  /\ RetentionTypeOK
  /\ ListsAreDoomed
  /\ HalfwayIsGone

LEMMA FilesInit == RetentionInit => FilesInv
<1> SUFFICES ASSUME RetentionInit PROVE FilesInv
  OBVIOUS
<1> USE DEF RetentionInit
<1>1. RetentionTypeOK
  BY BoundsAssumption DEF RetentionTypeOK
<1>2. ListsAreDoomed
  BY DEF ListsAreDoomed
<1>3. HalfwayIsGone
  BY DEF HalfwayIsGone
<1> QED
  BY <1>1, <1>2, <1>3 DEF FilesInv

\* The runs of a list are the listed ones.
LEMMA AscendingLists ==
  ASSUME RetentionTypeOK, NEW p \in Pruners, NEW list \in Ascending(Listed(p))
  PROVE  list \in Seq(Runs) /\ \A i \in 1..Len(list) : Doomed(list[i], p)
<1>1. Listed(p) \subseteq Runs
  BY DEF Listed
<1>2. Cardinality(Listed(p)) \in Nat
  BY <1>1, RunsAssumption, FS_Subset, FS_CardinalityType
<1>3. list \in [1..Cardinality(Listed(p)) -> Listed(p)]
  BY DEF Ascending
<1>4. list \in Seq(Listed(p))
  BY <1>2, <1>3
<1>5. list \in Seq(Runs)
  BY <1>1, <1>4
<1>6. ASSUME NEW i \in 1..Len(list) PROVE list[i] \in Listed(p)
  BY <1>4, <1>6
<1> QED
  BY <1>5, <1>6 DEF Listed, Doomed

\* What every step of a pruner does to the lists: another one's stays, and its
\* own loses runs.
LEMMA GoesOn ==
  ASSUME RetentionTypeOK, ListsAreDoomed, UNCHANGED <<row, age>>,
         NEW p \in Pruners, NEW list \in Seq(Runs), GoOn(p, list),
         \A i \in 1..Len(list) : Doomed(list[i], p)
  PROVE  /\ ListsAreDoomed'
         /\ todo' \in [Pruners -> Seq(Runs)]
         /\ stage' \in [Pruners -> {"idle", "dir", "rows"}]
         /\ \A q \in Pruners : stage'[q] = "idle" <=> todo'[q] = <<>>
         /\ stage'[p] # "rows"
         /\ \A q \in Pruners \ {p} : todo'[q] = todo[q] /\ stage'[q] = stage[q]
<1> USE DEF GoOn, Stage, RetentionTypeOK
<1>1. todo' \in [Pruners -> Seq(Runs)] /\ todo'[p] = list
  OBVIOUS
<1>2. \A q \in Pruners \ {p} : todo'[q] = todo[q] /\ stage'[q] = stage[q]
  OBVIOUS
<1>3. stage'[p] = Stage(list) /\ stage' \in [Pruners -> {"idle", "dir", "rows"}]
  OBVIOUS
<1>4. ASSUME NEW q \in Pruners, NEW i \in 1..Len(todo'[q])
      PROVE  row[todo'[q][i]] = "finished" /\ age[todo'[q][i]] > Days[q]
  <2>1. CASE q = p
    BY <1>1, <1>4, <2>1 DEF Doomed, Expired
  <2>2. CASE q # p
    BY <1>2, <1>4, <2>2 DEF ListsAreDoomed, Doomed, Expired
  <2> QED
    BY <2>1, <2>2
<1>5. ListsAreDoomed'
  BY <1>4 DEF ListsAreDoomed, Doomed, Expired
<1>6. \A q \in Pruners : stage'[q] = "idle" <=> todo'[q] = <<>>
  BY <1>1, <1>2, <1>3
<1> QED
  BY <1>1, <1>2, <1>3, <1>5, <1>6

\* The head of a list is a run that may go, and the rest of the list is one too.
LEMMA HeadIsDoomed ==
  ASSUME RetentionTypeOK, ListsAreDoomed, NEW p \in Pruners, stage[p] # "idle"
  PROVE  /\ Head(todo[p]) \in Runs /\ Doomed(Head(todo[p]), p)
         /\ Tail(todo[p]) \in Seq(Runs)
         /\ \A i \in 1..Len(Tail(todo[p])) : Doomed(Tail(todo[p])[i], p)
<1>1. todo[p] \in Seq(Runs) /\ todo[p] # <<>>
  BY DEF RetentionTypeOK
<1>2. 1 \in 1..Len(todo[p]) /\ Head(todo[p]) = todo[p][1]
  BY <1>1
<1>3. ASSUME NEW i \in 1..Len(Tail(todo[p]))
      PROVE  i + 1 \in 1..Len(todo[p]) /\ Tail(todo[p])[i] = todo[p][i + 1]
  BY <1>1, <1>3
<1>4. Tail(todo[p]) \in Seq(Runs) /\ Head(todo[p]) \in Runs
  BY <1>1
<1> QED
  BY <1>2, <1>3, <1>4 DEF ListsAreDoomed

LEMMA PlanKeepsFiles ==
  ASSUME FilesInv, NEW p \in Pruners, Plan(p)
  PROVE  FilesInv'
<1> USE DEF FilesInv
<1>1. PICK list \in Ascending(Listed(p)) : GoOn(p, list)
  BY DEF Plan
<1>2. list \in Seq(Runs) /\ \A i \in 1..Len(list) : Doomed(list[i], p)
  BY AscendingLists
<1>3. UNCHANGED <<row, age, dir, events, failures>>
  BY DEF Plan
<1>4. /\ ListsAreDoomed'
      /\ todo' \in [Pruners -> Seq(Runs)]
      /\ stage' \in [Pruners -> {"idle", "dir", "rows"}]
      /\ \A q \in Pruners : stage'[q] = "idle" <=> todo'[q] = <<>>
      /\ stage'[p] # "rows"
      /\ \A q \in Pruners \ {p} : todo'[q] = todo[q] /\ stage'[q] = stage[q]
  BY <1>1, <1>2, <1>3, GoesOn
<1>5. RetentionTypeOK'
  BY <1>3, <1>4 DEF RetentionTypeOK
<1>6. HalfwayIsGone'
  BY <1>3, <1>4 DEF HalfwayIsGone
<1> QED
  BY <1>4, <1>5, <1>6

\* A list that is cut short, whatever becomes of the directory at its head.
LEMMA CutShortKeepsFiles ==
  ASSUME FilesInv, NEW p \in Pruners, NEW list \in Seq(Runs), GoOn(p, list),
         \A i \in 1..Len(list) : Doomed(list[i], p),
         UNCHANGED <<row, age, events>>, failures' \in 0..MaxFailures,
         dir' \in [Runs -> {"none", "whole", "part"}],
         \A s \in Runs : dir[s] = "none" => dir'[s] = "none"
  PROVE  FilesInv'
<1> USE DEF FilesInv
<1>1. /\ ListsAreDoomed'
      /\ todo' \in [Pruners -> Seq(Runs)]
      /\ stage' \in [Pruners -> {"idle", "dir", "rows"}]
      /\ \A q \in Pruners : stage'[q] = "idle" <=> todo'[q] = <<>>
      /\ stage'[p] # "rows"
      /\ \A q \in Pruners \ {p} : todo'[q] = todo[q] /\ stage'[q] = stage[q]
  BY GoesOn
<1>2. RetentionTypeOK'
  BY <1>1 DEF RetentionTypeOK
<1>3. ASSUME NEW q \in Pruners, stage'[q] = "rows" PROVE dir'[Head(todo'[q])] = "none"
  <2>1. q # p /\ stage[q] = "rows" /\ todo'[q] = todo[q]
    BY <1>1, <1>3
  <2>2. Head(todo[q]) \in Runs
    BY <2>1, HeadIsDoomed
  <2> QED
    BY <2>1, <2>2 DEF HalfwayIsGone
<1> QED
  BY <1>1, <1>2, <1>3 DEF HalfwayIsGone

LEMMA PruneKeepsFiles ==
  ASSUME FilesInv, NEW p \in Pruners, Prune(p)
  PROVE  FilesInv'
<1> DEFINE r == Head(todo[p])
<1>0. stage[p] # "idle"
  BY DEF Prune, RemoveDir, RemoveFails, DeleteRows, DeleteFails
<1>1. /\ r \in Runs /\ Doomed(r, p)
      /\ Tail(todo[p]) \in Seq(Runs)
      /\ \A i \in 1..Len(Tail(todo[p])) : Doomed(Tail(todo[p])[i], p)
  BY <1>0, HeadIsDoomed DEF FilesInv
<1>2. CASE RemoveDir(p)
  <2> USE <1>2 DEF RemoveDir
  <2>1. /\ dir' \in [Runs -> {"none", "whole", "part"}]
        /\ \A s \in Runs : dir[s] = "none" => dir'[s] = "none"
    BY <1>1 DEF FilesInv, RetentionTypeOK
  <2>2. RetentionTypeOK'
    BY <2>1 DEF FilesInv, RetentionTypeOK
  <2>3. ListsAreDoomed'
    BY DEF FilesInv, ListsAreDoomed, Doomed, Expired
  <2>4. ASSUME NEW q \in Pruners, stage'[q] = "rows" PROVE dir'[Head(todo'[q])] = "none"
    <3>1. CASE q = p
      BY <3>1, <1>1 DEF FilesInv, RetentionTypeOK
    <3>2. CASE q # p
      <4>1. stage[q] = "rows"
        BY <3>2, <2>4 DEF FilesInv, RetentionTypeOK
      <4>2. Head(todo[q]) \in Runs /\ dir[Head(todo[q])] = "none"
        BY <4>1, HeadIsDoomed DEF FilesInv, HalfwayIsGone
      <4> QED
        BY <4>2, <2>1
    <3> QED
      BY <3>1, <3>2
  <2> QED
    BY <2>2, <2>3, <2>4 DEF FilesInv, HalfwayIsGone
<1>3. CASE RemoveFails(p)
  <2> USE <1>3 DEF RemoveFails
  <2>1. PICK left \in {dir[r], "part"} : dir' = [dir EXCEPT ![r] = left]
    OBVIOUS
  <2>2. failures' \in 0..MaxFailures
    BY BoundsAssumption DEF FilesInv, RetentionTypeOK
  <2>3. /\ dir' \in [Runs -> {"none", "whole", "part"}]
        /\ \A s \in Runs : dir[s] = "none" => dir'[s] = "none"
    BY <1>1, <2>1 DEF FilesInv, RetentionTypeOK
  <2> QED
    BY <2>2, <2>3, <1>1, CutShortKeepsFiles
<1>4. CASE DeleteRows(p)
  <2> USE <1>4 DEF DeleteRows
  <2>1. events' \in [Runs -> BOOLEAN]
    BY DEF FilesInv, RetentionTypeOK
  <2>2. /\ ListsAreDoomed'
        /\ todo' \in [Pruners -> Seq(Runs)]
        /\ stage' \in [Pruners -> {"idle", "dir", "rows"}]
        /\ \A q \in Pruners : stage'[q] = "idle" <=> todo'[q] = <<>>
        /\ stage'[p] # "rows"
        /\ \A q \in Pruners \ {p} : todo'[q] = todo[q] /\ stage'[q] = stage[q]
    BY <1>1, GoesOn DEF FilesInv
  <2>3. RetentionTypeOK'
    BY <2>1, <2>2 DEF FilesInv, RetentionTypeOK
  <2>4. HalfwayIsGone'
    BY <2>2 DEF FilesInv, HalfwayIsGone
  <2> QED
    BY <2>2, <2>3, <2>4 DEF FilesInv
<1>5. CASE DeleteFails(p)
  <2> USE <1>5 DEF DeleteFails
  <2>1. failures' \in 0..MaxFailures
    BY BoundsAssumption DEF FilesInv, RetentionTypeOK
  <2>2. dir' \in [Runs -> {"none", "whole", "part"}]
    BY DEF FilesInv, RetentionTypeOK
  <2>3. <<>> \in Seq(Runs) /\ \A i \in 1..Len(<<>>) : Doomed(<<>>[i], p)
    OBVIOUS
  <2> QED
    BY <2>1, <2>2, <2>3, CutShortKeepsFiles
<1> QED
  BY <1>2, <1>3, <1>4, <1>5 DEF Prune

LEMMA AbandonsKeepsFiles ==
  ASSUME FilesInv, NEW p \in Pruners, Abandons(p)
  PROVE  FilesInv'
<1> USE DEF Abandons
<1>1. <<>> \in Seq(Runs) /\ \A i \in 1..Len(<<>>) : Doomed(<<>>[i], p)
  OBVIOUS
<1>2. failures' \in 0..MaxFailures
  BY DEF FilesInv, RetentionTypeOK
<1>3. CASE dir' = dir
  <2>1. dir' \in [Runs -> {"none", "whole", "part"}]
    BY <1>3 DEF FilesInv, RetentionTypeOK
  <2> QED
    BY <1>1, <1>2, <1>3, <2>1, CutShortKeepsFiles
<1>4. CASE /\ stage[p] = "dir" /\ dir[Head(todo[p])] = "whole"
           /\ dir' = [dir EXCEPT ![Head(todo[p])] = "part"]
  <2>1. Head(todo[p]) \in Runs
    BY <1>4, HeadIsDoomed DEF FilesInv
  <2>2. /\ dir' \in [Runs -> {"none", "whole", "part"}]
        /\ \A s \in Runs : dir[s] = "none" => dir'[s] = "none"
    BY <1>4, <2>1 DEF FilesInv, RetentionTypeOK
  <2> QED
    BY <1>1, <1>2, <2>2, CutShortKeepsFiles
<1> QED
  BY <1>3, <1>4

\* A run that begins, says something or ends is not on any list.
LEMMA HistoryKeepsFiles ==
  ASSUME FilesInv, NEW r \in Runs,
         MakesDir(r) \/ InsertsRow(r) \/ StoresLine(r) \/ RunFinishes(r)
  PROVE  FilesInv'
<1> USE DEF MakesDir, InsertsRow, StoresLine, RunFinishes, FilesInv
<1>1. RetentionTypeOK'
  BY DEF RetentionTypeOK
<1>2. ASSUME NEW s \in Runs, row[s] = "finished"
      PROVE  row'[s] = "finished" /\ dir'[s] = dir[s] /\ age'[s] = age[s]
  BY <1>2 DEF RetentionTypeOK, Begun
<1>3. UNCHANGED <<todo, stage, age>>
  OBVIOUS
<1>4. ASSUME NEW p \in Pruners, NEW i \in 1..Len(todo[p])
      PROVE  row'[todo[p][i]] = "finished" /\ age[todo[p][i]] > Days[p]
  <2>1. todo[p][i] \in Runs /\ Doomed(todo[p][i], p)
    BY <1>4 DEF ListsAreDoomed, RetentionTypeOK
  <2> QED
    BY <1>2, <2>1 DEF Doomed, Expired
<1>5. ListsAreDoomed'
  BY <1>3, <1>4 DEF ListsAreDoomed, Doomed, Expired
<1>6. ASSUME NEW p \in Pruners, stage[p] = "rows" PROVE dir'[Head(todo[p])] = "none"
  <2>1. Doomed(Head(todo[p]), p) /\ Head(todo[p]) \in Runs
    BY <1>6, HeadIsDoomed
  <2> QED
    BY <1>2, <2>1, <1>6 DEF HalfwayIsGone, Doomed
<1>7. HalfwayIsGone'
  BY <1>3, <1>6 DEF HalfwayIsGone
<1> QED
  BY <1>1, <1>5, <1>7

\* Nothing gets younger.
LEMMA AgesKeepsFiles ==
  ASSUME FilesInv, TimePasses
  PROVE  FilesInv'
<1> USE DEF TimePasses, FilesInv
<1>1. age' \in [Runs -> 0..MaxAge] /\ \A r \in Runs : age'[r] >= age[r]
  BY BoundsAssumption DEF RetentionTypeOK
<1>2. RetentionTypeOK'
  BY <1>1 DEF RetentionTypeOK
<1>3. ASSUME NEW p \in Pruners, NEW r \in Runs, Expired(r, p) PROVE Expired(r, p)'
  <2>1. Days[p] \in Int /\ age[r] \in Int /\ age'[r] \in Int
    BY <1>1, BoundsAssumption, DaysAssumption DEF RetentionTypeOK
  <2> QED
    BY <1>1, <1>3, <2>1 DEF Expired
<1>4. ASSUME NEW p \in Pruners, NEW i \in 1..Len(todo[p]) PROVE Doomed(todo[p][i], p)'
  <2>1. todo[p][i] \in Runs
    BY <1>4 DEF RetentionTypeOK
  <2> QED
    BY <1>3, <1>4, <2>1 DEF ListsAreDoomed, Doomed
<1>5. ListsAreDoomed'
  BY <1>4 DEF ListsAreDoomed
<1>6. HalfwayIsGone'
  BY DEF HalfwayIsGone
<1> QED
  BY <1>2, <1>5, <1>6

LEMMA FilesStutter ==
  ASSUME FilesInv, UNCHANGED retentionVars
  PROVE  FilesInv'
BY DEF FilesInv, retentionVars, RetentionTypeOK, ListsAreDoomed, HalfwayIsGone,
       Doomed, Expired

LEMMA FilesStep ==
  ASSUME FilesInv, [Next]_vars
  PROVE  FilesInv'
<1> USE ServiceAssumption
<1>1. ASSUME NEW p \in Processes, Opens(p) \/ Migrates(p) \/ Exits(p) PROVE FilesInv'
  BY <1>1, FilesStutter DEF Opens, Migrates, Exits
<1>2. ASSUME NEW p \in Processes, Plans(p) PROVE FilesInv'
  BY <1>2, PlanKeepsFiles DEF Plans
<1>3. ASSUME NEW p \in Processes, Prunes(p) PROVE FilesInv'
  BY <1>3, PruneKeepsFiles DEF Prunes
<1>4. ASSUME NEW p \in Processes, Dies(p) PROVE FilesInv'
  BY <1>4, AbandonsKeepsFiles DEF Dies
<1>5. CASE History
  BY <1>5, HistoryKeepsFiles DEF History
<1>6. CASE Ages
  BY <1>6, AgesKeepsFiles DEF Ages
<1>7. CASE UNCHANGED vars
  BY <1>7, FilesStutter DEF vars
<1> QED
  BY <1>1, <1>2, <1>3, <1>4, <1>5, <1>6, <1>7 DEF Next

\* What a step may take from a run: its rows, of which the directory is gone, or its
\* files, and only from a run that may go.
TakesLittle(r) ==
  /\ events[r] /\ ~events'[r] => dir[r] = "none"
  /\ (events[r] /\ ~events'[r]) \/ (row[r] # "none" /\ dir'[r] # dir[r])
       => \E p \in Pruners : Doomed(r, p)

LEMMA PrunersTakeLittle ==
  ASSUME FilesInv, NEW p \in Pruners, Prune(p) \/ Abandons(p), NEW r \in Runs
  PROVE  TakesLittle(r)
<1>1. CASE r = Head(todo[p]) /\ stage[p] # "idle"
  <2>1. Doomed(r, p)
    BY <1>1, HeadIsDoomed DEF FilesInv
  <2>2. events[r] /\ ~events'[r] => dir[r] = "none"
    <3>1. CASE DeleteRows(p)
      BY <1>1, <3>1 DEF DeleteRows, FilesInv, HalfwayIsGone
    <3>2. CASE ~DeleteRows(p)
      BY <3>2 DEF Prune, RemoveDir, RemoveFails, DeleteFails, Abandons
    <3> QED
      BY <3>1, <3>2
  <2> QED
    BY <2>1, <2>2 DEF TakesLittle
<1>2. CASE ~(r = Head(todo[p]) /\ stage[p] # "idle")
  <2>1. /\ events \in [Runs -> BOOLEAN]
        /\ dir \in [Runs -> {"none", "whole", "part"}]
    BY DEF FilesInv, RetentionTypeOK
  <2>2. events'[r] = events[r] /\ dir'[r] = dir[r]
    BY <1>2, <2>1 DEF Prune, RemoveDir, RemoveFails, DeleteRows, DeleteFails, Abandons
  <2> QED
    BY <2>2 DEF TakesLittle
<1> QED
  BY <1>1, <1>2

\* A step of anybody else takes nothing.
LEMMA OthersTakeNothing ==
  ASSUME FilesInv, NEW r \in Runs,
         \/ UNCHANGED <<dir, events>>
         \/ \E s \in Runs : MakesDir(s) \/ StoresLine(s)
  PROVE  TakesLittle(r)
<1>1. CASE UNCHANGED <<dir, events>>
  BY <1>1 DEF TakesLittle
<1>2. ASSUME NEW s \in Runs, MakesDir(s) PROVE TakesLittle(r)
  BY <1>2 DEF MakesDir, Begun, TakesLittle, FilesInv, RetentionTypeOK
<1>3. ASSUME NEW s \in Runs, StoresLine(s) PROVE TakesLittle(r)
  BY <1>3 DEF StoresLine, TakesLittle, FilesInv, RetentionTypeOK
<1> QED
  BY <1>1, <1>2, <1>3

LEMMA StepsTakeLittle ==
  ASSUME FilesInv, [Next]_vars, NEW r \in Runs
  PROVE  TakesLittle(r)
<1> USE ServiceAssumption
<1>1. ASSUME NEW p \in Processes, Opens(p) \/ Migrates(p) \/ Exits(p) \/ Plans(p)
      PROVE  TakesLittle(r)
  BY <1>1, OthersTakeNothing DEF Opens, Migrates, Exits, Plans, Plan, retentionVars
<1>2. ASSUME NEW p \in Processes, Prunes(p) \/ Dies(p) PROVE TakesLittle(r)
  BY <1>2, PrunersTakeLittle DEF Prunes, Dies
<1>3. CASE History
  BY <1>3, OthersTakeNothing DEF History, InsertsRow, RunFinishes
<1>4. CASE Ages
  BY <1>4, OthersTakeNothing DEF Ages, TimePasses
<1>5. CASE UNCHANGED vars
  BY <1>5, OthersTakeNothing DEF vars, retentionVars
<1> QED
  BY <1>1, <1>2, <1>3, <1>4, <1>5 DEF Next

\* The row of a run stays for good.
LEMMA RowsStay ==
  ASSUME FilesInv, [Next]_vars, NEW r \in Runs, row[r] # "none"
  PROVE  row'[r] # "none"
<1>1. CASE UNCHANGED row
  BY <1>1
<1>2. CASE \E s \in Runs : InsertsRow(s) \/ RunFinishes(s)
  BY <1>2 DEF InsertsRow, RunFinishes, FilesInv, RetentionTypeOK
<1>3. UNCHANGED row \/ \E s \in Runs : InsertsRow(s) \/ RunFinishes(s)
  BY Zenon DEF Next, Opens, Migrates, Plans, Plan, Prunes, Prune, RemoveDir, RemoveFails, DeleteRows,
           DeleteFails, Exits, Dies, Abandons, History, MakesDir, StoresLine, Ages,
           TimePasses, vars, retentionVars
<1> QED
  BY <1>1, <1>2, <1>3

\* Whatever fails, dies or prunes beside it, the page of a run goes empty only
\* when its transcript is gone, and only a finished run beyond somebody's window
\* loses anything.
THEOREM FilesBeforeRows == Spec => FilesGoFirst
<1>1. Init => FilesInv
  BY FilesInit DEF Init
<1>2. FilesInv /\ [Next]_vars => FilesInv'
  BY FilesStep
<1>3. FilesInv /\ FilesInv' /\ [Next]_vars =>
        [\A r \in Runs :
           /\ LosesRows(r) => Transcript(r) = {"404"}
           /\ LosesRows(r) \/ LosesFiles(r)
                => row[r] = "finished" /\ \E p \in Pruners : Expired(r, p)]_retentionVars
  <2> SUFFICES ASSUME FilesInv, FilesInv', [Next]_vars, NEW r \in Runs
               PROVE  /\ LosesRows(r) => Transcript(r) = {"404"}
                      /\ LosesRows(r) \/ LosesFiles(r)
                           => row[r] = "finished" /\ \E p \in Pruners : Expired(r, p)
    OBVIOUS
  <2>1. TakesLittle(r)
    BY StepsTakeLittle
  <2>2. row[r] # "none" => row'[r] # "none"
    BY RowsStay
  <2>3. LosesRows(r) => events[r] /\ ~events'[r]
    BY <2>2 DEF LosesRows, RunPage, RawLog
  <2> QED
    BY <2>1, <2>3 DEF TakesLittle, Doomed, LosesFiles, Transcript
<1> QED
  BY <1>1, <1>2, <1>3, PTL DEF Spec, FilesGoFirst
=============================================================================
