------------------------------ MODULE Retention ------------------------------
(***************************************************************************)
(* Retention (src/core/retention.rs): the directory of an old run, with    *)
(* its transcript, is removed and then its rows in run_events; the row of  *)
(* the run itself stays for good.  The daily job of the service and the    *)
(* command `dailybrief prune` run the same function, each from a list it   *)
(* made at its start, over the same files and the same database.           *)
(***************************************************************************)
EXTENDS Naturals, Sequences, FiniteSets

CONSTANTS Runs,        \* the runs of the history, numbered in the order they start
          Pruners,     \* who prunes
          Days,        \* the window of each pruner, in units of age
          MaxAge,      \* bound: a run this old gets no older
          MaxFailures  \* bound: how many removals and deletions fail

ASSUME RunsAssumption == Runs \subseteq Nat /\ IsFiniteSet(Runs)
ASSUME BoundsAssumption == MaxAge \in Nat /\ MaxFailures \in Nat
ASSUME DaysAssumption == Days \in [Pruners -> 0..MaxAge - 1]

VARIABLES row,       \* per run: "none", "running" or "finished", the row in runs
          age,       \* per run: the time since it started
          dir,       \* per run: its directory, "none", "whole" or "part"
          events,    \* per run: whether run_events has its rows
          todo,      \* per pruner: the runs of its list that are left
          stage,     \* per pruner: "idle", "dir" or "rows" (of the head of the list)
          failures   \* how many removals and deletions have failed

retentionVars == <<row, age, dir, events, todo, stage, failures>>

RetentionTypeOK ==
  /\ row \in [Runs -> {"none", "running", "finished"}]
  /\ age \in [Runs -> 0..MaxAge]
  /\ dir \in [Runs -> {"none", "whole", "part"}]
  /\ events \in [Runs -> BOOLEAN]
  /\ todo \in [Pruners -> Seq(Runs)]
  /\ stage \in [Pruners -> {"idle", "dir", "rows"}]
  /\ \A p \in Pruners : stage[p] = "idle" <=> todo[p] = <<>>
  /\ failures \in 0..MaxFailures

RetentionInit ==
  /\ row = [r \in Runs |-> "none"] /\ age = [r \in Runs |-> 0]
  /\ dir = [r \in Runs |-> "none"] /\ events = [r \in Runs |-> FALSE]
  /\ todo = [p \in Pruners |-> <<>>]
  /\ stage = [p \in Pruners |-> "idle"]
  /\ failures = 0

(* An attempt begins with its directory and the files in it, of which the  *)
(* transcript is empty; its row comes after them, or never if one of them  *)
(* or the insert fails.  The attempts come one after the other.            *)
Begun(r) == row[r] # "none" \/ dir[r] # "none"

MakesDir(r) ==
  /\ ~Begun(r)
  /\ \A s \in Runs : s < r => Begun(s)
  /\ dir' = [dir EXCEPT ![r] = "whole"]
  /\ UNCHANGED <<row, age, events, todo, stage, failures>>

InsertsRow(r) ==
  /\ row[r] = "none" /\ dir[r] # "none"
  /\ row' = [row EXCEPT ![r] = "running"]
  /\ UNCHANGED <<age, dir, events, todo, stage, failures>>

(* Each line the child writes goes to the transcript and to run_events.  An *)
(* insert that fails is only logged, and a child may never say anything: a  *)
(* run may have no rows for as long as it lives.                            *)
StoresLine(r) ==
  /\ row[r] = "running"
  /\ ~events[r]
  /\ events' = [events EXCEPT ![r] = TRUE]
  /\ UNCHANGED <<row, age, dir, todo, stage, failures>>

(* finish_run, or the sweep that takes the row for a dead run's. *)
RunFinishes(r) ==
  /\ row[r] = "running"
  /\ row' = [row EXCEPT ![r] = "finished"]
  /\ UNCHANGED <<age, dir, events, todo, stage, failures>>

TimePasses ==
  /\ age' = [r \in Runs |-> IF Begun(r) /\ age[r] < MaxAge THEN age[r] + 1 ELSE age[r]]
  /\ age' # age
  /\ UNCHANGED <<row, dir, events, todo, stage, failures>>

(* SELECT ... WHERE started_at < cutoff AND status != 'running', in order. *)
Expired(r, p) == age[r] > Days[p]

\* Mutant: a run without a directory is not listed.
ListedWithDir(p) == {r \in Runs : row[r] = "finished" /\ Expired(r, p) /\ dir[r] # "none"}

Listed(p) == {r \in Runs : row[r] = "finished" /\ Expired(r, p)}

\* The sequences that list S in ascending order: there is one.
Ascending(S) ==
  {list \in [1..Cardinality(S) -> S] :
     \A i, j \in 1..Cardinality(S) : i < j => list[i] < list[j]}

Stage(list) == IF list = <<>> THEN "idle" ELSE "dir"
GoOn(p, list) ==
  /\ todo' = [todo EXCEPT ![p] = list]
  /\ stage' = [stage EXCEPT ![p] = Stage(list)]

Plan(p) ==
  /\ stage[p] = "idle"
  /\ \E list \in Ascending(Listed(p)) : GoOn(p, list)
  /\ UNCHANGED <<row, age, dir, events, failures>>

(* remove_dir_all; a directory that is not there is fine. *)
RemoveDir(p) ==
  /\ stage[p] = "dir"
  /\ dir' = [dir EXCEPT ![Head(todo[p])] = "none"]
  /\ stage' = [stage EXCEPT ![p] = "rows"]
  /\ UNCHANGED <<row, age, events, todo, failures>>

\* Mutant: the rows go although the directory could not.
RemoveFailsAnyway(p) ==
  /\ stage[p] = "dir" /\ failures < MaxFailures
  /\ dir[Head(todo[p])] # "none"
  /\ failures' = failures + 1
  /\ stage' = [stage EXCEPT ![p] = "rows"]
  /\ UNCHANGED <<row, age, dir, events, todo>>

(* The removal fails, perhaps after some files: the run keeps its rows and *)
(* the list goes on with the next one.                                     *)
RemoveFails(p) ==
  /\ stage[p] = "dir" /\ failures < MaxFailures
  /\ dir[Head(todo[p])] # "none"
  /\ \E left \in {dir[Head(todo[p])], "part"} : dir' = [dir EXCEPT ![Head(todo[p])] = left]
  /\ failures' = failures + 1
  /\ GoOn(p, Tail(todo[p]))
  /\ UNCHANGED <<row, age, events>>

DeleteRows(p) ==
  /\ stage[p] = "rows"
  /\ events' = [events EXCEPT ![Head(todo[p])] = FALSE]
  /\ GoOn(p, Tail(todo[p]))
  /\ UNCHANGED <<row, age, dir, failures>>

(* The database refuses: the whole prune ends with the error. *)
DeleteFails(p) ==
  /\ stage[p] = "rows" /\ failures < MaxFailures
  /\ failures' = failures + 1
  /\ GoOn(p, <<>>)
  /\ UNCHANGED <<row, age, dir, events>>

Prune(p) == RemoveDir(p) \/ RemoveFails(p) \/ DeleteRows(p) \/ DeleteFails(p)

(* The process is gone: at a directory, perhaps in the middle of it. *)
Abandons(p) ==
  /\ GoOn(p, <<>>)
  /\ \/ dir' = dir
     \/ /\ stage[p] = "dir" /\ dir[Head(todo[p])] = "whole"
        /\ dir' = [dir EXCEPT ![Head(todo[p])] = "part"]
  /\ UNCHANGED <<row, age, events, failures>>

-----------------------------------------------------------------------------
(* The three pages of a run, which stays in the list for good *)

\* /runs/{id}: its turns, or "No turns yet."
RunPage(r) == IF row[r] = "none" THEN "404" ELSE IF events[r] THEN "turns" ELSE "no turns"
\* /runs/{id}/log
RawLog(r) == IF row[r] = "none" THEN "404" ELSE IF events[r] THEN "lines" ELSE "no lines"
\* /runs/{id}/transcript reads the file the row names; half of a directory may have it.
Transcript(r) ==
  IF row[r] = "none" \/ dir[r] = "none" THEN {"404"}
  ELSE IF dir[r] = "part" THEN {"file", "404"} ELSE {"file"}

(* The directory goes before the rows: whatever fails, dies or prunes       *)
(* beside it, the page and the log of a run become empty only when its      *)
(* transcript is gone already, so that a removal that failed leaves a page  *)
(* to show what there still is; and only a finished run that is older than  *)
(* somebody's window loses anything.                                        *)
LosesRows(r) ==
  \/ RunPage(r) = "turns" /\ RunPage(r)' # "turns"
  \/ RawLog(r) = "lines" /\ RawLog(r)' # "lines"
LosesFiles(r) == row[r] # "none" /\ dir'[r] # dir[r]

FilesGoFirst ==
  [][\A r \in Runs :
       /\ LosesRows(r) => Transcript(r) = {"404"}
       /\ LosesRows(r) \/ LosesFiles(r)
            => row[r] = "finished" /\ \E p \in Pruners : Expired(r, p)]_retentionVars

Pruned(r) == dir[r] = "none" /\ ~events[r]
=============================================================================
