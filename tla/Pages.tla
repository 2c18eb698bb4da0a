-------------------------------- MODULE Pages --------------------------------
(***************************************************************************)
(* What two pages make of the table `runs`: /runs/{id} shows the attempts  *)
(* of one run, which no column joins, and the page of a day without a      *)
(* digest shows how its last Editor run stands.                            *)
(***************************************************************************)
EXTENDS RunLifecycle, FiniteSetsExt

ASSUME DayAssumption == Day > 0

\* list_runs_between: the rows less than a lock window away.
Neighbours(i) == {j \in DOMAIN runs : /\ runs[j].start + Window >= runs[i].start
                                      /\ runs[j].start < runs[i].start + Window}

Close(i, j) == /\ runs[i].kind = runs[j].kind
               /\ runs[j].start - runs[i].start <= Window

\* Mutant: the chain goes by time alone.
FollowsInTime(i, j) == Close(i, j)

\* j is the attempt after i.
Follows(i, j) == runs[j].attempt = runs[i].attempt + 1 /\ Close(i, j)

\* retry_chain: from row i back and forth as long as one row follows the other;
\* rows come in the order they were inserted, which is that of started_at.
RetryChain(i) ==
  {j \in Neighbours(i) :
     LET first == Min({i, j})
         last == Max({i, j})
     IN \A k \in first..(last - 1) : {k, k + 1} \subseteq Neighbours(i) /\ Follows(k, k + 1)}

EditorRunsOf(day) == {i \in DOMAIN runs : runs[i].role = "editor" /\ runs[i].start \div Day = day}

\* The page of a day that has no digest.
DayState(day) ==
  IF EditorRunsOf(day) = {} THEN "none"
  ELSE IF runs[Max(EditorRunsOf(day))].status = "running" THEN "running" ELSE "failed"

-----------------------------------------------------------------------------

\* The first attempt of the call row i belongs to.
FirstOf(i) == Max({j \in 1..i : runs[j].attempt = 1})

\* Although nothing in a row names its call, the run page shows exactly the
\* attempts of one, whoever else ran before and after and whatever was taken
\* over; and a day is said to have a run in progress only while an attempt of it
\* is going on, unless a process died or the database refused a verdict
\* (retry_chain, routes/digest.rs).
PagesFollowTheRuns ==
  /\ \A i \in DOMAIN runs : RetryChain(i) = {j \in DOMAIN runs : FirstOf(j) = FirstOf(i)}
  /\ crashes = 0 /\ "db" \notin Faults =>
       \A day \in 0..(now \div Day) : DayState(day) = "running" =>
         \E t \in Tasks : /\ pc[t] \in {"harness", "classify", "finish"}
                          /\ local[t].row = Max(EditorRunsOf(day))
=============================================================================
