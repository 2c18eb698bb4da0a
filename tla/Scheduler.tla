------------------------------ MODULE Scheduler ------------------------------
(***************************************************************************)
(* `run_jobs`: the one loop of `serve` that fires the morning run, the     *)
(* prune and the Curator, each on a cron of its own, and the stop that     *)
(* ends it.  A round reads the clock and the next occurrence of every job, *)
(* sleeps until the first of them, runs that job, then looks once at every *)
(* other job, in list order, and runs those whose occurrence has passed.   *)
(*                                                                         *)
(* A cron is the set of its times; time may pass between any two steps of  *)
(* the loop, and a job lasts as long as it likes.                          *)
(***************************************************************************)
EXTENDS Naturals, Sequences

CONSTANTS
  NumJobs,   \* the jobs are 1..NumJobs, in list order
  Cron,      \* the occurrences of each job's schedule
  MaxTime    \* bound: the clock

Jobs == 1 .. NumJobs

ASSUME ScheduleAssumption ==
  /\ NumJobs \in Nat \ {0}
  /\ Cron \in [Jobs -> SUBSET Nat]
  /\ MaxTime \in Nat

VARIABLES
  now,      \* the wall clock
  pc,       \* planning, sleeping, running, looking, ended
  due,      \* the occurrence of each job this round waits for
  first,    \* the job that is due first
  at,       \* the job that runs, or that is looked at next
  asked,    \* the service was told to stop
  stop,     \* the watch channel the loop polls
  fired,    \* ghost: the jobs run, in order, each with the occurrence it answers
  answered, \* ghost: the jobs this round has run
  owed      \* ghost: the jobs that became due when the loop could not miss it

vars == <<now, pc, due, first, at, asked, stop, fired, answered, owed>>

-----------------------------------------------------------------------------

\* Mutant: an occurrence at this very instant counts as the next one.
IsNextInclusive(j, t, x) == x >= t /\ \A y \in Cron[j] : y >= t => x <= y

\* x is the first occurrence of job j strictly after t.
IsNext(j, t, x) == x > t /\ \A y \in Cron[j] : y > t => x <= y

HasNext(j, t) == \E x \in Cron[j] : IsNext(j, t, x)
NextAfter(j, t) == CHOOSE x \in Cron[j] : IsNext(j, t, x)

\* The job due first, by (due, index).
ComesFirst(j, d) ==
  \A k \in Jobs : d[j] <= d[k] /\ (d[k] = d[j] => j <= k)

Init ==
  /\ now = 0
  /\ pc = "planning"
  /\ due = [j \in Jobs |-> 0]
  /\ first = 1
  /\ at = 1
  /\ asked = FALSE
  /\ stop = FALSE
  /\ fired = <<>>
  /\ answered = {}
  /\ owed = {}

\* The top of the loop: one reading of the clock, then every next occurrence.
Plan ==
  /\ pc = "planning"
  /\ \A j \in Jobs : HasNext(j, now)
  /\ pc' = "sleeping"
  /\ due' = [j \in Jobs |-> NextAfter(j, now)]
  /\ first' \in {j \in Jobs : ComesFirst(j, due')}
  /\ answered' = {}
  /\ owed' = {}
  /\ UNCHANGED <<now, at, asked, stop, fired>>

\* A cron without a next occurrence ends the loop with an error, and every
\* job with it.
PlanFails ==
  /\ pc = "planning"
  /\ \E j \in Jobs : ~HasNext(j, now)
  /\ pc' = "ended"
  /\ UNCHANGED <<now, due, first, at, asked, stop, fired, answered, owed>>

\* A job begins, for the occurrence the round holds for it.
Fire(j) ==
  /\ pc' = "running"
  /\ at' = j
  /\ fired' = Append(fired, [job |-> j, for |-> due[j]])
  /\ answered' = answered \cup {j}

\* The sleep is over and, the select being biased, no stop is there.
Wake ==
  /\ pc = "sleeping"
  /\ ~stop
  /\ due[first] <= now
  /\ Fire(first)
  /\ UNCHANGED <<now, due, first, asked, stop, owed>>

\* Mutant: the loop variable is advanced by the catch-up and by the loop.
JobEndsTwoOn ==
  /\ pc = "running"
  /\ pc' = "looking"
  /\ at' = IF at = first THEN 1 ELSE at + 2
  /\ UNCHANGED <<now, due, first, asked, stop, fired, answered, owed>>

\* The job returns, well or not; the looks begin with the first job of the
\* list, or go on with the one after it.
JobEnds ==
  /\ pc = "running"
  /\ pc' = "looking"
  /\ at' = IF at = first THEN 1 ELSE at + 1
  /\ UNCHANGED <<now, due, first, asked, stop, fired, answered, owed>>

\* Mutant: only the jobs listed after the round's first one are looked at.
OverdueAfterFirst(j) == j > first /\ due[j] <= now

\* A job of another schedule whose occurrence has passed by now.
Overdue(j) == j # first /\ due[j] <= now

CatchUp ==
  /\ pc = "looking"
  /\ at \in Jobs
  /\ Overdue(at)
  /\ Fire(at)
  /\ UNCHANGED <<now, due, first, asked, stop, owed>>

PassOver ==
  /\ pc = "looking"
  /\ at \in Jobs
  /\ ~Overdue(at)
  /\ at' = at + 1
  /\ UNCHANGED <<now, pc, due, first, asked, stop, fired, answered, owed>>

RoundEnds ==
  /\ pc = "looking"
  /\ at \notin Jobs
  /\ pc' = "planning"
  /\ at' = 1
  /\ UNCHANGED <<now, due, first, asked, stop, fired, answered, owed>>

-----------------------------------------------------------------------------
(* Stopping: the HTTP server drains on a signal, then `serve` sends the stop *)
(* and waits for the loop. *)

Signal ==
  /\ ~asked
  /\ asked' = TRUE
  /\ UNCHANGED <<now, pc, due, first, at, stop, fired, answered, owed>>

SendStop ==
  /\ asked
  /\ ~stop
  /\ stop' = TRUE
  /\ UNCHANGED <<now, pc, due, first, at, asked, fired, answered, owed>>

\* Mutant: the stop is looked at between two rounds instead.
EndLoopBetweenRounds ==
  /\ pc = "planning"
  /\ stop
  /\ pc' = "ended"
  /\ UNCHANGED <<now, due, first, at, asked, stop, fired, answered, owed>>

\* The stop is polled in the sleep, and only there.
EndLoop ==
  /\ pc = "sleeping"
  /\ stop
  /\ pc' = "ended"
  /\ UNCHANGED <<now, due, first, at, asked, stop, fired, answered, owed>>

-----------------------------------------------------------------------------

\* An occurrence at the new time is owed a run when the loop sleeps, or runs
\* the first job of the round, another one than the job that becomes due.
Owed(j) ==
  /\ now + 1 \in Cron[j]
  /\ \/ pc = "sleeping"
     \/ pc = "running" /\ at = first /\ answered = {first} /\ j # first

Tick ==
  /\ now < MaxTime
  /\ now' = now + 1
  /\ owed' = owed \cup {j \in Jobs : Owed(j)}
  /\ UNCHANGED <<pc, due, first, at, asked, stop, fired, answered>>

Loop == Plan \/ PlanFails \/ Wake \/ JobEnds \/ CatchUp \/ PassOver \/ RoundEnds \/ EndLoop

Next == Loop \/ Signal \/ SendStop \/ Tick

Spec == Init /\ [][Next]_vars

\* The loop's task is polled and its jobs return (each has a wall clock of
\* its own); the server ends its drain.  Nothing makes a signal or time come.
FairSpec == Spec /\ WF_vars(Loop) /\ WF_vars(SendStop)

-----------------------------------------------------------------------------

\* The state of the loop is one the code can be in.
TypeOK ==
  /\ now \in 0 .. MaxTime
  /\ pc \in {"planning", "sleeping", "running", "looking", "ended"}
  /\ due \in [Jobs -> Nat]
  /\ first \in Jobs
  /\ at \in 1 .. NumJobs + 1
  /\ asked \in BOOLEAN /\ stop \in BOOLEAN
  /\ fired \in Seq([job : Jobs, for : Nat])
  /\ answered \subseteq Jobs /\ owed \subseteq Jobs

\* A cron occurrence fires its job at most once, however the runs, the looks
\* and the next reading of the clock fall around it: no second Editor run for
\* one morning.
FiresOnce ==
  \A m, n \in DOMAIN fired : fired[m] = fired[n] => m = n

\* A job that becomes due while the loop sleeps, or while the job the round
\* began with runs, has run when the round ends: a morning that overruns 07:00
\* still gets its prune, and two jobs due together both run.
OwedJobsRun == pc = "planning" => owed \subseteq answered

\* Once the service is told to stop, the loop ends: the stop is not lost when
\* it comes while a job runs, and it does not wait for the next occurrence.
StopEndsTheLoop == asked ~> pc = "ended"
=============================================================================
