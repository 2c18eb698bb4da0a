--------------------------- MODULE Service_proofs ---------------------------
(***************************************************************************)
(* The parts of the service around its runs: the loop of the scheduler,    *)
(* the verifier in front of the pages, and what processes and the agents   *)
(* of their runs are started with.                                         *)
(*                                                                         *)
(* For every number of jobs, all crons and every duration of the jobs: the *)
(* state of the loop is well formed, one occurrence of a cron fires its    *)
(* job at most once, and no job that is owed a run is forgotten.  For any  *)
(* number of requests the verifier learns of new keys and drops old ones.  *)
(* For any number of processes a run's tool server is that run's own.      *)
(***************************************************************************)
EXTENDS Scheduler, Access, Launch, SequenceTheorems, TLAPS

-----------------------------------------------------------------------------
(* The loop *)

\* The occurrences answered so far lie in the past.
FiredArePast == \A n \in DOMAIN fired : fired[n].for <= now

\* The occurrence this round holds for a job it has not run is later than
\* every one that job has answered.
HeldAreFresh ==
  pc \in {"sleeping", "running", "looking"} =>
    \A n \in DOMAIN fired :
      fired[n].job \notin answered => fired[n].for < due[fired[n].job]

\* The jobs the round has run are its first one and some the looks have passed.
LooksPassed ==
  /\ pc = "sleeping" => answered = {}
  /\ pc = "running" => at \in Jobs
  /\ pc = "running" /\ at = first => answered = {first}
  /\ pc = "running" /\ at # first => \A j \in answered : j = first \/ j <= at
  /\ pc = "looking" => \A j \in answered : j = first \/ j < at

IInv == TypeOK /\ FiredArePast /\ HeldAreFresh /\ LooksPassed /\ FiresOnce

-----------------------------------------------------------------------------

\* The next occurrence of a job, when there is one, is one of its cron's and
\* strictly later: what find_next_occurrence(now, false) returns.
LEMMA NextIsLater ==
  ASSUME NEW j \in Jobs, NEW t \in Nat, HasNext(j, t)
  PROVE  NextAfter(j, t) \in Nat /\ NextAfter(j, t) > t
<1>1. \E x \in Cron[j] : IsNext(j, t, x)
  BY DEF HasNext
<1>2. NextAfter(j, t) \in Cron[j] /\ IsNext(j, t, NextAfter(j, t))
  BY <1>1 DEF NextAfter
<1>3. Cron[j] \subseteq Nat
  BY ScheduleAssumption
<1> QED
  BY <1>2, <1>3 DEF IsNext

\* Appending an element that is not there yet leaves no two elements equal.
LEMMA AppendFresh ==
  ASSUME NEW S, NEW s \in Seq(S), NEW e \in S,
         \A m, n \in DOMAIN s : s[m] = s[n] => m = n,
         \A n \in DOMAIN s : s[n] # e
  PROVE  \A m, n \in DOMAIN Append(s, e) : Append(s, e)[m] = Append(s, e)[n] => m = n
  OBVIOUS

\* The elements of the longer sequence are the old ones and the new one.
LEMMA AppendElements ==
  ASSUME NEW S, NEW s \in Seq(S), NEW e \in S, NEW n \in DOMAIN Append(s, e)
  PROVE  \/ n \in DOMAIN s /\ Append(s, e)[n] = s[n]
         \/ Append(s, e)[n] = e
  OBVIOUS

\* An element of a sequence over S is in S.
LEMMA ElementHasType ==
  ASSUME NEW S, NEW s \in Seq(S), NEW k \in DOMAIN s
  PROVE  s[k] \in S
  OBVIOUS

Fired == [job : Jobs, for : Nat]

\* What an answered occurrence is.
LEMMA FiredHasType ==
  ASSUME TypeOK, NEW n \in DOMAIN fired
  PROVE  fired[n].job \in Jobs /\ fired[n].for \in Nat
<1>1. fired \in Seq(Fired)
  BY DEF TypeOK, Fired
<1>2. fired[n] \in Fired
  BY <1>1, ElementHasType
<1> QED
  BY <1>2 DEF Fired

\* Firing a job for the occurrence the round holds for it keeps the history
\* well formed, when the job has not run in this round and its time has come.
LEMMA FireKeeps ==
  ASSUME IInv, pc \in {"sleeping", "looking"}, NEW j \in Jobs,
         j \notin answered, due[j] <= now, Fire(j), UNCHANGED <<now, due>>
  PROVE  /\ fired' \in Seq(Fired)
         /\ FiredArePast'
         /\ HeldAreFresh'
         /\ FiresOnce'
<1> DEFINE e == [job |-> j, for |-> due[j]]
<1>1. e \in Fired /\ fired \in Seq(Fired) /\ now \in Nat
  BY DEF IInv, TypeOK, Fired
<1>2. fired' = Append(fired, e) /\ answered' = answered \cup {j}
  BY DEF Fire
<1>3. e.job = j /\ e.for = due[j]
  OBVIOUS
<1>4. ASSUME NEW n \in DOMAIN fired PROVE fired[n] \in Fired
  BY <1>1, <1>4
<1> HIDE DEF e
<1>5. \A n \in DOMAIN fired : fired[n] # e
  <2> SUFFICES ASSUME NEW n \in DOMAIN fired, fired[n] = e PROVE FALSE
    OBVIOUS
  <2>1. fired[n].for < due[fired[n].job]
    BY <1>3 DEF IInv, HeldAreFresh
  <2> QED
    BY <2>1, <1>3, <1>1 DEF Fired, IInv, TypeOK
<1>6. fired' \in Seq(Fired)
  BY <1>1, <1>2
<1>7. FiresOnce'
  <2>1. \A m, n \in DOMAIN fired : fired[m] = fired[n] => m = n
    BY DEF IInv, FiresOnce
  <2> QED
    BY <2>1, <1>1, <1>2, <1>5, AppendFresh DEF FiresOnce
<1>8. FiredArePast'
  <2> SUFFICES ASSUME NEW n \in DOMAIN fired' PROVE fired'[n].for <= now
    BY DEF FiredArePast
  <2>1. \/ n \in DOMAIN fired /\ fired'[n] = fired[n]
        \/ fired'[n] = e
    BY <1>1, <1>2, AppendElements
  <2> QED
    BY <2>1, <1>3 DEF IInv, FiredArePast
<1>9. HeldAreFresh'
  <2> SUFFICES ASSUME NEW n \in DOMAIN fired', fired'[n].job \notin answered'
               PROVE  fired'[n].for < due[fired'[n].job]
    BY DEF HeldAreFresh
  <2>1. n \in DOMAIN fired /\ fired'[n] = fired[n]
    BY <1>1, <1>2, <1>3, AppendElements
  <2> QED
    BY <2>1, <1>2 DEF IInv, HeldAreFresh
<1> QED
  BY <1>6, <1>7, <1>8, <1>9

-----------------------------------------------------------------------------

LEMMA InitIInv == Init => IInv
<1> SUFFICES ASSUME Init PROVE IInv
  OBVIOUS
<1>1. TypeOK
  <2>1. 1 \in Jobs /\ 1 \in 1 .. NumJobs + 1
    BY ScheduleAssumption DEF Jobs
  <2>2. fired \in Seq([job : Jobs, for : Nat])
    BY DEF Init
  <2>3. due \in [Jobs -> Nat]
    BY DEF Init
  <2>4. now \in 0 .. MaxTime
    BY ScheduleAssumption DEF Init
  <2> QED
    BY <2>1, <2>2, <2>3, <2>4 DEF Init, TypeOK
<1>2. DOMAIN fired = {}
  BY DEF Init
<1>3. FiredArePast /\ HeldAreFresh /\ FiresOnce
  BY <1>2 DEF FiredArePast, HeldAreFresh, FiresOnce
<1>4. LooksPassed
  BY DEF Init, LooksPassed
<1> QED
  BY <1>1, <1>3, <1>4 DEF IInv

LEMMA StepIInv == IInv /\ [Next]_vars => IInv'
<1> SUFFICES ASSUME IInv, [Next]_vars PROVE IInv'
  OBVIOUS
<1> USE ScheduleAssumption
<1>1. CASE Plan
  <2>1. /\ pc = "planning" /\ pc' = "sleeping" /\ answered' = {} /\ owed' = {}
        /\ UNCHANGED <<now, at, asked, stop, fired>>
        /\ first' \in Jobs
        /\ due' = [j \in Jobs |-> NextAfter(j, now)]
    BY <1>1, Zenon DEF Plan
  <2>2. \A j \in Jobs : NextAfter(j, now) \in Nat /\ NextAfter(j, now) > now
    BY <1>1, NextIsLater DEF Plan, IInv, TypeOK
  <2>3. TypeOK'
    BY <2>1, <2>2 DEF IInv, TypeOK
  <2>4. HeldAreFresh'
    <3> SUFFICES ASSUME NEW n \in DOMAIN fired
                 PROVE  fired[n].for < due'[fired[n].job]
      BY <2>1 DEF HeldAreFresh
    <3>1. fired[n].job \in Jobs /\ fired[n].for \in Nat /\ now \in Nat
      BY FiredHasType DEF IInv, TypeOK
    <3>2. fired[n].for <= now
      BY DEF IInv, FiredArePast
    <3>3. due'[fired[n].job] = NextAfter(fired[n].job, now)
      BY <2>1, <3>1
    <3> QED
      BY <3>1, <3>2, <3>3, <2>2
  <2> QED
    BY <2>1, <2>3, <2>4 DEF IInv, FiredArePast, LooksPassed, FiresOnce
<1>2. CASE PlanFails
  BY <1>2 DEF PlanFails, IInv, TypeOK, FiredArePast, HeldAreFresh, LooksPassed, FiresOnce
<1>3. CASE Wake
  <2>1. /\ pc = "sleeping" /\ pc' = "running" /\ at' = first /\ due[first] <= now
        /\ answered = {} /\ answered' = answered \cup {first} /\ first \in Jobs
        /\ Fire(first) /\ UNCHANGED <<now, due, first, asked, stop, owed>>
    BY <1>3, Zenon DEF Wake, Fire, IInv, LooksPassed, TypeOK
  <2>2. fired' \in Seq(Fired) /\ FiredArePast' /\ HeldAreFresh' /\ FiresOnce'
    BY <2>1, FireKeeps
  <2>3. TypeOK'
    BY <2>1, <2>2 DEF IInv, TypeOK, Fired, Jobs
  <2>4. LooksPassed'
    BY <2>1 DEF LooksPassed
  <2> QED
    BY <2>2, <2>3, <2>4 DEF IInv
<1>4. CASE JobEnds
  <2>1. /\ pc = "running" /\ pc' = "looking" /\ at \in Jobs
        /\ at' = IF at = first THEN 1 ELSE at + 1
        /\ UNCHANGED <<now, due, first, asked, stop, fired, answered, owed>>
    BY <1>4, Zenon DEF JobEnds, IInv, LooksPassed
  <2>2. TypeOK'
    BY <2>1 DEF IInv, TypeOK, Jobs
  <2>3. LooksPassed'
    BY <2>1 DEF IInv, LooksPassed, TypeOK, Jobs
  <2> QED
    BY <2>1, <2>2, <2>3 DEF IInv, FiredArePast, HeldAreFresh, FiresOnce
<1>5. CASE CatchUp
  <2>1. /\ pc = "looking" /\ pc' = "running" /\ at \in Jobs /\ at' = at
        /\ at # first /\ due[at] <= now
        /\ answered' = answered \cup {at}
        /\ Fire(at) /\ UNCHANGED <<now, due, first, asked, stop, owed>>
    BY <1>5, Zenon DEF CatchUp, Overdue, Fire
  <2>2. at \notin answered
    BY <2>1 DEF IInv, LooksPassed, Jobs
  <2>3. fired' \in Seq(Fired) /\ FiredArePast' /\ HeldAreFresh' /\ FiresOnce'
    BY <2>1, <2>2, FireKeeps
  <2>4. TypeOK'
    BY <2>1, <2>3 DEF IInv, TypeOK, Fired, Jobs
  <2>5. LooksPassed'
    BY <2>1 DEF IInv, LooksPassed, TypeOK, Jobs
  <2> QED
    BY <2>3, <2>4, <2>5 DEF IInv
<1>6. CASE PassOver
  <2>1. /\ pc = "looking" /\ at \in Jobs /\ at' = at + 1
        /\ UNCHANGED <<now, pc, due, first, asked, stop, fired, answered, owed>>
    BY <1>6, Zenon DEF PassOver
  <2>2. TypeOK'
    BY <2>1 DEF IInv, TypeOK, Jobs
  <2>3. LooksPassed'
    BY <2>1 DEF IInv, LooksPassed, TypeOK, Jobs
  <2> QED
    BY <2>1, <2>2, <2>3 DEF IInv, FiredArePast, HeldAreFresh, FiresOnce
<1>7. CASE RoundEnds
  BY <1>7 DEF RoundEnds, IInv, TypeOK, Jobs, FiredArePast, HeldAreFresh, LooksPassed, FiresOnce
<1>8. CASE EndLoop
  BY <1>8 DEF EndLoop, IInv, TypeOK, FiredArePast, HeldAreFresh, LooksPassed, FiresOnce
<1>9. CASE Signal \/ SendStop
  BY <1>9 DEF Signal, SendStop, IInv, TypeOK, FiredArePast, HeldAreFresh, LooksPassed,
     FiresOnce
<1>10. CASE Tick
  <2>1. /\ now < MaxTime /\ now' = now + 1 /\ owed' \subseteq Jobs
        /\ UNCHANGED <<pc, due, first, at, asked, stop, fired, answered>>
    BY <1>10, Zenon DEF Tick, IInv, TypeOK
  <2>2. TypeOK'
    BY <2>1 DEF IInv, TypeOK
  <2>3. FiredArePast'
    <3>1. \A n \in DOMAIN fired : fired[n].for \in Nat /\ fired[n].for <= now
      BY FiredHasType DEF IInv, FiredArePast
    <3>2. now \in Nat
      BY DEF IInv, TypeOK
    <3> QED
      BY <2>1, <3>1, <3>2 DEF FiredArePast
  <2> QED
    BY <2>1, <2>2, <2>3 DEF IInv, HeldAreFresh, LooksPassed, FiresOnce
<1>11. CASE UNCHANGED vars
  BY <1>11 DEF vars, IInv, TypeOK, FiredArePast, HeldAreFresh, LooksPassed, FiresOnce
<1> QED
  BY <1>1, <1>2, <1>3, <1>4, <1>5, <1>6, <1>7, <1>8, <1>9, <1>10, <1>11 DEF Next, Loop

-----------------------------------------------------------------------------

\* The loop of run_jobs never leaves its states, nor its job list.
THEOREM LoopIsWellFormed == Spec => []TypeOK
<1>1. Init => IInv BY InitIInv
<1>2. IInv /\ [Next]_vars => IInv' BY StepIInv
<1>3. IInv => TypeOK BY DEF IInv
<1> QED
  BY <1>1, <1>2, <1>3, PTL DEF Spec

\* run_jobs answers an occurrence of a schedule with at most one run of its
\* job, whatever the crons, the durations and the readings of the clock.
THEOREM OccurrencesFireOnce == Spec => []FiresOnce
<1>1. Init => IInv BY InitIInv
<1>2. IInv /\ [Next]_vars => IInv' BY StepIInv
<1>3. IInv => FiresOnce BY DEF IInv
<1> QED
  BY <1>1, <1>2, <1>3, PTL DEF Spec
-----------------------------------------------------------------------------
(* The jobs that are owed a run: the looks have still to come to each of them, *)
(* and find it overdue when they do. *)

\* A job's next occurrence from now on is not earlier than the one the round
\* holds: none was skipped when the round was planned.
HoldsTheNext ==
  pc \in {"sleeping", "running", "looking"} =>
    \A j \in Jobs : \A y \in Cron[j] : y > now => due[j] <= y

\* The job's occurrence has passed, and the looks have not passed the job.
StillAhead(j) ==
  /\ due[j] <= now
  /\ pc \in {"running", "looking"} => j # first
  /\ pc = "running" => at = first \/ at < j
  /\ pc = "looking" => at <= j

OwedAreAhead ==
  pc \in {"sleeping", "running", "looking"} => \A j \in owed \ answered : StillAhead(j)

OwedInv == HoldsTheNext /\ OwedAreAhead /\ OwedJobsRun

\* What a plan holds for a job is no later than any occurrence still to come.
LEMMA NextIsFirst ==
  ASSUME NEW j \in Jobs, NEW t \in Nat, HasNext(j, t), NEW y \in Cron[j], y > t
  PROVE  NextAfter(j, t) <= y
<1>1. \E x \in Cron[j] : IsNext(j, t, x)
  BY DEF HasNext
<1>2. IsNext(j, t, NextAfter(j, t))
  BY <1>1 DEF NextAfter
<1> QED
  BY <1>2 DEF IsNext

\* A job that becomes owed by a tick is due at the new time.
LEMMA OwedIsDue ==
  ASSUME HoldsTheNext, TypeOK, NEW j \in Jobs, Owed(j)
  PROVE  due[j] <= now + 1
<1>1. now \in Nat /\ now + 1 > now /\ now + 1 \in Cron[j]
  BY DEF TypeOK, Owed
<1>2. pc \in {"sleeping", "running", "looking"}
  BY DEF Owed
<1> QED
  BY <1>1, <1>2 DEF HoldsTheNext

LEMMA InitOwed == Init => OwedInv
  BY DEF Init, OwedInv, HoldsTheNext, OwedAreAhead, OwedJobsRun

LEMMA StepOwed == IInv /\ OwedInv /\ [Next]_vars => OwedInv'
<1> SUFFICES ASSUME IInv, OwedInv, [Next]_vars PROVE OwedInv'
  OBVIOUS
<1> USE ScheduleAssumption
<1>0. /\ TypeOK /\ LooksPassed /\ HoldsTheNext /\ OwedAreAhead /\ OwedJobsRun
      /\ now \in Nat /\ NumJobs \in Nat /\ due \in [Jobs -> Nat]
      /\ owed \subseteq Jobs /\ at \in 1 .. NumJobs + 1
  BY DEF IInv, OwedInv, TypeOK
<1>1. CASE Plan
  <2>1. /\ pc = "planning" /\ pc' = "sleeping" /\ owed' = {} /\ now' = now
        /\ due' = [j \in Jobs |-> NextAfter(j, now)]
        /\ \A j \in Jobs : HasNext(j, now)
    BY <1>1, Zenon DEF Plan
  <2>2. HoldsTheNext'
    <3> SUFFICES ASSUME NEW j \in Jobs, NEW y \in Cron[j], y > now PROVE due'[j] <= y
      BY <2>1 DEF HoldsTheNext
    <3> QED
      BY <2>1, <1>0, NextIsFirst
  <2> QED
    BY <2>1, <2>2 DEF OwedInv, OwedAreAhead, OwedJobsRun
<1>2. CASE PlanFails
  BY <1>2 DEF PlanFails, OwedInv, HoldsTheNext, OwedAreAhead, OwedJobsRun
<1>3. CASE Wake
  <2>1. /\ pc = "sleeping" /\ pc' = "running" /\ at' = first
        /\ answered' = answered \cup {first}
        /\ UNCHANGED <<now, due, first, owed>>
    BY <1>3, Zenon DEF Wake, Fire
  <2>2. OwedAreAhead'
    BY <2>1, <1>0 DEF OwedAreAhead, StillAhead
  <2> QED
    BY <2>1, <2>2, <1>0 DEF OwedInv, HoldsTheNext, OwedJobsRun
<1>4. CASE JobEnds
  <2>1. /\ pc = "running" /\ pc' = "looking"
        /\ at' = IF at = first THEN 1 ELSE at + 1
        /\ UNCHANGED <<now, due, first, answered, owed>>
    BY <1>4, Zenon DEF JobEnds
  <2>2. OwedAreAhead'
    BY <2>1, <1>0 DEF OwedAreAhead, StillAhead, Jobs
  <2> QED
    BY <2>1, <2>2, <1>0 DEF OwedInv, HoldsTheNext, OwedJobsRun
<1>5. CASE CatchUp
  <2>1. /\ pc = "looking" /\ pc' = "running" /\ at' = at
        /\ answered' = answered \cup {at}
        /\ UNCHANGED <<now, due, first, owed>>
    BY <1>5, Zenon DEF CatchUp, Fire
  <2>2. OwedAreAhead'
    BY <2>1, <1>0 DEF OwedAreAhead, StillAhead, Jobs
  <2> QED
    BY <2>1, <2>2, <1>0 DEF OwedInv, HoldsTheNext, OwedJobsRun
<1>6. CASE PassOver
  <2>1. /\ pc = "looking" /\ pc' = "looking" /\ at' = at + 1
        /\ at = first \/ ~(due[at] <= now)
        /\ UNCHANGED <<now, due, first, answered, owed>>
    BY <1>6, Zenon DEF PassOver, Overdue
  <2>2. OwedAreAhead'
    BY <2>1, <1>0 DEF OwedAreAhead, StillAhead, Jobs
  <2> QED
    BY <2>1, <2>2, <1>0 DEF OwedInv, HoldsTheNext, OwedJobsRun
<1>7. CASE RoundEnds
  <2>1. /\ pc = "looking" /\ pc' = "planning" /\ at \notin Jobs
        /\ UNCHANGED <<answered, owed>>
    BY <1>7, Zenon DEF RoundEnds
  <2>2. \A j \in owed \ answered : j \in Jobs /\ at <= j
    BY <2>1, <1>0 DEF OwedAreAhead, StillAhead
  <2>3. owed \subseteq answered
    BY <2>1, <2>2, <1>0 DEF Jobs
  <2> QED
    BY <2>1, <2>3 DEF OwedInv, HoldsTheNext, OwedAreAhead, OwedJobsRun
<1>8. CASE EndLoop
  BY <1>8 DEF EndLoop, OwedInv, HoldsTheNext, OwedAreAhead, OwedJobsRun
<1>9. CASE Signal \/ SendStop
  BY <1>9 DEF Signal, SendStop, OwedInv, HoldsTheNext, OwedAreAhead, StillAhead, OwedJobsRun
<1>10. CASE Tick
  <2>1. /\ now' = now + 1 /\ owed' = owed \cup {j \in Jobs : Owed(j)}
        /\ UNCHANGED <<pc, due, first, at, answered>>
    BY <1>10, Zenon DEF Tick
  <2>2. HoldsTheNext'
    <3> SUFFICES ASSUME NEW j \in Jobs, NEW y \in Cron[j], y > now + 1,
                        pc \in {"sleeping", "running", "looking"}
                 PROVE  due[j] <= y
      BY <2>1 DEF HoldsTheNext
    <3>1. y \in Nat /\ y > now
      BY <1>0
    <3> QED
      BY <3>1, <1>0 DEF HoldsTheNext
  <2>3. \A j \in Jobs : Owed(j) => /\ due[j] <= now + 1
                                   /\ pc = "sleeping" \/ (pc = "running" /\ at = first /\ j # first)
    BY <1>0, OwedIsDue DEF Owed
  <2>4. OwedAreAhead'
    <3> SUFFICES ASSUME pc \in {"sleeping", "running", "looking"},
                        NEW j \in owed' \ answered
                 PROVE  StillAhead(j)'
      BY <2>1 DEF OwedAreAhead
    <3>1. CASE j \in owed
      BY <3>1, <2>1, <1>0 DEF OwedAreAhead, StillAhead
    <3>2. CASE j \in Jobs /\ Owed(j)
      BY <3>2, <2>1, <2>3 DEF StillAhead
    <3> QED
      BY <3>1, <3>2, <2>1
  <2>5. OwedJobsRun'
    BY <2>1, <2>3, <1>0 DEF OwedJobsRun
  <2> QED
    BY <2>2, <2>4, <2>5 DEF OwedInv
<1>11. CASE UNCHANGED vars
  BY <1>11 DEF vars, OwedInv, HoldsTheNext, OwedAreAhead, StillAhead, OwedJobsRun
<1> QED
  BY <1>1, <1>2, <1>3, <1>4, <1>5, <1>6, <1>7, <1>8, <1>9, <1>10, <1>11 DEF Next, Loop

-----------------------------------------------------------------------------

\* Every job that becomes due while the loop sleeps or runs the round's first
\* job has run when run_jobs reads the clock again: the looks, in list order,
\* reach it and find it overdue, whatever the crons and the durations.
THEOREM OwedJobsAreRun == Spec => []OwedJobsRun
<1>1. Init => IInv /\ OwedInv BY InitIInv, InitOwed
<1>2. IInv /\ OwedInv /\ [Next]_vars => IInv' /\ OwedInv' BY StepIInv, StepOwed
<1>3. OwedInv => OwedJobsRun BY DEF OwedInv
<1> QED
  BY <1>1, <1>2, <1>3, PTL DEF Spec

-----------------------------------------------------------------------------
(* The verifier *)

(* A request by the place it is at. *)
Held == [pc : {"ask", "force", "landing"}, kid : KeyIds \cup {0}, known : BOOLEAN,
         forced : BOOLEAN, since : Nat, keys : SUBSET KeyIds]
Ended == [pc : {"done"}, kid : KeyIds \cup {0}, known : BOOLEAN, answer : {"pass", "401", "503"}]
Req == {Idle} \cup Held \cup Ended

\* What a request holds at time t: a key that was known when it came stays below
\* the newest, and the set a fetch brings lacks nothing that stayed and has
\* nothing that went before the fetch began.
HeldInv(q, pub, ret, t) ==
  q \in Held =>
    /\ q.since <= t
    /\ q.known => \E k \in pub : q.kid <= k
    /\ q.pc # "force" => t <= q.since + Timeout
    /\ q.pc = "landing" => /\ q.known /\ q.kid \in pub => q.kid \in q.keys
                           /\ \A k \in q.keys \ pub : q.since <= ret[k]

\* A request is about to force a fetch: its key is missing, or the set is new.
ForceInv(q, c, t) == q \in Held /\ q.pc = "force" => q.kid \notin c.keys \/ t - c.at < Ttl

CacheInv(c, pub, ret, t) ==
  /\ c.at <= t
  /\ \A k \in c.keys \ pub : c.at - ret[k] <= Timeout

ProviderInv ==
  /\ published \in SUBSET KeyIds
  /\ \E k \in published : \A j \in published : j <= k

AccessInv ==
  /\ clock \in Nat
  /\ ProviderInv
  /\ retired \in [KeyIds -> Int]
  /\ cache \in [keys : SUBSET KeyIds, at : Int]
  /\ lastForced \in Int /\ sent = lastForced
  /\ request \in [Requests -> Req]
  /\ failures \in Nat
  /\ CacheInv(cache, published, retired, clock)
  /\ \A r \in Requests : /\ HeldInv(request[r], published, retired, clock)
                         /\ ForceInv(request[r], cache, clock)

LEMMA InitAccess == AccessInit => AccessInv
<1> SUFFICES ASSUME AccessInit PROVE AccessInv
  OBVIOUS
<1>1. Never \in Int /\ 1 \in KeyIds /\ Never <= 0
  BY AccessAssumption DEF Never, KeyIds
<1>2. \A r \in Requests : request[r] = Idle /\ Idle \notin Held
  BY DEF AccessInit, Idle, Held
<1>3. ProviderInv
  BY <1>1 DEF AccessInit, ProviderInv
<1>4. CacheInv(cache, published, retired, clock)
  BY <1>1 DEF AccessInit, CacheInv
<1>5. /\ clock \in Nat /\ failures \in Nat /\ lastForced \in Int /\ sent = lastForced
      /\ retired \in [KeyIds -> Int] /\ cache \in [keys : SUBSET KeyIds, at : Int]
      /\ request \in [Requests -> Req]
  BY <1>1 DEF AccessInit, Req
<1> QED
  BY <1>2, <1>3, <1>4, <1>5 DEF AccessInv, HeldInv, ForceInv

\* The key newer than all others.
LEMMA NewestIs ==
  ASSUME ProviderInv
  PROVE  Newest \in published /\ \A j \in published : j <= Newest
  BY Zenon DEF ProviderInv, Newest

LEMMA HeldKey ==
  ASSUME NEW q \in Held
  PROVE  q.kid \in Nat /\ q.since \in Nat /\ q.keys \subseteq KeyIds /\ KeyIds \subseteq Nat
<1>1. \A k \in KeyIds : k \in Nat
  BY AccessAssumption DEF KeyIds
<1>2. q.since \in Nat /\ q.keys \subseteq KeyIds /\ q.kid \in KeyIds \cup {0}
  BY DEF Held
<1>3. CASE q.kid \in KeyIds
  BY <1>1, <1>2, <1>3
<1>4. CASE q.kid = 0
  <2>1. 0 \in Nat
    OBVIOUS
  <2>2. q.kid \in Nat
    BY Zenon, <1>4, <2>1
  <2> QED
    BY <1>1, <1>2, <2>2
<1> QED
  BY <1>2, <1>3, <1>4

LEMMA SetPlace ==
  ASSUME NEW q \in Held, NEW c \in {"ask", "force", "landing"}
  PROVE  LET p == [q EXCEPT !.pc = c]
         IN  /\ p \in Held /\ p.pc = c /\ p.kid = q.kid /\ p.known = q.known
             /\ p.forced = q.forced /\ p.since = q.since /\ p.keys = q.keys
  BY DEF Held

\* What verify makes of a set it was given: p follows q.
Outcome(q, keys, p) ==
  \/ /\ p \in Ended /\ p.kid = q.kid /\ p.known = q.known
     /\ p.answer = "pass" => q.kid \in keys
     /\ p.answer = "401" => q.forced /\ q.kid \notin keys
     /\ p.answer # "503"
  \/ /\ p \in Held /\ p.pc = "force" /\ p.kid = q.kid /\ p.known = q.known
     /\ p.since = q.since /\ q.kid \notin keys

LEMMA DecideGoes ==
  ASSUME NEW r \in Requests, NEW q \in Held, NEW keys, Decide(r, q, keys)
  PROVE  \E p \in Req : Go(r, p) /\ Outcome(q, keys, p)
<1> DEFINE done(a) == [pc |-> "done", kid |-> q.kid, known |-> q.known, answer |-> a]
           force == [q EXCEPT !.pc = "force"]
<1>1. \A a \in {"pass", "401"} :
        done(a) \in Ended /\ done(a).kid = q.kid /\ done(a).known = q.known /\ done(a).answer = a
  BY DEF Held, Ended
<1>2. /\ force \in Held /\ force.pc = "force" /\ force.kid = q.kid
      /\ force.known = q.known /\ force.since = q.since
  BY SetPlace
<1>3. Go(r, IF q.kid \in keys THEN done("pass") ELSE IF q.forced THEN done("401") ELSE force)
  BY DEF Decide
<1> HIDE DEF done, force
<1>4. CASE q.kid \in keys
  <2>1. Go(r, done("pass")) /\ Outcome(q, keys, done("pass")) /\ done("pass") \in Req
    BY <1>1, <1>3, <1>4 DEF Outcome, Req
  <2> QED
    BY <2>1
<1>5. CASE q.kid \notin keys /\ q.forced
  <2>1. Go(r, done("401")) /\ Outcome(q, keys, done("401")) /\ done("401") \in Req
    BY <1>1, <1>3, <1>5 DEF Outcome, Req
  <2> QED
    BY <2>1
<1>6. CASE q.kid \notin keys /\ ~q.forced
  <2>1. Go(r, force) /\ Outcome(q, keys, force) /\ force \in Req
    BY <1>2, <1>3, <1>6 DEF Outcome, Req
  <2> QED
    BY <2>1
<1> QED
  BY <1>4, <1>5, <1>6

\* Each step of a request, in terms of what it held and what it holds then.
LEMMA ArriveGoes ==
  ASSUME AccessInv, NEW r \in Requests, Arrive(r)
  PROVE  \E q \in Held :
           /\ q.pc = "ask" /\ ~q.forced /\ q.since = clock
           /\ q.known = (q.kid \in published)
           /\ \/ Go(r, q)
              \/ clock - cache.at < Ttl /\ \E p \in Req : Go(r, p) /\ Outcome(q, cache.keys, p)
<1> DEFINE new(kid) == [pc |-> "ask", kid |-> kid, known |-> kid \in published,
                        forced |-> FALSE, since |-> clock, keys |-> {}]
<1>1. PICK kid \in KeyIds \cup {0} : IF Fresh THEN Decide(r, new(kid), cache.keys) ELSE Go(r, new(kid))
  BY DEF Arrive
<1>2. PICK q : q = new(kid)
  OBVIOUS
<1>3. /\ q \in Held /\ q.pc = "ask" /\ ~q.forced /\ q.since = clock
      /\ q.known = (q.kid \in published)
  BY <1>2 DEF AccessInv, Held
<1>4. IF Fresh THEN Decide(r, q, cache.keys) ELSE Go(r, q)
  BY <1>1, <1>2
<1> HIDE DEF new
<1>5. CASE Fresh
  <2>1. \E p \in Req : Go(r, p) /\ Outcome(q, cache.keys, p)
    BY <1>3, <1>4, <1>5, DecideGoes
  <2> QED
    BY <1>3, <1>5, <2>1 DEF Fresh
<1>6. CASE ~Fresh
  BY <1>3, <1>4, <1>6
<1> QED
  BY <1>5, <1>6

LEMMA IsHeld ==
  ASSUME AccessInv, NEW r \in Requests, request[r].pc \in {"ask", "force", "landing"}
  PROVE  /\ request[r] \in Held
         /\ HeldInv(request[r], published, retired, clock) /\ ForceInv(request[r], cache, clock)
<1>1. request[r] \in Req
  BY DEF AccessInv
<1> QED
  BY <1>1 DEF AccessInv, Req, Idle, Ended

\* A request holds something else, and perhaps a set was stored just clock.
LEMMA GoKeeps ==
  ASSUME AccessInv, NEW r \in Requests, NEW p \in Req, Go(r, p),
         UNCHANGED <<clock, published, retired>>,
         HeldInv(p, published, retired, clock), ForceInv(p, cache', clock),
         \/ cache' = cache
         \/ /\ cache' \in [keys : SUBSET KeyIds, at : Int] /\ cache'.at = clock
            /\ CacheInv(cache', published, retired, clock),
         lastForced' \in Int, sent' = lastForced', failures' \in Nat
  PROVE  AccessInv'
<1>1. /\ request' \in [Requests -> Req]
      /\ \A s \in Requests : request'[s] = IF s = r THEN p ELSE request[s]
  BY DEF AccessInv, Go
<1>2. CacheInv(cache, published, retired, clock)' /\ cache' \in [keys : SUBSET KeyIds, at : Int]
  BY DEF AccessInv
<1>3. ASSUME NEW s \in Requests
      PROVE  HeldInv(request[s], published, retired, clock)' /\ ForceInv(request[s], cache, clock)'
  <2>1. CASE s = r
    BY <1>1, <2>1
  <2>2. CASE s # r
    <3>1. HeldInv(request[s], published, retired, clock)'
      BY <1>1, <2>2 DEF AccessInv
    <3>2. 0 < Ttl /\ clock - clock = 0
      BY AccessAssumption DEF AccessInv
    <3>3. ForceInv(request[s], cache, clock)'
      BY <1>1, <2>2, <3>2 DEF AccessInv, ForceInv
    <3> QED
      BY <3>1, <3>3
  <2> QED
    BY <2>1, <2>2
<1> QED
  BY <1>1, <1>2, <1>3 DEF AccessInv, ProviderInv

\* What follows a held request is held as well, or ended.
LEMMA OutcomeKeeps ==
  ASSUME NEW q \in Held, NEW p \in Req, NEW c, Outcome(q, c.keys, p),
         HeldInv(q, published, retired, clock)
  PROVE  HeldInv(p, published, retired, clock) /\ ForceInv(p, c, clock)
<1>1. p \in Ended => p \notin Held
  BY DEF Ended, Held
<1> QED
  BY <1>1 DEF Outcome, HeldInv, ForceInv

LEMMA AnswerGoes ==
  ASSUME AccessInv, NEW r \in Requests, Answer(r)
  PROVE  /\ request[r] \in Held
         /\ \E p \in Held : /\ Go(r, p) /\ p.pc = "landing" /\ p.keys = published
                            /\ p.kid = request[r].kid /\ p.known = request[r].known
                            /\ p.since = request[r].since
<1>1. request[r] \in Held
  BY IsHeld DEF Answer
<1>2. PICK q \in Held : q = request[r]
  BY <1>1
<1> DEFINE p == [q EXCEPT !.pc = "landing", !.keys = published]
<1>3. Go(r, p)
  BY <1>2 DEF Answer
<1>4. /\ p \in Held /\ p.pc = "landing" /\ p.keys = published
      /\ p.kid = q.kid /\ p.known = q.known /\ p.since = q.since
  BY DEF Held, AccessInv, ProviderInv
<1> HIDE DEF p
<1> QED
  BY <1>1, <1>2, <1>3, <1>4

LEMMA LandGoes ==
  ASSUME AccessInv, NEW r \in Requests, Land(r)
  PROVE  /\ request[r] \in Held /\ request[r].pc = "landing"
         /\ \E p \in Req : Go(r, p) /\ Outcome(request[r], request[r].keys, p)
  BY IsHeld, DecideGoes DEF Land

LEMMA FailGoes ==
  ASSUME AccessInv, NEW r \in Requests, Fail(r)
  PROVE  /\ request[r] \in Held
         /\ \E p \in Req :
              /\ Go(r, p)
              /\ \/ ~request[r].forced /\ Outcome(request[r], cache.keys, p)
                 \/ p \in Ended /\ p.answer = "503"
<1>1. request[r] \in Held
  BY IsHeld DEF Fail
<1>2. CASE Cached /\ ~request[r].forced
  <2>1. Decide(r, request[r], cache.keys)
    BY <1>2 DEF Fail
  <2> QED
    BY <1>1, <1>2, <2>1, DecideGoes
<1>3. CASE ~(Cached /\ ~request[r].forced)
  <2> DEFINE p == [pc |-> "done", kid |-> request[r].kid, known |-> request[r].known,
                   answer |-> "503"]
  <2>1. Go(r, p)
    BY <1>3 DEF Fail, Done
  <2>2. p \in Ended /\ p.answer = "503" /\ p \in Req
    BY <1>1 DEF Held, Ended, Req
  <2> HIDE DEF p
  <2> QED
    BY <1>1, <2>1, <2>2
<1> QED
  BY <1>2, <1>3

LEMMA SetForced ==
  ASSUME NEW q \in Held
  PROVE  LET f == [q EXCEPT !.forced = TRUE]
         IN  /\ f \in Held /\ f.pc = q.pc /\ f.kid = q.kid /\ f.known = q.known
             /\ f.since = q.since /\ f.keys = q.keys /\ f.forced
  BY DEF Held

LEMMA ForceGoes ==
  ASSUME AccessInv, NEW r \in Requests, ForceFetch(r)
  PROVE  /\ request[r] \in Held /\ request[r].pc = "force"
         /\ \/ /\ Throttled /\ lastForced' = lastForced /\ sent' = sent
               /\ \E f \in Held, p \in Req :
                    /\ Go(r, p) /\ Outcome(f, cache.keys, p)
                    /\ f.pc = "force" /\ f.kid = request[r].kid
                    /\ f.known = request[r].known /\ f.since = request[r].since
            \/ /\ lastForced' = clock /\ sent' = clock
               /\ \E p \in Held : /\ Go(r, p) /\ p.pc = "ask" /\ p.since = clock
                                  /\ p.kid = request[r].kid /\ p.known = request[r].known
<1>1. request[r] \in Held /\ request[r].pc = "force"
  BY IsHeld DEF ForceFetch
<1>2. PICK q \in Held : q = request[r]
  BY <1>1
<1>3. CASE Throttled
  <2>1. PICK f \in Held : /\ f = [q EXCEPT !.forced = TRUE]
                          /\ f.pc = q.pc /\ f.kid = q.kid
                          /\ f.known = q.known /\ f.since = q.since
    BY SetForced
  <2>2. Decide(r, f, cache.keys) /\ lastForced' = lastForced /\ sent' = sent
    BY <1>2, <1>3, <2>1 DEF ForceFetch, ForcedNow
  <2>3. \E p \in Req : Go(r, p) /\ Outcome(f, cache.keys, p)
    BY <2>2, DecideGoes
  <2> QED
    BY <1>1, <1>2, <1>3, <2>1, <2>2, <2>3
<1>4. CASE ~Throttled
  <2>1. PICK p : p = [q EXCEPT !.pc = "ask", !.forced = TRUE, !.since = clock]
    OBVIOUS
  <2>2. Go(r, p) /\ lastForced' = clock /\ sent' = clock
    BY <1>2, <1>4, <2>1 DEF ForceFetch, ForcedNow
  <2>3. p \in Held /\ p.pc = "ask" /\ p.since = clock /\ p.kid = q.kid /\ p.known = q.known
    BY <2>1 DEF Held, AccessInv
  <2> QED
    BY <1>1, <1>2, <2>2, <2>3
<1> QED
  BY <1>1, <1>3, <1>4

-----------------------------------------------------------------------------
(* Every step keeps the invariant *)

LEMMA RequestKeeps ==
  ASSUME AccessInv, NEW r \in Requests,
         Arrive(r) \/ Answer(r) \/ Land(r) \/ Fail(r) \/ ForceFetch(r)
  PROVE  AccessInv'
<1>0. /\ clock \in Nat /\ lastForced \in Int /\ sent = lastForced /\ failures \in Nat
      /\ Timeout \in Nat /\ published \in SUBSET KeyIds
      /\ \A p \in Ended : p \notin Held
  BY AccessAssumption DEF AccessInv, ProviderInv, Ended, Held
<1>1. CASE Arrive(r)
  <2>1. PICK q \in Held :
           /\ q.pc = "ask" /\ ~q.forced /\ q.since = clock
           /\ q.known = (q.kid \in published)
           /\ \/ Go(r, q)
              \/ clock - cache.at < Ttl /\ \E p \in Req : Go(r, p) /\ Outcome(q, cache.keys, p)
    BY <1>1, ArriveGoes
  <2>2. HeldInv(q, published, retired, clock) /\ ForceInv(q, cache, clock) /\ q \in Req
    <3>1. ASSUME q.kid \in published PROVE \E k \in published : q.kid <= k
      <4>1. q.kid \in Nat /\ q.kid <= q.kid
        BY HeldKey
      <4> QED
        BY <3>1, <4>1
    <3>2. clock <= clock /\ clock <= clock + Timeout /\ q \in Req
      BY <1>0 DEF Req
    <3> QED
      BY <2>1, <3>1, <3>2 DEF HeldInv, ForceInv
  <2>3. UNCHANGED <<clock, published, retired, cache, lastForced, sent, failures>>
    BY <1>1 DEF Arrive
  <2>4. CASE Go(r, q)
    BY <1>0, <2>2, <2>3, <2>4, GoKeeps
  <2>5. CASE \E p \in Req : Go(r, p) /\ Outcome(q, cache.keys, p)
    <3>1. PICK p \in Req : Go(r, p) /\ Outcome(q, cache.keys, p)
      BY <2>5
    <3>2. HeldInv(p, published, retired, clock) /\ ForceInv(p, cache, clock)
      BY <2>2, <3>1, OutcomeKeeps
    <3> QED
      BY <1>0, <2>3, <3>1, <3>2, GoKeeps
  <2> QED
    BY <2>1, <2>4, <2>5
<1>2. CASE Answer(r)
  <2>1. PICK p \in Held : /\ Go(r, p) /\ p.pc = "landing" /\ p.keys = published
                          /\ p.kid = request[r].kid /\ p.known = request[r].known
                          /\ p.since = request[r].since
    BY <1>2, AnswerGoes
  <2>2. request[r].pc = "ask" /\ UNCHANGED <<clock, published, retired, cache, lastForced, sent, failures>>
    BY <1>2 DEF Answer
  <2>3. HeldInv(p, published, retired, clock) /\ ForceInv(p, cache, clock) /\ p \in Req
    BY <2>1, <2>2, IsHeld DEF HeldInv, ForceInv, Req
  <2> QED
    BY <1>0, <2>1, <2>2, <2>3, GoKeeps
<1>3. CASE Land(r)
  <2>1. PICK p \in Req : Go(r, p) /\ Outcome(request[r], request[r].keys, p)
    BY <1>3, LandGoes
  <2>2. PICK q \in Held : q = request[r] /\ q.pc = "landing" /\ HeldInv(q, published, retired, clock)
    BY <1>3, LandGoes, IsHeld
  <2>3. cache' = [keys |-> q.keys, at |-> clock] /\ UNCHANGED <<clock, published, retired, lastForced, sent, failures>>
    BY <1>3, <2>2 DEF Land
  <2>4. /\ cache' \in [keys : SUBSET KeyIds, at : Int] /\ cache'.at = clock /\ cache'.keys = q.keys
    BY <1>0, <2>3 DEF Held
  <2>5. CacheInv(cache', published, retired, clock)
    <3>1. q.since \in Nat /\ clock <= q.since + Timeout /\ \A k \in q.keys \ published : q.since <= retired[k]
      BY <2>2 DEF HeldInv, Held
    <3>2. \A k \in q.keys \ published : retired[k] \in Int
      BY DEF AccessInv, Held
    <3> QED
      BY <1>0, <2>4, <3>1, <3>2 DEF CacheInv
  <2>6. HeldInv(p, published, retired, clock) /\ ForceInv(p, cache', clock)
    BY <2>1, <2>2, <2>4, OutcomeKeeps
  <2> QED
    BY <1>0, <2>1, <2>3, <2>4, <2>5, <2>6, GoKeeps
<1>4. CASE Fail(r)
  <2>1. PICK p \in Req : /\ Go(r, p)
                         /\ \/ Outcome(request[r], cache.keys, p)
                            \/ p \in Ended
    BY <1>4, FailGoes
  <2>2. /\ UNCHANGED <<clock, published, retired, cache, lastForced, sent>> /\ failures' = failures + 1
        /\ request[r].pc = "ask"
    BY <1>4 DEF Fail
  <2>3. HeldInv(p, published, retired, clock) /\ ForceInv(p, cache, clock)
    <3>1. CASE Outcome(request[r], cache.keys, p)
      BY <2>2, <3>1, IsHeld, OutcomeKeeps
    <3>2. CASE p \in Ended
      BY <1>0, <3>2 DEF HeldInv, ForceInv
    <3> QED
      BY <2>1, <3>1, <3>2
  <2> QED
    BY <1>0, <2>1, <2>2, <2>3, GoKeeps
<1>5. CASE ForceFetch(r)
  <2>1. UNCHANGED <<clock, published, retired, cache, failures>> /\ request[r] \in Held
    BY <1>5, ForceGoes DEF ForceFetch
  <2>2. PICK q \in Held : q = request[r] /\ q.pc = "force" /\ HeldInv(q, published, retired, clock)
    BY <1>5, ForceGoes, IsHeld
  <2>3. CASE /\ lastForced' = lastForced /\ sent' = sent
             /\ \E f \in Held, p \in Req :
                  /\ Go(r, p) /\ Outcome(f, cache.keys, p)
                  /\ f.pc = "force" /\ f.kid = q.kid /\ f.known = q.known /\ f.since = q.since
    <3>1. PICK f \in Held, p \in Req :
             /\ Go(r, p) /\ Outcome(f, cache.keys, p)
             /\ f.pc = "force" /\ f.kid = q.kid /\ f.known = q.known /\ f.since = q.since
      BY <2>3
    <3>3. HeldInv(f, published, retired, clock)
      BY <2>2, <3>1 DEF HeldInv
    <3>4. HeldInv(p, published, retired, clock) /\ ForceInv(p, cache, clock)
      BY <3>1, <3>3, OutcomeKeeps
    <3> QED
      BY <1>0, <2>1, <2>3, <3>1, <3>4, GoKeeps
  <2>4. CASE /\ lastForced' = clock /\ sent' = clock
             /\ \E p \in Held : /\ Go(r, p) /\ p.pc = "ask" /\ p.since = clock
                                /\ p.kid = q.kid /\ p.known = q.known
    <3>1. PICK p \in Held : /\ Go(r, p) /\ p.pc = "ask" /\ p.since = clock
                            /\ p.kid = q.kid /\ p.known = q.known
      BY <2>4
    <3>2. HeldInv(p, published, retired, clock) /\ ForceInv(p, cache, clock) /\ p \in Req
      BY <1>0, <2>2, <3>1 DEF HeldInv, ForceInv, Req
    <3> QED
      BY <1>0, <2>1, <2>4, <3>1, <3>2, GoKeeps
  <2> QED
    BY <1>5, <2>2, <2>3, <2>4, ForceGoes
<1> QED
  BY <1>1, <1>2, <1>3, <1>4, <1>5

LEMMA RotateKeeps ==
  ASSUME AccessInv, Rotate
  PROVE  AccessInv'
<1>1. /\ Newest \in published /\ (\A j \in published : j <= Newest) /\ published \in SUBSET KeyIds
  BY NewestIs DEF AccessInv, ProviderInv
<1>2. /\ Newest < MaxKey /\ published' = published \cup {Newest + 1}
      /\ UNCHANGED <<clock, retired, cache, lastForced, sent, request, failures>>
  BY DEF Rotate
<1>3. MaxKey \in Nat /\ Newest \in Nat /\ Newest + 1 \in KeyIds /\ KeyIds \subseteq Nat
  BY <1>1, <1>2, AccessAssumption DEF KeyIds
<1>4. ProviderInv'
  <2>1. \A j \in published' : j <= Newest + 1
    BY <1>1, <1>2, <1>3
  <2> QED
    BY <1>1, <1>2, <1>3, <2>1 DEF ProviderInv
<1>5. ASSUME NEW q, HeldInv(q, published, retired, clock)
      PROVE  HeldInv(q, published', retired, clock)
  <2>1. q \in Held /\ q.known => q.kid # Newest + 1
    <3>1. ASSUME q \in Held, q.known PROVE q.kid # Newest + 1
      <4>1. PICK k \in published : q.kid <= k
        BY <1>5, <3>1 DEF HeldInv
      <4>2. k <= Newest /\ k \in Nat
        BY <1>1, <1>3, <4>1
      <4>3. q.kid \in Nat
        BY <3>1, HeldKey
      <4> QED
        BY <1>3, <4>1, <4>2, <4>3
    <3> QED
      BY <3>1
  <2> QED
    BY <1>2, <1>5, <2>1 DEF HeldInv
<1>6. CacheInv(cache, published', retired, clock)
  BY <1>2 DEF AccessInv, CacheInv
<1> QED
  BY <1>2, <1>4, <1>5, <1>6 DEF AccessInv

LEMMA RetireKeeps ==
  ASSUME AccessInv, NEW x \in KeyIds, Retire(x)
  PROVE  AccessInv'
<1>0. clock \in Nat /\ retired \in [KeyIds -> Int] /\ Timeout \in Nat
  BY AccessAssumption DEF AccessInv
<1>1. /\ Newest \in published /\ (\A j \in published : j <= Newest) /\ published \in SUBSET KeyIds
  BY NewestIs DEF AccessInv, ProviderInv
<1>2. /\ x \in published /\ x # Newest /\ published' = published \ {x}
      /\ retired' = [retired EXCEPT ![x] = clock]
      /\ UNCHANGED <<clock, cache, lastForced, sent, request, failures>>
  BY DEF Retire
<1>3. ProviderInv'
  BY <1>1, <1>2 DEF ProviderInv
<1>4. /\ retired' \in [KeyIds -> Int] /\ retired'[x] = clock
      /\ \A k \in KeyIds : k # x => retired'[k] = retired[k]
  BY <1>0, <1>2
<1>5. ASSUME NEW q, HeldInv(q, published, retired, clock)
      PROVE  HeldInv(q, published', retired', clock)
  <2> SUFFICES ASSUME q \in Held PROVE HeldInv(q, published', retired', clock)
    BY DEF HeldInv
  <2>2. q.known => \E k \in published' : q.kid <= k
    <3>1. ASSUME q.known PROVE q.kid <= Newest
      <4>1. PICK k \in published : q.kid <= k
        BY <1>5, <3>1 DEF HeldInv
      <4>2. k <= Newest /\ k \in Nat /\ q.kid \in Nat /\ Newest \in Nat
        BY <1>1 DEF Held, KeyIds
      <4> QED
        BY <4>1, <4>2
    <3> QED
      BY <1>1, <1>2, <3>1
  <2>3. q.since <= clock /\ (q.pc # "force" => clock <= q.since + Timeout)
    BY <1>5 DEF HeldInv
  <2>4. q.pc = "landing" => /\ q.known /\ q.kid \in published' => q.kid \in q.keys
                            /\ \A k \in q.keys \ published' : q.since <= retired'[k]
    <3>1. q.keys \subseteq KeyIds
      BY DEF Held
    <3> QED
      BY <1>2, <1>4, <1>5, <2>3, <3>1 DEF HeldInv
  <2> QED
    BY <2>2, <2>3, <2>4 DEF HeldInv
<1>6. CacheInv(cache, published', retired', clock)
  <2>1. cache.at \in Int /\ cache.keys \subseteq KeyIds /\ CacheInv(cache, published, retired, clock)
    BY DEF AccessInv
  <2> QED
    BY <1>0, <1>2, <1>4, <2>1 DEF CacheInv
<1> QED
  BY <1>2, <1>3, <1>4, <1>5, <1>6 DEF AccessInv

LEMMA TickKeeps ==
  ASSUME AccessInv, TimePasses
  PROVE  AccessInv'
<1>0. clock \in Nat /\ clock + 1 \in Nat /\ Timeout \in Nat
  BY AccessAssumption DEF AccessInv
<1>1. /\ clock' = clock + 1
      /\ UNCHANGED <<published, retired, cache, lastForced, sent, request, failures>>
  BY DEF TimePasses
<1>2. CacheInv(cache, published, retired, clock')
  <2>1. cache.at \in Int /\ CacheInv(cache, published, retired, clock)
    BY DEF AccessInv
  <2> QED
    BY <1>0, <1>1, <2>1 DEF CacheInv
<1>3. ASSUME NEW r \in Requests
      PROVE  HeldInv(request[r], published, retired, clock') /\ ForceInv(request[r], cache, clock')
  <2> SUFFICES ASSUME request[r] \in Held
                 PROVE  HeldInv(request[r], published, retired, clock') /\ ForceInv(request[r], cache, clock')
    BY DEF HeldInv, ForceInv
  <2>2. request[r].pc # "force" /\ clock < request[r].since + Timeout /\ request[r].since \in Nat
    BY DEF TimePasses, Waiting, Held
  <2>3. HeldInv(request[r], published, retired, clock)
    BY DEF AccessInv
  <2>4. clock' <= request[r].since + Timeout /\ request[r].since <= clock'
    BY <1>0, <1>1, <2>2, <2>3 DEF HeldInv
  <2> QED
    BY <2>2, <2>3, <2>4 DEF HeldInv, ForceInv
<1> QED
  BY <1>0, <1>1, <1>2, <1>3 DEF AccessInv, ProviderInv

LEMMA NextAccess == AccessInv /\ [AccessNext]_accessVars => AccessInv'
<1> SUFFICES ASSUME AccessInv, [AccessNext]_accessVars PROVE AccessInv'
  OBVIOUS
<1>1. CASE AccessNext
  BY <1>1, RequestKeeps, RotateKeeps, RetireKeeps, TickKeeps DEF AccessNext
<1>2. CASE UNCHANGED accessVars
  BY <1>2 DEF accessVars, AccessInv, ProviderInv
<1> QED
  BY <1>1, <1>2

-----------------------------------------------------------------------------
(* How a step decides *)

\* Only the request that takes the step is decided.
LEMMA WhoDecides ==
  ASSUME AccessInv, AccessNext, NEW r \in Requests, NEW a, Decided(r, a)
  PROVE  Arrive(r) \/ Land(r) \/ Fail(r) \/ ForceFetch(r)
<1>1. request'[r] # request[r] /\ request'[r].pc = "done"
  BY DEF Decided
<1>2. ASSUME Rotate \/ TimePasses \/ \E k \in KeyIds : Retire(k) PROVE FALSE
  BY <1>1, <1>2 DEF Rotate, TimePasses, Retire
<1>3. ASSUME NEW s \in Requests, NEW p, Go(s, p) PROVE s = r /\ request'[r] = p
  BY <1>1, <1>3 DEF Go, AccessInv
<1>4. ASSUME NEW s \in Requests, Arrive(s) PROVE s = r
  BY <1>3, <1>4, ArriveGoes
<1>5. ASSUME NEW s \in Requests, Answer(s) PROVE FALSE
  BY <1>1, <1>3, <1>5, AnswerGoes
<1>6. ASSUME NEW s \in Requests, Land(s) PROVE s = r
  BY <1>3, <1>6, LandGoes
<1>7. ASSUME NEW s \in Requests, Fail(s) PROVE s = r
  BY <1>3, <1>7, FailGoes
<1>8. ASSUME NEW s \in Requests, ForceFetch(s) PROVE s = r
  BY <1>3, <1>8, ForceGoes
<1> QED
  BY <1>2, <1>4, <1>5, <1>6, <1>7, <1>8 DEF AccessNext

LEMMA GoneThere ==
  ASSUME AccessInv, NEW r \in Requests, NEW p, Go(r, p)
  PROVE  request'[r] = p
  BY DEF AccessInv, Go

-----------------------------------------------------------------------------
(* The verifier learns of a rotation, for any number of requests.          *)

\* Whoever is turned away with a good key was refused by the throttle.
LEMMA TurnedAwayOnlyWhenThrottled ==
  ASSUME AccessInv, AccessNext, NEW r \in Requests, Decided(r, "401"),
         request'[r].known, request'[r].kid \in published
  PROVE  clock - sent < Throttle
<1>0. Arrive(r) \/ Land(r) \/ Fail(r) \/ ForceFetch(r)
  BY WhoDecides
<1>1. request'[r] # request[r] /\ request'[r].pc = "done" /\ request'[r].answer = "401"
  BY DEF Decided
<1>2. ASSUME NEW q, NEW keys, NEW p, Outcome(q, keys, p), Go(r, p)
      PROVE  q.forced /\ q.kid \notin keys /\ q.kid = request'[r].kid /\ q.known = request'[r].known
  <2>1. request'[r] = p
    BY <1>2, GoneThere
  <2>2. p.pc = "done" /\ p.answer = "401"
    BY <1>1, <2>1
  <2> QED
    BY <1>2, <2>1, <2>2 DEF Outcome
<1>3. CASE Arrive(r)
  <2>1. PICK q \in Held :
           /\ q.pc = "ask" /\ ~q.forced
           /\ \/ Go(r, q)
              \/ \E p \in Req : Go(r, p) /\ Outcome(q, cache.keys, p)
    BY <1>3, ArriveGoes
  <2>2. ~Go(r, q)
    BY <1>1, <2>1, GoneThere
  <2> QED
    BY <1>2, <2>1, <2>2
<1>4. CASE Land(r)
  <2>1. PICK p \in Req : Go(r, p) /\ Outcome(request[r], request[r].keys, p)
    BY <1>4, LandGoes
  <2>2. PICK q \in Held : q = request[r] /\ q.pc = "landing" /\ HeldInv(q, published, retired, clock)
    BY <1>4, LandGoes, IsHeld
  <2>3. q.kid \notin q.keys /\ q.known /\ q.kid \in published
    BY <1>2, <2>1, <2>2
  <2> QED
    BY <2>2, <2>3 DEF HeldInv
<1>5. CASE Fail(r)
  <2>1. PICK p \in Req : /\ Go(r, p)
                         /\ \/ ~request[r].forced /\ Outcome(request[r], cache.keys, p)
                            \/ p \in Ended /\ p.answer = "503"
    BY <1>5, FailGoes
  <2>2. p.answer # "503"
    BY <1>1, <2>1, GoneThere
  <2> QED
    BY <1>2, <2>1, <2>2
<1>6. CASE ForceFetch(r)
  <2>1. \/ Throttled
        \/ \E p \in Held : Go(r, p) /\ p.pc = "ask"
    BY <1>6, ForceGoes
  <2>2. Throttled
    BY <1>1, <2>1, GoneThere
  <2> QED
    BY <2>2 DEF Throttled, AccessInv
<1> QED
  BY <1>0, <1>3, <1>4, <1>5, <1>6

\* For any number of requests, and every lifetime, throttle and timeout:
\* verify turns a token away whose key its provider has only while a forced
\* fetch was sent less than forced_min_interval ago.
THEOREM RotationLearned == AccessSpec => RotationIsLearned
<1>1. AccessInit => AccessInv
  BY InitAccess
<1>2. AccessInv /\ [AccessNext]_accessVars => AccessInv'
  BY NextAccess
<1>3. AccessInv /\ [AccessNext]_accessVars =>
        [\A r \in Requests :
           (Decided(r, "401") /\ request'[r].known /\ request'[r].kid \in published)
           => clock - sent < Throttle]_accessVars
  BY TurnedAwayOnlyWhenThrottled
<1> QED
  BY <1>1, <1>2, <1>3, PTL DEF AccessSpec, RotationIsLearned

-----------------------------------------------------------------------------
(* A retired key goes out. *)

LEMMA PassedOnlyForAWhile ==
  ASSUME AccessInv, AccessNext, NEW r \in Requests, Decided(r, "pass"),
         request'[r].kid \notin published, failures' = failures
  PROVE  clock - retired[request'[r].kid] < Ttl + Timeout
<1>0. Arrive(r) \/ Land(r) \/ Fail(r) \/ ForceFetch(r)
  BY WhoDecides
<1>1. request'[r] # request[r] /\ request'[r].pc = "done" /\ request'[r].answer = "pass"
  BY DEF Decided
<1>2. ASSUME NEW q, NEW keys, NEW p, Outcome(q, keys, p), Go(r, p)
      PROVE  q.kid \in keys /\ q.kid = request'[r].kid
  <2>1. request'[r] = p
    BY <1>2, GoneThere
  <2>2. p.pc = "done" /\ p.answer = "pass"
    BY <1>1, <2>1
  <2> QED
    BY <1>2, <2>1, <2>2 DEF Outcome
<1>3. /\ clock \in Nat /\ cache.at \in Int /\ cache.keys \subseteq KeyIds
      /\ retired \in [KeyIds -> Int] /\ Ttl \in Nat /\ Timeout \in Nat /\ 0 < Ttl
  BY AccessAssumption DEF AccessInv
<1>4. ASSUME request'[r].kid \in cache.keys, clock - cache.at < Ttl
      PROVE  clock - retired[request'[r].kid] < Ttl + Timeout
  <2>1. PICK k \in KeyIds : k = request'[r].kid /\ k \in cache.keys \ published
    BY <1>3, <1>4
  <2>2. cache.at - retired[k] <= Timeout /\ retired[k] \in Int
    BY <1>3, <2>1 DEF AccessInv, CacheInv
  <2>3. clock - retired[k] < Ttl + Timeout
    BY <1>3, <1>4, <2>2
  <2> QED
    BY <2>1, <2>3
<1>5. CASE Arrive(r)
  <2>1. PICK q \in Held :
           /\ q.pc = "ask"
           /\ \/ Go(r, q)
              \/ clock - cache.at < Ttl /\ \E p \in Req : Go(r, p) /\ Outcome(q, cache.keys, p)
    BY <1>5, ArriveGoes
  <2>2. ~Go(r, q)
    BY <1>1, <2>1, GoneThere
  <2> QED
    BY <1>2, <1>4, <2>1, <2>2
<1>6. CASE Land(r)
  <2>1. PICK p \in Req : Go(r, p) /\ Outcome(request[r], request[r].keys, p)
    BY <1>6, LandGoes
  <2>2. PICK q \in Held : q = request[r] /\ q.pc = "landing" /\ HeldInv(q, published, retired, clock)
    BY <1>6, LandGoes, IsHeld
  <2>3. PICK k : k = q.kid /\ k = request'[r].kid /\ k \in q.keys \ published
    BY <1>2, <2>1, <2>2
  <2>4. q.since \in Nat /\ clock <= q.since + Timeout /\ q.since <= retired[k] /\ k \in KeyIds
    BY <2>2, <2>3, HeldKey DEF HeldInv
  <2>5. clock - retired[k] < Ttl + Timeout
    BY <1>3, <2>4
  <2> QED
    BY <2>3, <2>5
<1>7. CASE Fail(r)
  <2>1. failures' = failures + 1 /\ failures \in Nat
    BY <1>7 DEF Fail, AccessInv
  <2> QED
    BY <2>1
<1>8. CASE ForceFetch(r)
  <2>1. \/ \E f \in Held, p \in Req : Go(r, p) /\ Outcome(f, cache.keys, p) /\ f.kid = request[r].kid
        \/ \E p \in Held : Go(r, p) /\ p.pc = "ask"
    BY <1>8, ForceGoes
  <2>2. PICK f \in Held, p \in Req : Go(r, p) /\ Outcome(f, cache.keys, p) /\ f.kid = request[r].kid
    BY <1>1, <2>1, GoneThere
  <2>3. f.kid \in cache.keys /\ f.kid = request'[r].kid
    BY <1>2, <2>2
  <2>4. clock - cache.at < Ttl
    BY <1>8, <2>2, <2>3, ForceGoes, IsHeld DEF ForceInv
  <2> QED
    BY <1>4, <2>3, <2>4
<1> QED
  BY <1>0, <1>5, <1>6, <1>7, <1>8

\* For any number of requests: unless a fetch fails, a token whose key the
\* provider has retired is accepted for less than JWKS_TTL and one timeout.
THEOREM RetiredGoOut == AccessSpec => RetiredKeysGoOut
<1>1. AccessInit => AccessInv
  BY InitAccess
<1>2. AccessInv /\ [AccessNext]_accessVars => AccessInv'
  BY NextAccess
<1>3. AccessInv /\ [AccessNext]_accessVars =>
        [\A r \in Requests :
           (Decided(r, "pass") /\ request'[r].kid \notin published /\ failures' = failures)
           => clock - retired[request'[r].kid] < Ttl + Timeout]_accessVars
  BY PassedOnlyForAWhile
<1> QED
  BY <1>1, <1>2, <1>3, PTL DEF AccessSpec, RetiredKeysGoOut

-----------------------------------------------------------------------------
(* What processes and agents are started with *)

LEMMA FilledKeys ==
  ASSUME NEW file
  PROVE  \E S : "data_dir" \in S /\ "bind" \in S /\ DOMAIN Filled(file) = S
  BY DEF Filled, Keys, Defaults

LEMMA DataOf ==
  ASSUME NEW file, NEW env
  PROVE  Config(file, env).data_dir = Given(env, "DATA_DIR", Filled(file).data_dir)
<1>1. PICK c, S : c = Filled(file) /\ "data_dir" \in S /\ "bind" \in S /\ DOMAIN c = S
  BY FilledKeys
<1>2. PICK d, b : d = Given(env, "DATA_DIR", c.data_dir) /\ b = Given(env, "BIND", c.bind)
  OBVIOUS
<1>3. Config(file, env) = [c EXCEPT !.data_dir = d, !.bind = b]
  BY <1>1, <1>2 DEF Config
<1>5. QED
  BY <1>1, <1>2, <1>3

LEMMA FrontOf ==
  ASSUME NEW S, NEW s \in Seq(S), NEW x \in S
  PROVE Front(s \o <<x>>) = s /\ s \o <<x>> \in Seq(S) /\ s \o <<x>> # <<>>
<1>1. Front(s \o <<x>>) = s
  BY SMTT(30) DEF Front
<1>2. s \o <<x>> \in Seq(S)
  OBVIOUS
<1>3. s \o <<x>> # <<>>
  OBVIOUS
<1> QED
  BY <1>1, <1>2, <1>3

LEMMA JoinTwo ==
  ASSUME NEW S, NEW s \in Seq(S), NEW x \in S, NEW y \in S
  PROVE  s \o <<x, y>> = (s \o <<x>>) \o <<y>>
<1>1. <<x>> \in Seq(S) /\ <<y>> \in Seq(S)
  OBVIOUS
<1>2. <<x>> \o <<y>> = <<x, y>>
  <2>1. PICK p, q : p = <<x>> \o <<y>> /\ q = <<x, y>>
    OBVIOUS
  <2>2. p \in Seq(S) /\ Len(p) = 2 /\ p[1] = x /\ p[2] = y
    BY <1>1, <2>1, ConcatProperties
  <2>3. q \in Seq(S) /\ Len(q) = 2 /\ q[1] = x /\ q[2] = y
    BY <2>1
  <2>4. \A i \in 1..Len(p) : p[i] = q[i]
    BY <2>2, <2>3
  <2>5. Len(p) = Len(q) /\ p = q
    BY <2>2, <2>3, <2>4, SeqEqual
  <2> QED
    BY <2>1, <2>5
<1>3. (s \o <<x>>) \o <<y>> = s \o (<<x>> \o <<y>>)
  BY <1>1, ConcatAssociative
<1> QED
  BY <1>2, <1>3

\* What joining two paths makes.
LEMMA UnderIsPath ==
  ASSUME NEW d \in Path, NEW p \in Path
  PROVE  Under(d, p) \in Path
<1>1. CASE p.abs
  BY <1>1 DEF Under
<1>2. CASE ~p.abs
  <2>1. d.names \in Seq(Name) /\ p.names \in Seq(Name)
    BY DEF Path
  <2>2. d.names \o p.names \in Seq(Name)
    BY <2>1
  <2>3. PICK n : n = d.names \o p.names
    OBVIOUS
  <2>4. Under(d, p) = [d EXCEPT !.names = n]
    BY <1>2, <2>3 DEF Under
  <2> QED
    BY <2>2, <2>3, <2>4 DEF Path
<1> QED
  BY <1>1, <1>2

LEMMA UnderRel ==
  ASSUME NEW d \in Path, NEW p \in Path, ~p.abs
  PROVE  Under(d, p) = [abs |-> d.abs, names |-> d.names \o p.names]
<1>1. PICK n : n = d.names \o p.names
  OBVIOUS
<1>2. Under(d, p) = [d EXCEPT !.names = n]
  BY <1>1 DEF Under
<1>3. [d EXCEPT !.names = n] = [abs |-> d.abs, names |-> n]
  BY DEF Path
<1> QED
  BY <1>1, <1>2, <1>3

Joins(u, d, p) == u = Under(d, p)

LEMMA RelJoin ==
  ASSUME NEW d \in Path, NEW p \in Path, ~p.abs, NEW u, Joins(u, d, p)
  PROVE  /\ u \in Path /\ u.names = d.names \o p.names
         /\ d.abs => u.abs
         /\ ~d.abs => ~u.abs
<1>1. u = [abs |-> d.abs, names |-> d.names \o p.names]
  BY UnderRel DEF Joins
<1>2. u.names = d.names \o p.names
  BY <1>1
<1>3. u.abs = d.abs
  BY <1>1
<1>4. u \in Path
  BY UnderIsPath DEF Joins
<1> QED
  BY <1>2, <1>3, <1>4

LEMMA UnderAbs ==
  ASSUME NEW d, NEW p, p.abs
  PROVE  Under(d, p) = p
  BY DEF Under

\* Two names below a directory, and back.
LEMMA TwoDown ==
  ASSUME NEW d \in Path, NEW x \in Name, NEW y \in Name
  PROVE  LET p == Under(d, Rel(<<x, y>>))
             q == Under(d, Rel(<<x>>))
         IN  /\ p \in Path /\ p.abs = d.abs
             /\ q \in Path /\ q.abs = d.abs
             /\ Parent(p) = q /\ Parent(q) = d
             /\ File(q, y) = p
<1> DEFINE p == Under(d, Rel(<<x, y>>))
           q == Under(d, Rel(<<x>>))
<1>1. PICK n : n \in Seq(Name) /\ n = d.names /\ d.abs \in BOOLEAN /\ d = [abs |-> d.abs, names |-> n]
  BY DEF Path
<1>2. \A z \in Name : /\ Rel(<<z>>) \in Path /\ ~Rel(<<z>>).abs
                        /\ Rel(<<z>>).names = <<z>>
  <2> SUFFICES ASSUME NEW S, NEW z \in S PROVE <<z>> \in Seq(S)
    BY DEF Path, Rel
  <2> QED
    OBVIOUS
<1>3. Rel(<<x, y>>) \in Path /\ ~Rel(<<x, y>>).abs /\ Rel(<<x, y>>).names = <<x, y>>
  <2> SUFFICES ASSUME NEW S, NEW v \in S, NEW w \in S PROVE <<v, w>> \in Seq(S)
    BY DEF Path, Rel
  <2> QED
    OBVIOUS
<1>0. n \o <<x, y>> = (n \o <<x>>) \o <<y>>
  <2> SUFFICES ASSUME NEW S, NEW s \in Seq(S), NEW v \in S, NEW w \in S
               PROVE  s \o <<v, w>> = (s \o <<v>>) \o <<w>>
    BY <1>1
  <2> QED
    BY JoinTwo
<1> HIDE DEF p, q
<1>4. q = [abs |-> d.abs, names |-> n \o <<x>>] /\ q \in Path
  <2>1. PICK r \in Path : r = Rel(<<x>>) /\ ~r.abs /\ r.names = <<x>>
    BY <1>2
  <2>2. q = Under(d, r)
    BY <2>1 DEF q
  <2>3. q \in Path
    BY <2>2, UnderIsPath
  <2>4. q = [abs |-> d.abs, names |-> d.names \o r.names]
    BY <2>1, <2>2, UnderRel
  <2> QED
    BY <1>1, <2>1, <2>3, <2>4
<1>5. p = [abs |-> d.abs, names |-> n \o <<x, y>>] /\ p \in Path
  <2>1. PICK r \in Path : r = Rel(<<x, y>>) /\ ~r.abs /\ r.names = <<x, y>>
    BY <1>3
  <2>2. p = Under(d, r)
    BY <2>1 DEF p
  <2>3. p \in Path
    BY <2>2, UnderIsPath
  <2>4. p = [abs |-> d.abs, names |-> d.names \o r.names]
    BY <2>1, <2>2, UnderRel
  <2> QED
    BY <1>1, <2>1, <2>3, <2>4
<1>6. Parent(q) = d
  <2>1. q.names # <<>> /\ Front(q.names) = n
    BY <1>1, <1>4, FrontOf
  <2>2. Parent(q) = [q EXCEPT !.names = n]
    BY <2>1 DEF Parent
  <2> QED
    BY <1>1, <1>4, <2>2
<1>7. Parent(p) = q
  <2>1. n \o <<x>> \in Seq(Name)
    BY <1>1, FrontOf
  <2>2. p.names # <<>> /\ Front(p.names) = n \o <<x>>
    <3>1. PICK m \in Seq(Name) : m = n \o <<x>> /\ p.names = m \o <<y>>
      BY <1>0, <1>5, <2>1
    <3>2. Front(m \o <<y>>) = m /\ m \o <<y>> # <<>>
      BY FrontOf
    <3> QED
      BY <3>1, <3>2
  <2>3. Parent(p) = [p EXCEPT !.names = n \o <<x>>]
    BY <2>2 DEF Parent
  <2> QED
    BY <1>4, <1>5, <2>3
<1>8. File(q, y) = p
  <2>1. PICK r \in Path : r = Rel(<<y>>) /\ ~r.abs /\ r.names = <<y>>
    BY <1>2
  <2>2. Under(q, r) = [abs |-> q.abs, names |-> q.names \o r.names]
    BY <1>4, <2>1, UnderIsPath, UnderRel
  <2>3. q.abs = d.abs /\ q.names = n \o <<x>>
    BY <1>4
  <2>4. Under(q, r) = [abs |-> d.abs, names |-> (n \o <<x>>) \o <<y>>]
    BY <2>1, <2>2, <2>3
  <2> QED
    BY <1>0, <1>5, <2>1, <2>4 DEF File
<1>9. q.abs = d.abs /\ p.abs = d.abs
  BY <1>4, <1>5
<1> QED
  BY <1>4, <1>5, <1>6, <1>7, <1>8, <1>9 DEF p, q

LEMMA FileBelow ==
  ASSUME NEW d \in Path, NEW x \in Name, NEW y \in Name
  PROVE  File(Under(d, Rel(<<x>>)), y) = Under(d, Rel(<<x, y>>))
BY TwoDown

\* Everything is named from a file two names below the project.
Named(s, d, x, y, data) ==
  /\ s.config = Under(d, Rel(<<x, y>>)) /\ s.data = data
  /\ s.feeds = File(Under(d, Rel(<<x>>)), "feeds.toml")
  /\ s.topics = File(Under(d, Rel(<<x>>)), "topics.toml")
  /\ s.template = File(Under(d, Rel(<<x>>)), "mcp.json")
  /\ \A r \in Roles : /\ s.prompt[r] = Under(d, Rel(<<"prompts", r>>))
                           /\ s.schema[r] = Under(d, Rel(<<"schemas", r>>))

LEMMA PathsFrom ==
  ASSUME NEW d \in Path, NEW x \in Name, NEW y \in Name, NEW data
  PROVE  Named(Paths(Under(d, Rel(<<x, y>>)), data), d, x, y, data)
<1>1. PICK c, q : /\ c = Under(d, Rel(<<x, y>>)) /\ q = Under(d, Rel(<<x>>))
                  /\ Parent(c) = q /\ Parent(q) = d
  BY TwoDown
<1>2. PICK s : s = Paths(c, data)
  OBVIOUS
<1>3. /\ s.config = c /\ s.data = data
      /\ s.feeds = File(q, "feeds.toml") /\ s.topics = File(q, "topics.toml")
      /\ s.template = File(q, "mcp.json")
  BY <1>1, <1>2 DEF Paths
<1>4. \A r \in Roles : /\ s.prompt[r] = Under(d, Rel(<<"prompts", r>>))
                            /\ s.schema[r] = Under(d, Rel(<<"schemas", r>>))
  BY <1>1, <1>2 DEF Paths
<1> QED
  BY <1>1, <1>2, <1>3, <1>4 DEF Named

\* The files that are there all lie two names below the project.
LEMMA CommittedFiles ==
  /\ \A v \in Committed : \E x, y \in Name : v = Under(Project, Rel(<<x, y>>))
  /\ \A r \in Roles : Under(Project, Rel(<<"prompts", r>>)) \in Committed
<1> DEFINE Below(x, y) == Under(Project, Rel(<<x, y>>))
<1>0. /\ {"config", "config.toml", "feeds.toml", "topics.toml", "mcp.json", "prompts", "schemas",
          "editor", "curator"} \subseteq Name
      /\ Project \in Path
  BY PlaceAssumption, NameAssumption DEF Roles
<1>1. PICK h : h = Here
  OBVIOUS
<1>2. /\ h.config = Below("config", "config.toml")
      /\ h.feeds = File(Under(Project, Rel(<<"config">>)), "feeds.toml")
      /\ h.topics = File(Under(Project, Rel(<<"config">>)), "topics.toml")
      /\ h.template = File(Under(Project, Rel(<<"config">>)), "mcp.json")
      /\ \A r \in Roles : h.prompt[r] = Below("prompts", r) /\ h.schema[r] = Below("schemas", r)
  <2>1. "config" \in Name /\ "config.toml" \in Name
    BY <1>0
  <2>2. Named(h, Project, "config", "config.toml", Dot)
    BY <1>0, <1>1, <2>1, PathsFrom DEF Here
  <2> QED
    BY <2>2 DEF Named
<1>3. ASSUME NEW y \in Name
      PROVE  File(Under(Project, Rel(<<"config">>)), y) = Below("config", y)
  <2>1. "config" \in Name /\ Project \in Path
    BY <1>0
  <2> QED
    BY <2>1, FileBelow
<1>4. /\ h.feeds = Below("config", "feeds.toml") /\ h.topics = Below("config", "topics.toml")
      /\ h.template = Below("config", "mcp.json")
  <2>1. "feeds.toml" \in Name /\ "topics.toml" \in Name /\ "mcp.json" \in Name
    BY <1>0
  <2> QED
    BY <1>2, <1>3, <2>1
<1>5. "editor" \in Roles /\ "curator" \in Roles
  BY DEF Roles
<1>6. Committed = {h.config, h.feeds, h.topics, h.template, h.prompt["editor"], h.prompt["curator"],
                        h.schema["editor"], h.schema["curator"]}
  BY <1>1 DEF Committed
<1> HIDE DEF Below
<1>7. Committed = {Below("config", "config.toml"), Below("config", "feeds.toml"), Below("config", "topics.toml"),
                        Below("config", "mcp.json"), Below("prompts", "editor"), Below("prompts", "curator"),
                        Below("schemas", "editor"), Below("schemas", "curator")}
  BY <1>2, <1>4, <1>5, <1>6
<1>8. ASSUME NEW v \in Committed PROVE \E x, y \in Name : v = Below(x, y)
  BY <1>0, <1>7
<1>9. \A r \in Roles : Below("prompts", r) \in Committed
  BY <1>7 DEF Roles
<1> QED
  BY <1>8, <1>9 DEF Below

-----------------------------------------------------------------------------

\* The paths of a process are those under its data directory.
Keeps(s, data) ==
  /\ s.paths = Paths(ConfigPath(s.env), data)
  /\ "DATA_DIR" \in DOMAIN s.env => data = s.env["DATA_DIR"]

\* What a process that is up has loaded, and what it was given.
Loaded(s) ==
  s.pc = "up" =>
    /\ s.cmd \in Commands /\ s.env \in Environments /\ s.dir \in Dirs
    /\ \E data \in Path : Keeps(s, data)
    /\ s.cmd.verb \in {"run", "curate"} => Overrides(s.dir, s.cmd.prompt)

\* A server works for the run of its agent.
ServesOwn(p) ==
  agent[p].pc = "serving" =>
    /\ agent[p].serves = agent[p].run /\ agent[p].as = agent[p].role
    /\ agent[p].answered \subseteq Offers(agent[p].role)
    /\ agent[p].database = DatabaseOf(p)

\* An agent was started as its process says, with some id and a role.
Employed(p) ==
  agent[p] # NoAgent =>
    /\ proc[p].pc = "up" /\ proc[p].cmd.verb \in Runners
    /\ agent[p].pc = "started" =>
         \E id \in Name \ {""}, role \in Roles : agent[p] = Started(p, id, role)
    /\ ServesOwn(p)

LaunchInv ==
  /\ DOMAIN proc = Processes /\ DOMAIN agent = Processes
  /\ disk \in Files /\ runs \in Nat
  /\ \A p \in Processes : Loaded(proc[p]) /\ Employed(p)

LEMMA RelPath ==
  ASSUME NEW x \in Name
  PROVE  /\ Rel(<<x>>) \in Path /\ ~Rel(<<x>>).abs /\ Rel(<<x>>).names = <<x>>
         /\ \A y \in Name : Rel(<<x, y>>) \in Path /\ ~Rel(<<x, y>>).abs
<1> SUFFICES ASSUME NEW S, NEW v \in S PROVE <<v>> \in Seq(S) /\ \A w \in S : <<v, w>> \in Seq(S)
  BY DEF Path, Rel
<1> QED
  OBVIOUS

\* When the agent's directory and its process's name the same mcp.json, they
\* name the same database: the data directory is absolute.
LEMMA Lengths ==
  ASSUME NEW s \in Seq(Name), NEW t \in Seq(Name)
  PROVE  Len(s) \in Nat /\ Len(s \o t) = Len(s) + Len(t)
  OBVIOUS

LEMMA SameFiles ==
  ASSUME {"runs", "mcp.json"} \subseteq Name, NEW dir \in Path, NEW data \in Path, NEW id \in Name,
         NEW run, Joins(run, data, Rel(<<"runs", id>>)),
         NEW f, Joins(f, run, Rel(<<"mcp.json">>)),
         NEW d, Joins(d, dir, run),
         NEW w, Joins(w, d, f), Joins(w, dir, f)
  PROVE  data.abs
<1>0. "runs" \in Name /\ "mcp.json" \in Name
  OBVIOUS
<1>1. SUFFICES ASSUME ~data.abs PROVE FALSE
  OBVIOUS
<1>2. PICK r \in Path : Joins(run, data, r) /\ ~r.abs /\ Len(r.names) = 2
  BY <1>0, RelPath DEF Rel
<1>3. run \in Path /\ ~run.abs /\ run.names = data.names \o r.names
  BY <1>1, <1>2, RelJoin
<1>4. PICK m \in Path : Joins(f, run, m) /\ ~m.abs
  BY <1>0, RelPath
<1>5. f \in Path /\ ~f.abs
  BY <1>3, <1>4, RelJoin
<1>6. d \in Path /\ d.names = dir.names \o run.names
  BY <1>3, RelJoin
<1>7. w.names = d.names \o f.names /\ w.names = dir.names \o f.names
  BY <1>5, <1>6, RelJoin
<1>8. /\ dir.names \in Seq(Name) /\ data.names \in Seq(Name) /\ run.names \in Seq(Name)
      /\ d.names \in Seq(Name) /\ r.names \in Seq(Name) /\ f.names \in Seq(Name)
  BY <1>2, <1>3, <1>5, <1>6 DEF Path
<1>10. PICK x, y, z, k : /\ x = Len(dir.names) /\ y = Len(run.names) /\ z = Len(f.names) /\ k = Len(data.names)
                         /\ x \in Nat /\ y \in Nat /\ z \in Nat /\ k \in Nat
  BY <1>8, Lengths
<1>11. y = k + 2
  <2>1. Len(data.names \o r.names) = Len(data.names) + Len(r.names)
    BY <1>8, Lengths
  <2> QED
    BY <1>2, <1>3, <1>10, <2>1
<1>12. Len(d.names) = x + y
  BY <1>6, <1>8, <1>10, Lengths
<1>13. Len(w.names) = x + y + z
  BY <1>7, <1>8, <1>10, Lengths, <1>12
<1>14. Len(w.names) = x + z
  BY <1>7, <1>8, <1>10, Lengths
<1> QED
  <2>1. x + y + z = x + z
    BY <1>13, <1>14
  <2>2. x \in Nat /\ y \in Nat /\ z \in Nat /\ k \in Nat
    BY <1>10
  <2> QED
    BY <1>11, <2>1, <2>2

\* What the tool server's environment says: the run's four variables, and what
\* the process handed on.
EnvOf(e, p, id, role) ==
  /\ DOMAIN e = {"RUN_ID", "RUN_ROLE", "CONFIG", "DATA_DIR"} \cup (DOMAIN proc[p].env \cap Inherited)
  /\ e["RUN_ID"] = id /\ e["RUN_ROLE"] = role
  /\ e["CONFIG"] = proc[p].paths.config /\ e["DATA_DIR"] = proc[p].paths.data
  /\ \A v \in (DOMAIN proc[p].env \cap Inherited) \ {"RUN_ID", "RUN_ROLE", "CONFIG", "DATA_DIR"} :
       e[v] = proc[p].env[v]

LEMMA ServerEnvOf ==
  ASSUME NEW p, NEW id, NEW role
  PROVE  EnvOf(ServerEnv(Started(p, id, role)), p, id, role)
<1>1. PICK a : a = Started(p, id, role) /\ a.mcpEnv = McpEnv(p, id, role)
                 /\ a.env = Scrubbed(proc[p].env)
  <2>1. /\ Started(p, id, role).mcpEnv = McpEnv(p, id, role)
        /\ Started(p, id, role).env = Scrubbed(proc[p].env)
    BY DEF Started
  <2> QED
    BY <2>1
<1>2. PICK m : m = a.mcpEnv /\ DOMAIN m = {"RUN_ID", "RUN_ROLE", "CONFIG", "DATA_DIR"}
               /\ m["RUN_ID"] = id /\ m["RUN_ROLE"] = role
               /\ m["CONFIG"] = proc[p].paths.config /\ m["DATA_DIR"] = proc[p].paths.data
  BY <1>1 DEF McpEnv
<1>3. PICK s : s = a.env /\ DOMAIN s = DOMAIN proc[p].env \cap Inherited
               /\ \A v \in DOMAIN s : s[v] = proc[p].env[v]
  BY <1>1 DEF Scrubbed
<1>4. PICK e : /\ e = ServerEnv(a)
               /\ e = [v \in DOMAIN m \cup DOMAIN s |-> IF v \in DOMAIN m THEN m[v] ELSE s[v]]
  BY <1>2, <1>3 DEF ServerEnv
<1>5. EnvOf(e, p, id, role)
  BY <1>2, <1>3, <1>4 DEF EnvOf
<1> QED
  BY <1>1, <1>4, <1>5

\* Whatever a process is started for, config.toml is read; run and curate look
\* for the files they were given.
LEMMA AcceptsMeans ==
  ASSUME NEW cmd, NEW env, NEW dir, Accepts(cmd, env, dir)
  PROVE  /\ Parses(disk.config)
         /\ cmd.verb \in {"run", "curate"} => Overrides(dir, cmd.prompt)
<1>1. LoadsConfig(env, dir)
  BY DEF Accepts, LoadsAll
<1>2. ASSUME cmd.verb \in {"run", "curate"} PROVE Overrides(dir, cmd.prompt)
  <2>1. cmd.verb \notin {"migrate", "prune"} /\ cmd.verb # "mcp"
    BY <1>2
  <2> QED
    BY <1>2, <2>1 DEF Accepts
<1> QED
  BY <1>1, <1>2 DEF LoadsConfig

LEMMA StartLoads ==
  ASSUME disk \in Files,
         NEW cmd \in Commands, NEW env \in Environments, NEW dir \in Dirs, Accepts(cmd, env, dir),
         NEW s, s = [pc |-> "up", cmd |-> cmd, env |-> env, dir |-> dir, paths |-> PathsFor(env)]
  PROVE  Loaded(s)
<1>1. PICK data : data = Given(env, "DATA_DIR", Filled(disk.config).data_dir)
  OBVIOUS
<1>2. PathsFor(env) = Paths(ConfigPath(env), data)
  BY <1>1, DataOf DEF PathsFor
<1>3. "DATA_DIR" \in DOMAIN env => data = env["DATA_DIR"]
  BY <1>1 DEF Given
<1>4. data \in Path
  <2>1. CASE "DATA_DIR" \in DOMAIN env
    <3>1. "DATA_DIR" \in PathVars \cap DOMAIN env
      BY <2>1 DEF PathVars
    <3>2. env["DATA_DIR"] \in Path
      BY <3>1, PathAssumption
    <3> QED
      BY <1>3, <2>1, <3>2
  <2>2. CASE "DATA_DIR" \notin DOMAIN env
    <3>1. data = Filled(disk.config).data_dir
      BY <1>1, <2>2 DEF Given
    <3>2. Filled(disk.config).data_dir \in Path
      BY AcceptsMeans, PathAssumption
    <3> QED
      BY <3>1, <3>2
  <2> QED
    BY <2>1, <2>2
<1>5. s.cmd = cmd /\ s.env = env /\ s.dir = dir /\ s.paths = PathsFor(env)
  OBVIOUS
<1>6. Keeps(s, data)
  BY <1>2, <1>3, <1>5 DEF Keeps
<1> QED
  BY <1>4, <1>5, <1>6, AcceptsMeans, Zenon DEF Loaded

\* What an agent has been given depends on its own process only.
LEMMA SameProcess ==
  ASSUME NEW p, proc'[p] = proc[p]
  PROVE  /\ \A id, role : Started(p, id, role)' = Started(p, id, role)
         /\ DatabaseOf(p)' = DatabaseOf(p)
  BY DEF Started, Argv, McpEnv, DatabaseOf

LEMMA StaysEmployed ==
  ASSUME NEW p, proc'[p] = proc[p], agent'[p] = agent[p], Employed(p)
  PROVE  Employed(p)'
  BY SameProcess DEF Employed, ServesOwn

LEMMA InitLaunch == LaunchInit => LaunchInv
<1> SUFFICES ASSUME LaunchInit PROVE LaunchInv
  OBVIOUS
<1>1. \A p \in Processes : proc[p].pc # "up" /\ agent[p] = NoAgent
  BY DEF LaunchInit, Off
<1>2. DOMAIN proc = Processes /\ DOMAIN agent = Processes /\ disk \in Files /\ runs \in Nat
  BY DEF LaunchInit
<1> QED
  BY <1>1, <1>2 DEF LaunchInv, Loaded, Employed

At(s, c, data) == s.config = c /\ s.data = data

LEMMA PathsData ==
  ASSUME NEW c, NEW data
  PROVE  At(Paths(c, data), c, data)
  BY DEF At, Paths

\* The server's environment leads it back to the run and to its data.
LeadsBack(e, p, id, role) ==
  /\ e["RUN_ID"] = id /\ RoleFrom(e) = role
  /\ Under(agent[p].dir, Database(PathsFor(e))) = DatabaseOf(p)

LEMMA StartsRight ==
  ASSUME NEW p \in Processes, Loaded(proc[p]), proc[p].pc = "up",
         NEW id \in Name, NEW role, agent[p] = Started(p, id, role), Finds(p)
  PROVE  LeadsBack(ServerEnv(agent[p]), p, id, role)
<1>0. {"runs", "mcp.json", "brief.db"} \subseteq Name /\ \A d \in Dirs : d \in Path /\ d.abs
  BY PlaceAssumption, NameAssumption
<1>1. PICK data \in Path : proc[p].paths = Paths(ConfigPath(proc[p].env), data)
  <2>1. \E data \in Path : Keeps(proc[p], data)
    BY Zenon DEF Loaded
  <2> QED
    BY <2>1, Zenon DEF Keeps
<1>2. proc[p].paths.data = data
  <2>1. At(proc[p].paths, ConfigPath(proc[p].env), data)
    BY <1>1, PathsData
  <2> QED
    BY <2>1 DEF At
<1>3. PICK dir \in Path : dir = proc[p].dir
  BY <1>0 DEF Loaded
<1>4. PICK run : run = Under(data, Rel(<<"runs", id>>)) /\ Joins(run, data, Rel(<<"runs", id>>))
  BY DEF Joins
<1>5. RunDir(proc[p].paths, id) = run
  BY <1>2, <1>4 DEF RunDir
<1>6. agent[p].dir = Under(dir, run) /\ agent[p].argv.mcp = File(run, "mcp.json")
  <2>0. /\ Started(p, id, role).dir = Under(proc[p].dir, RunDir(proc[p].paths, id))
        /\ Started(p, id, role).argv = Argv(p, RunDir(proc[p].paths, id), role)
    BY DEF Started
  <2>1. agent[p].dir = Under(proc[p].dir, run) /\ agent[p].argv = Argv(p, run, role)
    BY <1>5, <2>0
  <2>2. Argv(p, run, role).mcp = File(run, "mcp.json")
    BY DEF Argv
  <2> QED
    BY <1>3, <2>1, <2>2
<1>7. data.abs
  <2>1. Under(agent[p].dir, agent[p].argv.mcp) = Under(dir, agent[p].argv.mcp)
    BY <1>3 DEF Finds
  <2>2. PICK f : Joins(f, run, Rel(<<"mcp.json">>)) /\ agent[p].argv.mcp = f
    BY <1>6 DEF File, Joins
  <2>3. PICK d : Joins(d, dir, run) /\ agent[p].dir = d
    BY <1>6 DEF Joins
  <2>4. PICK w : Joins(w, d, f) /\ Joins(w, dir, f)
    BY <2>1, <2>2, <2>3 DEF Joins
  <2> QED
    BY <1>0, <1>4, <2>2, <2>3, <2>4, SameFiles
<1>e. PICK e : e = ServerEnv(agent[p])
  OBVIOUS
<1>8. e["RUN_ID"] = id /\ e["RUN_ROLE"] = role /\ e["DATA_DIR"] = data
      /\ "RUN_ROLE" \in DOMAIN e /\ "DATA_DIR" \in DOMAIN e
  <2>1. EnvOf(e, p, id, role)
    BY <1>e, ServerEnvOf
  <2> QED
    BY <1>2, <2>1 DEF EnvOf
<1>9. RoleFrom(e) = role
  BY <1>8 DEF RoleFrom, Given
<1>10. Config(disk.config, e).data_dir = data
  BY <1>8, DataOf DEF Given
<1>11. Database(PathsFor(e)) = File(data, "brief.db") /\ Database(proc[p].paths) = File(data, "brief.db")
  <2>1. PathsFor(e).data = data
    BY <1>10 DEF PathsFor, Paths
  <2> QED
    BY <1>2, <2>1 DEF Database
<1>12. PICK b : b = File(data, "brief.db") /\ b.abs
  <2>1. PICK m \in Path : m = Rel(<<"brief.db">>) /\ ~m.abs
    BY <1>0, RelPath
  <2>2. PICK b : b = File(data, "brief.db") /\ Joins(b, data, m)
    BY <2>1 DEF Joins, File
  <2> QED
    BY <1>7, <2>1, <2>2, RelJoin
<1>13. Under(agent[p].dir, b) = b /\ Under(proc[p].dir, b) = b
  BY <1>12, UnderAbs
<1> QED
  BY <1>e, <1>8, <1>9, <1>11, <1>12, <1>13 DEF DatabaseOf, LeadsBack

\* Only process p moves.
Moves(p) ==
  /\ DOMAIN proc' = Processes /\ DOMAIN agent' = Processes
  /\ \A q \in Processes \ {p} : proc'[q] = proc[q] /\ agent'[q] = agent[q]

LEMMA OneMoves ==
  ASSUME LaunchInv, NEW p \in Processes, Moves(p),
         disk' = disk, runs' \in Nat, Loaded(proc'[p]), Employed(p)'
  PROVE  LaunchInv'
<1>1. ASSUME NEW q \in Processes PROVE Loaded(proc[q])' /\ Employed(q)'
  <2>1. CASE q = p
    BY <2>1 DEF Loaded
  <2>2. CASE q # p
    <3>1. proc'[q] = proc[q] /\ agent'[q] = agent[q]
      BY <2>2 DEF Moves
    <3> QED
      BY <3>1, StaysEmployed DEF LaunchInv, Loaded
  <2> QED
    BY <2>1, <2>2
<1> QED
  BY <1>1 DEF LaunchInv, Moves

LEMMA StartKeeps ==
  ASSUME LaunchInv, NEW p \in Processes, Start(p)
  PROVE  LaunchInv'
<1>1. PICK cmd \in Commands, env \in Environments, dir \in Dirs :
        proc' = [proc EXCEPT ![p] =
          IF Accepts(cmd, env, dir)
            THEN [pc |-> "up", cmd |-> cmd, env |-> env, dir |-> dir, paths |-> PathsFor(env)]
            ELSE [pc |-> "refused"]]
  BY DEF Start
<1>2. PICK P : /\ proc' = [proc EXCEPT ![p] = P]
               /\ P = IF Accepts(cmd, env, dir)
                        THEN [pc |-> "up", cmd |-> cmd, env |-> env, dir |-> dir, paths |-> PathsFor(env)]
                        ELSE [pc |-> "refused"]
  BY <1>1
<1>3. Loaded(P)
  <2>1. CASE Accepts(cmd, env, dir)
    BY <1>2, <2>1, StartLoads DEF LaunchInv
  <2>2. CASE ~Accepts(cmd, env, dir)
    BY <1>2, <2>2 DEF Loaded
  <2> QED
    BY <2>1, <2>2
<1>4. agent[p] = NoAgent
  <2>1. proc[p].pc # "up"
    BY DEF Start, Off
  <2> QED
    BY <2>1 DEF LaunchInv, Employed
<1>5. UNCHANGED <<disk, agent, runs>>
  BY DEF Start
<1>6. Moves(p) /\ proc'[p] = P
  BY <1>2, <1>5 DEF Moves, LaunchInv
<1>7. Employed(p)'
  BY <1>4, <1>5 DEF Employed
<1> QED
  BY <1>3, <1>5, <1>6, <1>7, OneMoves DEF LaunchInv

LEMMA StopKeeps ==
  ASSUME LaunchInv, NEW p \in Processes, Stop(p)
  PROVE  LaunchInv'
<1>1. /\ proc' = [proc EXCEPT ![p] = Off] /\ agent' = [agent EXCEPT ![p] = NoAgent]
      /\ UNCHANGED <<disk, runs>>
  BY DEF Stop
<1>2. Moves(p) /\ proc'[p] = Off /\ agent'[p] = NoAgent
  BY <1>1 DEF Moves, LaunchInv
<1>3. Loaded(proc'[p]) /\ Employed(p)'
  BY <1>2 DEF Loaded, Off, Employed
<1> QED
  BY <1>1, <1>2, <1>3, OneMoves DEF LaunchInv

LEMMA ElementAt ==
  ASSUME NEW S, NEW s \in Seq(S), NEW n \in Nat, n < Len(s)
  PROVE  s[n + 1] \in S
  OBVIOUS

LEMMA NextId ==
  ASSUME runs \in Nat, runs < Len(RunIds)
  PROVE  RunIds[runs + 1] \in Name \ {""}
<1>1. RunIds \in Seq(Name \ {""})
  BY NameAssumption
<1> QED
  BY <1>1, ElementAt

LEMMA OneMore ==
  ASSUME NEW n \in Nat
  PROVE  n + 1 \in Nat
  OBVIOUS

LEMMA BeginKeeps ==
  ASSUME LaunchInv, NEW p \in Processes, Begin(p)
  PROVE  LaunchInv'
<1>1. PICK role \in RolesOf(p) :
        agent' = [agent EXCEPT ![p] = Started(p, RunIds[runs + 1], role)]
  BY DEF Begin
<1>2. /\ proc[p].pc = "up" /\ proc[p].cmd.verb \in Runners
      /\ runs < Len(RunIds) /\ runs' = runs + 1 /\ UNCHANGED <<disk, proc>>
  BY DEF Begin, Up
<1>3. PICK id : id = RunIds[runs + 1] /\ id \in Name \ {""}
  BY <1>2, NextId DEF LaunchInv
<1>4. PICK A : A = Started(p, id, role) /\ A.pc = "started" /\ agent' = [agent EXCEPT ![p] = A]
  <2>1. Started(p, id, role).pc = "started"
    BY DEF Started
  <2> QED
    BY <1>1, <1>3, <2>1
<1>5. role \in Roles
  <2>1. proc[p].cmd \in Commands
    BY <1>2 DEF LaunchInv, Loaded
  <2>2. proc[p].cmd.role \in Roles
    BY <2>1, CommandAssumption
  <2> QED
    BY <1>1, <2>2 DEF RolesOf
<1>6. Moves(p) /\ proc'[p] = proc[p] /\ agent'[p] = A
  BY <1>2, <1>4 DEF Moves, LaunchInv
<1>7. Started(p, id, role)' = A
  BY <1>4, <1>6, SameProcess
<1>8. Employed(p)'
  BY <1>2, <1>3, <1>4, <1>5, <1>6, <1>7 DEF Employed, ServesOwn
<1>9. Loaded(proc'[p]) /\ runs' \in Nat
  <2>1. Loaded(proc[p]) /\ runs \in Nat
    BY DEF LaunchInv
  <2>2. runs' \in Nat
    BY <1>2, <2>1, OneMore
  <2> QED
    BY <1>2, <2>1, <2>2, Zenon
<1> QED
  BY <1>2, <1>6, <1>8, <1>9, OneMoves

\* An agent becomes one whose server, if it has one, serves the run.
LEMMA AgentMoves ==
  ASSUME LaunchInv, NEW p \in Processes, agent[p] # NoAgent,
         NEW A, agent' = [agent EXCEPT ![p] = A], UNCHANGED <<disk, proc, runs>>,
         A.pc # "started",
         A.pc = "serving" => /\ A.serves = A.run /\ A.as = A.role
                             /\ A.answered \subseteq Offers(A.role)
                             /\ A.database = DatabaseOf(p)
  PROVE  LaunchInv'
<1>1. Moves(p) /\ agent'[p] = A /\ proc'[p] = proc[p]
  BY DEF Moves, LaunchInv
<1>2. Employed(p) /\ Loaded(proc[p]) /\ runs' \in Nat
  BY DEF LaunchInv
<1>3. Employed(p)'
  BY <1>1, <1>2, SameProcess DEF Employed, ServesOwn
<1> QED
  BY <1>1, <1>2, <1>3, OneMoves

\* Who the agent of a started run is.
LEMMA StartedAs ==
  ASSUME LaunchInv, NEW p \in Processes, agent[p].pc = "started"
  PROVE  /\ agent[p] # NoAgent /\ proc[p].pc = "up" /\ Loaded(proc[p])
         /\ \E id \in Name \ {""}, role \in Roles :
              /\ agent[p] = Started(p, id, role)
              /\ agent[p].run = id /\ agent[p].role = role
<1>1. agent[p] # NoAgent
  BY DEF NoAgent
<1>2. proc[p].pc = "up" /\ Loaded(proc[p])
  BY <1>1 DEF LaunchInv, Employed
<1>3. PICK id \in Name \ {""}, role \in Roles : agent[p] = Started(p, id, role)
  BY <1>1 DEF LaunchInv, Employed
<1>4. Started(p, id, role).run = id /\ Started(p, id, role).role = role
  BY DEF Started
<1> QED
  BY <1>1, <1>2, <1>3, <1>4

IsAt(a, c) == a.pc = c

LEMMA SetPc ==
  ASSUME NEW p, NEW id, NEW role, NEW c
  PROVE  IsAt([Started(p, id, role) EXCEPT !.pc = c], c)
  BY DEF Started, IsAt

LEMMA BlindKeeps ==
  ASSUME LaunchInv, NEW p \in Processes, Blind(p)
  PROVE  LaunchInv'
<1>1. PICK A : A = [agent[p] EXCEPT !.pc = "blind"] /\ agent' = [agent EXCEPT ![p] = A]
  BY DEF Blind
<1>2. agent[p].pc = "started" /\ UNCHANGED <<disk, proc, runs>>
  BY DEF Blind
<1>3. A.pc = "blind"
  <2>1. PICK id, role : agent[p] = Started(p, id, role)
    BY <1>2, StartedAs
  <2>2. IsAt(A, "blind")
    BY <1>1, <2>1, SetPc
  <2> QED
    BY <2>2 DEF IsAt
<1> QED
  BY <1>1, <1>2, <1>3, AgentMoves, StartedAs

LEMMA ServerKeeps ==
  ASSUME LaunchInv, NEW p \in Processes, ServerStarts(p)
  PROVE  LaunchInv'
<1>1. agent[p].pc = "started" /\ Finds(p) /\ UNCHANGED <<disk, proc, runs>>
  BY DEF ServerStarts
<1>2. PICK id \in Name, role \in Roles :
        agent[p] = Started(p, id, role) /\ agent[p].run = id /\ agent[p].role = role
  BY <1>1, StartedAs
<1>3. PICK e : e = ServerEnv(agent[p])
  OBVIOUS
<1>4. PICK serving :
        serving = [pc |-> "serving", run |-> agent[p].run, role |-> agent[p].role, serves |-> e["RUN_ID"],
                   as |-> RoleFrom(e),
                   database |-> Under(agent[p].dir, Database(PathsFor(e))),
                   answered |-> {}]
  OBVIOUS
<1>5. PICK A : /\ agent' = [agent EXCEPT ![p] = A]
               /\ A = serving \/ A = [agent[p] EXCEPT !.pc = "toolless"]
  BY <1>3, <1>4 DEF ServerStarts
<1>6. LeadsBack(e, p, id, role)
  <2>1. Loaded(proc[p]) /\ proc[p].pc = "up"
    BY <1>1, StartedAs
  <2> QED
    BY <1>1, <1>2, <1>3, <2>1, StartsRight
<1>7. CASE A = serving
  <2>1. /\ A.pc = "serving" /\ A.serves = A.run /\ A.as = A.role
        /\ A.answered = {} /\ A.database = DatabaseOf(p)
    BY <1>2, <1>4, <1>6, <1>7 DEF LeadsBack
  <2> QED
    BY <1>1, <1>5, <2>1, AgentMoves, StartedAs
<1>8. CASE A = [agent[p] EXCEPT !.pc = "toolless"]
  <2>1. IsAt(A, "toolless")
    BY <1>2, <1>8, SetPc
  <2>2. A.pc = "toolless"
    BY <2>1 DEF IsAt
  <2> QED
    BY <1>1, <1>5, <2>2, AgentMoves, StartedAs
<1> QED
  BY <1>5, <1>7, <1>8

LEMMA CallKeeps ==
  ASSUME LaunchInv, NEW p \in Processes, Call(p)
  PROVE  LaunchInv'
<1>1. agent[p].pc = "serving" /\ UNCHANGED <<disk, proc, runs>>
  BY DEF Call
<1>2. PICK tool \in Offers(agent[p].as) :
        agent' = [agent EXCEPT ![p].answered = @ \cup {tool}]
  BY DEF Call
<1>3. agent[p] # NoAgent
  BY <1>1 DEF NoAgent
<1>4. ServesOwn(p)
  BY <1>3 DEF LaunchInv, Employed
<1>5. PICK a : a = agent[p] /\ a.pc = "serving" /\ a.serves = a.run /\ a.as = a.role
               /\ a.answered \subseteq Offers(a.role) /\ a.database = DatabaseOf(p)
  BY <1>1, <1>4 DEF ServesOwn
<1>6. PICK A : A = [a EXCEPT !.answered = @ \cup {tool}] /\ agent' = [agent EXCEPT ![p] = A]
  BY <1>2, <1>5 DEF LaunchInv
<1>7. /\ A.pc = a.pc /\ A.serves = a.serves /\ A.run = a.run /\ A.as = a.as
      /\ A.role = a.role /\ A.database = a.database
  BY <1>6
<1>8. A.answered \subseteq a.answered \cup {tool}
  BY <1>6
<1>9. A.answered \subseteq Offers(A.role)
  BY <1>2, <1>5, <1>7, <1>8
<1> QED
  BY <1>1, <1>3, <1>5, <1>6, <1>7, <1>9, AgentMoves

LEMMA EndKeeps ==
  ASSUME LaunchInv, NEW p \in Processes, End(p)
  PROVE  LaunchInv'
<1>1. /\ agent' = [agent EXCEPT ![p] = NoAgent] /\ UNCHANGED <<disk, runs>>
      /\ proc' = proc \/ proc' = [proc EXCEPT ![p] = Off]
  BY DEF End
<1>2. Moves(p) /\ agent'[p] = NoAgent /\ (proc'[p] = proc[p] \/ proc'[p] = Off)
  BY <1>1 DEF Moves, LaunchInv
<1>3. Loaded(proc'[p])
  BY <1>2 DEF Loaded, Off, LaunchInv
<1>4. Employed(p)'
  BY <1>2 DEF Employed
<1> QED
  BY <1>1, <1>2, <1>3, <1>4, OneMoves DEF LaunchInv

LEMMA EditKeeps ==
  ASSUME LaunchInv, Edit
  PROVE  LaunchInv'
<1>1. disk' \in Files /\ UNCHANGED <<proc, agent, runs>>
  BY DEF Edit
<1>2. ASSUME NEW p \in Processes PROVE Loaded(proc[p])' /\ Employed(p)'
  BY <1>1, StaysEmployed DEF LaunchInv, Loaded
<1> QED
  BY <1>1, <1>2 DEF LaunchInv

LEMMA StillLaunch == LaunchInv /\ UNCHANGED launchVars => LaunchInv'
<1> SUFFICES ASSUME LaunchInv, UNCHANGED launchVars PROVE LaunchInv'
  OBVIOUS
<1>1. UNCHANGED <<disk, proc, agent, runs>>
  BY DEF launchVars
<1>2. ASSUME NEW p \in Processes PROVE Loaded(proc[p])' /\ Employed(p)'
  BY <1>1, StaysEmployed DEF LaunchInv, Loaded
<1> QED
  BY <1>1, <1>2 DEF LaunchInv

LEMMA NextLaunch == LaunchInv /\ [LaunchNext]_launchVars => LaunchInv'
<1> SUFFICES ASSUME LaunchInv, [LaunchNext]_launchVars PROVE LaunchInv'
  OBVIOUS
<1>1. CASE Edit
  BY <1>1, EditKeeps
<1>2. ASSUME NEW p \in Processes, Start(p) PROVE LaunchInv'
  BY <1>2, StartKeeps
<1>3. ASSUME NEW p \in Processes, Stop(p) PROVE LaunchInv'
  BY <1>3, StopKeeps
<1>4. ASSUME NEW p \in Processes, Begin(p) PROVE LaunchInv'
  BY <1>4, BeginKeeps
<1>5. ASSUME NEW p \in Processes, Blind(p) PROVE LaunchInv'
  BY <1>5, BlindKeeps
<1>6. ASSUME NEW p \in Processes, ServerStarts(p) PROVE LaunchInv'
  BY <1>6, ServerKeeps
<1>7. ASSUME NEW p \in Processes, Call(p) PROVE LaunchInv'
  BY <1>7, CallKeeps
<1>8. ASSUME NEW p \in Processes, End(p) PROVE LaunchInv'
  BY <1>8, EndKeeps
<1>9. CASE UNCHANGED launchVars
  BY <1>9, StillLaunch
<1> QED
  BY <1>1, <1>2, <1>3, <1>4, <1>5, <1>6, <1>7, <1>8, <1>9 DEF LaunchNext

LEMMA ServesIts == LaunchInv => ServerServesItsRun
<1> SUFFICES ASSUME LaunchInv, NEW p \in Processes, agent[p].pc = "serving"
             PROVE  /\ agent[p].serves = agent[p].run /\ agent[p].as = agent[p].role
                    /\ agent[p].answered \subseteq Offers(agent[p].role)
                    /\ agent[p].database = DatabaseOf(p)
  BY DEF ServerServesItsRun
<1>1. agent[p] # NoAgent
  BY DEF NoAgent
<1> QED
  BY <1>1 DEF LaunchInv, Employed, ServesOwn

\* A process that was given an absolute data directory has its database there.
LEMMA GivenData ==
  ASSUME "brief.db" \in Name, NEW s, Loaded(s), s.pc = "up",
         Given(s.env, "DATA_DIR", Dot).abs
  PROVE  Under(s.dir, Database(s.paths))
           = File(Given(s.env, "DATA_DIR", Dot), "brief.db")
<1>1. ~Dot.abs
  BY DEF Dot, Rel
<1>2. "DATA_DIR" \in DOMAIN s.env
  BY <1>1 DEF Given
<1>3. PICK data \in Path : s.paths = Paths(ConfigPath(s.env), data)
                                /\ data = s.env["DATA_DIR"]
  <2>1. \E data \in Path : Keeps(s, data)
    BY Zenon DEF Loaded
  <2> QED
    BY <1>2, <2>1, Zenon DEF Keeps
<1>4. data.abs /\ Given(s.env, "DATA_DIR", Dot) = data
  BY <1>2, <1>3 DEF Given
<1>5. s.paths.data = data
  <2>1. At(s.paths, ConfigPath(s.env), data)
    BY <1>3, PathsData
  <2> QED
    BY <2>1 DEF At
<1>6. PICK b : b = File(data, "brief.db") /\ b.abs
  <2>1. PICK m \in Path : m = Rel(<<"brief.db">>) /\ ~m.abs
    BY RelPath
  <2>2. PICK b : b = File(data, "brief.db") /\ Joins(b, data, m)
    BY <2>1 DEF Joins, File
  <2> QED
    BY <1>4, <2>1, <2>2, RelJoin
<1>7. Database(s.paths) = b
  BY <1>5, <1>6 DEF Database
<1>8. Under(s.dir, b) = b
  BY <1>6, UnderAbs
<1> QED
  BY <1>4, <1>6, <1>7, <1>8

LEMMA OneDataDir == LaunchInv => OneDatabase
<1>0. "brief.db" \in Name
  BY NameAssumption
<1> SUFFICES ASSUME LaunchInv, NEW p \in Processes, NEW q \in Processes, Up(p), Up(q),
                    Given(proc[p].env, "DATA_DIR", Dot) = Given(proc[q].env, "DATA_DIR", Dot),
                    Given(proc[p].env, "DATA_DIR", Dot).abs
             PROVE  DatabaseOf(p) = DatabaseOf(q)
  BY DEF OneDatabase
<1>1. Loaded(proc[p]) /\ Loaded(proc[q]) /\ proc[p].pc = "up" /\ proc[q].pc = "up"
  BY DEF LaunchInv, Up
<1>2. DatabaseOf(p) = File(Given(proc[p].env, "DATA_DIR", Dot), "brief.db")
  BY <1>0, <1>1, GivenData DEF DatabaseOf
<1>3. DatabaseOf(q) = File(Given(proc[q].env, "DATA_DIR", Dot), "brief.db")
  BY <1>0, <1>1, GivenData DEF DatabaseOf
<1> QED
  BY <1>2, <1>3

\* For every number of processes, whatever the environments, the directories,
\* the command lines and the edits of the files: the tool server an agent talks
\* to has the id and the tools of the agent's run and opens its run's database.
THEOREM ServersServeTheirRuns == LaunchSpec => []ServerServesItsRun
<1> QED
  BY NextLaunch, InitLaunch, ServesIts, PTL DEF LaunchSpec

\* Processes given the same absolute DAILYBRIEF_DATA_DIR open one database,
\* wherever they are started and whatever config.toml has said since.
THEOREM DataDirsAgree == LaunchSpec => []OneDatabase
<1> QED
  BY NextLaunch, InitLaunch, OneDataDir, PTL DEF LaunchSpec

-----------------------------------------------------------------------------

\* A run whose process was given absolute paths, while the files are valid.
Reaches(p) ==
  /\ LaunchInv /\ p \in Processes /\ agent[p].pc = "started"
  /\ Placed(p) /\ LoadsAll(proc[p].env, proc[p].dir)

\* A variable that gives an absolute path is set.
LEMMA IsSet ==
  ASSUME NEW env, NEW v, Given(env, v, Dot).abs
  PROVE  v \in DOMAIN env /\ env[v].abs /\ Given(env, v, Dot) = env[v]
<1>1. ~Dot.abs
  BY DEF Dot, Rel
<1> QED
  BY <1>1 DEF Given

\* Such a process has loaded a configuration that lies where it is named.
LEMMA Located ==
  ASSUME NEW p, Reaches(p)
  PROVE  \E c, data \in Path :
           /\ c.abs /\ data.abs /\ c \in Committed
           /\ proc[p].paths = Paths(c, data) /\ At(proc[p].paths, c, data)
           /\ \A r \in Roles : proc[p].paths.prompt[r] \in Committed
                                    /\ proc[p].paths.prompt[r].abs
<1>0. Loaded(proc[p]) /\ proc[p].pc = "up" /\ proc[p].dir \in Path
  BY StartedAs, PlaceAssumption DEF Reaches, Loaded
<1>1. PICK env : env = proc[p].env /\ "CONFIG" \in DOMAIN env /\ env["CONFIG"].abs
                 /\ "DATA_DIR" \in DOMAIN env /\ env["DATA_DIR"].abs
  <2>1. Given(proc[p].env, "CONFIG", Dot).abs /\ Given(proc[p].env, "DATA_DIR", Dot).abs
    BY DEF Reaches, Placed, PathVars
  <2> QED
    BY <2>1, IsSet
<1>2. PICK data \in Path : proc[p].paths = Paths(ConfigPath(env), data) /\ data = env["DATA_DIR"]
  <2>1. \E data \in Path : Keeps(proc[p], data)
    BY <1>0, Zenon DEF Loaded
  <2> QED
    BY <1>1, <2>1, Zenon DEF Keeps
<1>3. PICK c : c = ConfigPath(env) /\ c = env["CONFIG"] /\ c.abs
  BY <1>1 DEF ConfigPath, Given
<1>4. c \in Committed
  <2>1. Under(proc[p].dir, c) \in Committed
    BY <1>1, <1>3 DEF Reaches, LoadsAll, LoadsConfig, Exists
  <2> QED
    BY <1>3, <2>1, UnderAbs
<1>5. PICK x, y \in Name : c = Under(Project, Rel(<<x, y>>))
  BY <1>4, CommittedFiles
<1>6. Project \in Path /\ Project.abs
  BY PlaceAssumption
<1>7. c \in Path
  BY <1>5, <1>6, TwoDown
<1>8. Named(proc[p].paths, Project, x, y, data)
  BY <1>2, <1>3, <1>5, <1>6, PathsFrom
<1>9. ASSUME NEW r \in Roles
      PROVE  proc[p].paths.prompt[r] \in Committed /\ proc[p].paths.prompt[r].abs
  <2>1. proc[p].paths.prompt[r] = Under(Project, Rel(<<"prompts", r>>))
    BY <1>8 DEF Named
  <2>2. "prompts" \in Name /\ r \in Name
    BY NameAssumption
  <2>3. Under(Project, Rel(<<"prompts", r>>)).abs
    BY <1>6, <2>2, TwoDown
  <2> QED
    BY <2>1, <2>3, CommittedFiles
<1>10. At(proc[p].paths, c, data)
  BY <1>2, <1>3, PathsData
<1> QED
  BY <1>1, <1>2, <1>3, <1>4, <1>7, <1>9, <1>10

\* `claude` opens its files.
LEMMA FindsIts ==
  ASSUME NEW p, Reaches(p)
  PROVE  Finds(p)
<1>1. PICK id \in Name \ {""}, role \in Roles : agent[p] = Started(p, id, role)
  BY StartedAs DEF Reaches
<1>2. PICK c, data \in Path :
        /\ data.abs /\ At(proc[p].paths, c, data)
        /\ \A r \in Roles : proc[p].paths.prompt[r] \in Committed
                                 /\ proc[p].paths.prompt[r].abs
  BY Located
<1>3. PICK run : run = RunDir(proc[p].paths, id) /\ Joins(run, data, Rel(<<"runs", id>>))
  BY <1>2 DEF RunDir, Joins, At
<1>4. PICK argv : argv = agent[p].argv /\ argv = Argv(p, run, role)
  <2>1. Started(p, id, role).argv = Argv(p, RunDir(proc[p].paths, id), role)
    BY DEF Started
  <2> QED
    BY <1>1, <1>3, <2>1
<1>5. /\ argv.mcp = File(run, "mcp.json") /\ argv.settings = File(run, "settings.json")
      /\ argv.prompt = PromptOf(proc[p].cmd, proc[p].dir, proc[p].paths, role)
  <2>1. Argv(p, run, role).mcp = File(run, "mcp.json")
    BY DEF Argv
  <2>2. Argv(p, run, role).settings = File(run, "settings.json")
    BY DEF Argv
  <2>3. Argv(p, run, role).prompt = PromptOf(proc[p].cmd, proc[p].dir, proc[p].paths, role)
    BY DEF Argv
  <2> QED
    BY <1>4, <2>1, <2>2, <2>3
<1>6. run \in Path /\ run.abs
  <2>1. "runs" \in Name
    BY NameAssumption
  <2>2. PICK r \in Path : Joins(run, data, r) /\ ~r.abs
    BY <1>3, <2>1, RelPath
  <2> QED
    BY <1>2, <2>2, RelJoin
<1>7. ASSUME NEW y \in Name PROVE File(run, y).abs
  <2>1. PICK m \in Path : m = Rel(<<y>>) /\ ~m.abs
    BY RelPath
  <2>2. PICK f : f = File(run, y) /\ Joins(f, run, m)
    BY <2>1 DEF Joins, File
  <2> QED
    BY <1>6, <2>1, <2>2, RelJoin
<1>8. argv.mcp.abs /\ argv.settings.abs
  <2>1. "mcp.json" \in Name /\ "settings.json" \in Name
    BY NameAssumption
  <2> QED
    BY <1>5, <1>7, <2>1
<1>9. \A d, f : f.abs => Under(d, f) = f
  BY UnderAbs
<1>10. PICK a : a = agent[p] /\ a.argv = argv
  BY <1>4
<1>11. Exists(a.dir, argv.prompt)
  <2>1. CASE proc[p].cmd.prompt = None
    <3>1. argv.prompt \in Committed /\ argv.prompt.abs
      BY <1>2, <1>5, <2>1 DEF PromptOf
    <3> QED
      BY <3>1, <1>9 DEF Exists
  <2>2. CASE proc[p].cmd.prompt # None
    <3>1. Loaded(proc[p]) /\ proc[p].pc = "up" /\ proc[p].cmd.verb \in Runners
      BY StartedAs DEF Reaches, LaunchInv, Employed
    <3>2. PICK cmd \in Commands, d \in Path : cmd = proc[p].cmd /\ d = proc[p].dir /\ d.abs
      BY <3>1, PlaceAssumption DEF Loaded
    <3>3. cmd.verb # "serve" /\ cmd.prompt \in Path
      BY <2>2, <3>2, CommandAssumption DEF None
    <3>4. Overrides(d, cmd.prompt)
      BY <3>1, <3>2, <3>3 DEF Loaded, Runners
    <3>5. PICK q : q = Under(d, cmd.prompt) /\ Joins(q, d, cmd.prompt) /\ q \in Committed
      BY <2>2, <3>2, <3>4 DEF Overrides, Exists, Joins
    <3>6. q.abs
      <4>1. CASE cmd.prompt.abs
        BY <3>5, <4>1, UnderAbs
      <4>2. CASE ~cmd.prompt.abs
        BY <3>2, <3>3, <3>5, <4>2, RelJoin
      <4> QED
        BY <4>1, <4>2
    <3>7. argv.prompt = q
      BY <1>5, <2>2, <3>2, <3>5 DEF PromptOf, Override
    <3>8. Under(a.dir, q) = q
      BY <1>9, <3>6
    <3> QED
      BY <3>5, <3>7, <3>8 DEF Exists
  <2> QED
    BY <2>1, <2>2
<1>12. \A f \in {argv.mcp, argv.settings} : Under(a.dir, f) = Under(proc[p].dir, f)
  <2>1. \A f \in {argv.mcp, argv.settings} : f.abs
    BY <1>8
  <2> QED
    BY <2>1, <1>9
<1> QED
  BY <1>10, <1>11, <1>12 DEF Finds

\* The tool server loads what its process loaded.
LEMMA ServerLoads ==
  ASSUME NEW p, Reaches(p)
  PROVE  Accepts(Mcp, ServerEnv(agent[p]), agent[p].dir)
<1>1. PICK id \in Name \ {""}, role \in Roles : agent[p] = Started(p, id, role)
  BY StartedAs DEF Reaches
<1>2. PICK c, data \in Path :
        c.abs /\ data.abs /\ c \in Committed /\ At(proc[p].paths, c, data)
  BY Located
<1>3. PICK e : e = ServerEnv(agent[p]) /\ EnvOf(e, p, id, role)
  BY <1>1, ServerEnvOf
<1>4. /\ e["RUN_ID"] = id /\ e["RUN_ROLE"] = role /\ e["CONFIG"] = c /\ e["DATA_DIR"] = data
      /\ {"RUN_ID", "RUN_ROLE", "CONFIG", "DATA_DIR"} \subseteq DOMAIN e
      /\ "BIND" \in DOMAIN e => "BIND" \in DOMAIN proc[p].env /\ e["BIND"] = proc[p].env["BIND"]
  <2>1. "BIND" \notin {"RUN_ID", "RUN_ROLE", "CONFIG", "DATA_DIR"}
    OBVIOUS
  <2> QED
    BY <1>2, <1>3, <2>1 DEF EnvOf, At
<1>5. LoadsAll(proc[p].env, proc[p].dir) /\ LoadsConfig(proc[p].env, proc[p].dir)
  BY DEF Reaches, LoadsAll
<1>6. EnvReads(e)
  <2>1. c # Dot /\ data # Dot
    <3>1. ~Dot.abs
      BY DEF Dot, Rel
    <3> QED
      BY <1>2, <3>1
  <2>2. "BIND" \in DOMAIN e => e["BIND"] # ""
    BY <1>4, <1>5 DEF LoadsConfig, EnvReads, TextVars
  <2>3. id # "" /\ role # ""
    BY DEF Roles
  <2>4. \A v \in PathVars : e[v] # Dot
    BY <1>4, <2>1 DEF PathVars
  <2>5. \A v \in TextVars \cap DOMAIN e : e[v] # ""
    BY <1>4, <2>2, <2>3 DEF TextVars
  <2> QED
    BY <2>4, <2>5 DEF EnvReads
<1>7. Exists(agent[p].dir, ConfigPath(e))
  <2>1. ConfigPath(e) = c
    BY <1>4 DEF ConfigPath, Given
  <2> QED
    BY <1>2, <2>1, UnderAbs DEF Exists
<1>8. LoadsAll(e, agent[p].dir)
  BY <1>5, <1>6, <1>7 DEF LoadsAll, LoadsConfig
<1>9. "RUN_ID" \in DOMAIN e /\ RoleFrom(e) \in Roles
  BY <1>4 DEF RoleFrom, Given
<1> QED
  BY <1>3, <1>8, <1>9 DEF Accepts, Mcp

\* An agent is refused its files or its server in two steps only.
LEMMA WhoIsLeft ==
  ASSUME LaunchInv, LaunchNext, NEW p \in Processes,
         agent[p].pc = "started", agent'[p].pc \in {"blind", "toolless"}
  PROVE  ~Finds(p) \/ ~Accepts(Mcp, ServerEnv(agent[p]), agent[p].dir)
<1>0. DOMAIN agent = Processes /\ agent[p] # NoAgent /\ agent'[p] # NoAgent /\ agent'[p] # agent[p]
  BY DEF LaunchInv, NoAgent
<1>1. CASE Edit
  BY <1>0, <1>1 DEF Edit
<1>2. ASSUME NEW q \in Processes, Start(q) PROVE FALSE
  BY <1>0, <1>2 DEF Start
<1>3. ASSUME NEW q \in Processes, Stop(q) PROVE FALSE
  BY <1>0, <1>3 DEF Stop
<1>4. ASSUME NEW q \in Processes, Begin(q) PROVE FALSE
  BY <1>0, <1>4 DEF Begin
<1>5. ASSUME NEW q \in Processes, Blind(q) PROVE ~Finds(p)
  BY <1>0, <1>5 DEF Blind
<1>6. ASSUME NEW q \in Processes, ServerStarts(q)
      PROVE  ~Accepts(Mcp, ServerEnv(agent[p]), agent[p].dir)
  <2>1. PICK e : e = ServerEnv(agent[q])
    OBVIOUS
  <2>2. PICK serving :
          serving = [pc |-> "serving", run |-> agent[q].run, role |-> agent[q].role, serves |-> e["RUN_ID"],
                     as |-> RoleFrom(e),
                     database |-> Under(agent[q].dir, Database(PathsFor(e))),
                     answered |-> {}]
    OBVIOUS
  <2>3. serving.pc = "serving"
    BY <2>2
  <2>4. agent' = [agent EXCEPT ![q] = IF Accepts(Mcp, e, agent[q].dir)
                                        THEN serving ELSE [agent[q] EXCEPT !.pc = "toolless"]]
    BY <1>6, <2>1, <2>2 DEF ServerStarts
  <2>5. ASSUME Accepts(Mcp, e, agent[q].dir) PROVE agent'[p].pc \in {"serving", agent[p].pc}
    BY <1>0, <2>3, <2>4, <2>5
  <2>6. ~Accepts(Mcp, e, agent[q].dir)
    BY <2>5
  <2>7. q = p
    BY <1>0, <2>4
  <2> QED
    BY <2>1, <2>6, <2>7
<1>7. ASSUME NEW q \in Processes, Call(q) PROVE FALSE
  <2>1. agent[q].pc = "serving" /\ \A r \in Processes \ {q} : agent'[r] = agent[r]
    BY <1>0, <1>7 DEF Call
  <2> QED
    BY <1>0, <2>1
<1>8. ASSUME NEW q \in Processes, End(q) PROVE FALSE
  BY <1>0, <1>8 DEF End
<1> QED
  BY <1>1, <1>2, <1>3, <1>4, <1>5, <1>6, <1>7, <1>8 DEF LaunchNext

\* A process that was given absolute paths starts agents that find their files
\* and whose tool server comes up, as long as the owner's files are valid.
THEOREM AgentsAreReached == LaunchSpec => AbsolutePathsReachTheAgent
<1>1. LaunchInv /\ [LaunchNext]_launchVars =>
        [\A p \in Processes :
           /\ agent'[p].pc \in {"blind", "toolless"} /\ agent[p].pc = "started"
           /\ Placed(p)
           => ~LoadsAll(proc[p].env, proc[p].dir)]_launchVars
  <2> SUFFICES ASSUME LaunchInv, LaunchNext, NEW p \in Processes,
                      agent'[p].pc \in {"blind", "toolless"}, agent[p].pc = "started",
                      Placed(p), LoadsAll(proc[p].env, proc[p].dir)
               PROVE  FALSE
    OBVIOUS
  <2>1. Reaches(p)
    BY DEF Reaches
  <2> QED
    BY <2>1, FindsIts, ServerLoads, WhoIsLeft
<1> QED
  BY <1>1, NextLaunch, InitLaunch, PTL DEF LaunchSpec, AbsolutePathsReachTheAgent
=============================================================================
