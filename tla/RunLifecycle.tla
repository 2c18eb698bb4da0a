---------------------------- MODULE RunLifecycle ----------------------------
(***************************************************************************)
(* The life of a run of the daily reader: who may start one, the single    *)
(* row of `run_lock`, the one or two attempts with their rows in `runs`,   *)
(* the harness child and what it writes, the verdict, and what a crash and *)
(* a restart leave behind.                                                 *)
(*                                                                         *)
(* A task is one invocation site of `Runner::run`: the scheduler loop of   *)
(* `serve`, a request to `POST /run` (which becomes a detached task of the *)
(* same process), or a `dailybrief run` / `curate` process.  They share    *)
(* the database; only the web tasks share the `active` flag.               *)
(***************************************************************************)
EXTENDS Naturals, Sequences, FiniteSets

CONSTANTS
  Sched,        \* the scheduler loop of `serve`: one job at a time
  Web,          \* concurrent requests to POST /run
  Cli,          \* `dailybrief run` / `dailybrief curate` processes
  Unverified,   \* the CLI tasks started with verification off (smoke runs)
  Roles,        \* the roles the scheduler and the CLI run, of "editor", "curator"
  Nobody,       \* the holder of an absent lock row
  Wall,         \* harness.claude_code.wall_clock_minutes
  Slack,        \* the 5 minutes added to twice the wall clock
  Overhead,     \* what a stage of a run may last beyond the wall clock
  MaxAttempts,  \* 2 = retry once
  ManualCap,    \* MANUAL_RUNS_PER_DAY
  Day,          \* the 24 h of the rolling cap
  Faults,       \* what may go wrong, of "db", "io", "release", "crash", "late", "drop"
  MaxCalls,     \* bound: how many runs are asked for
  MaxCrashes,   \* bound: how many times a process dies
  MaxTime       \* bound: the clock of an idle system

Service == {Sched} \cup Web
Tasks == Service \cup Cli

ASSUME TasksAssumption ==
  /\ Nobody \notin Tasks
  /\ Sched \notin Web \cup Cli
  /\ Web \cap Cli = {}
  /\ Unverified \subseteq Cli
  /\ Roles \subseteq {"editor", "curator"}

ASSUME NumbersAssumption ==
  /\ Wall \in Nat \ {0} /\ Slack \in Nat /\ Overhead \in Nat
  /\ MaxAttempts \in Nat \ {0}
  /\ ManualCap \in Nat /\ Day \in Nat

VARIABLES
  now,       \* the wall clock every process reads
  lock,      \* the row of run_lock: its holder and acquired_at
  runs,      \* the table `runs`, in insertion order
  pc,        \* where each task is
  local,     \* the locals of each task's Runner::run
  active,    \* AppState.active: a manual run is going on in this process
  up,        \* `serve` is running
  written,   \* the runs whose child has committed its digest or proposals
  calls,     \* bounded by MaxCalls
  crashes    \* bounded by MaxCrashes

vars == <<now, lock, runs, pc, local, active, up, written, calls, crashes>>

-----------------------------------------------------------------------------

NoLock == [holder |-> Nobody, at |-> 0]

\* Mutant: the window forgets that a run may take two attempts.
WindowOfOneAttempt == Wall + Slack

Window == 2 * Wall + Slack

\* A row acquired before `t - Window` is stale: it counts as no holder.
LiveAt(t) == lock.holder # Nobody /\ lock.at + Window >= t

\* The locals of one call: its role, the clock it read when it began, the
\* latest end of its present stage, the number of the attempt it is at, the
\* row of that attempt, and how the harness ended (then its verdict).
NoLocal == [role |-> "editor", started |-> 0, deadline |-> 0, attempt |-> 0,
            row |-> 0, result |-> "none"]

(* What a task may be doing.  Between reading the clock and ending, a run is
   timed; between taking the lock and releasing it, it is live. *)
Attempting == {"preparing", "harness", "classify", "finish"}
Live == Attempting \cup {"release"}
Timed == Live \cup {"acquiring"}
Flagged == {"flagged", "spawned", "clear"} \cup Timed

LiveTasks == {t \in Tasks : pc[t] \in Live}
TimedTasks == {t \in Tasks : pc[t] \in Timed}

\* A command is manual unless it says --kind scheduled, which only takes its row
\* out of the cap below.
Kind(t) == IF t = Sched THEN "scheduled" ELSE "manual"
RolesOf(t) == IF t \in Web THEN {"editor"} ELSE Roles

Goto(t, from, to) ==
  /\ pc[t] = from
  /\ pc' = [pc EXCEPT ![t] = to]

\* Mutant: `?` on Runner::run in the detached task, so that a run that is refused
\* never reaches the store below it.
ReturnsUncleared(t, from) ==
  /\ Goto(t, from, IF t \in Web /\ from = "release" THEN "clear" ELSE "idle")
  /\ local' = [local EXCEPT ![t] = NoLocal]

\* Runner::run returns: a web task has its flag to clear, another is done.
Return(t, from) ==
  /\ Goto(t, from, IF t \in Web THEN "clear" ELSE "idle")
  /\ local' = [local EXCEPT ![t] = NoLocal]

Init ==
  /\ now = 0
  /\ lock = NoLock
  /\ runs = <<>>
  /\ pc = [t \in Tasks |-> "idle"]
  /\ local = [t \in Tasks |-> NoLocal]
  /\ active = FALSE
  /\ up = TRUE
  /\ written = {}
  /\ calls = 0
  /\ crashes = 0

-----------------------------------------------------------------------------
(* POST /run: the three guards in their order, then the detached task. *)

ManualSince(t) ==
  {i \in DOMAIN runs : /\ runs[i].kind = "manual"
                       /\ runs[i].attempt = 1
                       /\ runs[i].start + Day >= t}

\* The rolling cap, read before the flag is taken; 429 changes nothing.
CountManual(w) ==
  /\ up
  /\ calls < MaxCalls
  /\ Cardinality(ManualSince(now)) < ManualCap
  /\ Goto(w, "idle", "counted")
  /\ calls' = calls + 1
  /\ UNCHANGED <<now, lock, runs, local, active, up, written, crashes>>

\* Mutant: a load of the flag, then a store.
TakeFlagUnchecked(w) ==
  /\ Goto(w, "counted", "flagged")
  /\ active' = TRUE
  /\ UNCHANGED <<now, lock, runs, local, up, written, calls, crashes>>

\* compare_exchange on the flag: the loser answers 409.
TakeFlag(w) ==
  /\ Goto(w, "counted", IF active THEN "idle" ELSE "flagged")
  /\ active' = TRUE
  /\ UNCHANGED <<now, lock, runs, local, up, written, calls, crashes>>

\* No live holder in the database: the detached task is spawned.
Spawn(w) ==
  /\ ~LiveAt(now)
  /\ Goto(w, "flagged", "spawned")
  /\ UNCHANGED <<now, lock, runs, local, active, up, written, calls, crashes>>

\* A live holder, or an error reading the row, gives the flag back.
Decline(w) ==
  /\ LiveAt(now) \/ "db" \in Faults
  /\ Goto(w, "flagged", "idle")
  /\ active' = FALSE
  /\ UNCHANGED <<now, lock, runs, local, up, written, calls, crashes>>

\* The client goes away while the handler awaits the lock row: the server drops
\* the handler where it stands, and nothing gives back the flag it took.
DropRequest(w) ==
  /\ "drop" \in Faults
  /\ Goto(w, "flagged", "idle")
  /\ UNCHANGED <<now, lock, runs, local, active, up, written, calls, crashes>>

\* The last step of the detached task, whatever Runner::run returned.
ClearFlag(w) ==
  /\ Goto(w, "clear", "idle")
  /\ active' = FALSE
  /\ UNCHANGED <<now, lock, runs, local, up, written, calls, crashes>>

-----------------------------------------------------------------------------
(* Runner::run *)

\* Where a run comes from: the spawned task, the scheduler loop or a command.
Called(t) ==
  IF t \in Web
    THEN Goto(t, "spawned", "acquiring") /\ UNCHANGED calls
    ELSE /\ t = Sched => up
         /\ calls < MaxCalls
         /\ Goto(t, "idle", "acquiring")
         /\ calls' = calls + 1

\* The clock is read once; the lock row will carry this time.
Begin(t) ==
  /\ Called(t)
  /\ \E r \in RolesOf(t) :
       local' = [local EXCEPT ![t] = [NoLocal EXCEPT
                   !.role = r, !.started = now, !.deadline = now + Overhead]]
  /\ UNCHANGED <<now, lock, runs, active, up, written, crashes>>

\* One upsert: it takes the row when it is absent or stale.
Acquire(t) ==
  /\ Goto(t, "acquiring", "preparing")
  /\ ~LiveAt(local[t].started)
  /\ lock' = [holder |-> t, at |-> local[t].started]
  /\ local' = [local EXCEPT ![t].attempt = 1]
  /\ UNCHANGED <<now, runs, active, up, written, calls, crashes>>

\* Mutant: the refusal leaves through the path that releases the lock.
RefuseAndRelease(t) ==
  /\ Return(t, "acquiring")
  /\ LiveAt(local[t].started) \/ "db" \in Faults
  /\ lock' = NoLock
  /\ UNCHANGED <<now, runs, active, up, written, calls, crashes>>

\* Held, or a database error: Runner::run returns before any attempt.
Refuse(t) ==
  /\ Return(t, "acquiring")
  /\ LiveAt(local[t].started) \/ "db" \in Faults
  /\ UNCHANGED <<now, lock, runs, active, up, written, calls, crashes>>

\* A fresh run directory, the row with status `running`, and the child.
StartAttempt(t) ==
  /\ Goto(t, "preparing", "harness")
  /\ runs' = Append(runs, [task |-> t, kind |-> Kind(t),
                           role |-> local[t].role,
                           attempt |-> local[t].attempt, start |-> now,
                           status |-> "running"])
  /\ local' = [local EXCEPT ![t].row = Len(runs) + 1,
                            ![t].deadline = now + Wall + Overhead,
                            ![t].result = "none"]
  /\ UNCHANGED <<now, lock, active, up, written, calls, crashes>>

\* Mutant: the outcome of a child that was killed is not recorded.
HarnessEndsUnseen(t) ==
  /\ Goto(t, "harness", "classify")
  /\ UNCHANGED <<now, lock, runs, local, active, up, written, calls, crashes>>

\* The child ends by itself, or the adapter kills it at the wall clock.
HarnessEnds(t) ==
  /\ Goto(t, "harness", "classify")
  /\ \E o \in {"success", "failed", "killed"} :
       /\ o = "killed" => now + Overhead >= local[t].deadline
       /\ local' = [local EXCEPT ![t].result = o]
  /\ UNCHANGED <<now, lock, runs, active, up, written, calls, crashes>>

\* What the final message of a success names: nothing, the row its own child
\* wrote, or an id nobody wrote (a message that does not parse is such a one).
Claims(t) == {{}, {local[t].row}, {0}}

\* Mutant: an Editor is believed when it names a digest of its run.
VerifiedByClaim(t, claim) ==
  IF local[t].role = "editor" THEN claim = {local[t].row} ELSE claim \subseteq written

\* An Editor must name the digest of its own run; a Curator names proposals,
\* each of which must exist.
Verified(t, claim) ==
  IF local[t].role = "editor"
    THEN claim = {local[t].row} /\ local[t].row \in written
    ELSE claim \subseteq written

Classify(t) ==
  /\ Goto(t, "classify", "finish")
  /\ \E claim \in Claims(t) :
       local' = [local EXCEPT ![t].result =
         IF @ = "success" /\ t \notin Unverified /\ ~Verified(t, claim)
           THEN "failed" ELSE @]
  /\ UNCHANGED <<now, lock, runs, active, up, written, calls, crashes>>

\* The row gets the verdict.
SetStatus(t) == runs' = [runs EXCEPT ![local[t].row].status = local[t].result]

LastAttempt(t) ==
  local[t].result = "success" \/ local[t].attempt = MaxAttempts

FinishLast(t) ==
  /\ Goto(t, "finish", "release")
  /\ LastAttempt(t)
  /\ SetStatus(t)
  /\ UNCHANGED <<now, lock, local, active, up, written, calls, crashes>>

\* Anything but a success is retried, until MaxAttempts.
FinishAndRetry(t) ==
  /\ Goto(t, "finish", "preparing")
  /\ ~LastAttempt(t)
  /\ SetStatus(t)
  /\ local' = [local EXCEPT ![t].attempt = @ + 1]
  /\ UNCHANGED <<now, lock, active, up, written, calls, crashes>>

\* Mutant: `?` on the attempts, before the lock is released.
AttemptErrsAtOnce(t) ==
  /\ \/ Faults \cap {"db", "io"} # {} /\ Return(t, "preparing")
     \/ "db" \in Faults /\ Return(t, "classify")
     \/ "db" \in Faults /\ Return(t, "finish")
  /\ UNCHANGED <<now, lock, runs, active, up, written, calls, crashes>>

\* An error in an attempt ends the loop; the lock is released all the same and
\* the row, once inserted, keeps status `running`.
AttemptErrs(t) ==
  /\ \/ Faults \cap {"db", "io"} # {} /\ Goto(t, "preparing", "release")
     \/ "db" \in Faults /\ Goto(t, "classify", "release")
     \/ "db" \in Faults /\ Goto(t, "finish", "release")
  /\ UNCHANGED <<now, lock, runs, local, active, up, written, calls, crashes>>

\* DELETE FROM run_lock WHERE id = 1, whoever holds it; an error keeps the row.
Release(t) ==
  /\ Return(t, "release")
  /\ \/ lock' = NoLock
     \/ "release" \in Faults /\ UNCHANGED lock
  /\ UNCHANGED <<now, runs, active, up, written, calls, crashes>>

-----------------------------------------------------------------------------
(* The harness child, deaths and restarts, time *)

Awaited(i) == \E t \in Tasks : pc[t] = "harness" /\ local[t].row = i

\* The MCP server of a child that was killed, or whose parent died, may still
\* be finishing a call when nobody waits for it any more.
Late(i) ==
  /\ "late" \in Faults
  /\ runs[i].status # "success"
  /\ \A t \in Tasks : local[t].row = i => local[t].result # "success"

\* publish_digest or propose_change commits in the child's MCP server.
ChildWrites(i) ==
  /\ i \notin written
  /\ Awaited(i) \/ Late(i)
  /\ written' = written \cup {i}
  /\ UNCHANGED <<now, lock, runs, pc, local, active, up, calls, crashes>>

\* The tasks D of one process die with it: nothing they hold is released.
Die(D) ==
  /\ "crash" \in Faults
  /\ crashes < MaxCrashes
  /\ crashes' = crashes + 1
  /\ pc' = [t \in Tasks |-> IF t \in D THEN "idle" ELSE pc[t]]
  /\ local' = [t \in Tasks |-> IF t \in D THEN NoLocal ELSE local[t]]
  /\ UNCHANGED <<now, lock, runs, written, calls>>

\* A kill of the service, or a graceful stop that leaves a manual task behind.
ServiceDies ==
  /\ up
  /\ Die(Service)
  /\ up' = FALSE
  /\ active' = FALSE

CliDies(c) ==
  /\ pc[c] # "idle"
  /\ Die({c})
  /\ UNCHANGED <<up, active>>

\* Mutants: a service that starts takes every open row for a dead run's, or
\* every old one whatever its status.
OrphanedOpen(r) == r.status = "running"
OrphanedOld(r) == r.start + Window < now

\* A row `serve` takes for a dead run's when it starts.
Orphaned(r) == r.status = "running" /\ r.start + Window < now

ServiceStarts ==
  /\ ~up
  /\ up' = TRUE
  /\ runs' = [i \in DOMAIN runs |->
                IF Orphaned(runs[i]) THEN [runs[i] EXCEPT !.status = "killed"]
                                     ELSE runs[i]]
  /\ UNCHANGED <<now, lock, pc, local, active, written, calls, crashes>>

\* A stage of a run never lasts past its deadline: the adapter kills the child
\* at the wall clock, and the rest of a stage is bounded by Overhead.
Tick ==
  /\ now < MaxTime \/ TimedTasks # {}
  /\ \A t \in TimedTasks : now < local[t].deadline
  /\ now' = now + 1
  /\ UNCHANGED <<lock, runs, pc, local, active, up, written, calls, crashes>>

-----------------------------------------------------------------------------

WebStep(w) ==
  TakeFlag(w) \/ Spawn(w) \/ Decline(w) \/ DropRequest(w) \/ ClearFlag(w)

RunStep(t) ==
  \/ Acquire(t)
  \/ Refuse(t)
  \/ StartAttempt(t)
  \/ HarnessEnds(t)
  \/ Classify(t)
  \/ FinishLast(t)
  \/ FinishAndRetry(t)
  \/ AttemptErrs(t)
  \/ Release(t)

Next ==
  \/ \E w \in Web : CountManual(w) \/ WebStep(w)
  \/ \E t \in Tasks : Begin(t) \/ RunStep(t)
  \/ \E i \in DOMAIN runs : ChildWrites(i)
  \/ \E c \in Cli : CliDies(c)
  \/ ServiceDies
  \/ ServiceStarts
  \/ Tick

Spec == Init /\ [][Next]_vars

\* What is begun goes on: a request's handler is polled until it answers or is
\* dropped, a spawned task and the runner are polled until they end whatever the
\* client does, and time passes.
Fairness ==
  /\ \A w \in Web : WF_vars(WebStep(w)) /\ WF_vars(Begin(w))
  /\ \A t \in Tasks : WF_vars(RunStep(t))
  /\ WF_vars(Tick)

FairSpec == Spec /\ Fairness

-----------------------------------------------------------------------------
(* Properties *)

Statuses == {"running", "success", "failed", "killed"}

RunRow == [task : Tasks, kind : {"scheduled", "manual"},
           role : {"editor", "curator"}, attempt : Nat, start : Nat,
           status : Statuses]

Locals == [role : {"editor", "curator"}, started : Nat, deadline : Nat,
           attempt : Nat, row : Nat,
           result : {"none", "success", "failed", "killed"}]

\* Every variable has its type.
TypeOK ==
  /\ now \in Nat
  /\ lock \in [holder : Tasks \cup {Nobody}, at : Nat]
  /\ runs \in Seq(RunRow)
  /\ pc \in [Tasks -> {"idle", "counted"} \cup Flagged]
  /\ local \in [Tasks -> Locals]
  /\ active \in BOOLEAN
  /\ up \in BOOLEAN
  /\ written \subseteq 1..Len(runs)
  /\ calls \in Nat
  /\ crashes \in Nat

\* The longest a run lasts from the clock it read to its release fits in the
\* stale window.  With 15 minutes, 5 minutes and two attempts it asks that a
\* stage overrun the wall clock by at most 100 seconds.
Timely == Overhead + MaxAttempts * (Wall + Overhead) <= Window

\* Whoever asks, and whatever crashed before, two runs never go on at the same
\* time: a lock that is taken over was left by a run that has ended.
AtMostOneLiveRun == \A t, u \in LiveTasks : t = u

\* A run between taking the lock and releasing it finds its own row there: no
\* other run has taken the lock over or deleted it.
LiveRunHoldsLock ==
  \A t \in LiveTasks : lock = [holder |-> t, at |-> local[t].started]

\* The row of an attempt that is going on is `running`: a service that starts
\* beside a live CLI run does not close the row under it.
LiveRowIsOpen ==
  \A t \in Tasks : pc[t] \in {"harness", "classify", "finish"} =>
                     /\ local[t].row \in DOMAIN runs
                     /\ runs[local[t].row].task = t
                     /\ runs[local[t].row].status = "running"

\* The status `success` of an Editor run is worth a digest: the row says so
\* only if the run's own child published one.
SuccessHasDigest ==
  \A i \in DOMAIN runs :
    /\ runs[i].status = "success"
    /\ runs[i].role = "editor"
    /\ runs[i].task \notin Unverified
    => i \in written

\* At most one request, or the detached task it spawned, owns the flag, and while
\* it does the flag is up: no run is let in beside it, and no other request has
\* cleared its flag.  The converse is false: a request dropped at its await leaves
\* the flag up without an owner, and later ones are refused until a restart.
FlagHasOneOwner ==
  Cardinality({w \in Web : pc[w] \in Flagged}) <= (IF active THEN 1 ELSE 0)

\* To a reader of `runs`, the tasks behave like the serial ledger.
Owner == IF LiveTasks = {} THEN Nobody ELSE CHOOSE t \in LiveTasks : TRUE

Ledger == INSTANCE RunLedger WITH
  owner <- Owner,
  fresh <- \E t \in LiveTasks : local[t].row = 0,
  ledger <- [i \in DOMAIN runs |-> [task |-> runs[i].task,
                                    attempt |-> runs[i].attempt,
                                    status |-> runs[i].status]]

\* Runs are serial for whoever reads the table: rows of one run are consecutive,
\* a verdict is given once and only by the run at work, and the sweep at a
\* restart never touches the row of a run that is going on.
RunsAreSerial == Ledger!Spec

\* A manual run that was accepted gives the flag back in the end, however it ends
\* and whatever its client does meanwhile: the page can start a run again.
Accepted == Flagged \ {"flagged"}
FlagIsGivenBack == \A w \in Web : pc[w] \in Accepted ~> ~active

\* A run that got the lock gives it back, whatever failed in its attempts, unless its
\* process died (or the DELETE failed: the fault "release").
LockIsFreed == lock.holder # Nobody ~> lock.holder = Nobody \/ crashes > 0
=============================================================================
