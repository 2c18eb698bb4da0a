------------------------ MODULE RunLifecycle_proofs ------------------------
(***************************************************************************)
(* Theorems about RunLifecycle and its pages for any number of requests    *)
(* and commands, any wall clock, any cap and any pattern of failures: the  *)
(* types, the flag, verdicts, mutual exclusion, the serial ledger and what *)
(* a run page joins.                                                       *)
(*                                                                         *)
(* Mutual exclusion holds as long as a run fits in the stale window        *)
(* (Timely).  The lock has no owner check, no heartbeat and no fencing:    *)
(* what makes it exclusive is time alone, so the invariant is about        *)
(* deadlines.                                                              *)
(***************************************************************************)
EXTENDS Pages, FiniteSetTheorems, SequenceTheorems, WellFoundedInduction, TLAPS

LEMMA MulStep ==
  ASSUME NEW n \in Nat, NEW d \in Nat
  PROVE  n * d \in Nat /\ (n + 1) * d = n * d + d
  BY SMT

LEMMA MulMono ==
  ASSUME NEW m \in Nat, NEW n \in Nat, NEW d \in Nat, m <= n
  PROVE  m * d <= n * d
  BY SMT

-----------------------------------------------------------------------------
(* How the updates of a call's locals and of a row keep their types *)

LEMMA NoLocalType == NoLocal \in Locals
  BY DEF NoLocal, Locals

LEMMA SetAttempt ==
  ASSUME NEW l \in Locals, NEW n \in Nat
  PROVE  LET k == [l EXCEPT !.attempt = n]
         IN  /\ k \in Locals /\ k.attempt = n /\ k.started = l.started
             /\ k.deadline = l.deadline /\ k.row = l.row /\ k.role = l.role
             /\ k.result = l.result
  BY DEF Locals

Outcomes == {"success", "failed", "killed"}

LEMMA SetResult ==
  ASSUME NEW l \in Locals, NEW o \in Outcomes
  PROVE  LET k == [l EXCEPT !.result = o]
         IN  /\ k \in Locals /\ k.attempt = l.attempt /\ k.started = l.started
             /\ k.deadline = l.deadline /\ k.row = l.row /\ k.role = l.role
             /\ k.result = o
  BY DEF Locals, Outcomes

LEMMA SetRow ==
  ASSUME NEW r \in RunRow, NEW s \in Outcomes
  PROVE  LET q == [r EXCEPT !.status = s]
         IN  /\ q \in RunRow /\ q.task = r.task /\ q.start = r.start
             /\ q.attempt = r.attempt /\ q.role = r.role /\ q.status = s
             /\ q.kind = r.kind
  BY DEF RunRow, Statuses, Outcomes

LEMMA ReplaceRow ==
  ASSUME NEW s \in Seq(RunRow), NEW i \in DOMAIN s, NEW r \in RunRow
  PROVE  LET q == [s EXCEPT ![i] = r]
         IN  /\ q \in Seq(RunRow) /\ Len(q) = Len(s) /\ DOMAIN q = DOMAIN s
             /\ q[i] = r /\ \A j \in DOMAIN s : j # i => q[j] = s[j]
  OBVIOUS

-----------------------------------------------------------------------------
(* Types.  A row can take its verdict because the harness has ended by then. *)

RowKnown(t) ==
  pc[t] \in {"harness", "classify", "finish"} => local[t].row \in DOMAIN runs

ResultKnown(t) ==
  pc[t] \in {"classify", "finish"} => local[t].result \in Outcomes

TypeInv == TypeOK /\ \A t \in Tasks : RowKnown(t) /\ ResultKnown(t)

LEMMA InitTypeInv == Init => TypeInv
<1> SUFFICES ASSUME Init PROVE TypeInv
  OBVIOUS
<1>1. /\ lock \in [holder : Tasks \cup {Nobody}, at : Nat]
      /\ now \in Nat /\ calls \in Nat /\ crashes \in Nat
      /\ runs \in Seq(RunRow) /\ written \subseteq 1..Len(runs)
  BY DEF Init, NoLock
<1>2. pc \in [Tasks -> {"idle", "counted"} \cup Flagged]
  BY DEF Init
<1>3. local \in [Tasks -> Locals]
  BY NoLocalType, Zenon DEF Init
<1>4. active \in BOOLEAN /\ up \in BOOLEAN
  BY Zenon DEF Init
<1>5. \A t \in Tasks : RowKnown(t) /\ ResultKnown(t)
  BY DEF Init, RowKnown, ResultKnown
<1> QED
  BY <1>1, <1>2, <1>3, <1>4, <1>5 DEF TypeInv, TypeOK

\* The steps of POST /run touch only pc, the flag and the count of calls.
LEMMA WebFrame ==
  ASSUME TypeInv, NEW w \in Web, CountManual(w) \/ WebStep(w)
  PROVE  /\ UNCHANGED <<now, lock, runs, local, up, written, crashes>>
         /\ active' \in BOOLEAN /\ calls' \in Nat
         /\ pc[w] \in {"idle", "counted", "flagged", "clear"}
         /\ \E p \in {"idle", "counted", "flagged", "spawned"} :
              pc' = [pc EXCEPT ![w] = p]
<1>1. calls \in Nat /\ active \in BOOLEAN
  BY DEF TypeInv, TypeOK
<1>2. CASE CountManual(w)
  BY <1>1, <1>2 DEF CountManual, Goto
<1>3. CASE TakeFlag(w)
  BY <1>1, <1>3 DEF TakeFlag, Goto
<1>4. CASE Spawn(w)
  BY <1>1, <1>4 DEF Spawn, Goto
<1>5. CASE Decline(w) \/ DropRequest(w)
  BY <1>1, <1>5 DEF Decline, DropRequest, Goto
<1>6. CASE ClearFlag(w)
  BY <1>1, <1>6 DEF ClearFlag, Goto
<1> QED
  BY <1>2, <1>3, <1>4, <1>5, <1>6 DEF WebStep

LEMMA WebTypeInv ==
  ASSUME TypeInv, NEW w \in Web, CountManual(w) \/ WebStep(w)
  PROVE  TypeInv'
<1>1. w \in Tasks
  BY DEF Tasks, Service
<1>2. PICK p \in {"idle", "counted", "flagged", "spawned"} :
        pc' = [pc EXCEPT ![w] = p]
  BY WebFrame
<1> QED
  BY <1>1, <1>2, WebFrame
     DEF TypeInv, TypeOK, RowKnown, ResultKnown, Flagged, Timed, Live, Attempting

-----------------------------------------------------------------------------
(* What the steps of Runner::run do to the locals of their task *)

\* Task t goes from `from` to `to` with locals l; the other tasks stay put.
Moves(t, from, to, l) ==
  /\ pc[t] = from
  /\ pc' = [pc EXCEPT ![t] = to]
  /\ l \in Locals
  /\ local' = [local EXCEPT ![t] = l]

LEMMA BeginMoves ==
  ASSUME TypeInv, NEW t \in Tasks, Begin(t)
  PROVE  \E from \in {"idle", "spawned"}, l \in Locals :
           /\ Moves(t, from, "acquiring", l)
           /\ l.started = now /\ l.deadline = now + Overhead /\ l.row = 0
<1>1. PICK r \in RolesOf(t) :
        local' = [local EXCEPT ![t] = [NoLocal EXCEPT
                    !.role = r, !.started = now, !.deadline = now + Overhead]]
  BY Zenon DEF Begin
<1>2. r \in {"editor", "curator"} /\ now + Overhead \in Nat /\ now \in Nat
  BY TasksAssumption, NumbersAssumption DEF RolesOf, TypeInv, TypeOK
<1> DEFINE l == [NoLocal EXCEPT
                   !.role = r, !.started = now, !.deadline = now + Overhead]
<1>3. l \in Locals /\ l.started = now /\ l.deadline = now + Overhead /\ l.row = 0
  BY <1>2 DEF NoLocal, Locals
<1>4. pc[t] \in {"idle", "spawned"} /\ pc' = [pc EXCEPT ![t] = "acquiring"]
  <2>1. Called(t)
    BY DEF Begin
  <2>2. CASE t \in Web
    BY <2>1, <2>2 DEF Called, Goto
  <2>3. CASE t \notin Web
    BY <2>1, <2>3 DEF Called, Goto
  <2> QED
    BY <2>2, <2>3
<1>5. local' = [local EXCEPT ![t] = l]
  BY <1>1, Zenon
<1> HIDE DEF l
<1> QED
  BY <1>3, <1>4, <1>5 DEF Moves

LEMMA AcquireMoves ==
  ASSUME TypeInv, NEW t \in Tasks, Acquire(t)
  PROVE  \E l \in Locals :
           /\ Moves(t, "acquiring", "preparing", l)
           /\ l.started = local[t].started /\ l.deadline = local[t].deadline
           /\ l.attempt = 1 /\ l.row = local[t].row
<1> DEFINE l == [local[t] EXCEPT !.attempt = 1]
<1>1. local[t] \in Locals
  BY DEF TypeInv, TypeOK
<1>2. /\ l \in Locals /\ l.started = local[t].started
      /\ l.deadline = local[t].deadline /\ l.attempt = 1 /\ l.row = local[t].row
  BY <1>1, SetAttempt, Zenon, 1 \in Nat
<1>3. local' = [local EXCEPT ![t] = l]
  BY Zenon DEF Acquire
<1>4. pc[t] = "acquiring" /\ pc' = [pc EXCEPT ![t] = "preparing"]
  BY DEF Acquire, Goto
<1> HIDE DEF l
<1> QED
  BY <1>2, <1>3, <1>4 DEF Moves

LEMMA StartAttemptMoves ==
  ASSUME TypeInv, NEW t \in Tasks, StartAttempt(t)
  PROVE  /\ \E l \in Locals :
              /\ Moves(t, "preparing", "harness", l)
              /\ l.started = local[t].started /\ l.attempt = local[t].attempt
              /\ l.deadline = now + Wall + Overhead /\ l.row = Len(runs) + 1
              /\ l.role = local[t].role
         /\ \E r \in RunRow :
              /\ runs' = Append(runs, r)
              /\ r.task = t /\ r.start = now /\ r.status = "running"
              /\ r.role = local[t].role /\ r.attempt = local[t].attempt
              /\ r.kind = Kind(t)
<1> DEFINE i == Len(runs) + 1
           d == now + Wall + Overhead
           l == [local[t] EXCEPT !.row = i, !.deadline = d, !.result = "none"]
           r == [task |-> t, kind |-> Kind(t), role |-> local[t].role,
                 attempt |-> local[t].attempt, start |-> now,
                 status |-> "running"]
<1>1. local[t] \in Locals /\ i \in Nat /\ now \in Nat
  BY DEF TypeInv, TypeOK
<1>2. d \in Nat
  BY <1>1, NumbersAssumption
<1>4. local' = [local EXCEPT ![t] = l]
  BY Zenon DEF StartAttempt
<1>5. pc[t] = "preparing" /\ pc' = [pc EXCEPT ![t] = "harness"]
  BY DEF StartAttempt, Goto
<1>6. runs' = Append(runs, r)
  BY Zenon DEF StartAttempt
<1>7. /\ r \in RunRow /\ r.task = t /\ r.start = now /\ r.status = "running"
      /\ r.role = local[t].role /\ r.attempt = local[t].attempt
      /\ r.kind = Kind(t)
  BY <1>1 DEF RunRow, Locals, Statuses, Kind
<1> HIDE DEF i, d, r
<1>3. /\ l \in Locals /\ l.started = local[t].started
      /\ l.attempt = local[t].attempt /\ l.deadline = d /\ l.row = i
      /\ l.role = local[t].role
  BY <1>1, <1>2 DEF Locals
<1> HIDE DEF l
<1>8. Moves(t, "preparing", "harness", l)
  BY <1>3, <1>4, <1>5 DEF Moves
<1> QED
  BY <1>3, <1>6, <1>7, <1>8 DEF i, d

LEMMA HarnessEndsMoves ==
  ASSUME TypeInv, NEW t \in Tasks, HarnessEnds(t)
  PROVE  \E l \in Locals :
           /\ Moves(t, "harness", "classify", l)
           /\ l.started = local[t].started /\ l.deadline = local[t].deadline
           /\ l.attempt = local[t].attempt /\ l.row = local[t].row
           /\ l.role = local[t].role /\ l.result \in Outcomes
<1>1. PICK o \in Outcomes :
        local' = [local EXCEPT ![t] = [local[t] EXCEPT !.result = o]]
  BY Zenon DEF HarnessEnds, Outcomes
<1> DEFINE l == [local[t] EXCEPT !.result = o]
<1>2. local[t] \in Locals
  BY DEF TypeInv, TypeOK
<1>3. /\ l \in Locals /\ l.started = local[t].started
      /\ l.deadline = local[t].deadline /\ l.attempt = local[t].attempt
      /\ l.row = local[t].row /\ l.role = local[t].role /\ l.result = o
  BY <1>2, SetResult, Zenon
<1>4. pc[t] = "harness" /\ pc' = [pc EXCEPT ![t] = "classify"]
  BY DEF HarnessEnds, Goto
<1>5. local' = [local EXCEPT ![t] = l]
  BY <1>1
<1> HIDE DEF l
<1> QED
  BY <1>3, <1>4, <1>5 DEF Moves

LEMMA ClassifyMoves ==
  ASSUME TypeInv, NEW t \in Tasks, Classify(t)
  PROVE  \E l \in Locals :
           /\ Moves(t, "classify", "finish", l)
           /\ l.started = local[t].started /\ l.deadline = local[t].deadline
           /\ l.attempt = local[t].attempt /\ l.row = local[t].row
           /\ l.role = local[t].role /\ l.result \in Outcomes
           /\ l.result = "success" =>
                t \in Unverified \/ \E claim \in Claims(t) : Verified(t, claim)
<1>1. pc[t] = "classify" /\ pc' = [pc EXCEPT ![t] = "finish"]
  BY DEF Classify, Goto
<1>2. local[t].result \in Outcomes /\ local[t] \in Locals
  BY <1>1 DEF TypeInv, TypeOK, ResultKnown
<1>3. PICK claim \in Claims(t) :
        local' = [local EXCEPT ![t] = [local[t] EXCEPT !.result =
           IF local[t].result = "success" /\ t \notin Unverified
              /\ ~Verified(t, claim) THEN "failed" ELSE local[t].result]]
  BY Zenon DEF Classify
<1> DEFINE o == IF local[t].result = "success" /\ t \notin Unverified
                   /\ ~Verified(t, claim) THEN "failed" ELSE local[t].result
           l == [local[t] EXCEPT !.result = o]
<1>4. o \in Outcomes /\ (o = "success" => t \in Unverified \/ Verified(t, claim))
  BY <1>2 DEF Outcomes
<1>5. local' = [local EXCEPT ![t] = l]
  BY <1>3
<1> HIDE DEF o
<1>6. /\ l \in Locals /\ l.started = local[t].started
      /\ l.deadline = local[t].deadline /\ l.attempt = local[t].attempt
      /\ l.row = local[t].row /\ l.role = local[t].role /\ l.result = o
  BY <1>2, <1>4, SetResult, Zenon
<1> HIDE DEF l
<1> QED
  BY <1>1, <1>4, <1>5, <1>6 DEF Moves

LEMMA FinishMoves ==
  ASSUME TypeInv, NEW t \in Tasks, FinishLast(t) \/ FinishAndRetry(t)
  PROVE  /\ \E l \in Locals, to \in {"release", "preparing"} :
              /\ Moves(t, "finish", to, l)
              /\ l.started = local[t].started /\ l.deadline = local[t].deadline
              /\ l.row = local[t].row
              /\ to = "release" => l.attempt = local[t].attempt
              /\ to = "preparing" => /\ l.attempt = local[t].attempt + 1
                                     /\ local[t].attempt # MaxAttempts
                                     /\ local[t].result # "success"
         /\ \E r \in RunRow :
              /\ runs' = [runs EXCEPT ![local[t].row] = r]
              /\ r.task = runs[local[t].row].task
              /\ r.start = runs[local[t].row].start
              /\ r.role = runs[local[t].row].role
              /\ r.attempt = runs[local[t].row].attempt
              /\ r.kind = runs[local[t].row].kind
              /\ r.status = local[t].result /\ r.status \in Outcomes
         /\ local[t].row \in DOMAIN runs
<1>1. pc[t] = "finish"
  BY DEF FinishLast, FinishAndRetry, Goto
<1>2. local[t] \in Locals /\ local[t].attempt + 1 \in Nat
  BY DEF TypeInv, TypeOK, Locals
<1>3. local[t].result \in Outcomes /\ local[t].row \in DOMAIN runs
  BY <1>1 DEF TypeInv, RowKnown, ResultKnown
<1> DEFINE r == [runs[local[t].row] EXCEPT !.status = local[t].result]
<1>4. runs' = [runs EXCEPT ![local[t].row] = r]
  BY Zenon DEF FinishLast, FinishAndRetry, SetStatus
<1>5. runs[local[t].row] \in RunRow
  BY <1>3 DEF TypeInv, TypeOK
<1>6. /\ r \in RunRow /\ r.task = runs[local[t].row].task
      /\ r.start = runs[local[t].row].start /\ r.role = runs[local[t].row].role
      /\ r.attempt = runs[local[t].row].attempt /\ r.status = local[t].result
      /\ r.kind = runs[local[t].row].kind
  BY <1>3, <1>5, SetRow, Zenon
<1> HIDE DEF r
<1>7. CASE FinishLast(t)
  <2>1. Moves(t, "finish", "release", local[t])
    BY <1>1, <1>2, <1>7 DEF FinishLast, Goto, Moves, TypeInv, TypeOK
  <2> QED
    BY <1>2, <1>3, <1>4, <1>6, <2>1
<1>8. CASE FinishAndRetry(t)
  <2> DEFINE l == [local[t] EXCEPT !.attempt = local[t].attempt + 1]
  <2>1. /\ l \in Locals /\ l.attempt = local[t].attempt + 1
        /\ l.started = local[t].started /\ l.deadline = local[t].deadline
        /\ l.row = local[t].row
    BY <1>2, SetAttempt, Zenon
  <2>2. local' = [local EXCEPT ![t] = l]
    BY <1>8, Zenon DEF FinishAndRetry
  <2>3. /\ pc' = [pc EXCEPT ![t] = "preparing"] /\ local[t].attempt # MaxAttempts
        /\ local[t].result # "success"
    BY <1>8 DEF FinishAndRetry, Goto, LastAttempt
  <2> HIDE DEF l
  <2>4. Moves(t, "finish", "preparing", l)
    BY <1>1, <2>1, <2>2, <2>3 DEF Moves
  <2> QED
    BY <1>3, <1>4, <1>6, <2>1, <2>3, <2>4
<1> QED
  BY <1>7, <1>8

LEMMA ReturnMoves ==
  ASSUME TypeInv, NEW t \in Tasks, NEW from, Return(t, from)
  PROVE  \E to \in {"clear", "idle"} : Moves(t, from, to, NoLocal)
  BY NoLocalType, Zenon DEF Return, Goto, Moves

LEMMA AttemptErrsMoves ==
  ASSUME TypeInv, NEW t \in Tasks, AttemptErrs(t)
  PROVE  \E from \in {"preparing", "classify", "finish"} :
           Moves(t, from, "release", local[t])
  BY DEF AttemptErrs, Goto, Moves, TypeInv, TypeOK

-----------------------------------------------------------------------------
(* Type correctness *)

Places == {"idle", "counted"} \cup Flagged

\* What no step of Runner::run touches.
Frame == UNCHANGED <<now, active, up, written, crashes>>

LEMMA RunPlaces ==
  /\ Attempting \cup {"acquiring", "release", "clear", "idle"} \subseteq Places
  /\ Attempting = {"preparing", "harness", "classify", "finish"}
  BY DEF Places, Flagged, Timed, Live, Attempting

LEMMA MovesTypeInv ==
  ASSUME TypeInv, NEW t \in Tasks, NEW from, NEW to \in Places, NEW l \in Locals,
         Moves(t, from, to, l),
         Frame, calls' \in Nat,
         lock' \in [holder : Tasks \cup {Nobody}, at : Nat],
         runs' \in Seq(RunRow), Len(runs) <= Len(runs'),
         to \in {"harness", "classify", "finish"} => l.row \in 1..Len(runs'),
         to \in {"classify", "finish"} => l.result \in Outcomes
  PROVE  TypeInv'
<1>1. Len(runs) \in Nat /\ Len(runs') \in Nat
  BY DEF TypeInv, TypeOK
<1>2. DOMAIN runs = 1..Len(runs) /\ DOMAIN runs' = 1..Len(runs')
  BY DEF TypeInv, TypeOK
<1>3. pc' \in [Tasks -> Places] /\ local' \in [Tasks -> Locals]
  BY DEF Moves, TypeInv, TypeOK, Places
<1>4. written' \subseteq 1..Len(runs')
  <2>1. written' = written
    BY Zenon DEF Frame
  <2> QED
    BY <1>1, <2>1 DEF TypeInv, TypeOK
<1>5. active' \in BOOLEAN /\ up' \in BOOLEAN
  BY Zenon DEF TypeInv, TypeOK, Frame
<1>7. now' \in Nat /\ crashes' \in Nat
  BY Zenon DEF TypeInv, TypeOK, Frame
<1>8. TypeOK'
  BY <1>3, <1>4, <1>5, <1>7, Zenon DEF TypeOK, Places
<1>6. ASSUME NEW u \in Tasks PROVE RowKnown(u)' /\ ResultKnown(u)'
  <2>1. CASE u = t
    BY <1>2, <2>1 DEF Moves, TypeInv, TypeOK, RowKnown, ResultKnown
  <2>2. CASE u # t
    <3>1. pc'[u] = pc[u] /\ local'[u] = local[u]
      BY <2>2 DEF Moves, TypeInv, TypeOK
    <3>2. RowKnown(u) /\ ResultKnown(u)
      BY DEF TypeInv
    <3> QED
      BY <1>1, <1>2, <3>1, <3>2 DEF RowKnown, ResultKnown
  <2> QED
    BY <2>1, <2>2
<1> QED
  BY <1>6, <1>8 DEF TypeInv

LEMMA RunTypeInv ==
  ASSUME TypeInv, NEW t \in Tasks, Begin(t) \/ RunStep(t)
  PROVE  TypeInv'
<1>0. /\ lock \in [holder : Tasks \cup {Nobody}, at : Nat]
      /\ runs \in Seq(RunRow) /\ Len(runs) \in Nat /\ calls \in Nat
      /\ DOMAIN runs = 1..Len(runs)
      /\ local[t] \in Locals
  BY DEF TypeInv, TypeOK
<1>1. CASE Begin(t)
  <2>1. PICK from \in {"idle", "spawned"}, l \in Locals :
          Moves(t, from, "acquiring", l)
    BY <1>1, BeginMoves
  <2>2. calls' \in Nat
    <3>1. calls' = calls \/ calls' = calls + 1
      BY <1>1, Zenon DEF Begin, Called
    <3> QED
      BY <1>0, <3>1
  <2>3. Frame /\ UNCHANGED <<lock, runs>>
    BY <1>1, Zenon DEF Begin, Frame
  <2> QED
    BY <1>0, <2>1, <2>2, <2>3, MovesTypeInv, RunPlaces
<1>2. CASE Acquire(t)
  <2>1. PICK l \in Locals : Moves(t, "acquiring", "preparing", l)
    BY <1>2, AcquireMoves
  <2>2. /\ lock' \in [holder : Tasks \cup {Nobody}, at : Nat]
        /\ UNCHANGED <<runs, calls>>
    BY <1>0, <1>2 DEF Acquire, Locals
  <2>3. Frame
    BY <1>2, Zenon DEF Acquire, Frame
  <2> QED
    BY <1>0, <2>1, <2>2, <2>3, MovesTypeInv, RunPlaces
<1>3. CASE Refuse(t)
  <2>1. PICK to \in {"clear", "idle"} : Moves(t, "acquiring", to, NoLocal)
    BY <1>3, ReturnMoves DEF Refuse
  <2>2. Frame /\ UNCHANGED <<lock, runs, calls>>
    BY <1>3, Zenon DEF Refuse, Frame
  <2> QED
    BY <1>0, <2>1, <2>2, MovesTypeInv, RunPlaces, NoLocalType
<1>4. CASE StartAttempt(t)
  <2>1. PICK l \in Locals :
          Moves(t, "preparing", "harness", l) /\ l.row = Len(runs) + 1
    BY <1>4, StartAttemptMoves
  <2>2. PICK r \in RunRow : runs' = Append(runs, r)
    BY <1>4, StartAttemptMoves
  <2>3. runs' \in Seq(RunRow) /\ Len(runs') = Len(runs) + 1
    BY <1>0, <2>2
  <2>4. Frame /\ UNCHANGED <<lock, calls>>
    BY <1>4, Zenon DEF StartAttempt, Frame
  <2> QED
    BY <1>0, <2>1, <2>3, <2>4, MovesTypeInv, RunPlaces
<1>5. CASE HarnessEnds(t)
  <2>1. PICK l \in Locals :
          /\ Moves(t, "harness", "classify", l)
          /\ l.row = local[t].row /\ l.result \in Outcomes
    BY <1>5, HarnessEndsMoves
  <2>2. Frame /\ UNCHANGED <<lock, runs, calls>>
    BY <1>5, Zenon DEF HarnessEnds, Frame
  <2>3. l.row \in 1..Len(runs)
    BY <1>0, <2>1 DEF Moves, TypeInv, RowKnown
  <2> QED
    BY <1>0, <2>1, <2>2, <2>3, MovesTypeInv, RunPlaces
<1>6. CASE Classify(t)
  <2>1. PICK l \in Locals :
          /\ Moves(t, "classify", "finish", l)
          /\ l.row = local[t].row /\ l.result \in Outcomes
    BY <1>6, ClassifyMoves
  <2>2. Frame /\ UNCHANGED <<lock, runs, calls>>
    BY <1>6, Zenon DEF Classify, Frame
  <2>3. l.row \in 1..Len(runs)
    BY <1>0, <2>1 DEF Moves, TypeInv, RowKnown
  <2> QED
    BY <1>0, <2>1, <2>2, <2>3, MovesTypeInv, RunPlaces
<1>7. CASE FinishLast(t) \/ FinishAndRetry(t)
  <2>1. PICK l \in Locals, to \in {"release", "preparing"} :
          Moves(t, "finish", to, l)
    BY <1>7, FinishMoves
  <2>2. PICK r \in RunRow : runs' = [runs EXCEPT ![local[t].row] = r]
    BY <1>7, FinishMoves
  <2>3. runs' \in Seq(RunRow) /\ Len(runs') = Len(runs)
    <3>1. local[t].row \in DOMAIN runs
      BY <1>7, FinishMoves
    <3> QED
      BY <1>0, <2>2, <3>1, ReplaceRow
  <2>4. Frame /\ UNCHANGED <<lock, calls>>
    BY <1>7, Zenon DEF FinishLast, FinishAndRetry, Frame
  <2> QED
    BY <1>0, <2>1, <2>3, <2>4, MovesTypeInv, RunPlaces
<1>8. CASE AttemptErrs(t)
  <2>1. PICK from \in {"preparing", "classify", "finish"} :
          Moves(t, from, "release", local[t])
    BY <1>8, AttemptErrsMoves
  <2>2. Frame /\ UNCHANGED <<lock, runs, calls>>
    BY <1>8, Zenon DEF AttemptErrs, Frame
  <2> QED
    BY <1>0, <2>1, <2>2, MovesTypeInv, RunPlaces
<1>9. CASE Release(t)
  <2>1. PICK to \in {"clear", "idle"} : Moves(t, "release", to, NoLocal)
    BY <1>9, ReturnMoves DEF Release
  <2>2. /\ lock' \in [holder : Tasks \cup {Nobody}, at : Nat]
        /\ UNCHANGED <<runs, calls>>
    BY <1>0, <1>9 DEF Release, NoLock
  <2>3. Frame
    BY <1>9, Zenon DEF Release, Frame
  <2> QED
    BY <1>0, <2>1, <2>2, <2>3, MovesTypeInv, RunPlaces, NoLocalType
<1> QED
  BY <1>1, <1>2, <1>3, <1>4, <1>5, <1>6, <1>7, <1>8, <1>9 DEF RunStep

\* The tasks that die forget everything, the others keep their place.
LEMMA DieMoves ==
  ASSUME TypeInv, NEW D, Die(D)
  PROVE  /\ pc' \in [Tasks -> Places] /\ local' \in [Tasks -> Locals]
         /\ crashes' \in Nat
         /\ UNCHANGED <<now, lock, runs, written, calls>>
         /\ \A u \in Tasks : \/ pc'[u] = "idle"
                             \/ pc'[u] = pc[u] /\ local'[u] = local[u]
<1>1. pc' \in [Tasks -> Places] /\ local' \in [Tasks -> Locals]
  BY NoLocalType DEF Die, TypeInv, TypeOK, Places
<1>2. crashes' \in Nat /\ UNCHANGED <<now, lock, runs, written, calls>>
  BY DEF Die, TypeInv, TypeOK
<1>3. ASSUME NEW u \in Tasks
      PROVE  \/ pc'[u] = "idle"
             \/ pc'[u] = pc[u] /\ local'[u] = local[u]
  BY DEF Die
<1> QED
  BY <1>1, <1>2, <1>3

LEMMA DieTypeInv ==
  ASSUME TypeInv, NEW D, Die(D), up' \in BOOLEAN, active' \in BOOLEAN
  PROVE  TypeInv'
  BY DieMoves DEF TypeInv, TypeOK, RowKnown, ResultKnown, Places

LEMMA StartsRuns ==
  ASSUME TypeInv, ServiceStarts
  PROVE  /\ runs' \in Seq(RunRow) /\ Len(runs') = Len(runs)
         /\ \A i \in DOMAIN runs :
              \/ runs'[i] = runs[i]
              \/ /\ Orphaned(runs[i])
                 /\ runs'[i] = [runs[i] EXCEPT !.status = "killed"]
                 /\ runs'[i].task = runs[i].task /\ runs'[i].role = runs[i].role
                 /\ runs'[i].attempt = runs[i].attempt
                 /\ runs'[i].start = runs[i].start /\ runs'[i].status = "killed"
                 /\ runs'[i].kind = runs[i].kind
<1>1. runs \in Seq(RunRow)
  BY DEF TypeInv, TypeOK
<1>2. ASSUME NEW i \in DOMAIN runs
      PROVE  LET q == [runs[i] EXCEPT !.status = "killed"]
             IN  /\ q \in RunRow /\ q.task = runs[i].task /\ q.role = runs[i].role
                 /\ q.attempt = runs[i].attempt /\ q.start = runs[i].start
                 /\ q.status = "killed" /\ q.kind = runs[i].kind
  <2>1. runs[i] \in RunRow /\ "killed" \in Outcomes
    BY <1>1 DEF Outcomes
  <2> QED
    BY <2>1, SetRow, Zenon
<1> DEFINE q(i) == [runs[i] EXCEPT !.status = "killed"]
<1>3. runs' = [i \in DOMAIN runs |-> IF Orphaned(runs[i]) THEN q(i) ELSE runs[i]]
  BY Zenon DEF ServiceStarts
<1>4. \A i \in DOMAIN runs :
        /\ q(i) \in RunRow /\ q(i).task = runs[i].task /\ q(i).role = runs[i].role
        /\ q(i).attempt = runs[i].attempt /\ q(i).start = runs[i].start
        /\ q(i).status = "killed" /\ q(i).kind = runs[i].kind
  BY <1>2
<1>5. \A i \in DOMAIN runs : q(i) = [runs[i] EXCEPT !.status = "killed"]
  OBVIOUS
<1> HIDE DEF q
<1>6. runs' \in Seq(RunRow) /\ Len(runs') = Len(runs)
  BY <1>1, <1>3, <1>4
<1>7. ASSUME NEW i \in DOMAIN runs
      PROVE  runs'[i] = IF Orphaned(runs[i]) THEN q(i) ELSE runs[i]
  BY <1>3
<1> QED
  BY <1>4, <1>5, <1>6, <1>7

LEMMA EnvironmentTypeInv ==
  ASSUME TypeInv,
         \/ \E i \in DOMAIN runs : ChildWrites(i)
         \/ \E c \in Cli : CliDies(c)
         \/ ServiceDies
         \/ ServiceStarts
         \/ Tick
  PROVE  TypeInv'
<1>1. CASE \E i \in DOMAIN runs : ChildWrites(i)
  <2>1. UNCHANGED <<now, lock, runs, pc, local, active, up, calls, crashes>>
    BY <1>1, Zenon DEF ChildWrites
  <2>2. written' \subseteq 1..Len(runs)
    <3>1. PICK i \in DOMAIN runs : written' = written \cup {i}
      BY <1>1, Zenon DEF ChildWrites
    <3>2. DOMAIN runs = 1..Len(runs) /\ written \subseteq 1..Len(runs)
      BY DEF TypeInv, TypeOK
    <3> QED
      BY <3>1, <3>2, Zenon
  <2>3. active' \in BOOLEAN /\ up' \in BOOLEAN
    BY <2>1, Zenon DEF TypeInv, TypeOK
  <2>4. UNCHANGED <<now, lock, runs, pc, local, calls, crashes>>
    BY <2>1, Zenon
  <2>5. TypeOK'
    BY <2>2, <2>3, <2>4 DEF TypeInv, TypeOK
  <2> QED
    BY <2>4, <2>5 DEF TypeInv, RowKnown, ResultKnown
<1>2. CASE \E c \in Cli : CliDies(c)
  BY <1>2, DieTypeInv, Zenon DEF CliDies, TypeInv, TypeOK
<1>3. CASE ServiceDies
  BY <1>3, DieTypeInv, Zenon DEF ServiceDies
<1>4. CASE ServiceStarts
  <2>1. UNCHANGED <<now, lock, pc, local, active, written, calls, crashes>>
    BY <1>4 DEF ServiceStarts
  <2>2. up' \in BOOLEAN
    BY <1>4, Zenon DEF ServiceStarts
  <2>3. DOMAIN runs' = DOMAIN runs
    BY <1>4, StartsRuns DEF TypeInv, TypeOK
  <2> QED
    BY <1>4, <2>1, <2>2, <2>3, StartsRuns
       DEF TypeInv, TypeOK, RowKnown, ResultKnown
<1>5. CASE Tick
  BY <1>5 DEF Tick, TypeInv, TypeOK, RowKnown, ResultKnown
<1> QED
  BY <1>1, <1>2, <1>3, <1>4, <1>5

LEMMA NextTypeInv == TypeInv /\ [Next]_vars => TypeInv'
<1> SUFFICES ASSUME TypeInv, [Next]_vars PROVE TypeInv'
  OBVIOUS
<1>1. CASE Next
  BY <1>1, WebTypeInv, RunTypeInv, EnvironmentTypeInv DEF Next
<1>2. CASE UNCHANGED vars
  BY <1>2 DEF TypeInv, TypeOK, RowKnown, ResultKnown, vars
<1> QED
  BY <1>1, <1>2

\* Every behaviour is well typed, and a verdict is only ever written to a row.
THEOREM TypeCorrect == Spec => []TypeOK
<1>1. TypeInv => TypeOK
  BY DEF TypeInv
<1> QED
  BY <1>1, InitTypeInv, NextTypeInv, PTL DEF Spec

-----------------------------------------------------------------------------
(* The flag of the manual runs *)

FlagOwners == {w \in Web : pc[w] \in Flagged}

\* The flag is up while some request owns it, and one at most does.  It may be up
\* without an owner too: a dropped request leaves it.
FlagInv ==
  /\ \A v, w \in FlagOwners : v = w
  /\ FlagOwners # {} => active

LEMMA SameOwners ==
  ASSUME FlagInv, active' = active,
         \A w \in Web : pc'[w] \in Flagged <=> pc[w] \in Flagged
  PROVE  FlagInv'
<1>1. FlagOwners' = FlagOwners
  BY DEF FlagOwners
<1> QED
  BY <1>1 DEF FlagInv

\* compare_exchange makes one owner; whoever clears the flag was the owner.
LEMMA WebFlag ==
  ASSUME TypeInv, FlagInv, NEW w \in Web, CountManual(w) \/ WebStep(w)
  PROVE  FlagInv'
<1>0. \A p, v : v \in Tasks /\ pc' = [pc EXCEPT ![w] = p] =>
        pc'[v] = IF v = w THEN p ELSE pc[v]
  BY DEF TypeInv, TypeOK, Tasks, Service
<1>1. Web \subseteq Tasks
  BY DEF Tasks, Service
<1>2. CASE CountManual(w) \/ Spawn(w) \/ (TakeFlag(w) /\ active)
  <2>1. \E from, to : /\ pc[w] = from /\ pc' = [pc EXCEPT ![w] = to]
                      /\ from \in Flagged <=> to \in Flagged
    BY <1>2 DEF CountManual, Spawn, TakeFlag, Goto, Flagged, Timed, Live, Attempting
  <2>2. active' = active
    BY <1>2 DEF CountManual, Spawn, TakeFlag, TypeInv, TypeOK
  <2> QED
    BY <1>0, <1>1, <2>1, <2>2, SameOwners
<1>3. CASE TakeFlag(w) /\ ~active
  <2>1. pc' = [pc EXCEPT ![w] = "flagged"] /\ active' = TRUE
    BY <1>3 DEF TakeFlag, Goto
  <2>2. FlagOwners = {}
    BY <1>3 DEF FlagInv
  <2>3. FlagOwners' = {w}
    BY <1>0, <1>1, <2>1, <2>2 DEF FlagOwners, Flagged
  <2> QED
    BY <2>1, <2>3 DEF FlagInv
<1>4. CASE Decline(w) \/ ClearFlag(w)
  <2>1. pc[w] \in Flagged /\ pc' = [pc EXCEPT ![w] = "idle"] /\ active' = FALSE
    BY <1>4 DEF Decline, ClearFlag, Goto, Flagged
  <2>2. FlagOwners = {w}
    BY <2>1 DEF FlagInv, FlagOwners
  <2>3. \A v \in Web : pc'[v] \notin Flagged
    <3>1. "idle" \notin Flagged
      BY DEF Flagged, Timed, Live, Attempting
    <3> QED
      BY <1>0, <1>1, <2>1, <2>2, <3>1 DEF FlagOwners
  <2>4. FlagOwners' = {}
    BY <2>3 DEF FlagOwners
  <2> QED
    BY <2>1, <2>4 DEF FlagInv
<1>5. CASE DropRequest(w)
  <2>1. pc[w] \in Flagged /\ pc' = [pc EXCEPT ![w] = "idle"] /\ active' = active
    BY <1>5 DEF DropRequest, Goto, Flagged
  <2>2. FlagOwners' \subseteq FlagOwners
    BY <1>0, <1>1, <2>1 DEF FlagOwners
  <2> QED
    BY <2>1, <2>2 DEF FlagInv
<1> QED
  BY <1>2, <1>3, <1>4, <1>5 DEF WebStep

\* A spawned task owns the flag from its first step to its last.
LEMMA RunFlag ==
  ASSUME TypeInv, FlagInv, NEW t \in Tasks, Begin(t) \/ RunStep(t)
  PROVE  FlagInv'
<1>1. active' = active
  BY Zenon DEF Begin, RunStep, Acquire, Refuse, StartAttempt, HarnessEnds, Classify,
               FinishLast, FinishAndRetry, AttemptErrs, Release
<1>2. \E from, to : /\ pc[t] = from /\ pc' = [pc EXCEPT ![t] = to]
                    /\ t \in Web => from \in Flagged /\ to \in Flagged
  <2>1. CASE Begin(t)
    <3>1. Called(t)
      BY <2>1 DEF Begin
    <3> QED
      BY <3>1 DEF Called, Goto, Flagged, Timed
  <2>2. CASE Refuse(t) \/ Release(t)
    <3>1. \E from \in {"acquiring", "release"} : Return(t, from)
      BY <2>2 DEF Refuse, Release
    <3> QED
      BY <3>1 DEF Return, Goto, Flagged, Timed, Live
  <2>3. CASE RunStep(t) /\ ~Refuse(t) /\ ~Release(t)
    <3>1. \E from, to \in Timed : Goto(t, from, to)
      BY <2>3 DEF RunStep, Acquire, StartAttempt, HarnessEnds, Classify, FinishLast,
                  FinishAndRetry, AttemptErrs, Timed, Live, Attempting
    <3> QED
      BY <3>1 DEF Goto, Flagged
  <2> QED
    BY <2>1, <2>2, <2>3
<1>3. \A w \in Web : pc'[w] \in Flagged <=> pc[w] \in Flagged
  BY <1>2 DEF TypeInv, TypeOK, Tasks, Service
<1> QED
  BY <1>1, <1>3, SameOwners

LEMMA EnvironmentFlag ==
  ASSUME TypeInv, FlagInv,
         \/ \E i \in DOMAIN runs : ChildWrites(i)
         \/ \E c \in Cli : CliDies(c)
         \/ ServiceDies
         \/ ServiceStarts
         \/ Tick
  PROVE  FlagInv'
<1>1. CASE (\E i \in DOMAIN runs : ChildWrites(i)) \/ ServiceStarts \/ Tick
  <2>1. UNCHANGED <<pc, active>>
    BY <1>1, Zenon DEF ChildWrites, ServiceStarts, Tick
  <2> QED
    BY <2>1, SameOwners
<1>2. CASE \E c \in Cli : CliDies(c)
  <2>1. PICK c \in Cli : CliDies(c)
    BY <1>2
  <2>2. active' = active
    BY <2>1, Zenon DEF CliDies
  <2>3. \A w \in Web : w \in Tasks /\ w # c
    BY TasksAssumption DEF Tasks, Service
  <2>4. \A w \in Web : pc'[w] = pc[w]
    BY <2>1, <2>3 DEF CliDies, Die
  <2> QED
    BY <2>2, <2>4, SameOwners
<1>3. CASE ServiceDies
  <2>1. ~active' /\ \A w \in Web : pc'[w] = "idle"
    BY <1>3 DEF ServiceDies, Die, Tasks, Service
  <2>2. "idle" \notin Flagged
    BY DEF Flagged, Timed, Live, Attempting
  <2>3. FlagOwners' = {}
    BY <2>1, <2>2 DEF FlagOwners
  <2> QED
    BY <2>1, <2>3 DEF FlagInv
<1> QED
  BY <1>1, <1>2, <1>3

LEMMA NextFlagInv == TypeInv /\ FlagInv /\ [Next]_vars => FlagInv'
<1> SUFFICES ASSUME TypeInv, FlagInv, [Next]_vars PROVE FlagInv'
  OBVIOUS
<1>1. CASE Next
  BY <1>1, WebFlag, RunFlag, EnvironmentFlag DEF Next
<1>2. CASE UNCHANGED vars
  <2>1. UNCHANGED <<pc, active>>
    BY <1>2 DEF vars
  <2> QED
    BY <2>1, SameOwners
<1> QED
  BY <1>1, <1>2

\* One request at most, or the task it spawned, has the flag of POST /run to clear,
\* and while it does the flag is up, whatever is refused, dropped, fails or dies.
THEOREM FlagIsOwned == Spec => []FlagHasOneOwner
<1>1. Init => FlagInv
  <2> SUFFICES ASSUME Init PROVE FlagInv
    OBVIOUS
  <2>1. FlagOwners = {}
    BY DEF Init, FlagOwners, Flagged, Timed, Live, Attempting, Tasks, Service
  <2> QED
    BY <2>1 DEF Init, FlagInv
<1>2. TypeInv /\ FlagInv => FlagHasOneOwner
  <2> SUFFICES ASSUME TypeInv, FlagInv PROVE FlagHasOneOwner
    OBVIOUS
  <2>1. CASE FlagOwners = {}
    BY <2>1, FS_EmptySet DEF FlagHasOneOwner, FlagOwners
  <2>2. CASE FlagOwners # {}
    <3>1. PICK w : FlagOwners = {w}
      BY <2>2 DEF FlagInv
    <3>2. Cardinality({w}) = 1
      BY FS_Singleton
    <3>3. active
      BY <2>2 DEF FlagInv
    <3> QED
      BY <3>1, <3>2, <3>3 DEF FlagHasOneOwner, FlagOwners
  <2> QED
    BY <2>1, <2>2
<1> QED
  BY <1>1, <1>2, InitTypeInv, NextTypeInv, NextFlagInv, PTL DEF Spec

-----------------------------------------------------------------------------
(* What a success is worth *)

\* The row a run is at is its own, with its role.
RowIsMine(t) ==
  pc[t] \in {"harness", "classify", "finish"} =>
    runs[local[t].row].task = t /\ runs[local[t].row].role = local[t].role

\* An Editor's success that goes into the row has its digest.
Earned(t) ==
  /\ pc[t] = "finish"
  /\ local[t].result = "success" /\ local[t].role = "editor" /\ t \notin Unverified
  => local[t].row \in written

VerdictInv ==
  /\ TypeInv
  /\ \A t \in Tasks : RowIsMine(t) /\ Earned(t)
  /\ SuccessHasDigest

\* The rows there were stay, for whoever asks only whose they are.
RowsStay ==
  \A i \in DOMAIN runs : /\ i \in DOMAIN runs'
                         /\ runs'[i].task = runs[i].task
                         /\ runs'[i].role = runs[i].role

LEMMA MovesVerdict ==
  ASSUME VerdictInv, TypeInv', NEW t \in Tasks, NEW from, NEW to, NEW l \in Locals,
         Moves(t, from, to, l), written' = written, RowsStay, SuccessHasDigest',
         to \in {"harness", "classify", "finish"} =>
           runs'[l.row].task = t /\ runs'[l.row].role = l.role,
         to = "finish" /\ l.result = "success" /\ l.role = "editor" /\ t \notin Unverified
           => l.row \in written
  PROVE  VerdictInv'
<1>1. \A u \in Tasks : /\ pc'[u] = IF u = t THEN to ELSE pc[u]
                       /\ local'[u] = IF u = t THEN l ELSE local[u]
  BY DEF Moves, VerdictInv, TypeInv, TypeOK
<1>2. ASSUME NEW u \in Tasks PROVE RowIsMine(u)' /\ Earned(u)'
  <2>1. CASE u = t
    BY <1>1, <2>1 DEF RowIsMine, Earned
  <2>2. CASE u # t
    <3>1. RowIsMine(u) /\ Earned(u) /\ RowKnown(u)
      BY DEF VerdictInv, TypeInv
    <3>2. pc'[u] = pc[u] /\ local'[u] = local[u]
      BY <1>1, <2>2
    <3> QED
      BY <3>1, <3>2 DEF RowIsMine, Earned, RowKnown, RowsStay
  <2> QED
    BY <2>1, <2>2
<1> QED
  BY <1>2 DEF VerdictInv

\* The steps that leave the table alone.
LEMMA QuietVerdict ==
  ASSUME VerdictInv, TypeInv', NEW t \in Tasks, NEW from, NEW to, NEW l \in Locals,
         Moves(t, from, to, l), written' = written, runs' = runs,
         to \in {"harness", "classify", "finish"} =>
           /\ from \in {"harness", "classify", "finish"}
           /\ l.row = local[t].row /\ l.role = local[t].role,
         to = "finish" /\ l.result = "success" /\ l.role = "editor" /\ t \notin Unverified
           => l.row \in written
  PROVE  VerdictInv'
<1>1. RowsStay /\ SuccessHasDigest'
  BY DEF RowsStay, VerdictInv, SuccessHasDigest
<1>2. to \in {"harness", "classify", "finish"} =>
        runs'[l.row].task = t /\ runs'[l.row].role = l.role
  BY DEF VerdictInv, RowIsMine, Moves
<1> QED
  BY <1>1, <1>2, MovesVerdict

LEMMA RunVerdict ==
  ASSUME VerdictInv, TypeInv', NEW t \in Tasks, Begin(t) \/ RunStep(t)
  PROVE  VerdictInv'
<1>0. written' = written /\ TypeInv /\ runs \in Seq(RunRow) /\ local[t] \in Locals
  BY Zenon DEF Begin, RunStep, Acquire, Refuse, StartAttempt, HarnessEnds, Classify,
               FinishLast, FinishAndRetry, AttemptErrs, Release, VerdictInv,
               TypeInv, TypeOK
<1>1. CASE Begin(t)
  BY <1>0, <1>1, BeginMoves, QuietVerdict DEF Begin
<1>2. CASE Acquire(t)
  BY <1>0, <1>2, AcquireMoves, QuietVerdict DEF Acquire
<1>3. CASE Refuse(t) \/ Release(t)
  <2>1. \E from, to : Moves(t, from, to, NoLocal) /\ to \in {"clear", "idle"}
    BY <1>0, <1>3, ReturnMoves DEF Refuse, Release
  <2>2. runs' = runs
    BY <1>3 DEF Refuse, Release
  <2> QED
    BY <1>0, <2>1, <2>2, QuietVerdict, NoLocalType
<1>4. CASE StartAttempt(t)
  <2>1. PICK l \in Locals :
          /\ Moves(t, "preparing", "harness", l)
          /\ l.row = Len(runs) + 1 /\ l.role = local[t].role
    BY <1>0, <1>4, StartAttemptMoves
  <2>2. PICK r \in RunRow :
          /\ runs' = Append(runs, r)
          /\ r.task = t /\ r.status = "running" /\ r.role = local[t].role
    BY <1>0, <1>4, StartAttemptMoves
  <2>3. /\ DOMAIN runs' = DOMAIN runs \cup {l.row} /\ runs'[l.row] = r
        /\ \A i \in DOMAIN runs : runs'[i] = runs[i]
    BY <1>0, <2>1, <2>2
  <2>4. RowsStay /\ SuccessHasDigest'
    BY <1>0, <2>2, <2>3 DEF RowsStay, VerdictInv, SuccessHasDigest
  <2> QED
    BY <1>0, <2>1, <2>2, <2>3, <2>4, MovesVerdict
<1>5. CASE HarnessEnds(t)
  <2>1. runs' = runs
    BY <1>5 DEF HarnessEnds
  <2> QED
    BY <1>0, <1>5, <2>1, HarnessEndsMoves, QuietVerdict
<1>6. CASE Classify(t)
  <2>1. PICK l \in Locals :
          /\ Moves(t, "classify", "finish", l)
          /\ l.row = local[t].row /\ l.role = local[t].role
          /\ l.result = "success" =>
               t \in Unverified \/ \E claim \in Claims(t) : Verified(t, claim)
    BY <1>0, <1>6, ClassifyMoves
  <2>2. l.result = "success" /\ l.role = "editor" /\ t \notin Unverified
          => l.row \in written
    BY <2>1 DEF Verified
  <2>3. runs' = runs
    BY <1>6 DEF Classify
  <2> QED
    BY <1>0, <2>1, <2>2, <2>3, QuietVerdict
<1>7. CASE FinishLast(t) \/ FinishAndRetry(t)
  <2>1. PICK l \in Locals, to \in {"release", "preparing"} : Moves(t, "finish", to, l)
    BY <1>0, <1>7, FinishMoves
  <2> DEFINE row == local[t].row
  <2>2. PICK r \in RunRow :
          /\ runs' = [runs EXCEPT ![row] = r]
          /\ r.task = runs[row].task /\ r.role = runs[row].role
          /\ r.status = local[t].result
    BY <1>0, <1>7, FinishMoves
  <2>3. row \in DOMAIN runs
    BY <1>0, <1>7, FinishMoves
  <2>4. /\ DOMAIN runs' = DOMAIN runs /\ runs'[row] = r
        /\ \A i \in DOMAIN runs : i # row => runs'[i] = runs[i]
    BY <1>0, <2>2, <2>3, ReplaceRow
  <2>5. RowsStay
    BY <2>2, <2>4 DEF RowsStay
  <2>6. pc[t] = "finish" /\ RowIsMine(t) /\ Earned(t)
    BY <2>1 DEF Moves, VerdictInv
  <2>7. SuccessHasDigest'
    BY <1>0, <2>2, <2>4, <2>6 DEF VerdictInv, SuccessHasDigest, RowIsMine, Earned
  <2> HIDE DEF row
  <2> QED
    BY <1>0, <2>1, <2>5, <2>7, MovesVerdict
<1>8. CASE AttemptErrs(t)
  <2>1. runs' = runs
    BY <1>8 DEF AttemptErrs
  <2> QED
    BY <1>0, <1>8, <2>1, AttemptErrsMoves, QuietVerdict
<1> QED
  BY <1>1, <1>2, <1>3, <1>4, <1>5, <1>6, <1>7, <1>8 DEF RunStep

LEMMA WebVerdict ==
  ASSUME VerdictInv, TypeInv', NEW w \in Web, CountManual(w) \/ WebStep(w)
  PROVE  VerdictInv'
<1>1. UNCHANGED <<runs, local, written>> /\ w \in Tasks
  BY WebFrame DEF VerdictInv, Tasks, Service
<1>2. PICK p \in {"idle", "counted", "flagged", "spawned"} :
        pc' = [pc EXCEPT ![w] = p]
  BY WebFrame DEF VerdictInv
<1>3. Moves(w, pc[w], p, local[w])
  BY <1>1, <1>2 DEF VerdictInv, TypeInv, TypeOK, Moves
<1> QED
  BY <1>1, <1>3, QuietVerdict DEF Moves

LEMMA EnvironmentVerdict ==
  ASSUME VerdictInv, TypeInv',
         \/ \E i \in DOMAIN runs : ChildWrites(i)
         \/ \E c \in Cli : CliDies(c)
         \/ ServiceDies
         \/ ServiceStarts
         \/ Tick
  PROVE  VerdictInv'
<1>1. CASE (\E i \in DOMAIN runs : ChildWrites(i)) \/ Tick
  <2>1. UNCHANGED <<runs, pc, local>> /\ written \subseteq written'
    BY <1>1 DEF ChildWrites, Tick
  <2> QED
    BY <2>1 DEF VerdictInv, RowIsMine, Earned, SuccessHasDigest
<1>2. CASE (\E c \in Cli : CliDies(c)) \/ ServiceDies
  <2>1. PICK D : Die(D)
    BY <1>2 DEF CliDies, ServiceDies
  <2>2. /\ UNCHANGED <<runs, written>>
        /\ \A u \in Tasks : \/ pc'[u] = "idle"
                            \/ pc'[u] = pc[u] /\ local'[u] = local[u]
    BY <2>1, DieMoves DEF VerdictInv
  <2> QED
    BY <2>2 DEF VerdictInv, RowIsMine, Earned, SuccessHasDigest
<1>3. CASE ServiceStarts
  <2>1. UNCHANGED <<pc, local, written>>
    BY <1>3, Zenon DEF ServiceStarts
  <2>2. /\ runs \in Seq(RunRow) /\ runs' \in Seq(RunRow) /\ Len(runs') = Len(runs)
        /\ \A i \in DOMAIN runs : \/ runs'[i] = runs[i]
                                  \/ /\ runs'[i].task = runs[i].task
                                     /\ runs'[i].role = runs[i].role
                                     /\ runs'[i].status = "killed"
    BY <1>3, StartsRuns DEF VerdictInv, TypeInv, TypeOK
  <2>3. DOMAIN runs' = DOMAIN runs
    BY <2>2
  <2>4. SuccessHasDigest'
    BY <2>1, <2>2, <2>3 DEF VerdictInv, SuccessHasDigest
  <2>5. \A u \in Tasks : RowIsMine(u)' /\ Earned(u)'
    BY <2>1, <2>2, <2>3 DEF VerdictInv, TypeInv, RowKnown, RowIsMine, Earned
  <2> QED
    BY <2>4, <2>5 DEF VerdictInv
<1> QED
  BY <1>1, <1>2, <1>3

LEMMA NextVerdictInv == VerdictInv /\ [Next]_vars => VerdictInv'
<1> SUFFICES ASSUME VerdictInv, [Next]_vars PROVE VerdictInv'
  OBVIOUS
<1>1. TypeInv'
  BY NextTypeInv DEF VerdictInv
<1>2. CASE Next
  BY <1>1, <1>2, WebVerdict, RunVerdict, EnvironmentVerdict DEF Next
<1>3. CASE UNCHANGED vars
  BY <1>1, <1>3 DEF VerdictInv, RowIsMine, Earned, SuccessHasDigest, vars
<1> QED
  BY <1>2, <1>3

\* An Editor row says `success` only if that run's own child published: what a
\* final message claims is not enough, and neither crash nor sweep makes one.
THEOREM SuccessIsEarned == Spec => []SuccessHasDigest
<1>1. Init => VerdictInv
  BY InitTypeInv DEF Init, VerdictInv, RowIsMine, Earned, SuccessHasDigest
<1>2. VerdictInv => SuccessHasDigest
  BY DEF VerdictInv
<1> QED
  BY <1>1, <1>2, NextVerdictInv, PTL DEF Spec

-----------------------------------------------------------------------------
(* How long a run lasts *)

\* The latest time a run that began at s can be at after n attempts.
Bound(s, n) == s + Overhead + n * (Wall + Overhead)

LEMMA BoundStep ==
  ASSUME NEW s \in Nat, NEW n \in Nat
  PROVE  Bound(s, n) \in Nat /\ Bound(s, n + 1) = Bound(s, n) + Wall + Overhead
<1>1. Wall + Overhead \in Nat /\ Wall \in Nat /\ Overhead \in Nat
  BY NumbersAssumption
<1> DEFINE d == Wall + Overhead
<1>2. n * d \in Nat /\ (n + 1) * d = n * d + d
  BY <1>1, MulStep
<1> QED
  BY <1>1, <1>2 DEF Bound

LEMMA BoundInWindow ==
  ASSUME Timely, NEW s \in Nat, NEW n \in Nat, n <= MaxAttempts
  PROVE  Bound(s, n) <= s + Window
<1>1. /\ Wall + Overhead \in Nat /\ Overhead \in Nat /\ MaxAttempts \in Nat
      /\ Window \in Nat
  BY NumbersAssumption DEF Window
<1> DEFINE d == Wall + Overhead
<1>2. /\ n * d <= MaxAttempts * d
      /\ n * d \in Nat /\ MaxAttempts * d \in Nat
  BY <1>1, MulMono, MulStep
<1>3. Overhead + MaxAttempts * d <= Window
  BY DEF Timely
<1> HIDE DEF d
<1>4. s + Overhead + n * d <= s + Window
  BY <1>1, <1>2, <1>3
<1> QED
  BY <1>4 DEF Bound, d

-----------------------------------------------------------------------------
(* The inductive invariant *)

\* The attempts whose time a run at place p may have spent.
Spent(p, l) ==
  IF p = "acquiring" THEN 0
  ELSE IF p = "preparing" THEN l.attempt - 1 ELSE l.attempt

\* A run with locals l, at place p at time n, is within its time.
InTime(p, l, n) ==
  p \in Timed =>
    /\ l.started <= n
    /\ n <= l.deadline
    /\ p # "acquiring" => l.attempt \in 1..MaxAttempts
    /\ l.deadline <= Bound(l.started, Spent(p, l))

OnTime(t) == InTime(pc[t], local[t], now)

\* The row of an attempt is open, and no older than its run.
RowOpen(t) ==
  pc[t] \in {"harness", "classify", "finish"} =>
    /\ local[t].row \in DOMAIN runs
    /\ runs[local[t].row].task = t
    /\ runs[local[t].row].status = "running"
    /\ runs[local[t].row].start >= local[t].started

SafetyInv ==
  /\ TypeInv
  /\ LiveRunHoldsLock
  /\ \A t \in Tasks : OnTime(t) /\ RowOpen(t)

\* A run on time is younger than the window.
LEMMA YoungRun ==
  ASSUME Timely, TypeInv, NEW t \in Tasks, OnTime(t), pc[t] \in Timed
  PROVE  /\ local[t].started \in Nat /\ local[t].started <= now
         /\ now <= local[t].started + Window
<1>1. local[t].started \in Nat /\ local[t].deadline \in Nat /\ now \in Nat
  BY DEF TypeInv, TypeOK, Locals
<1>2. MaxAttempts \in Nat /\ Window \in Nat
  BY NumbersAssumption DEF Window
<1>3. Spent(pc[t], local[t]) \in Nat /\ Spent(pc[t], local[t]) <= MaxAttempts
  BY <1>2 DEF OnTime, InTime, Spent
<1>4. Bound(local[t].started, Spent(pc[t], local[t])) <= local[t].started + Window
  BY <1>1, <1>3, BoundInWindow
<1>5. Bound(local[t].started, Spent(pc[t], local[t])) \in Nat
  BY <1>1, <1>3, BoundStep
<1> QED
  BY <1>1, <1>2, <1>4, <1>5 DEF OnTime, InTime

\* While a run is live, everyone who tries the lock finds it held.
LEMMA LiveRunBlocks ==
  ASSUME Timely, SafetyInv, NEW t \in Tasks, NEW u \in Tasks,
         pc[t] = "acquiring", pc[u] \in Live
  PROVE  LiveAt(local[t].started)
<1>1. /\ local[u].started \in Nat /\ now <= local[u].started + Window
      /\ local[t].started \in Nat /\ local[t].started <= now
      /\ now \in Nat /\ Window \in Nat
  BY YoungRun, NumbersAssumption DEF SafetyInv, Timed, TypeInv, TypeOK, Window
<1>2. lock = [holder |-> u, at |-> local[u].started]
  BY DEF SafetyInv, LiveRunHoldsLock, LiveTasks
<1>3. u # Nobody
  BY TasksAssumption
<1> QED
  BY <1>1, <1>2, <1>3 DEF LiveAt

LEMMA InitSafetyInv == Init => SafetyInv
<1> SUFFICES ASSUME Init PROVE SafetyInv
  OBVIOUS
<1>1. \A t \in Tasks : pc[t] = "idle"
  BY DEF Init
<1> QED
  BY <1>1, InitTypeInv
     DEF SafetyInv, LiveRunHoldsLock, LiveTasks, OnTime, InTime, RowOpen,
         Timed, Live, Attempting

-----------------------------------------------------------------------------
(* Steps of one task *)

\* A task that moves disturbs nobody if the lock it leaves is its own or as it
\* was, and if it leaves the rows of the others alone.
LEMMA MovesSafety ==
  ASSUME SafetyInv, TypeInv', NEW t \in Tasks, NEW from, NEW to, NEW l \in Locals,
         Moves(t, from, to, l), now' = now,
         InTime(to, l, now),
         to \in Live => lock' = [holder |-> t, at |-> l.started],
         lock' = lock \/ LiveTasks \subseteq {t},
         to \in {"harness", "classify", "finish"} =>
           /\ l.row \in DOMAIN runs' /\ runs'[l.row].task = t
           /\ runs'[l.row].status = "running" /\ runs'[l.row].start >= l.started,
         \A i \in DOMAIN runs :
           runs[i].task # t => i \in DOMAIN runs' /\ runs'[i] = runs[i]
  PROVE  SafetyInv'
<1>1. pc'[t] = to /\ local'[t] = l
  BY DEF Moves, SafetyInv, TypeInv, TypeOK
<1>2. \A u \in Tasks : u # t => pc'[u] = pc[u] /\ local'[u] = local[u]
  BY DEF Moves, SafetyInv, TypeInv, TypeOK
<1>3. ASSUME NEW u \in Tasks, pc'[u] \in Live
      PROVE  lock' = [holder |-> u, at |-> local'[u].started]
  <2>1. CASE u = t
    BY <1>1, <1>3, <2>1
  <2>2. CASE u # t
    <3>1. u \in LiveTasks
      BY <1>2, <1>3, <2>2 DEF LiveTasks
    <3> QED
      BY <1>2, <2>2, <3>1 DEF SafetyInv, LiveRunHoldsLock
  <2> QED
    BY <2>1, <2>2
<1>4. ASSUME NEW u \in Tasks PROVE OnTime(u)' /\ RowOpen(u)'
  <2>1. CASE u = t
    BY <1>1, <2>1 DEF OnTime, RowOpen
  <2>2. CASE u # t
    <3>1. OnTime(u) /\ RowOpen(u)
      BY DEF SafetyInv
    <3>2. OnTime(u)'
      BY <1>2, <2>2, <3>1 DEF OnTime
    <3>3. RowOpen(u)'
      BY <1>2, <2>2, <3>1 DEF RowOpen
    <3> QED
      BY <3>2, <3>3
  <2> QED
    BY <2>1, <2>2
<1> QED
  BY <1>3, <1>4 DEF SafetyInv, LiveRunHoldsLock, LiveTasks

LEMMA BeginSafety ==
  ASSUME SafetyInv, TypeInv', NEW t \in Tasks, Begin(t)
  PROVE  SafetyInv'
<1>1. PICK from \in {"idle", "spawned"}, l \in Locals :
        /\ Moves(t, from, "acquiring", l)
        /\ l.started = now /\ l.deadline = now + Overhead
  BY BeginMoves DEF SafetyInv
<1>2. UNCHANGED <<now, lock, runs>>
  BY Zenon DEF Begin
<1>3. now \in Nat /\ Overhead \in Nat /\ Wall \in Nat
  BY NumbersAssumption DEF SafetyInv, TypeInv, TypeOK
<1>4. Bound(now, 0) = now + Overhead
  BY <1>3 DEF Bound
<1>5. InTime("acquiring", l, now)
  BY <1>1, <1>3, <1>4 DEF InTime, Spent
<1> QED
  BY <1>1, <1>2, <1>5, MovesSafety DEF Live, Attempting

LEMMA AcquireSafety ==
  ASSUME Timely, SafetyInv, TypeInv', NEW t \in Tasks, Acquire(t)
  PROVE  SafetyInv'
<1>1. PICK l \in Locals :
        /\ Moves(t, "acquiring", "preparing", l)
        /\ l.started = local[t].started /\ l.deadline = local[t].deadline
        /\ l.attempt = 1
  BY AcquireMoves DEF SafetyInv
<1>2. now' = now /\ runs' = runs /\ lock' = [holder |-> t, at |-> l.started]
  BY <1>1, Zenon DEF Acquire
<1>3. pc[t] = "acquiring" /\ ~LiveAt(local[t].started)
  BY DEF Acquire, Goto
<1>4. LiveTasks = {}
  BY <1>3, LiveRunBlocks DEF LiveTasks
<1>5. OnTime(t) /\ MaxAttempts \in Nat \ {0}
  BY NumbersAssumption DEF SafetyInv
<1>6. InTime("preparing", l, now)
  BY <1>1, <1>3, <1>5 DEF OnTime, InTime, Spent, Timed
<1> QED
  BY <1>1, <1>2, <1>4, <1>6, MovesSafety

\* A run that ends, refused or after its release, is no longer timed.
LEMMA ReturnSafety ==
  ASSUME SafetyInv, TypeInv', NEW t \in Tasks, Refuse(t) \/ Release(t)
  PROVE  SafetyInv'
<1>1. PICK from \in {"acquiring", "release"}, to \in {"clear", "idle"} :
        Moves(t, from, to, NoLocal)
  BY ReturnMoves DEF SafetyInv, Refuse, Release
<1>2. now' = now /\ runs' = runs
  BY Zenon DEF Refuse, Release
<1>3. lock' = lock \/ LiveTasks \subseteq {t}
  <2>1. CASE Refuse(t)
    BY <2>1 DEF Refuse
  <2>2. CASE Release(t)
    <3>1. t \in LiveTasks
      BY <2>2 DEF Release, Return, Goto, LiveTasks, Live
    <3>2. \A u \in LiveTasks : lock = [holder |-> u, at |-> local[u].started]
      BY DEF SafetyInv, LiveRunHoldsLock
    <3> QED
      BY <3>1, <3>2
  <2> QED
    BY <2>1, <2>2
<1>4. InTime(to, NoLocal, now) /\ to \notin Live
  BY DEF InTime, Timed, Live, Attempting
<1> QED
  BY <1>1, <1>2, <1>3, <1>4, MovesSafety, NoLocalType

\* A live run keeps its lock through a step that leaves the lock alone.
LEMMA LiveKeepsLock ==
  ASSUME SafetyInv, NEW t \in Tasks, pc[t] \in Live, lock' = lock,
         NEW l \in Locals, l.started = local[t].started
  PROVE  lock' = [holder |-> t, at |-> l.started]
  BY DEF SafetyInv, LiveRunHoldsLock, LiveTasks

LEMMA StartAttemptSafety ==
  ASSUME SafetyInv, TypeInv', NEW t \in Tasks, StartAttempt(t)
  PROVE  SafetyInv'
<1>1. PICK l \in Locals :
        /\ Moves(t, "preparing", "harness", l)
        /\ l.started = local[t].started /\ l.attempt = local[t].attempt
        /\ l.deadline = now + Wall + Overhead /\ l.row = Len(runs) + 1
  BY StartAttemptMoves DEF SafetyInv
<1>2. PICK r \in RunRow :
        /\ runs' = Append(runs, r)
        /\ r.task = t /\ r.start = now /\ r.status = "running"
  BY StartAttemptMoves DEF SafetyInv
<1>3. now' = now /\ lock' = lock
  BY Zenon DEF StartAttempt
<1>4. /\ runs \in Seq(RunRow) /\ now \in Nat /\ local[t] \in Locals
      /\ pc[t] = "preparing" /\ OnTime(t)
  BY <1>1 DEF SafetyInv, TypeInv, TypeOK, Moves
<1>5. /\ l.row \in DOMAIN runs' /\ runs'[l.row] = r
      /\ \A i \in DOMAIN runs : i \in DOMAIN runs' /\ runs'[i] = runs[i]
  BY <1>1, <1>2, <1>4
<1> DEFINE s == local[t].started
           n == local[t].attempt - 1
<1>6. /\ s <= now /\ local[t].attempt \in 1..MaxAttempts
      /\ now <= local[t].deadline /\ local[t].deadline <= Bound(s, n)
  BY <1>4 DEF OnTime, InTime, Spent, Timed, Live, Attempting
<1>7. s \in Nat /\ local[t].deadline \in Nat /\ MaxAttempts \in Nat
  BY <1>4, NumbersAssumption DEF Locals
<1>8. /\ s \in Nat /\ s <= now /\ n \in Nat /\ n + 1 = local[t].attempt
      /\ local[t].attempt \in 1..MaxAttempts
      /\ now <= local[t].deadline /\ local[t].deadline <= Bound(s, n)
      /\ local[t].deadline \in Nat
  BY <1>6, <1>7
<1>9. /\ Bound(s, n + 1) = Bound(s, n) + Wall + Overhead /\ Bound(s, n) \in Nat
      /\ Wall \in Nat /\ Overhead \in Nat
  BY <1>8, BoundStep, NumbersAssumption
<1>10. InTime("harness", l, now)
  <2>1. now <= l.deadline /\ l.deadline <= Bound(s, n + 1)
    BY <1>1, <1>4, <1>8, <1>9
  <2> QED
    BY <1>1, <1>8, <2>1 DEF InTime, Spent
<1>11. lock' = [holder |-> t, at |-> l.started]
  BY <1>1, <1>3, <1>4, LiveKeepsLock DEF Live, Attempting
<1>12. runs'[l.row].start >= l.started
  BY <1>1, <1>2, <1>5, <1>8
<1> HIDE DEF s, n
<1> QED
  BY <1>1, <1>2, <1>3, <1>5, <1>10, <1>11, <1>12, MovesSafety

\* The child ends and the outcome is classified: the run keeps lock and row.
LEMMA VerdictSafety ==
  ASSUME SafetyInv, TypeInv', NEW t \in Tasks, HarnessEnds(t) \/ Classify(t)
  PROVE  SafetyInv'
<1>1. PICK from \in {"harness", "classify"}, to \in {"classify", "finish"},
           l \in Locals :
        /\ Moves(t, from, to, l)
        /\ l.started = local[t].started /\ l.deadline = local[t].deadline
        /\ l.attempt = local[t].attempt /\ l.row = local[t].row
  BY HarnessEndsMoves, ClassifyMoves DEF SafetyInv
<1>2. now' = now /\ lock' = lock /\ runs' = runs
  BY Zenon DEF HarnessEnds, Classify
<1>3. OnTime(t) /\ RowOpen(t) /\ pc[t] = from
  BY <1>1 DEF SafetyInv, Moves
<1>4. InTime(to, l, now)
  BY <1>1, <1>3 DEF OnTime, InTime, Spent, Timed, Live, Attempting
<1>5. lock' = [holder |-> t, at |-> l.started]
  BY <1>1, <1>2, <1>3, LiveKeepsLock DEF Live, Attempting
<1>6. /\ l.row \in DOMAIN runs' /\ runs'[l.row].task = t
      /\ runs'[l.row].status = "running" /\ runs'[l.row].start >= l.started
  BY <1>1, <1>2, <1>3 DEF RowOpen
<1> QED
  BY <1>1, <1>2, <1>4, <1>5, <1>6, MovesSafety

LEMMA FinishSafety ==
  ASSUME SafetyInv, TypeInv', NEW t \in Tasks, FinishLast(t) \/ FinishAndRetry(t)
  PROVE  SafetyInv'
<1>1. PICK l \in Locals, to \in {"release", "preparing"} :
        /\ Moves(t, "finish", to, l)
        /\ l.started = local[t].started /\ l.deadline = local[t].deadline
        /\ to = "release" => l.attempt = local[t].attempt
        /\ to = "preparing" => /\ l.attempt = local[t].attempt + 1
                               /\ local[t].attempt # MaxAttempts
  BY FinishMoves DEF SafetyInv
<1>2. PICK r \in RunRow : runs' = [runs EXCEPT ![local[t].row] = r]
  BY FinishMoves DEF SafetyInv
<1>3. now' = now /\ lock' = lock
  BY Zenon DEF FinishLast, FinishAndRetry
<1>4. /\ runs \in Seq(RunRow) /\ pc[t] = "finish" /\ OnTime(t) /\ RowOpen(t)
      /\ local[t].attempt \in Nat /\ MaxAttempts \in Nat
  BY <1>1, NumbersAssumption
     DEF SafetyInv, TypeInv, TypeOK, Moves, Locals
<1>5. local[t].row \in DOMAIN runs /\ runs[local[t].row].task = t
  BY <1>4 DEF RowOpen
<1>6. \A i \in DOMAIN runs :
        runs[i].task # t => i \in DOMAIN runs' /\ runs'[i] = runs[i]
  BY <1>2, <1>4, <1>5, ReplaceRow
<1>7. InTime(to, l, now)
  <2>1. /\ l.started <= now /\ now <= l.deadline
        /\ local[t].attempt \in 1..MaxAttempts
        /\ l.deadline <= Bound(l.started, local[t].attempt)
    BY <1>1, <1>4 DEF OnTime, InTime, Spent, Timed, Live, Attempting
  <2>2. l.attempt \in 1..MaxAttempts /\ Spent(to, l) = local[t].attempt
    BY <1>1, <1>4, <2>1 DEF Spent
  <2> QED
    BY <2>1, <2>2 DEF InTime
<1>8. lock' = [holder |-> t, at |-> l.started]
  BY <1>1, <1>3, <1>4, LiveKeepsLock DEF Live, Attempting
<1> QED
  BY <1>1, <1>3, <1>6, <1>7, <1>8, MovesSafety

LEMMA AttemptErrsSafety ==
  ASSUME SafetyInv, TypeInv', NEW t \in Tasks, AttemptErrs(t)
  PROVE  SafetyInv'
<1>1. PICK from \in {"preparing", "classify", "finish"} :
        Moves(t, from, "release", local[t])
  BY AttemptErrsMoves DEF SafetyInv
<1>2. now' = now /\ lock' = lock /\ runs' = runs
  BY Zenon DEF AttemptErrs
<1>3. OnTime(t) /\ pc[t] = from /\ local[t] \in Locals
  BY <1>1 DEF SafetyInv, TypeInv, TypeOK, Moves
<1> DEFINE s == local[t].started
           n == local[t].attempt
           m == n - 1
<1>4. /\ s <= now /\ now <= local[t].deadline /\ n \in 1..MaxAttempts
      /\ \/ local[t].deadline <= Bound(s, n)
         \/ local[t].deadline <= Bound(s, m)
  BY <1>3 DEF OnTime, InTime, Spent, Timed, Live, Attempting
<1>5. s \in Nat /\ local[t].deadline \in Nat /\ MaxAttempts \in Nat
  BY <1>3, NumbersAssumption DEF Locals
<1>6. m \in Nat /\ m + 1 = n
  BY <1>4, <1>5
<1>7. /\ Bound(s, n) = Bound(s, m) + Wall + Overhead
      /\ Bound(s, m) \in Nat /\ Wall \in Nat /\ Overhead \in Nat
  <2> HIDE DEF m
  <2>1. /\ Bound(s, m + 1) = Bound(s, m) + Wall + Overhead
        /\ Bound(s, m) \in Nat
    BY <1>5, <1>6, BoundStep
  <2> QED
    BY <1>6, <2>1, NumbersAssumption
<1>8. local[t].deadline <= Bound(s, n)
  BY <1>4, <1>5, <1>7
<1>9. InTime("release", local[t], now)
  BY <1>4, <1>8 DEF InTime, Spent
<1>10. lock' = [holder |-> t, at |-> s]
  BY <1>2, <1>3, LiveKeepsLock DEF Live, Attempting
<1> QED
  BY <1>1, <1>2, <1>3, <1>9, <1>10, MovesSafety

LEMMA RunSafety ==
  ASSUME Timely, SafetyInv, TypeInv', NEW t \in Tasks, Begin(t) \/ RunStep(t)
  PROVE  SafetyInv'
  BY BeginSafety, AcquireSafety, ReturnSafety, StartAttemptSafety,
     VerdictSafety, FinishSafety, AttemptErrsSafety DEF RunStep

LEMMA WebSafety ==
  ASSUME SafetyInv, TypeInv', NEW w \in Web, CountManual(w) \/ WebStep(w)
  PROVE  SafetyInv'
<1>1. UNCHANGED <<now, lock, runs, local>> /\ w \in Tasks
  BY WebFrame DEF SafetyInv, Tasks, Service
<1>2. PICK p \in {"idle", "counted", "flagged", "spawned"} :
        pc' = [pc EXCEPT ![w] = p]
  BY WebFrame DEF SafetyInv
<1>3. Moves(w, pc[w], p, local[w])
  BY <1>1, <1>2 DEF SafetyInv, TypeInv, TypeOK, Moves
<1>4. InTime(p, local[w], now) /\ p \notin Live /\ local[w] \in Locals
  BY <1>1 DEF InTime, Timed, Live, Attempting, SafetyInv, TypeInv, TypeOK
<1> QED
  BY <1>1, <1>3, <1>4, MovesSafety

-----------------------------------------------------------------------------
(* Deaths, restarts, the child, time *)

LEMMA DieSafety ==
  ASSUME SafetyInv, TypeInv', NEW D, Die(D)
  PROVE  SafetyInv'
<1>1. /\ UNCHANGED <<now, lock, runs>>
      /\ \A u \in Tasks : \/ pc'[u] = "idle"
                          \/ pc'[u] = pc[u] /\ local'[u] = local[u]
  BY DieMoves DEF SafetyInv
<1>2. LiveRunHoldsLock'
  BY <1>1 DEF SafetyInv, LiveRunHoldsLock, LiveTasks, Live, Attempting
<1>3. ASSUME NEW u \in Tasks PROVE OnTime(u)' /\ RowOpen(u)'
  <2>1. OnTime(u) /\ RowOpen(u)
    BY DEF SafetyInv
  <2>2. CASE pc'[u] = "idle"
    BY <2>2 DEF OnTime, InTime, RowOpen, Timed, Live, Attempting
  <2>3. CASE pc'[u] = pc[u] /\ local'[u] = local[u]
    BY <1>1, <2>1, <2>3 DEF OnTime, RowOpen
  <2> QED
    BY <1>1, <2>2, <2>3
<1> QED
  BY <1>2, <1>3 DEF SafetyInv

LEMMA ServiceStartsSafety ==
  ASSUME Timely, SafetyInv, TypeInv', ServiceStarts
  PROVE  SafetyInv'
<1>1. UNCHANGED <<now, lock, pc, local>>
  BY Zenon DEF ServiceStarts
<1>2. /\ runs' \in Seq(RunRow) /\ Len(runs') = Len(runs) /\ runs \in Seq(RunRow)
      /\ \A i \in DOMAIN runs : ~Orphaned(runs[i]) => runs'[i] = runs[i]
  BY StartsRuns DEF SafetyInv, TypeInv, TypeOK
<1>3. ASSUME NEW u \in Tasks PROVE RowOpen(u)'
  <2> SUFFICES ASSUME pc[u] \in {"harness", "classify", "finish"}
               PROVE  RowOpen(u)'
    BY <1>1 DEF RowOpen
  <2> DEFINE r == runs[local[u].row]
  <2>1. /\ local[u].row \in DOMAIN runs /\ r.task = u
        /\ r.status = "running" /\ r.start >= local[u].started
    BY DEF SafetyInv, RowOpen
  <2>2. local[u].started \in Nat /\ now <= local[u].started + Window
    BY YoungRun DEF SafetyInv, Timed, Live, Attempting
  <2>3. r.start \in Nat /\ Window \in Nat /\ now \in Nat
    <3>1. r \in RunRow
      BY <1>2, <2>1
    <3> QED
      BY <3>1, NumbersAssumption DEF RunRow, Window, SafetyInv, TypeInv, TypeOK
  <2>4. ~Orphaned(r)
    BY <2>1, <2>2, <2>3 DEF Orphaned
  <2>5. runs'[local[u].row] = r /\ local[u].row \in DOMAIN runs'
    BY <1>2, <2>1, <2>4
  <2> QED
    BY <1>1, <2>1, <2>5 DEF RowOpen
<1>4. LiveRunHoldsLock' /\ \A u \in Tasks : OnTime(u)'
  BY <1>1 DEF SafetyInv, LiveRunHoldsLock, LiveTasks, OnTime
<1> QED
  BY <1>3, <1>4 DEF SafetyInv

LEMMA ChildWritesSafety ==
  ASSUME SafetyInv, TypeInv', NEW i \in DOMAIN runs, ChildWrites(i)
  PROVE  SafetyInv'
<1>1. UNCHANGED <<now, lock, runs, pc, local>>
  BY Zenon DEF ChildWrites
<1> QED
  BY <1>1 DEF SafetyInv, LiveRunHoldsLock, LiveTasks, OnTime, RowOpen

\* Time stops at the first deadline.
LEMMA TickSafety ==
  ASSUME SafetyInv, TypeInv', Tick
  PROVE  SafetyInv'
<1>1. UNCHANGED <<lock, runs, pc, local>> /\ now' = now + 1
  BY Zenon DEF Tick
<1>2. LiveRunHoldsLock' /\ \A u \in Tasks : RowOpen(u)'
  BY <1>1 DEF SafetyInv, LiveRunHoldsLock, LiveTasks, RowOpen
<1>3. ASSUME NEW u \in Tasks PROVE OnTime(u)'
  <2>1. CASE pc[u] \in Timed
    <3>1. now < local[u].deadline
      BY <2>1 DEF Tick, TimedTasks
    <3>2. now \in Nat /\ local[u].deadline \in Nat /\ local[u].started \in Nat
      BY DEF SafetyInv, TypeInv, TypeOK, Locals
    <3>3. OnTime(u)
      BY DEF SafetyInv
    <3>4. now + 1 <= local[u].deadline /\ local[u].started <= now + 1
      BY <2>1, <3>1, <3>2, <3>3 DEF OnTime, InTime
    <3> QED
      BY <1>1, <2>1, <3>3, <3>4 DEF OnTime, InTime
  <2>2. CASE pc[u] \notin Timed
    BY <1>1, <2>2 DEF OnTime, InTime
  <2> QED
    BY <2>1, <2>2
<1> QED
  BY <1>2, <1>3 DEF SafetyInv

LEMMA NextSafetyInv ==
  ASSUME Timely
  PROVE  SafetyInv /\ [Next]_vars => SafetyInv'
<1> SUFFICES ASSUME SafetyInv, [Next]_vars PROVE SafetyInv'
  OBVIOUS
<1>1. TypeInv'
  BY NextTypeInv DEF SafetyInv
<1>2. CASE Next
  <2>1. CASE \E w \in Web : CountManual(w) \/ WebStep(w)
    BY <1>1, <2>1, WebSafety
  <2>2. CASE \E t \in Tasks : Begin(t) \/ RunStep(t)
    BY <1>1, <2>2, RunSafety
  <2>3. CASE \E i \in DOMAIN runs : ChildWrites(i)
    BY <1>1, <2>3, ChildWritesSafety
  <2>4. CASE (\E c \in Cli : CliDies(c)) \/ ServiceDies
    BY <1>1, <2>4, DieSafety DEF CliDies, ServiceDies
  <2>5. CASE ServiceStarts
    BY <1>1, <2>5, ServiceStartsSafety
  <2>6. CASE Tick
    BY <1>1, <2>6, TickSafety
  <2> QED
    BY <1>2, <2>1, <2>2, <2>3, <2>4, <2>5, <2>6 DEF Next
<1>3. CASE UNCHANGED vars
  BY <1>1, <1>3
     DEF SafetyInv, LiveRunHoldsLock, LiveTasks, OnTime, RowOpen, vars
<1> QED
  BY <1>2, <1>3

-----------------------------------------------------------------------------

\* If a run fits in the stale window, then at all times every run between its
\* acquire_lock and its release_lock finds its own row in run_lock.
THEOREM LockIsHeld ==
  ASSUME Timely
  PROVE  Spec => []LiveRunHoldsLock
<1>1. SafetyInv => LiveRunHoldsLock
  BY DEF SafetyInv
<1>2. SafetyInv /\ [Next]_vars => SafetyInv'
  BY NextSafetyInv
<1> QED
  BY <1>1, <1>2, InitSafetyInv, PTL DEF Spec

\* Two runs never go on at the same time, however many ask for one.
THEOREM MutualExclusion ==
  ASSUME Timely
  PROVE  Spec => []AtMostOneLiveRun
<1>1. LiveRunHoldsLock => AtMostOneLiveRun
  BY DEF LiveRunHoldsLock, AtMostOneLiveRun
<1> QED
  BY <1>1, LockIsHeld, PTL

\* A service that starts never closes the row of a run that is going on.
THEOREM OpenRowsStayOpen ==
  ASSUME Timely
  PROVE  Spec => []LiveRowIsOpen
<1>1. SafetyInv => LiveRowIsOpen
  BY DEF SafetyInv, RowOpen, LiveRowIsOpen
<1>2. SafetyInv /\ [Next]_vars => SafetyInv'
  BY NextSafetyInv
<1> QED
  BY <1>1, <1>2, InitSafetyInv, PTL DEF Spec

-----------------------------------------------------------------------------
(* The serial ledger *)

\* A run is at the last row, or has none yet: locals l of task t at place p,
\* with the table q.  A retry follows a failed row with the next number.
AtLastRow(t, p, l, q) ==
  /\ p = "acquiring" => l.row = 0
  /\ p \in Live /\ l.row = 0 => p \in {"preparing", "release"} /\ l.attempt = 1
  /\ p \in Live /\ l.row # 0 =>
       /\ l.row = Len(q) /\ q[l.row].task = t /\ q[l.row].start >= l.started
       /\ p = "preparing" => /\ q[l.row].status \in {"failed", "killed"}
                             /\ q[l.row].attempt + 1 = l.attempt
       /\ p \in {"harness", "classify", "finish"} => q[l.row].attempt = l.attempt

LedgerInv ==
  /\ SafetyInv
  /\ \A t \in Tasks : AtLastRow(t, pc[t], local[t], runs)

LEMMA OneLiveRun == SafetyInv => AtMostOneLiveRun
  BY DEF SafetyInv, LiveRunHoldsLock, AtMostOneLiveRun

\* Only the live task writes rows, so the others' rows are nobody's concern.
LEMMA MovesLedger ==
  ASSUME LedgerInv, SafetyInv', NEW t \in Tasks, NEW from, NEW to, NEW l \in Locals,
         Moves(t, from, to, l), AtLastRow(t, to, l, runs'),
         runs' = runs \/ from \in Live
  PROVE  LedgerInv'
<1>1. \A u \in Tasks : /\ pc'[u] = IF u = t THEN to ELSE pc[u]
                       /\ local'[u] = IF u = t THEN l ELSE local[u]
  BY DEF Moves, LedgerInv, SafetyInv, TypeInv, TypeOK
<1>2. ASSUME NEW u \in Tasks, u # t
      PROVE  AtLastRow(u, pc'[u], local'[u], runs')
  <2>1. pc'[u] = pc[u] /\ local'[u] = local[u] /\ AtLastRow(u, pc[u], local[u], runs)
    BY <1>1, <1>2 DEF LedgerInv
  <2>2. CASE runs' = runs
    BY <2>1, <2>2
  <2>3. CASE from \in Live
    <3>1. pc[u] \notin Live
      BY <1>2, <2>3, OneLiveRun DEF Moves, LedgerInv, AtMostOneLiveRun, LiveTasks
    <3> QED
      BY <2>1, <3>1 DEF AtLastRow
  <2> QED
    BY <2>2, <2>3
<1>3. AtLastRow(t, pc'[t], local'[t], runs')
  BY <1>1
<1> QED
  BY <1>2, <1>3 DEF LedgerInv

LEMMA RunLedgerInv ==
  ASSUME LedgerInv, SafetyInv', NEW t \in Tasks, Begin(t) \/ RunStep(t)
  PROVE  LedgerInv'
<1>0. /\ TypeInv /\ runs \in Seq(RunRow) /\ local[t] \in Locals
      /\ OnTime(t) /\ RowOpen(t) /\ AtLastRow(t, pc[t], local[t], runs)
  BY DEF LedgerInv, SafetyInv, TypeInv, TypeOK
<1>1. CASE Begin(t)
  <2>1. PICK from \in {"idle", "spawned"}, l \in Locals :
          Moves(t, from, "acquiring", l) /\ l.row = 0
    BY <1>0, <1>1, BeginMoves
  <2>2. runs' = runs /\ AtLastRow(t, "acquiring", l, runs')
    BY <1>1, <2>1 DEF Begin, AtLastRow, Live, Attempting
  <2> QED
    BY <2>1, <2>2, MovesLedger
<1>2. CASE Acquire(t)
  <2>1. PICK l \in Locals : /\ Moves(t, "acquiring", "preparing", l)
                            /\ l.attempt = 1 /\ l.row = local[t].row
    BY <1>0, <1>2, AcquireMoves
  <2>2. runs' = runs /\ AtLastRow(t, "preparing", l, runs')
    BY <1>0, <1>2, <2>1 DEF Acquire, Moves, AtLastRow
  <2> QED
    BY <2>1, <2>2, MovesLedger
<1>3. CASE Refuse(t) \/ Release(t)
  <2>1. PICK from \in {"acquiring", "release"}, to \in {"clear", "idle"} :
          Moves(t, from, to, NoLocal)
    BY <1>0, <1>3, ReturnMoves DEF Refuse, Release
  <2>2. runs' = runs /\ AtLastRow(t, to, NoLocal, runs')
    BY <1>3, <2>1 DEF Refuse, Release, AtLastRow, Live, Attempting
  <2> QED
    BY <2>1, <2>2, MovesLedger, NoLocalType
<1>4. CASE StartAttempt(t)
  <2>1. PICK l \in Locals :
          /\ Moves(t, "preparing", "harness", l)
          /\ l.started = local[t].started /\ l.attempt = local[t].attempt
          /\ l.row = Len(runs) + 1
    BY <1>0, <1>4, StartAttemptMoves
  <2>2. PICK r \in RunRow :
          /\ runs' = Append(runs, r)
          /\ r.task = t /\ r.start = now /\ r.attempt = local[t].attempt
    BY <1>0, <1>4, StartAttemptMoves
  <2>3. l.row = Len(runs') /\ runs'[l.row] = r /\ l.row # 0
    BY <1>0, <2>1, <2>2
  <2>4. now >= local[t].started
    <3>1. local[t].started <= now
      BY <1>0, <2>1 DEF OnTime, InTime, Moves, Timed, Live, Attempting
    <3>2. local[t].started \in Nat /\ now \in Nat
      BY <1>0 DEF Locals, TypeInv, TypeOK
    <3> QED
      BY <3>1, <3>2
  <2>5. AtLastRow(t, "harness", l, runs')
    BY <2>1, <2>2, <2>3, <2>4 DEF AtLastRow
  <2> QED
    BY <2>1, <2>5, MovesLedger DEF Live, Attempting
<1>5. CASE HarnessEnds(t) \/ Classify(t)
  <2>1. PICK from \in {"harness", "classify"}, to \in {"classify", "finish"},
             l \in Locals :
          /\ Moves(t, from, to, l)
          /\ l.started = local[t].started /\ l.attempt = local[t].attempt
          /\ l.row = local[t].row
    BY <1>0, <1>5, HarnessEndsMoves, ClassifyMoves
  <2>2. runs' = runs
    BY <1>5 DEF HarnessEnds, Classify
  <2>3. AtLastRow(t, to, l, runs')
    BY <1>0, <2>1, <2>2 DEF AtLastRow, Moves, Live, Attempting
  <2> QED
    BY <2>1, <2>2, <2>3, MovesLedger
<1>6. CASE FinishLast(t) \/ FinishAndRetry(t)
  <2>1. PICK l \in Locals, to \in {"release", "preparing"} :
          /\ Moves(t, "finish", to, l)
          /\ l.started = local[t].started /\ l.row = local[t].row
          /\ to = "preparing" => /\ l.attempt = local[t].attempt + 1
                                 /\ local[t].result # "success"
    BY <1>0, <1>6, FinishMoves
  <2> DEFINE row == local[t].row
  <2>2. PICK r \in RunRow :
          /\ runs' = [runs EXCEPT ![row] = r]
          /\ r.task = runs[row].task /\ r.start = runs[row].start
          /\ r.attempt = runs[row].attempt
          /\ r.status = local[t].result /\ r.status \in Outcomes
    BY <1>0, <1>6, FinishMoves
  <2>3. row \in DOMAIN runs
    BY <1>0, <1>6, FinishMoves
  <2>4. Len(runs') = Len(runs) /\ runs'[row] = r
    BY <1>0, <2>2, <2>3, ReplaceRow
  <2>5. /\ row # 0 /\ row = Len(runs) /\ runs[row].task = t
        /\ runs[row].start >= local[t].started
        /\ runs[row].attempt = local[t].attempt
    BY <1>0, <2>1, <2>3 DEF AtLastRow, Moves, Live, Attempting
  <2>6. AtLastRow(t, to, l, runs')
    BY <2>1, <2>2, <2>4, <2>5 DEF AtLastRow, Outcomes
  <2> HIDE DEF row
  <2> QED
    BY <2>1, <2>6, MovesLedger DEF Live, Attempting
<1>7. CASE AttemptErrs(t)
  <2>1. PICK from \in {"preparing", "classify", "finish"} :
          Moves(t, from, "release", local[t])
    BY <1>0, <1>7, AttemptErrsMoves
  <2>2. runs' = runs
    BY <1>7 DEF AttemptErrs
  <2>3. AtLastRow(t, "release", local[t], runs')
    BY <1>0, <2>1, <2>2 DEF AtLastRow, Moves, Live, Attempting
  <2> QED
    BY <1>0, <2>1, <2>2, <2>3, MovesLedger
<1> QED
  BY <1>1, <1>2, <1>3, <1>4, <1>5, <1>6, <1>7 DEF RunStep

LEMMA WebLedgerInv ==
  ASSUME LedgerInv, SafetyInv', NEW w \in Web, CountManual(w) \/ WebStep(w)
  PROVE  LedgerInv'
<1>1. UNCHANGED <<runs, local>> /\ w \in Tasks
  BY WebFrame DEF LedgerInv, SafetyInv, Tasks, Service
<1>2. PICK p \in {"idle", "counted", "flagged", "spawned"} :
        pc' = [pc EXCEPT ![w] = p]
  BY WebFrame DEF LedgerInv, SafetyInv
<1>3. Moves(w, pc[w], p, local[w]) /\ local[w] \in Locals
  BY <1>1, <1>2 DEF LedgerInv, SafetyInv, TypeInv, TypeOK, Moves
<1>4. AtLastRow(w, p, local[w], runs')
  BY DEF AtLastRow, Live, Attempting
<1> QED
  BY <1>1, <1>3, <1>4, MovesLedger

\* The sweep of a service that starts passes by whatever a live run may touch.
LEMMA SweepSpares ==
  ASSUME Timely, LedgerInv, NEW t \in LiveTasks, local[t].row # 0
  PROVE  ~Orphaned(runs[local[t].row]) /\ local[t].row \in DOMAIN runs
<1>1. /\ local[t].row = Len(runs) /\ runs[local[t].row].start >= local[t].started
      /\ runs \in Seq(RunRow) /\ pc[t] \in Live /\ t \in Tasks
  BY DEF LedgerInv, AtLastRow, LiveTasks, SafetyInv, TypeInv, TypeOK
<1>2. local[t].row \in DOMAIN runs /\ runs[local[t].row] \in RunRow
  BY <1>1
<1>3. /\ local[t].started \in Nat /\ now <= local[t].started + Window
      /\ now \in Nat /\ Window \in Nat
  BY <1>1, YoungRun, NumbersAssumption
     DEF LedgerInv, SafetyInv, Timed, TypeInv, TypeOK, Window
<1> QED
  BY <1>1, <1>2, <1>3 DEF Orphaned, RunRow

LEMMA EnvironmentLedgerInv ==
  ASSUME Timely, LedgerInv, SafetyInv',
         \/ \E i \in DOMAIN runs : ChildWrites(i)
         \/ \E c \in Cli : CliDies(c)
         \/ ServiceDies
         \/ ServiceStarts
         \/ Tick
  PROVE  LedgerInv'
<1>1. CASE (\E i \in DOMAIN runs : ChildWrites(i)) \/ Tick
  <2>1. UNCHANGED <<runs, pc, local>>
    BY <1>1, Zenon DEF ChildWrites, Tick
  <2> QED
    BY <2>1 DEF LedgerInv
<1>2. CASE (\E c \in Cli : CliDies(c)) \/ ServiceDies
  <2>1. PICK D : Die(D)
    BY <1>2 DEF CliDies, ServiceDies
  <2>2. /\ UNCHANGED runs
        /\ \A u \in Tasks : \/ pc'[u] = "idle"
                            \/ pc'[u] = pc[u] /\ local'[u] = local[u]
    BY <2>1, DieMoves DEF LedgerInv, SafetyInv
  <2>3. \A u \in Tasks, l \in Locals : AtLastRow(u, "idle", l, runs')
    BY DEF AtLastRow, Live, Attempting
  <2>4. \A u \in Tasks : local'[u] \in Locals
    BY DEF SafetyInv, TypeInv, TypeOK
  <2> QED
    BY <2>2, <2>3, <2>4 DEF LedgerInv
<1>3. CASE ServiceStarts
  <2>1. UNCHANGED <<pc, local>>
    BY <1>3, Zenon DEF ServiceStarts
  <2>2. /\ Len(runs') = Len(runs)
        /\ \A i \in DOMAIN runs : runs'[i] = runs[i] \/ Orphaned(runs[i])
    BY <1>3, StartsRuns DEF LedgerInv, SafetyInv
  <2>3. ASSUME NEW u \in Tasks PROVE AtLastRow(u, pc[u], local[u], runs')
    <3>1. AtLastRow(u, pc[u], local[u], runs)
      BY DEF LedgerInv
    <3>2. CASE pc[u] \in Live /\ local[u].row # 0
      <4>1. runs'[local[u].row] = runs[local[u].row]
        BY <2>2, <3>2, SweepSpares DEF LiveTasks
      <4> QED
        BY <2>2, <3>1, <4>1 DEF AtLastRow
    <3>3. CASE ~(pc[u] \in Live /\ local[u].row # 0)
      BY <3>1, <3>3 DEF AtLastRow
    <3> QED
      BY <3>2, <3>3
  <2> QED
    BY <2>1, <2>3 DEF LedgerInv
<1> QED
  BY <1>1, <1>2, <1>3

LEMMA NextLedgerInv ==
  ASSUME Timely
  PROVE  LedgerInv /\ [Next]_vars => LedgerInv'
<1> SUFFICES ASSUME LedgerInv, [Next]_vars PROVE LedgerInv'
  OBVIOUS
<1>1. SafetyInv'
  BY NextSafetyInv DEF LedgerInv
<1>2. CASE Next
  BY <1>1, <1>2, WebLedgerInv, RunLedgerInv, EnvironmentLedgerInv DEF Next
<1>3. CASE UNCHANGED vars
  BY <1>1, <1>3 DEF LedgerInv, vars
<1> QED
  BY <1>2, <1>3

-----------------------------------------------------------------------------
(* What a reader of the table sees: who works, and the rows in brief *)

Fresh == \E t \in LiveTasks : local[t].row = 0

Brief(r) == [task |-> r.task, attempt |-> r.attempt, status |-> r.status]
Briefs(q) == [i \in DOMAIN q |-> [task |-> q[i].task, attempt |-> q[i].attempt,
                                  status |-> q[i].status]]

BriefRow == [task : Tasks, attempt : Nat, status : Statuses]

LEMMA BriefsType ==
  ASSUME NEW q \in Seq(RunRow)
  PROVE  /\ Briefs(q) \in Seq(BriefRow) /\ Len(Briefs(q)) = Len(q)
         /\ DOMAIN Briefs(q) = DOMAIN q /\ DOMAIN q = 1..Len(q) /\ Len(q) \in Nat
         /\ \A i \in DOMAIN q : Briefs(q)[i] = Brief(q[i]) /\ Brief(q[i]) \in BriefRow
<1>1. DOMAIN Briefs(q) = 1..Len(q) /\ Len(q) \in Nat /\ DOMAIN q = 1..Len(q)
  BY DEF Briefs
<1>2. ASSUME NEW i \in DOMAIN q
      PROVE  Briefs(q)[i] = Brief(q[i]) /\ Brief(q[i]) \in BriefRow
  <2>1. q[i] \in RunRow
    OBVIOUS
  <2> QED
    BY <2>1 DEF Briefs, Brief, BriefRow, RunRow
<1>3. Briefs(q) \in [1..Len(q) -> BriefRow]
  BY <1>1, <1>2 DEF Briefs, Brief
<1>4. Briefs(q) \in Seq(BriefRow)
  BY <1>1, <1>3
<1> QED
  BY <1>1, <1>2, <1>4

LEMMA AppendBriefs ==
  ASSUME NEW q \in Seq(RunRow), NEW r \in RunRow
  PROVE  Briefs(Append(q, r)) = Append(Briefs(q), Brief(r))
<1> DEFINE p == Append(q, r)
<1>1. /\ p \in Seq(RunRow) /\ Len(p) = Len(q) + 1 /\ p[Len(q) + 1] = r
      /\ \A i \in 1..Len(q) : p[i] = q[i]
  BY AppendProperties
<1> HIDE DEF p
<1>2. /\ Briefs(p) \in Seq(BriefRow) /\ Len(Briefs(p)) = Len(p) /\ DOMAIN p = 1..Len(p)
      /\ \A i \in DOMAIN p : Briefs(p)[i] = Brief(p[i]) /\ Brief(p[i]) \in BriefRow
  BY <1>1, BriefsType
<1>3. /\ Briefs(q) \in Seq(BriefRow) /\ Len(Briefs(q)) = Len(q) /\ DOMAIN q = 1..Len(q)
      /\ Len(q) \in Nat /\ \A i \in DOMAIN q : Briefs(q)[i] = Brief(q[i])
  BY BriefsType
<1>4. Brief(r) \in BriefRow
  BY <1>1, <1>2, <1>3
<1> DEFINE a == Append(Briefs(q), Brief(r))
<1>5. /\ a \in Seq(BriefRow) /\ Len(a) = Len(q) + 1 /\ a[Len(q) + 1] = Brief(r)
      /\ \A i \in 1..Len(q) : a[i] = Briefs(q)[i]
  BY <1>3, <1>4, AppendProperties
<1> HIDE DEF a
<1>6. ASSUME NEW i \in 1..(Len(q) + 1) PROVE Briefs(p)[i] = a[i]
  <2>1. Briefs(p)[i] = Brief(p[i])
    BY <1>1, <1>2
  <2>2. CASE i = Len(q) + 1
    BY <1>1, <1>5, <2>1, <2>2
  <2>3. CASE i \in 1..Len(q)
    BY <1>1, <1>3, <1>5, <2>1, <2>3
  <2> QED
    BY <1>3, <2>2, <2>3
<1>7. Briefs(p) = a
  BY <1>1, <1>2, <1>5, <1>6, SeqEqual
<1> QED
  BY <1>7 DEF p, a

LEMMA SettleBriefs ==
  ASSUME NEW q \in Seq(RunRow), NEW i \in DOMAIN q, NEW r \in RunRow,
         r.task = q[i].task, r.attempt = q[i].attempt
  PROVE  Briefs([q EXCEPT ![i] = r]) = [Briefs(q) EXCEPT ![i].status = r.status]
<1> DEFINE p == [q EXCEPT ![i] = r]
<1>1. /\ DOMAIN p = DOMAIN q
      /\ \A j \in DOMAIN q : p[j] = IF j = i THEN r ELSE q[j]
  OBVIOUS
<1> HIDE DEF p
<1>2. Briefs(p) = [j \in DOMAIN q |-> Brief(p[j])]
  BY <1>1 DEF Briefs, Brief
<1>3. DOMAIN Briefs(q) = DOMAIN q /\ \A j \in DOMAIN q : Briefs(q)[j] = Brief(q[j])
  BY DEF Briefs, Brief
<1>4. Brief(r) = [Brief(q[i]) EXCEPT !.status = r.status]
  BY DEF Brief
<1>5. \A j \in DOMAIN q :
        [Briefs(q) EXCEPT ![i].status = r.status][j] = Brief(p[j])
  BY <1>1, <1>3, <1>4
<1> QED
  BY <1>2, <1>3, <1>5 DEF p

LEMMA OwnerIs ==
  /\ AtMostOneLiveRun =>
       \A t \in LiveTasks : Owner = t /\ (Fresh <=> local[t].row = 0)
  /\ LiveTasks = {} => Owner = Nobody /\ ~Fresh
  BY DEF AtMostOneLiveRun, Owner, Fresh

LEMMA OwnerIsNext ==
  /\ AtMostOneLiveRun' =>
       \A t \in LiveTasks' : Owner' = t /\ (Fresh' <=> local'[t].row = 0)
  /\ LiveTasks' = {} => Owner' = Nobody /\ ~Fresh'
  BY DEF AtMostOneLiveRun, Owner, Fresh

Shadow == Briefs(runs)

\* What the ledger says of its steps, in these terms.
LEMMA OpenStep ==
  ASSUME NEW t \in Tasks, Owner = Nobody, Owner' = t, Fresh', Shadow' = Shadow
  PROVE  Ledger!Next
<1>1. Ledger!Open(t)
  BY DEF Ledger!Open, Fresh, Shadow, Briefs
<1> QED
  BY <1>1 DEF Ledger!Next

LEMMA FirstStep ==
  ASSUME NEW t \in Tasks, Owner = t, Owner' = t, Fresh, ~Fresh',
         Shadow' = Append(Shadow, [task |-> t, attempt |-> 1, status |-> "running"])
  PROVE  Ledger!Next
<1>1. Ledger!FirstAttempt(t)
  BY DEF Ledger!FirstAttempt, Ledger!Row, Fresh, Shadow, Briefs
<1> QED
  BY <1>1 DEF Ledger!Next

LEMMA RetryStep ==
  ASSUME NEW t \in Tasks, Owner = t, Owner' = t, ~Fresh, ~Fresh',
         NEW last, last = Shadow[Len(Shadow)],
         last.task = t, last.status \in {"failed", "killed"},
         last.attempt < MaxAttempts,
         Shadow' = Append(Shadow, [task |-> t, attempt |-> last.attempt + 1,
                                   status |-> "running"])
  PROVE  Ledger!Next
<1>1. Ledger!Last = last
  BY DEF Ledger!Last, Shadow, Briefs
<1>2. Ledger!Retry(t)
  BY <1>1 DEF Ledger!Retry, Ledger!Row, Fresh, Shadow, Briefs
<1> QED
  BY <1>2 DEF Ledger!Next

LEMMA SettleStep ==
  ASSUME NEW t \in Tasks, Owner = t, Owner' = t, ~Fresh, ~Fresh',
         NEW n, n = Len(Shadow), Shadow[n].task = t, Shadow[n].status = "running",
         NEW s \in Outcomes, Shadow' = [Shadow EXCEPT ![n].status = s]
  PROVE  Ledger!Next
<1>1. Ledger!Last = Shadow[n]
  BY DEF Ledger!Last, Shadow, Briefs
<1>2. s \in Ledger!Closed
  BY DEF Ledger!Closed, Outcomes
<1>3. Ledger!Settle(t)
  BY <1>1, <1>2 DEF Ledger!Settle, Fresh, Shadow, Briefs
<1> QED
  BY <1>3 DEF Ledger!Next

LEMMA LeaveStep ==
  ASSUME Owner # Nobody, Owner' = Nobody, ~Fresh', Shadow' = Shadow
  PROVE  Ledger!Next
<1>1. Ledger!Leave
  BY DEF Ledger!Leave, Fresh, Shadow, Briefs
<1> QED
  BY <1>1 DEF Ledger!Next

LEMMA SweepStep ==
  ASSUME Owner' = Owner, Fresh' <=> Fresh,
         NEW S \in SUBSET DOMAIN Shadow, \A i \in S : Shadow[i].status = "running",
         Owner # Nobody /\ ~Fresh => Len(Shadow) \notin S,
         Shadow' = [i \in DOMAIN Shadow |->
           IF i \in S THEN [Shadow[i] EXCEPT !.status = "killed"] ELSE Shadow[i]]
  PROVE  Ledger!Next
<1>1. S \in SUBSET {i \in DOMAIN Shadow \ Ledger!Busy : Shadow[i].status = "running"}
  BY DEF Ledger!Busy, Fresh, Shadow, Briefs
<1>2. Ledger!Sweep
  BY <1>1, Zenon DEF Ledger!Sweep, Fresh, Shadow, Briefs
<1> QED
  BY <1>2 DEF Ledger!Next

LEMMA StutterStep ==
  ASSUME Owner' = Owner, Fresh' <=> Fresh, Shadow' = Shadow
  PROVE  UNCHANGED Ledger!vars
  BY DEF Ledger!vars, Fresh, Shadow, Briefs

\* Who works before and after a step of task t.
LEMMA MovesOwner ==
  ASSUME LedgerInv, LedgerInv', NEW t \in Tasks, NEW from, NEW to, NEW l \in Locals,
         Moves(t, from, to, l)
  PROVE  /\ from \in Live => Owner = t /\ (Fresh <=> local[t].row = 0)
         /\ to \in Live => Owner' = t /\ (Fresh' <=> l.row = 0)
         /\ from \in Live /\ to \notin Live => Owner' = Nobody /\ ~Fresh'
         /\ from \notin Live /\ to \in Live => Owner = Nobody
         /\ from \notin Live /\ to \notin Live => Owner' = Owner /\ (Fresh' <=> Fresh)
<1>1. \A u \in Tasks : /\ pc'[u] = IF u = t THEN to ELSE pc[u]
                       /\ local'[u] = IF u = t THEN l ELSE local[u]
  BY DEF Moves, LedgerInv, SafetyInv, TypeInv, TypeOK
<1>2. AtMostOneLiveRun /\ AtMostOneLiveRun'
  BY DEF LedgerInv, SafetyInv, LiveRunHoldsLock, AtMostOneLiveRun, LiveTasks
<1>3. pc[t] = from
  BY DEF Moves
<1>4. \A u \in Tasks \ {t} : u \in LiveTasks' <=> u \in LiveTasks
  BY <1>1 DEF LiveTasks
<1>5. (t \in LiveTasks <=> from \in Live) /\ (t \in LiveTasks' <=> to \in Live)
  BY <1>1, <1>3 DEF LiveTasks
<1>6. ASSUME from \in Live
      PROVE  Owner = t /\ (Fresh <=> local[t].row = 0)
  BY <1>2, <1>5, <1>6, OwnerIs
<1>7. ASSUME to \in Live
      PROVE  Owner' = t /\ (Fresh' <=> l.row = 0)
  BY <1>1, <1>2, <1>5, <1>7, OwnerIsNext
<1>8. ASSUME from \in Live, to \notin Live
      PROVE  Owner' = Nobody /\ ~Fresh'
  <2>1. LiveTasks = {t}
    BY <1>2, <1>5, <1>8 DEF AtMostOneLiveRun
  <2>2. LiveTasks' = {}
    BY <1>4, <1>5, <1>8, <2>1 DEF LiveTasks
  <2> QED
    BY <2>2, OwnerIsNext
<1>9. ASSUME from \notin Live, to \in Live
      PROVE  Owner = Nobody
  <2>1. LiveTasks = {}
    BY <1>2, <1>4, <1>5, <1>9 DEF AtMostOneLiveRun, LiveTasks
  <2> QED
    BY <2>1, OwnerIs
<1>10. ASSUME from \notin Live, to \notin Live
       PROVE  Owner' = Owner /\ (Fresh' <=> Fresh)
  <2>1. LiveTasks' = LiveTasks
    BY <1>4, <1>5, <1>10 DEF LiveTasks
  <2>2. \A u \in LiveTasks : local'[u] = local[u]
    BY <1>1, <1>5, <1>10 DEF LiveTasks
  <2> QED
    BY <2>1, <2>2 DEF Owner, Fresh
<1> QED
  BY <1>6, <1>7, <1>8, <1>9, <1>10

-----------------------------------------------------------------------------
(* The step map *)

Simulates == Ledger!Next \/ UNCHANGED Ledger!vars

\* Taking the lock opens a run; giving up and releasing it leave the run.
LEMMA QuietMap ==
  ASSUME LedgerInv, LedgerInv', NEW t \in Tasks, Begin(t) \/ RunStep(t),
         ~StartAttempt(t), ~FinishLast(t), ~FinishAndRetry(t)
  PROVE  Simulates
<1>0. TypeInv /\ local[t] \in Locals /\ AtLastRow(t, pc[t], local[t], runs) /\ Nobody # t
  BY TasksAssumption DEF LedgerInv, SafetyInv, TypeInv, TypeOK
<1>1. Shadow' = Shadow
  <2>1. runs' = runs
    BY DEF Begin, RunStep, Acquire, Refuse, HarnessEnds, Classify, AttemptErrs, Release
  <2> QED
    BY <2>1 DEF Shadow
<1>2. CASE Begin(t)
  <2>1. PICK from \in {"idle", "spawned"}, l \in Locals : Moves(t, from, "acquiring", l)
    BY <1>0, <1>2, BeginMoves
  <2>2. Owner' = Owner /\ (Fresh' <=> Fresh)
    BY <2>1, MovesOwner DEF Live, Attempting
  <2> QED
    BY <1>1, <2>2, StutterStep DEF Simulates
<1>3. CASE Acquire(t)
  <2>1. PICK l \in Locals : Moves(t, "acquiring", "preparing", l) /\ l.row = local[t].row
    BY <1>0, <1>3, AcquireMoves
  <2>2. l.row = 0
    BY <1>0, <2>1 DEF AtLastRow, Moves
  <2>3. Owner = Nobody /\ Owner' = t /\ Fresh'
    BY <2>1, <2>2, MovesOwner DEF Live, Attempting
  <2> QED
    BY <1>1, <2>3, OpenStep DEF Simulates
<1>4. CASE Refuse(t)
  <2>1. PICK to \in {"clear", "idle"} : Moves(t, "acquiring", to, NoLocal)
    BY <1>0, <1>4, ReturnMoves DEF Refuse
  <2>2. Owner' = Owner /\ (Fresh' <=> Fresh)
    BY <2>1, MovesOwner, NoLocalType DEF Live, Attempting
  <2> QED
    BY <1>1, <2>2, StutterStep DEF Simulates
<1>5. CASE HarnessEnds(t) \/ Classify(t) \/ AttemptErrs(t)
  <2>1. PICK from \in Live, to \in Live, l \in Locals :
          Moves(t, from, to, l) /\ l.row = local[t].row
    BY <1>0, <1>5, HarnessEndsMoves, ClassifyMoves, AttemptErrsMoves DEF Live, Attempting
  <2>2. Owner' = Owner /\ (Fresh' <=> Fresh)
    BY <2>1, MovesOwner
  <2> QED
    BY <1>1, <2>2, StutterStep DEF Simulates
<1>6. CASE Release(t)
  <2>1. PICK to \in {"clear", "idle"} : Moves(t, "release", to, NoLocal)
    BY <1>0, <1>6, ReturnMoves DEF Release
  <2>2. Owner = t /\ Owner' = Nobody /\ ~Fresh'
    BY <2>1, MovesOwner, NoLocalType DEF Live, Attempting
  <2> QED
    BY <1>0, <1>1, <2>2, LeaveStep DEF Simulates
<1> QED
  BY <1>2, <1>3, <1>4, <1>5, <1>6 DEF RunStep

\* An attempt adds its row: the first of its run, or one after a failed row.
LEMMA StartAttemptMap ==
  ASSUME LedgerInv, LedgerInv', NEW t \in Tasks, StartAttempt(t)
  PROVE  Simulates
<1>0. /\ TypeInv /\ runs \in Seq(RunRow) /\ Len(runs) \in Nat /\ local[t] \in Locals
      /\ AtLastRow(t, pc[t], local[t], runs) /\ OnTime(t)
  BY DEF LedgerInv, SafetyInv, TypeInv, TypeOK
<1>1. PICK l \in Locals : Moves(t, "preparing", "harness", l) /\ l.row = Len(runs) + 1
  BY <1>0, StartAttemptMoves
<1>2. PICK r \in RunRow :
        /\ runs' = Append(runs, r)
        /\ r.task = t /\ r.status = "running" /\ r.attempt = local[t].attempt
  BY <1>0, StartAttemptMoves
<1>3. Shadow' = Append(Shadow, [task |-> t, attempt |-> local[t].attempt,
                                status |-> "running"])
  BY <1>0, <1>2, AppendBriefs DEF Shadow, Brief
<1>4. pc[t] = "preparing" /\ l.row # 0
  BY <1>0, <1>1 DEF Moves
<1>5. Owner = t /\ Owner' = t /\ (Fresh <=> local[t].row = 0) /\ ~Fresh'
  BY <1>1, <1>4, MovesOwner DEF Live, Attempting
<1>6. CASE local[t].row = 0
  <2>1. local[t].attempt = 1
    BY <1>0, <1>4, <1>6 DEF AtLastRow, Live, Attempting
  <2> QED
    BY <1>3, <1>5, <1>6, <2>1, FirstStep DEF Simulates
<1>7. CASE local[t].row # 0
  <2> DEFINE n == Len(runs)
             last == Shadow[n]
  <2>1. /\ local[t].row = n /\ runs[n].task = t
        /\ runs[n].status \in {"failed", "killed"}
        /\ runs[n].attempt + 1 = local[t].attempt
    BY <1>0, <1>4, <1>7 DEF AtLastRow, Live, Attempting
  <2>2. n \in DOMAIN runs
    BY <1>0, <1>7, <2>1 DEF Locals
  <2>3. last = Brief(runs[n]) /\ Len(Shadow) = n
    BY <1>0, <2>2, BriefsType DEF Shadow
  <2>4. /\ last.task = t /\ last.status \in {"failed", "killed"}
        /\ last.attempt = runs[n].attempt
    BY <2>1, <2>3 DEF Brief
  <2>5. local[t].attempt \in 1..MaxAttempts /\ MaxAttempts \in Nat
    BY <1>0, <1>4, NumbersAssumption DEF OnTime, InTime, Timed, Live, Attempting
  <2>6. runs[n].attempt \in Nat
    <3>1. runs[n] \in RunRow
      BY <1>0, <2>2
    <3> QED
      BY <3>1 DEF RunRow
  <2>7. last.attempt < MaxAttempts
    BY <2>1, <2>4, <2>5, <2>6
  <2>8. Shadow' = Append(Shadow, [task |-> t, attempt |-> last.attempt + 1,
                                  status |-> "running"])
    BY <1>3, <2>1, <2>4
  <2>9. last = Shadow[Len(Shadow)]
    BY <2>3
  <2> HIDE DEF last, n
  <2> QED
    BY <1>5, <1>7, <2>4, <2>7, <2>8, <2>9, RetryStep DEF Simulates
<1> QED
  BY <1>6, <1>7

\* The verdict goes to the last row, which is open and the run's own.
LEMMA FinishMap ==
  ASSUME LedgerInv, LedgerInv', NEW t \in Tasks, FinishLast(t) \/ FinishAndRetry(t)
  PROVE  Simulates
<1>0. /\ TypeInv /\ runs \in Seq(RunRow) /\ local[t] \in Locals
      /\ AtLastRow(t, pc[t], local[t], runs) /\ RowOpen(t)
  BY DEF LedgerInv, SafetyInv, TypeInv, TypeOK
<1> DEFINE n == local[t].row
<1>1. PICK l \in Locals, to \in {"release", "preparing"} :
        Moves(t, "finish", to, l) /\ l.row = n
  BY <1>0, FinishMoves
<1>2. PICK r \in RunRow :
        /\ runs' = [runs EXCEPT ![n] = r]
        /\ r.task = runs[n].task /\ r.attempt = runs[n].attempt
        /\ r.status \in Outcomes
  BY <1>0, FinishMoves
<1>3. pc[t] = "finish" /\ n \in DOMAIN runs
  BY <1>0, <1>1, FinishMoves DEF Moves
<1>4. n # 0 /\ runs[n].task = t /\ runs[n].status = "running" /\ n = Len(runs)
  BY <1>0, <1>3 DEF AtLastRow, RowOpen, Live, Attempting
<1>5. Shadow' = [Shadow EXCEPT ![n].status = r.status]
  BY <1>0, <1>2, <1>3, SettleBriefs DEF Shadow
<1>6. Owner = t /\ Owner' = t /\ ~Fresh /\ ~Fresh'
  BY <1>1, <1>4, MovesOwner DEF Live, Attempting
<1>7. Shadow[n] = Brief(runs[n]) /\ Len(Shadow) = n
  BY <1>0, <1>3, <1>4, BriefsType DEF Shadow
<1>8. Shadow[n].task = t /\ Shadow[n].status = "running"
  BY <1>4, <1>7 DEF Brief
<1> HIDE DEF n
<1> QED
  BY <1>2, <1>5, <1>6, <1>7, <1>8, SettleStep DEF Simulates

LEMMA WebMap ==
  ASSUME LedgerInv, LedgerInv', NEW w \in Web, CountManual(w) \/ WebStep(w)
  PROVE  Simulates
<1>1. /\ UNCHANGED <<runs, local>> /\ w \in Tasks
      /\ pc[w] \in {"idle", "counted", "flagged", "clear"}
  BY WebFrame DEF LedgerInv, SafetyInv, Tasks, Service
<1>2. PICK p \in {"idle", "counted", "flagged", "spawned"} :
        pc' = [pc EXCEPT ![w] = p]
  BY WebFrame DEF LedgerInv, SafetyInv
<1>3. Moves(w, pc[w], p, local[w]) /\ local[w] \in Locals
  BY <1>1, <1>2 DEF LedgerInv, SafetyInv, TypeInv, TypeOK, Moves
<1>4. Owner' = Owner /\ (Fresh' <=> Fresh)
  BY <1>1, <1>3, MovesOwner DEF Live, Attempting
<1>5. Shadow' = Shadow
  BY <1>1 DEF Shadow
<1> QED
  BY <1>4, <1>5, StutterStep DEF Simulates

\* A death leaves the run that was going on, if it was of that process.
LEMMA DieMap ==
  ASSUME LedgerInv, LedgerInv', NEW D, Die(D)
  PROVE  Simulates
<1>1. /\ UNCHANGED runs
      /\ \A u \in Tasks : \/ pc'[u] = "idle"
                          \/ pc'[u] = pc[u] /\ local'[u] = local[u]
  BY DieMoves DEF LedgerInv, SafetyInv
<1>2. Shadow' = Shadow
  BY <1>1 DEF Shadow
<1>3. AtMostOneLiveRun
  BY OneLiveRun DEF LedgerInv
<1>4. /\ LiveTasks' \subseteq LiveTasks
      /\ \A u \in LiveTasks' : local'[u] = local[u]
  BY <1>1 DEF LiveTasks, Live, Attempting
<1>5. CASE LiveTasks' = LiveTasks
  <2>1. Owner' = Owner /\ (Fresh' <=> Fresh)
    BY <1>4, <1>5 DEF Owner, Fresh
  <2> QED
    BY <1>2, <2>1, StutterStep DEF Simulates
<1>6. CASE LiveTasks' # LiveTasks
  <2>1. PICK t \in LiveTasks : t \notin LiveTasks'
    BY <1>4, <1>6
  <2>2. LiveTasks' = {}
    BY <1>3, <1>4, <2>1 DEF AtMostOneLiveRun
  <2>3. Owner = t /\ Owner' = Nobody /\ ~Fresh' /\ t # Nobody
    BY <1>3, <2>1, <2>2, OwnerIs, OwnerIsNext, TasksAssumption DEF LiveTasks
  <2> QED
    BY <1>2, <2>3, LeaveStep DEF Simulates
<1> QED
  BY <1>5, <1>6

\* A service that starts closes old rows that no run is at.
LEMMA StartsMap ==
  ASSUME Timely, LedgerInv, LedgerInv', ServiceStarts
  PROVE  Simulates
<1>0. TypeInv /\ runs \in Seq(RunRow)
  BY DEF LedgerInv, SafetyInv, TypeInv, TypeOK
<1>1. UNCHANGED <<pc, local>>
  BY Zenon DEF ServiceStarts
<1>2. Owner' = Owner /\ (Fresh' <=> Fresh)
  BY <1>1 DEF Owner, Fresh, LiveTasks
<1> DEFINE S == {i \in DOMAIN runs : Orphaned(runs[i])}
<1>3. /\ DOMAIN Shadow = DOMAIN runs /\ Len(Shadow) = Len(runs)
      /\ \A i \in DOMAIN runs : Shadow[i] = Brief(runs[i])
  BY <1>0, BriefsType DEF Shadow
<1>4. S \in SUBSET DOMAIN Shadow
  BY <1>3
<1>5. \A i \in S : Shadow[i].status = "running"
  BY <1>3 DEF Orphaned, Brief
<1>6. ASSUME Owner # Nobody, ~Fresh PROVE Len(Shadow) \notin S
  <2>1. PICK t \in LiveTasks : TRUE
    BY <1>6, OwnerIs
  <2>2. local[t].row # 0
    BY <1>6 DEF Fresh
  <2>3. local[t].row = Len(runs)
    BY <2>1, <2>2 DEF LedgerInv, AtLastRow, LiveTasks
  <2> QED
    BY <1>3, <2>2, <2>3, SweepSpares
<1>7. Shadow' = [i \in DOMAIN Shadow |->
         IF i \in S THEN [Shadow[i] EXCEPT !.status = "killed"] ELSE Shadow[i]]
  <2>1. /\ DOMAIN runs' = DOMAIN runs
        /\ \A i \in DOMAIN runs : runs'[i] =
             IF i \in S THEN [runs[i] EXCEPT !.status = "killed"] ELSE runs[i]
    BY DEF ServiceStarts
  <2>2. \A i \in DOMAIN runs :
          Brief([runs[i] EXCEPT !.status = "killed"]) = [Brief(runs[i]) EXCEPT !.status = "killed"]
    <3>1. \A i \in DOMAIN runs : runs[i] \in RunRow
      BY <1>0
    <3> QED
      BY <3>1 DEF Brief, RunRow
  <2>3. Shadow' = [i \in DOMAIN runs |-> Brief(runs'[i])]
    BY <2>1 DEF Shadow, Briefs, Brief
  <2> HIDE DEF S
  <2>4. \A i \in DOMAIN runs : Brief(runs'[i]) =
          IF i \in S THEN [Shadow[i] EXCEPT !.status = "killed"] ELSE Shadow[i]
    BY <1>3, <2>1, <2>2
  <2> QED
    BY <1>3, <2>3, <2>4
<1> HIDE DEF S
<1> QED
  BY <1>2, <1>4, <1>5, <1>6, <1>7, SweepStep DEF Simulates

LEMMA StepMap ==
  ASSUME Timely, LedgerInv, LedgerInv', [Next]_vars
  PROVE  Simulates
<1>1. CASE \E w \in Web : CountManual(w) \/ WebStep(w)
  BY <1>1, WebMap
<1>2. CASE \E t \in Tasks : Begin(t) \/ RunStep(t)
  BY <1>2, QuietMap, StartAttemptMap, FinishMap
<1>3. CASE (\E i \in DOMAIN runs : ChildWrites(i)) \/ Tick \/ UNCHANGED vars
  <2>1. UNCHANGED <<runs, pc, local>>
    BY <1>3, Zenon DEF ChildWrites, Tick, vars
  <2>2. Owner' = Owner /\ (Fresh' <=> Fresh) /\ Shadow' = Shadow
    BY <2>1 DEF Owner, Fresh, LiveTasks, Shadow
  <2> QED
    BY <2>2, StutterStep DEF Simulates
<1>4. CASE (\E c \in Cli : CliDies(c)) \/ ServiceDies
  BY <1>4, DieMap DEF CliDies, ServiceDies
<1>5. CASE ServiceStarts
  BY <1>5, StartsMap
<1> QED
  BY <1>1, <1>2, <1>3, <1>4, <1>5 DEF Next

\* If a run fits in the stale window, what tasks, lock, crashes and sweeps do to
\* the table is, to its readers, the serial ledger of RunLedger.
THEOREM Refinement ==
  ASSUME Timely
  PROVE  Spec => RunsAreSerial
<1>1. Init => LedgerInv
  <2> SUFFICES ASSUME Init PROVE LedgerInv
    OBVIOUS
  <2>1. \A t \in Tasks : AtLastRow(t, pc[t], local[t], runs)
    BY DEF Init, AtLastRow, Live, Attempting
  <2> QED
    BY <2>1, InitSafetyInv DEF LedgerInv
<1>2. Init => Ledger!Init
  <2> SUFFICES ASSUME Init PROVE Ledger!Init
    OBVIOUS
  <2>1. LiveTasks = {} /\ runs = <<>>
    BY DEF Init, LiveTasks, Live, Attempting
  <2>2. Owner = Nobody /\ ~Fresh /\ Shadow = <<>>
    BY <2>1, OwnerIs DEF Shadow, Briefs
  <2> QED
    BY <2>2 DEF Ledger!Init, Fresh, Shadow, Briefs
<1>3. LedgerInv /\ [Next]_vars => LedgerInv'
  BY NextLedgerInv
<1>4. LedgerInv /\ LedgerInv' /\ [Next]_vars => [Ledger!Next]_(Ledger!vars)
  BY StepMap DEF Simulates
<1> QED
  BY <1>1, <1>2, <1>3, <1>4, PTL DEF Spec, RunsAreSerial, Ledger!Spec

-----------------------------------------------------------------------------
(* What a run page joins *)

\* A set of numbers up to n that is not empty has a greatest one.
LEMMA Greatest ==
  ASSUME NEW n \in Nat, NEW S \in SUBSET (1..n), S # {}
  PROVE  Max(S) \in S /\ \A x \in S : x <= Max(S)
<1> DEFINE T == {k \in Nat : n - k \in S}
           Below == {ss \in Nat \X Nat : ss[1] < ss[2]}
<1>1. IsWellFoundedOn(Below, Nat)
  BY NatLessThanWellFounded DEF OpToRel
<1>2. \A a, b \in Nat : a < b => <<a, b>> \in Below
  OBVIOUS
<1> HIDE DEF Below
<1>3. \A x \in S : n - x \in Nat /\ n - (n - x) = x /\ x \in Nat
  OBVIOUS
<1>4. T # {} /\ T \in SUBSET Nat
  BY <1>3
<1>5. PICK k \in T : \A m \in T : ~(<<m, k>> \in Below)
  BY <1>1, <1>4, WFMin
<1>6. ASSUME NEW y \in S PROVE n - k >= y
  <2>1. n - y \in T /\ n - y \in Nat /\ k \in Nat
    BY <1>3
  <2>2. ~(n - y < k)
    BY <1>2, <1>5, <2>1
  <2> QED
    BY <1>3, <2>1, <2>2
<1>7. \E x \in S : \A y \in S : x >= y
  BY <1>6
<1>8. Max(S) \in S /\ \A y \in S : Max(S) >= y
  BY <1>7, Zenon DEF Max
<1> QED
  BY <1>8

\* Between rows i and j of the table q no call begins.
Together(q, i, j) == \A k \in (i + 1)..j : q[k].attempt # 1

\* A row is the first attempt of a call or follows the row before it.
Chained(q) ==
  \A k \in DOMAIN q :
    /\ q[k].attempt >= 1
    /\ q[k].kind = Kind(q[k].task)
    /\ q[k].attempt # 1 => /\ k # 1
                           /\ q[k].attempt = q[k - 1].attempt + 1
                           /\ q[k].kind = q[k - 1].kind

\* Rows come in the order of their times, none after time n.
Ordered(q, n) ==
  \A i, j \in DOMAIN q : i <= j => q[i].start <= q[j].start /\ q[j].start <= n

\* The attempts of one call start within one lock window.
Within(q) ==
  \A i, j \in DOMAIN q : i <= j /\ Together(q, i, j) => q[j].start < q[i].start + Window

\* The rows of a call that began at s, the last ones, are not older.
Since(q, s) == \A i \in DOMAIN q : Together(q, i, Len(q)) => q[i].start >= s

AtRow == {"harness", "classify", "finish"}

Going(t) == pc[t] \in Live /\ local[t].row # 0

ChainInv ==
  /\ Chained(runs)
  /\ Ordered(runs, now)
  /\ Within(runs)
  /\ \A t \in Tasks : Going(t) => Since(runs, local[t].started)

\* Only the status of a row ever changes.
SameShape(q, p) ==
  /\ DOMAIN p = DOMAIN q /\ Len(p) = Len(q)
  /\ \A i \in DOMAIN q : /\ p[i].attempt = q[i].attempt /\ p[i].start = q[i].start
                         /\ p[i].kind = q[i].kind /\ p[i].task = q[i].task

LEMMA ShapeKeeps ==
  ASSUME NEW q \in Seq(RunRow), NEW p \in Seq(RunRow), SameShape(q, p), NEW n \in Nat
  PROVE  /\ Chained(q) => Chained(p)
         /\ Ordered(q, n) => Ordered(p, n)
         /\ Within(q) => Within(p)
         /\ \A s : Since(q, s) => Since(p, s)
<1>1. DOMAIN q = 1..Len(q) /\ Len(q) \in Nat
  OBVIOUS
<1>2. ASSUME NEW i \in DOMAIN q, NEW j \in DOMAIN q
      PROVE  Together(q, i, j) <=> Together(p, i, j)
  <2>1. \A k \in (i + 1)..j : k \in DOMAIN q
    BY <1>1
  <2>2. \A k \in (i + 1)..j : p[k].attempt = q[k].attempt
    BY <2>1 DEF SameShape
  <2> QED
    BY <2>2 DEF Together
<1>3. Chained(q) => Chained(p)
  BY <1>1 DEF SameShape, Chained
<1>4. Ordered(q, n) => Ordered(p, n)
  BY DEF SameShape, Ordered
<1>5. Within(q) => Within(p)
  BY <1>2 DEF SameShape, Within
<1>6. ASSUME NEW s, Since(q, s) PROVE Since(p, s)
  BY <1>1, <1>2, <1>6 DEF SameShape, Since
<1> QED
  BY <1>3, <1>4, <1>5, <1>6

\* A step that leaves the rows their shape and puts no run at a row.
LEMMA ShapeChain ==
  ASSUME LedgerInv, LedgerInv', ChainInv, SameShape(runs, runs'), now <= now',
         \A t \in Tasks : Going(t)' => Going(t) /\ local'[t].started = local[t].started
  PROVE  ChainInv'
<1>1. runs \in Seq(RunRow) /\ runs' \in Seq(RunRow) /\ now \in Nat /\ now' \in Nat
  BY DEF LedgerInv, SafetyInv, TypeInv, TypeOK
<1>2. Chained(runs') /\ Ordered(runs', now) /\ Within(runs')
  BY <1>1, ShapeKeeps DEF ChainInv
<1>3. \A i \in DOMAIN runs' : runs'[i].start \in Nat
  <2>1. \A i \in DOMAIN runs' : runs'[i] \in RunRow
    BY <1>1
  <2> QED
    BY <2>1 DEF RunRow
<1>4. Ordered(runs', now')
  BY <1>1, <1>2, <1>3 DEF Ordered
<1>5. ASSUME NEW t \in Tasks, Going(t)' PROVE Since(runs', local'[t].started)
  BY <1>1, <1>5, ShapeKeeps DEF ChainInv
<1> QED
  BY <1>2, <1>4, <1>5 DEF ChainInv

LEMMA SameRows ==
  ASSUME runs' = runs
  PROVE  SameShape(runs, runs')
  BY DEF SameShape

\* An attempt is younger than its window when it starts.
LEMMA YoungAttempt ==
  ASSUME Timely, SafetyInv, NEW t \in Tasks, pc[t] = "preparing"
  PROVE  /\ local[t].started \in Nat /\ local[t].started <= now
         /\ now < local[t].started + Window
         /\ local[t].attempt >= 1
<1>1. /\ local[t].started \in Nat /\ local[t].deadline \in Nat /\ now \in Nat
      /\ local[t].attempt \in Nat
  BY DEF SafetyInv, TypeInv, TypeOK, Locals
<1>2. MaxAttempts \in Nat /\ Window \in Nat /\ Wall \in Nat \ {0} /\ Overhead \in Nat
  BY NumbersAssumption DEF Window
<1> DEFINE s == local[t].started
           n == local[t].attempt - 1
<1>3. /\ s <= now /\ now <= local[t].deadline /\ local[t].attempt \in 1..MaxAttempts
      /\ local[t].deadline <= Bound(s, n)
  BY DEF SafetyInv, OnTime, InTime, Spent, Timed, Live, Attempting
<1>4. s \in Nat /\ n \in Nat /\ n + 1 \in Nat /\ n + 1 <= MaxAttempts
  BY <1>1, <1>2, <1>3
<1> HIDE DEF s, n
<1>5. /\ Bound(s, n + 1) = Bound(s, n) + Wall + Overhead /\ Bound(s, n) \in Nat
      /\ Bound(s, n + 1) <= s + Window
  BY <1>4, BoundStep, BoundInWindow
<1>6. now < s + Window
  BY <1>1, <1>2, <1>3, <1>4, <1>5
<1> QED
  BY <1>1, <1>3, <1>6 DEF s

\* The new row r, at the end of q, chains if it follows the last row of its call
\* or begins a call.
LEMMA AppendChain ==
  ASSUME NEW q \in Seq(RunRow), NEW r \in RunRow, NEW n \in Nat, NEW s \in Nat,
         Chained(q), Ordered(q, n), Within(q),
         r.start = n, r.attempt >= 1, r.kind = Kind(r.task), s <= n, n < s + Window,
         r.attempt # 1 => /\ Len(q) # 0 /\ q[Len(q)].task = r.task
                          /\ r.attempt = q[Len(q)].attempt + 1
                          /\ Since(q, s)
  PROVE  /\ Chained(Append(q, r)) /\ Ordered(Append(q, r), n)
         /\ Within(Append(q, r)) /\ Since(Append(q, r), s)
<1> DEFINE m == Len(q)
<1>0. PICK p : p = Append(q, r)
  OBVIOUS
<1>1. /\ p \in Seq(RunRow) /\ DOMAIN p = 1..(m + 1) /\ Len(p) = m + 1 /\ m \in Nat
      /\ DOMAIN q = 1..m /\ p[m + 1] = r /\ \A i \in DOMAIN q : p[i] = q[i]
  BY <1>0
<1>2. n \in Nat /\ Window \in Nat /\ \A i \in DOMAIN p : p[i].start \in Nat
  <2>1. \A i \in DOMAIN p : p[i] \in RunRow
    BY <1>1
  <2> QED
    BY <2>1, NumbersAssumption DEF RunRow, Window
<1> HIDE DEF m
<1>3. Chained(p)
  <2> SUFFICES ASSUME NEW k \in DOMAIN p
               PROVE  /\ p[k].attempt >= 1
                      /\ p[k].kind = Kind(p[k].task)
                      /\ p[k].attempt # 1 => /\ k # 1
                                             /\ p[k].attempt = p[k - 1].attempt + 1
                                             /\ p[k].kind = p[k - 1].kind
    BY DEF Chained
  <2>1. CASE k \in DOMAIN q
    <3>1. k # 1 => k - 1 \in DOMAIN q
      BY <1>1, <2>1
    <3> QED
      BY <1>1, <2>1, <3>1 DEF Chained
  <2>2. CASE k = m + 1
    <3>1. m # 0 => /\ m \in DOMAIN q /\ p[m] = q[m] /\ k - 1 = m
                   /\ q[m].kind = Kind(q[m].task)
      BY <1>1, <2>2 DEF Chained
    <3> QED
      BY <1>1, <2>2, <3>1 DEF m
  <2> QED
    BY <1>1, <2>1, <2>2
<1>4. Ordered(p, n)
  <2> SUFFICES ASSUME NEW i \in DOMAIN p, NEW j \in DOMAIN p, i <= j
               PROVE  p[i].start <= p[j].start /\ p[j].start <= n
    BY DEF Ordered
  <2>1. CASE j \in DOMAIN q
    <3>1. i \in DOMAIN q
      BY <1>1, <2>1
    <3> QED
      BY <1>1, <2>1, <3>1 DEF Ordered
  <2>2. CASE j = m + 1
    <3>1. p[j].start = n
      BY <1>1, <2>2
    <3>2. p[i].start <= n
      BY <1>1, <1>2, <3>1 DEF Ordered
    <3> QED
      BY <1>2, <3>1, <3>2
  <2> QED
    BY <1>1, <2>1, <2>2
<1>5. \A i, j \in DOMAIN q : Together(p, i, j) => Together(q, i, j)
  BY <1>1 DEF Together
<1>6. ASSUME NEW i \in DOMAIN p, Together(p, i, m + 1) PROVE p[i].start >= s
  <2>1. CASE i = m + 1
    BY <1>1, <1>2, <2>1
  <2>2. CASE i \in DOMAIN q
    <3>1. m + 1 \in (i + 1)..(m + 1)
      BY <1>1, <2>2
    <3>2. r.attempt # 1
      BY <1>1, <1>6, <3>1 DEF Together
    <3>3. m \in DOMAIN q
      BY <1>1, <2>2
    <3>4. Together(p, i, m)
      BY <1>1, <1>6, <2>2 DEF Together
    <3>5. Together(q, i, m)
      BY <1>5, <2>2, <3>3, <3>4
    <3> QED
      BY <1>1, <2>2, <3>2, <3>5 DEF Since, m
  <2> QED
    BY <1>1, <2>1, <2>2
<1>7. Since(p, s)
  BY <1>1, <1>6 DEF Since
<1>8. Within(p)
  <2> SUFFICES ASSUME NEW i \in DOMAIN p, NEW j \in DOMAIN p, i <= j, Together(p, i, j)
               PROVE  p[j].start < p[i].start + Window
    BY DEF Within
  <2>1. CASE j \in DOMAIN q
    <3>1. i \in DOMAIN q
      BY <1>1, <2>1
    <3> QED
      BY <1>1, <1>5, <2>1, <3>1 DEF Within
  <2>2. CASE j = m + 1
    <3>1. p[j].start = n /\ p[i].start >= s
      BY <1>1, <1>6, <2>2
    <3> QED
      BY <1>2, <3>1
  <2> QED
    BY <1>1, <2>1, <2>2
<1> QED
  BY <1>0, <1>3, <1>4, <1>7, <1>8

-----------------------------------------------------------------------------
(* Every step *)

LEMMA InitChain == Init => ChainInv
  BY DEF Init, ChainInv, Chained, Ordered, Within, Going, Live, Attempting

\* A task that moves within a run, into the lock, or out of a run.
LEMMA MovesChain ==
  ASSUME LedgerInv, LedgerInv', ChainInv, now' = now, SameShape(runs, runs'),
         NEW t \in Tasks, NEW from, NEW to, NEW l \in Locals, Moves(t, from, to, l),
         \/ to \notin Live
         \/ l.row = 0
         \/ from \in Live /\ l.row = local[t].row /\ l.started = local[t].started
  PROVE  ChainInv'
<1>1. \A u \in Tasks : /\ pc'[u] = IF u = t THEN to ELSE pc[u]
                       /\ local'[u] = IF u = t THEN l ELSE local[u]
  BY DEF Moves, LedgerInv, SafetyInv, TypeInv, TypeOK
<1>2. pc[t] = from /\ now <= now'
  BY DEF Moves, LedgerInv, SafetyInv, TypeInv, TypeOK
<1>3. ASSUME NEW u \in Tasks, Going(u)'
      PROVE  Going(u) /\ local'[u].started = local[u].started
  BY <1>1, <1>2, <1>3 DEF Going
<1> QED
  BY <1>2, <1>3, ShapeChain

LEMMA StartAttemptChain ==
  ASSUME Timely, LedgerInv, LedgerInv', ChainInv, NEW t \in Tasks, StartAttempt(t)
  PROVE  ChainInv'
<1>0. /\ SafetyInv /\ TypeInv /\ runs \in Seq(RunRow) /\ now \in Nat
      /\ local[t] \in Locals /\ AtLastRow(t, pc[t], local[t], runs)
  BY DEF LedgerInv, SafetyInv, TypeInv, TypeOK
<1>1. PICK l \in Locals :
        /\ Moves(t, "preparing", "harness", l)
        /\ l.started = local[t].started
  BY <1>0, StartAttemptMoves
<1>2. PICK r \in RunRow :
        /\ runs' = Append(runs, r)
        /\ r.task = t /\ r.start = now /\ r.attempt = local[t].attempt
        /\ r.kind = Kind(t)
  BY <1>0, StartAttemptMoves
<1>3. now' = now /\ pc[t] = "preparing"
  BY <1>1, Zenon DEF StartAttempt, Moves
<1> DEFINE s == local[t].started
<1>4. s \in Nat /\ s <= now /\ now < s + Window /\ r.attempt >= 1
  BY <1>0, <1>2, <1>3, YoungAttempt
<1>5. r.attempt # 1 => /\ Len(runs) # 0 /\ runs[Len(runs)].task = r.task
                       /\ r.attempt = runs[Len(runs)].attempt + 1
                       /\ Since(runs, s)
  <2> SUFFICES ASSUME r.attempt # 1
               PROVE  /\ Len(runs) # 0 /\ runs[Len(runs)].task = r.task
                      /\ r.attempt = runs[Len(runs)].attempt + 1
                      /\ Since(runs, s)
    OBVIOUS
  <2>1. local[t].row # 0 /\ pc[t] \in Live
    BY <1>0, <1>2, <1>3 DEF AtLastRow, Live, Attempting
  <2>2. Going(t)
    BY <2>1 DEF Going
  <2> QED
    BY <1>0, <1>2, <1>3, <2>1, <2>2 DEF AtLastRow, ChainInv
<1>6. /\ Chained(runs') /\ Ordered(runs', now') /\ Within(runs') /\ Since(runs', s)
  <2>1. Chained(runs) /\ Ordered(runs, now) /\ Within(runs)
    BY DEF ChainInv
  <2> HIDE DEF s
  <2> QED
    BY <1>0, <1>2, <1>3, <1>4, <1>5, <2>1, AppendChain
<1>7. ASSUME NEW u \in Tasks, Going(u)' PROVE u = t
  <2>1. SafetyInv' /\ pc'[t] = "harness"
    BY <1>1 DEF LedgerInv, Moves, SafetyInv, TypeInv, TypeOK
  <2>2. AtMostOneLiveRun'
    BY <2>1 DEF SafetyInv, LiveRunHoldsLock, AtMostOneLiveRun
  <2> QED
    BY <1>7, <2>1, <2>2 DEF Going, AtMostOneLiveRun, LiveTasks, Live, Attempting
<1>8. local'[t].started = s
  BY <1>1 DEF Moves, LedgerInv, SafetyInv, TypeInv, TypeOK
<1> QED
  BY <1>6, <1>7, <1>8 DEF ChainInv

LEMMA RunChain ==
  ASSUME Timely, LedgerInv, LedgerInv', ChainInv, NEW t \in Tasks, Begin(t) \/ RunStep(t)
  PROVE  ChainInv'
<1>0. /\ TypeInv /\ runs \in Seq(RunRow) /\ local[t] \in Locals
      /\ AtLastRow(t, pc[t], local[t], runs)
  BY DEF LedgerInv, SafetyInv, TypeInv, TypeOK
<1>1. CASE Begin(t)
  <2>1. PICK from \in {"idle", "spawned"}, l \in Locals : Moves(t, from, "acquiring", l)
    BY <1>0, <1>1, BeginMoves
  <2>2. now' = now /\ SameShape(runs, runs')
    BY <1>1, SameRows DEF Begin
  <2> QED
    BY <2>1, <2>2, MovesChain DEF Live, Attempting
<1>2. CASE Acquire(t)
  <2>1. PICK l \in Locals : Moves(t, "acquiring", "preparing", l) /\ l.row = local[t].row
    BY <1>0, <1>2, AcquireMoves
  <2>2. l.row = 0
    BY <1>0, <2>1 DEF AtLastRow, Moves
  <2>3. now' = now /\ SameShape(runs, runs')
    BY <1>2, SameRows DEF Acquire
  <2> QED
    BY <2>1, <2>2, <2>3, MovesChain
<1>3. CASE Refuse(t) \/ Release(t)
  <2>1. PICK from \in {"acquiring", "release"}, to \in {"clear", "idle"} :
          Moves(t, from, to, NoLocal)
    BY <1>0, <1>3, ReturnMoves DEF Refuse, Release
  <2>2. now' = now /\ SameShape(runs, runs')
    BY <1>3, SameRows DEF Refuse, Release
  <2> QED
    BY <2>1, <2>2, MovesChain, NoLocalType DEF Live, Attempting
<1>4. CASE StartAttempt(t)
  BY <1>4, StartAttemptChain
<1>5. CASE HarnessEnds(t) \/ Classify(t) \/ AttemptErrs(t)
  <2>1. PICK from \in Live, to \in Live, l \in Locals :
          /\ Moves(t, from, to, l)
          /\ l.row = local[t].row /\ l.started = local[t].started
    BY <1>0, <1>5, HarnessEndsMoves, ClassifyMoves, AttemptErrsMoves DEF Live, Attempting
  <2>2. now' = now /\ SameShape(runs, runs')
    BY <1>5, SameRows DEF HarnessEnds, Classify, AttemptErrs
  <2> QED
    BY <2>1, <2>2, MovesChain
<1>6. CASE FinishLast(t) \/ FinishAndRetry(t)
  <2>1. PICK l \in Locals, to \in {"release", "preparing"} :
          /\ Moves(t, "finish", to, l)
          /\ l.row = local[t].row /\ l.started = local[t].started
    BY <1>0, <1>6, FinishMoves
  <2> DEFINE row == local[t].row
  <2>2. PICK r \in RunRow :
          /\ runs' = [runs EXCEPT ![row] = r]
          /\ r.task = runs[row].task /\ r.start = runs[row].start
          /\ r.attempt = runs[row].attempt /\ r.kind = runs[row].kind
    BY <1>0, <1>6, FinishMoves
  <2>3. row \in DOMAIN runs
    BY <1>0, <1>6, FinishMoves
  <2>4. /\ Len(runs') = Len(runs) /\ DOMAIN runs' = DOMAIN runs /\ runs'[row] = r
        /\ \A j \in DOMAIN runs : j # row => runs'[j] = runs[j]
    BY <1>0, <2>2, <2>3, ReplaceRow
  <2>5. SameShape(runs, runs')
    BY <2>2, <2>3, <2>4 DEF SameShape
  <2>6. now' = now
    BY <1>6 DEF FinishLast, FinishAndRetry
  <2> QED
    BY <2>1, <2>5, <2>6, MovesChain DEF Live, Attempting
<1> QED
  BY <1>1, <1>2, <1>3, <1>4, <1>5, <1>6 DEF RunStep

LEMMA WebChain ==
  ASSUME LedgerInv, LedgerInv', ChainInv, NEW w \in Web, CountManual(w) \/ WebStep(w)
  PROVE  ChainInv'
<1>1. UNCHANGED <<now, runs, local>> /\ w \in Tasks
  BY WebFrame DEF LedgerInv, SafetyInv, Tasks, Service
<1>2. PICK p \in {"idle", "counted", "flagged", "spawned"} :
        pc' = [pc EXCEPT ![w] = p]
  BY WebFrame DEF LedgerInv, SafetyInv
<1>3. Moves(w, pc[w], p, local[w]) /\ local[w] \in Locals
  BY <1>1, <1>2 DEF LedgerInv, SafetyInv, TypeInv, TypeOK, Moves
<1> QED
  BY <1>1, <1>3, SameRows, MovesChain DEF Live, Attempting

LEMMA EnvironmentChain ==
  ASSUME LedgerInv, LedgerInv', ChainInv,
         \/ \E i \in DOMAIN runs : ChildWrites(i)
         \/ \E c \in Cli : CliDies(c)
         \/ ServiceDies
         \/ ServiceStarts
         \/ Tick
  PROVE  ChainInv'
<1>0. TypeInv /\ now \in Nat /\ runs \in Seq(RunRow)
  BY DEF LedgerInv, SafetyInv, TypeInv, TypeOK
<1>1. CASE (\E i \in DOMAIN runs : ChildWrites(i)) \/ Tick
  <2>1. UNCHANGED <<runs, pc, local>> /\ (now' = now \/ now' = now + 1)
    BY <1>1, Zenon DEF ChildWrites, Tick
  <2>2. \A t \in Tasks : Going(t)' => Going(t) /\ local'[t].started = local[t].started
    BY <2>1 DEF Going
  <2>3. SameShape(runs, runs') /\ now <= now'
    BY <1>0, <2>1, SameRows
  <2> QED
    BY <2>2, <2>3, ShapeChain
<1>2. CASE (\E c \in Cli : CliDies(c)) \/ ServiceDies
  <2>1. PICK D : Die(D)
    BY <1>2 DEF CliDies, ServiceDies
  <2>2. /\ UNCHANGED <<now, runs>>
        /\ \A u \in Tasks : \/ pc'[u] = "idle"
                            \/ pc'[u] = pc[u] /\ local'[u] = local[u]
    BY <1>0, <2>1, DieMoves
  <2>3. \A t \in Tasks : Going(t)' => Going(t) /\ local'[t].started = local[t].started
    BY <2>2 DEF Going, Live, Attempting
  <2>4. SameShape(runs, runs') /\ now <= now'
    BY <1>0, <2>2, SameRows
  <2> QED
    BY <2>3, <2>4, ShapeChain
<1>3. CASE ServiceStarts
  <2>1. UNCHANGED <<now, pc, local>>
    BY <1>3, Zenon DEF ServiceStarts
  <2>2. \A t \in Tasks : Going(t)' => Going(t) /\ local'[t].started = local[t].started
    BY <2>1 DEF Going
  <2>3. /\ runs' \in Seq(RunRow) /\ Len(runs') = Len(runs)
        /\ \A i \in DOMAIN runs :
             /\ runs'[i].attempt = runs[i].attempt /\ runs'[i].start = runs[i].start
             /\ runs'[i].kind = runs[i].kind /\ runs'[i].task = runs[i].task
    BY <1>0, <1>3, StartsRuns
  <2>4. SameShape(runs, runs') /\ now <= now'
    BY <1>0, <2>1, <2>3 DEF SameShape
  <2> QED
    BY <2>2, <2>4, ShapeChain
<1> QED
  BY <1>1, <1>2, <1>3

LEMMA NextChain ==
  ASSUME Timely
  PROVE  LedgerInv /\ ChainInv /\ [Next]_vars => ChainInv'
<1> SUFFICES ASSUME LedgerInv, ChainInv, [Next]_vars PROVE ChainInv'
  OBVIOUS
<1>1. LedgerInv'
  BY NextLedgerInv
<1>2. CASE Next
  BY <1>1, <1>2, WebChain, RunChain, EnvironmentChain DEF Next
<1>3. CASE UNCHANGED vars
  <2>1. UNCHANGED <<now, runs, pc, local>>
    BY <1>3 DEF vars
  <2> QED
    BY <2>1 DEF ChainInv, Going
<1> QED
  BY <1>2, <1>3

-----------------------------------------------------------------------------
(* From the shape of the table to the page *)

LEMMA MinMaxOfTwo ==
  ASSUME NEW i \in Nat, NEW j \in Nat, i <= j
  PROVE  /\ Min({i, j}) = i /\ Max({i, j}) = j
         /\ Min({j, i}) = i /\ Max({j, i}) = j
<1>1. {j, i} = {i, j}
  OBVIOUS
<1>2. Min({i, j}) \in {i, j} /\ \A y \in {i, j} : Min({i, j}) <= y
  <2>1. \E x \in {i, j} : \A y \in {i, j} : x <= y
    OBVIOUS
  <2> QED
    BY <2>1, Zenon DEF Min
<1>3. Max({i, j}) \in {i, j} /\ \A y \in {i, j} : Max({i, j}) >= y
  <2>1. \E x \in {i, j} : \A y \in {i, j} : x >= y
    OBVIOUS
  <2> QED
    BY <2>1, Zenon DEF Max
<1>4. Min({i, j}) = i /\ Max({i, j}) = j
  BY <1>2, <1>3
<1> QED
  BY <1>1, <1>4

LEMMA FirstOfIs ==
  ASSUME runs \in Seq(RunRow), Chained(runs), NEW i \in DOMAIN runs
  PROVE  /\ FirstOf(i) \in 1..i /\ runs[FirstOf(i)].attempt = 1
         /\ \A j \in 1..i : runs[j].attempt = 1 => j <= FirstOf(i)
<1> DEFINE S == {j \in 1..i : runs[j].attempt = 1}
<1>1. i \in Nat /\ 1 \in DOMAIN runs /\ 1 \in 1..i
  OBVIOUS
<1>2. runs[1].attempt = 1
  BY <1>1 DEF Chained
<1>3. S # {} /\ S \in SUBSET (1..i)
  BY <1>1, <1>2
<1>4. Max(S) \in S /\ \A x \in S : x <= Max(S)
  BY <1>1, <1>3, Greatest
<1> QED
  BY <1>4 DEF FirstOf

\* Two rows have the same first attempt if no call begins between them.
LEMMA SameCall ==
  ASSUME runs \in Seq(RunRow), Chained(runs),
         NEW i \in DOMAIN runs, NEW j \in DOMAIN runs, i <= j
  PROVE  FirstOf(i) = FirstOf(j) <=> Together(runs, i, j)
<1>1. DOMAIN runs \subseteq Nat
  OBVIOUS
<1> DEFINE a == FirstOf(i)
           b == FirstOf(j)
<1>2. /\ a \in 1..i /\ runs[a].attempt = 1
      /\ \A k \in 1..i : runs[k].attempt = 1 => k <= a
      /\ b \in 1..j /\ runs[b].attempt = 1
      /\ \A k \in 1..j : runs[k].attempt = 1 => k <= b
  BY FirstOfIs
<1> HIDE DEF a, b
<1>3. ASSUME a = b, NEW k \in (i + 1)..j PROVE runs[k].attempt # 1
  BY <1>1, <1>2, <1>3
<1>4. ASSUME Together(runs, i, j) PROVE a = b
  <2>1. b \in 1..i
    BY <1>1, <1>2, <1>4 DEF Together
  <2>2. a \in 1..j
    BY <1>1, <1>2
  <2>3. b <= a /\ a <= b
    BY <1>2, <2>1, <2>2
  <2> QED
    BY <2>1, <2>2, <2>3
<1> QED
  BY <1>3, <1>4 DEF Together, a, b

\* The rows of a call follow each other, and nothing else does.
LEMMA CallFollows ==
  ASSUME runs \in Seq(RunRow), Chained(runs), Ordered(runs, now), Within(runs),
         NEW i \in DOMAIN runs, NEW j \in DOMAIN runs, i <= j
  PROVE  Together(runs, i, j) <=> \A k \in i..(j - 1) : Follows(k, k + 1)
<1>1. DOMAIN runs = 1..Len(runs) /\ Len(runs) \in Nat /\ Window \in Nat
  BY NumbersAssumption DEF Window
<1>2. \A k \in DOMAIN runs : runs[k].attempt \in Nat /\ runs[k].start \in Nat
  <2>1. \A k \in DOMAIN runs : runs[k] \in RunRow
    OBVIOUS
  <2> QED
    BY <2>1 DEF RunRow
<1>3. ASSUME Together(runs, i, j), NEW k \in i..(j - 1) PROVE Follows(k, k + 1)
  <2>1. k \in DOMAIN runs /\ k + 1 \in DOMAIN runs /\ k + 1 \in (i + 1)..j
        /\ (k + 1) - 1 = k /\ k <= k + 1 /\ k \in Nat
    BY <1>1
  <2>2. runs[k + 1].attempt # 1
    BY <1>3, <2>1 DEF Together
  <2>3. runs[k + 1].attempt = runs[k].attempt + 1 /\ runs[k + 1].kind = runs[k].kind
    BY <2>1, <2>2 DEF Chained
  <2>4. Together(runs, k, k + 1)
    BY <2>1, <2>2 DEF Together
  <2>5. runs[k + 1].start < runs[k].start + Window
    BY <2>1, <2>4 DEF Within
  <2>6. runs[k + 1].start - runs[k].start <= Window
    BY <1>1, <1>2, <2>1, <2>5
  <2> QED
    BY <2>3, <2>6 DEF Follows, Close
<1>4. ASSUME \A k \in i..(j - 1) : Follows(k, k + 1), NEW k \in (i + 1)..j
      PROVE  runs[k].attempt # 1
  <2>1. k - 1 \in i..(j - 1) /\ (k - 1) + 1 = k /\ k - 1 \in DOMAIN runs
    BY <1>1
  <2>2. runs[k].attempt = runs[k - 1].attempt + 1
    BY <1>4, <2>1 DEF Follows
  <2>3. runs[k - 1].attempt >= 1
    BY <2>1 DEF Chained
  <2> QED
    BY <1>2, <2>1, <2>2, <2>3
<1> QED
  BY <1>3, <1>4 DEF Together

\* The rows of a call are among the rows the page reads.
LEMMA CallIsNear ==
  ASSUME runs \in Seq(RunRow), Ordered(runs, now), Within(runs),
         NEW i \in DOMAIN runs, NEW j \in DOMAIN runs, i <= j, Together(runs, i, j),
         NEW k \in i..j
  PROVE  k \in Neighbours(i) /\ k \in Neighbours(j)
<1>1. /\ DOMAIN runs = 1..Len(runs) /\ Len(runs) \in Nat /\ Window \in Nat
      /\ k \in DOMAIN runs /\ i <= k /\ k <= j
  BY NumbersAssumption DEF Window
<1>2. \A m \in DOMAIN runs : runs[m].start \in Nat
  <2>1. \A m \in DOMAIN runs : runs[m] \in RunRow
    OBVIOUS
  <2> QED
    BY <2>1 DEF RunRow
<1>3. Together(runs, i, k) /\ Together(runs, k, j)
  BY <1>1 DEF Together
<1>4. runs[k].start < runs[i].start + Window /\ runs[j].start < runs[k].start + Window
  BY <1>1, <1>3 DEF Within
<1>5. runs[i].start <= runs[k].start /\ runs[k].start <= runs[j].start
  BY <1>1 DEF Ordered
<1>6. runs[k].start + Window >= runs[i].start /\ runs[k].start + Window >= runs[j].start
  BY <1>1, <1>2, <1>4, <1>5
<1>7. runs[k].start < runs[j].start + Window
  BY <1>1, <1>2, <1>4, <1>5
<1> QED
  BY <1>1, <1>4, <1>6, <1>7 DEF Neighbours

LEMMA RunPage ==
  ASSUME runs \in Seq(RunRow), Chained(runs), Ordered(runs, now), Within(runs),
         NEW i \in DOMAIN runs
  PROVE  RetryChain(i) = {j \in DOMAIN runs : FirstOf(j) = FirstOf(i)}
<1>1. DOMAIN runs \subseteq Nat /\ RetryChain(i) \subseteq DOMAIN runs
  BY DEF RetryChain, Neighbours
<1>2. ASSUME NEW a \in DOMAIN runs, NEW b \in DOMAIN runs, a <= b
      PROVE  Together(runs, a, b) <=>
               /\ a \in Neighbours(b) /\ b \in Neighbours(a)
               /\ \A k \in a..(b - 1) : {k, k + 1} \subseteq Neighbours(a) /\ Follows(k, k + 1)
  <2>1. ASSUME Together(runs, a, b)
        PROVE  /\ a \in Neighbours(b) /\ b \in Neighbours(a)
               /\ \A k \in a..(b - 1) : {k, k + 1} \subseteq Neighbours(a) /\ Follows(k, k + 1)
    <3>1. \A k \in a..b : k \in Neighbours(a) /\ k \in Neighbours(b)
      BY <1>2, <2>1, CallIsNear
    <3>2. a \in a..b /\ b \in a..b /\ \A k \in a..(b - 1) : k \in a..b /\ k + 1 \in a..b
      BY <1>1, <1>2
    <3>3. \A k \in a..(b - 1) : Follows(k, k + 1)
      BY <1>2, <2>1, CallFollows
    <3> QED
      BY <3>1, <3>2, <3>3
  <2>2. (\A k \in a..(b - 1) : Follows(k, k + 1)) => Together(runs, a, b)
    BY <1>2, CallFollows
  <2> QED
    BY <2>1, <2>2
<1>3. ASSUME NEW a \in DOMAIN runs, NEW b \in DOMAIN runs, a <= b
      PROVE  Together(runs, a, b) <=>
               /\ a \in Neighbours(b) /\ b \in Neighbours(a)
               /\ \A k \in a..(b - 1) : {k, k + 1} \subseteq Neighbours(b) /\ Follows(k, k + 1)
  <2>1. ASSUME Together(runs, a, b)
        PROVE  \A k \in a..(b - 1) : {k, k + 1} \subseteq Neighbours(b)
    <3>1. \A k \in a..b : k \in Neighbours(b)
      BY <1>3, <2>1, CallIsNear
    <3>2. \A k \in a..(b - 1) : k \in a..b /\ k + 1 \in a..b
      BY <1>1, <1>3
    <3> QED
      BY <3>1, <3>2
  <2>2. (\A k \in a..(b - 1) : Follows(k, k + 1)) => Together(runs, a, b)
    BY <1>3, CallFollows
  <2>3. Together(runs, a, b) =>
          /\ a \in Neighbours(b) /\ b \in Neighbours(a)
          /\ \A k \in a..(b - 1) : Follows(k, k + 1)
    BY <1>2, <1>3
  <2> QED
    BY <2>1, <2>2, <2>3
<1>4. ASSUME NEW j \in DOMAIN runs
      PROVE  j \in RetryChain(i) <=> FirstOf(j) = FirstOf(i)
  <2>1. j \in RetryChain(i) <=>
          /\ j \in Neighbours(i)
          /\ \A k \in Min({i, j})..(Max({i, j}) - 1) :
               {k, k + 1} \subseteq Neighbours(i) /\ Follows(k, k + 1)
    BY DEF RetryChain
  <2>2. CASE i <= j
    <3>1. Min({i, j}) = i /\ Max({i, j}) = j
      BY <1>1, <2>2, MinMaxOfTwo
    <3>2. FirstOf(i) = FirstOf(j) <=> Together(runs, i, j)
      BY <2>2, SameCall
    <3>3. (\A k \in i..(j - 1) : Follows(k, k + 1)) => Together(runs, i, j)
      BY <2>2, CallFollows
    <3> QED
      BY <1>2, <2>1, <2>2, <3>1, <3>2, <3>3
  <2>3. CASE j <= i
    <3>1. Min({i, j}) = j /\ Max({i, j}) = i
      BY <1>1, <2>3, MinMaxOfTwo
    <3>2. FirstOf(j) = FirstOf(i) <=> Together(runs, j, i)
      BY <2>3, SameCall
    <3>3. (\A k \in j..(i - 1) : Follows(k, k + 1)) => Together(runs, j, i)
      BY <2>3, CallFollows
    <3> QED
      BY <1>3, <2>1, <2>3, <3>1, <3>2, <3>3
  <2> QED
    BY <1>1, <2>2, <2>3
<1> QED
  BY <1>1, <1>4

-----------------------------------------------------------------------------
(* Whose open row a page shows *)

At(t, i) == pc[t] \in AtRow /\ local[t].row = i

\* As long as nothing dies and the database answers, an open row is being worked at.
RunningInv ==
  crashes = 0 /\ "db" \notin Faults =>
    \A i \in DOMAIN runs : runs[i].status = "running" => \E t \in Tasks : At(t, i)

LEMMA MovesRunning ==
  ASSUME TypeInv, RunningInv, NEW t \in Tasks, NEW from, NEW to, NEW l \in Locals,
         Moves(t, from, to, l), crashes' = crashes,
         "db" \notin Faults =>
           \A i \in DOMAIN runs' : runs'[i].status = "running" =>
             \/ to \in AtRow /\ l.row = i
             \/ /\ i \in DOMAIN runs /\ runs[i].status = "running"
                /\ from \notin AtRow \/ local[t].row # i
  PROVE  RunningInv'
<1>1. \A u \in Tasks : /\ pc'[u] = IF u = t THEN to ELSE pc[u]
                       /\ local'[u] = IF u = t THEN l ELSE local[u]
  BY DEF Moves, TypeInv, TypeOK
<1>2. pc[t] = from
  BY DEF Moves
<1> SUFFICES ASSUME crashes' = 0, "db" \notin Faults,
                    NEW i \in DOMAIN runs', runs'[i].status = "running"
             PROVE  \E u \in Tasks : At(u, i)'
  BY DEF RunningInv
<1>3. CASE to \in AtRow /\ l.row = i
  BY <1>1, <1>3 DEF At
<1>4. CASE /\ i \in DOMAIN runs /\ runs[i].status = "running"
           /\ from \notin AtRow \/ local[t].row # i
  <2>1. PICK u \in Tasks : At(u, i)
    BY <1>4 DEF RunningInv
  <2>2. u # t
    BY <1>2, <1>4, <2>1 DEF At
  <2> QED
    BY <1>1, <2>1, <2>2 DEF At
<1> QED
  BY <1>3, <1>4

LEMMA RunRunning ==
  ASSUME LedgerInv, RunningInv, NEW t \in Tasks, Begin(t) \/ RunStep(t)
  PROVE  RunningInv'
<1>0. /\ TypeInv /\ runs \in Seq(RunRow) /\ local[t] \in Locals
      /\ AtLastRow(t, pc[t], local[t], runs)
  BY DEF LedgerInv, SafetyInv, TypeInv, TypeOK
<1>1. CASE Begin(t)
  <2>1. PICK from \in {"idle", "spawned"}, l \in Locals : Moves(t, from, "acquiring", l)
    BY <1>0, <1>1, BeginMoves
  <2>2. runs' = runs /\ crashes' = crashes
    BY <1>1 DEF Begin
  <2> QED
    BY <1>0, <2>1, <2>2, MovesRunning DEF AtRow
<1>2. CASE Acquire(t)
  <2>1. PICK l \in Locals : Moves(t, "acquiring", "preparing", l)
    BY <1>0, <1>2, AcquireMoves
  <2>2. runs' = runs /\ crashes' = crashes
    BY <1>2 DEF Acquire
  <2> QED
    BY <1>0, <2>1, <2>2, MovesRunning DEF AtRow
<1>3. CASE Refuse(t) \/ Release(t)
  <2>1. PICK from \in {"acquiring", "release"}, to \in {"clear", "idle"} :
          Moves(t, from, to, NoLocal)
    BY <1>0, <1>3, ReturnMoves DEF Refuse, Release
  <2>2. runs' = runs /\ crashes' = crashes
    BY <1>3 DEF Refuse, Release
  <2> QED
    BY <1>0, <2>1, <2>2, MovesRunning, NoLocalType DEF AtRow
<1>4. CASE StartAttempt(t)
  <2>1. PICK l \in Locals : Moves(t, "preparing", "harness", l) /\ l.row = Len(runs) + 1
    BY <1>0, <1>4, StartAttemptMoves
  <2>2. PICK r \in RunRow : runs' = Append(runs, r)
    BY <1>0, <1>4, StartAttemptMoves
  <2>3. \A i \in DOMAIN runs' : \/ i = Len(runs) + 1
                                \/ i \in DOMAIN runs /\ runs'[i] = runs[i]
    <3>1. /\ DOMAIN runs' = 1..(Len(runs) + 1) /\ DOMAIN runs = 1..Len(runs)
          /\ Len(runs) \in Nat /\ \A i \in DOMAIN runs : runs'[i] = runs[i]
      BY <1>0, <2>2
    <3> QED
      BY <3>1
  <2>4. crashes' = crashes
    BY <1>4 DEF StartAttempt
  <2> QED
    BY <1>0, <2>1, <2>3, <2>4, MovesRunning DEF AtRow
<1>5. CASE HarnessEnds(t) \/ Classify(t)
  <2>1. PICK from \in {"harness", "classify"}, to \in {"classify", "finish"}, l \in Locals :
          Moves(t, from, to, l) /\ l.row = local[t].row
    BY <1>0, <1>5, HarnessEndsMoves, ClassifyMoves
  <2>2. runs' = runs /\ crashes' = crashes
    BY <1>5 DEF HarnessEnds, Classify
  <2> QED
    BY <1>0, <2>1, <2>2, MovesRunning DEF AtRow
<1>6. CASE AttemptErrs(t)
  <2>1. PICK from \in {"preparing", "classify", "finish"} : Moves(t, from, "release", local[t])
    BY <1>0, <1>6, AttemptErrsMoves
  <2>2. runs' = runs /\ crashes' = crashes
    BY <1>6 DEF AttemptErrs
  <2>3. "db" \notin Faults => from = "preparing"
    BY <1>6, <2>1 DEF AttemptErrs, Goto, Moves
  <2> QED
    BY <1>0, <2>1, <2>2, <2>3, MovesRunning DEF AtRow
<1>7. CASE FinishLast(t) \/ FinishAndRetry(t)
  <2>1. PICK l \in Locals, to \in {"release", "preparing"} : Moves(t, "finish", to, l)
    BY <1>0, <1>7, FinishMoves
  <2> DEFINE row == local[t].row
  <2>2. PICK r \in RunRow : /\ runs' = [runs EXCEPT ![row] = r]
                            /\ r.status \in Outcomes
    BY <1>0, <1>7, FinishMoves
  <2>3. row \in DOMAIN runs
    BY <1>0, <1>7, FinishMoves
  <2>4. /\ DOMAIN runs' = DOMAIN runs /\ runs'[row] = r
        /\ \A j \in DOMAIN runs : j # row => runs'[j] = runs[j]
    BY <1>0, <2>2, <2>3, ReplaceRow
  <2>5. \A i \in DOMAIN runs' : runs'[i].status = "running" =>
          i \in DOMAIN runs /\ runs[i].status = "running" /\ row # i
    BY <2>2, <2>4 DEF Outcomes
  <2>6. crashes' = crashes
    BY <1>7 DEF FinishLast, FinishAndRetry
  <2> HIDE DEF row
  <2> QED
    BY <1>0, <2>1, <2>5, <2>6, MovesRunning DEF row
<1> QED
  BY <1>1, <1>2, <1>3, <1>4, <1>5, <1>6, <1>7 DEF RunStep

LEMMA OtherRunning ==
  ASSUME LedgerInv, RunningInv,
         \/ \E w \in Web : CountManual(w) \/ WebStep(w)
         \/ \E i \in DOMAIN runs : ChildWrites(i)
         \/ \E c \in Cli : CliDies(c)
         \/ ServiceDies
         \/ ServiceStarts
         \/ Tick
  PROVE  RunningInv'
<1>0. TypeInv /\ crashes \in Nat
  BY DEF LedgerInv, SafetyInv, TypeInv, TypeOK
<1>1. CASE \E w \in Web : CountManual(w) \/ WebStep(w)
  <2>1. PICK w \in Web : CountManual(w) \/ WebStep(w)
    BY <1>1
  <2>2. /\ UNCHANGED <<runs, local, crashes>> /\ w \in Tasks
        /\ pc[w] \in {"idle", "counted", "flagged", "clear"}
    BY <1>0, <2>1, WebFrame DEF Tasks, Service
  <2>3. PICK p \in {"idle", "counted", "flagged", "spawned"} : pc' = [pc EXCEPT ![w] = p]
    BY <1>0, <2>1, WebFrame
  <2>4. Moves(w, pc[w], p, local[w]) /\ local[w] \in Locals
    BY <1>0, <2>2, <2>3 DEF TypeInv, TypeOK, Moves
  <2> QED
    BY <1>0, <2>2, <2>4, MovesRunning DEF AtRow
<1>2. CASE (\E i \in DOMAIN runs : ChildWrites(i)) \/ Tick
  <2>1. UNCHANGED <<runs, pc, local, crashes>>
    BY <1>2, Zenon DEF ChildWrites, Tick
  <2> QED
    BY <2>1 DEF RunningInv, At
<1>3. CASE (\E c \in Cli : CliDies(c)) \/ ServiceDies
  <2>1. PICK D : Die(D)
    BY <1>3 DEF CliDies, ServiceDies
  <2>2. crashes' = crashes + 1
    BY <2>1, Zenon DEF Die
  <2>3. crashes' # 0
    BY <1>0, <2>2
  <2> QED
    BY <2>3 DEF RunningInv
<1>4. CASE ServiceStarts
  <2>1. UNCHANGED <<pc, local, crashes>>
    BY <1>4, Zenon DEF ServiceStarts
  <2>2. /\ DOMAIN runs' = DOMAIN runs
        /\ \A i \in DOMAIN runs : runs'[i].status = "running" => runs[i].status = "running"
    <3>1. /\ runs \in Seq(RunRow) /\ runs' \in Seq(RunRow) /\ Len(runs') = Len(runs)
          /\ \A i \in DOMAIN runs : runs'[i] = runs[i] \/ runs'[i].status = "killed"
      BY <1>0, <1>4, StartsRuns DEF TypeInv, TypeOK
    <3> QED
      BY <3>1
  <2> QED
    BY <2>1, <2>2 DEF RunningInv, At
<1> QED
  BY <1>1, <1>2, <1>3, <1>4

LEMMA NextRunning == LedgerInv /\ RunningInv /\ [Next]_vars => RunningInv'
<1> SUFFICES ASSUME LedgerInv, RunningInv, [Next]_vars PROVE RunningInv'
  OBVIOUS
<1>1. CASE Next
  BY <1>1, RunRunning, OtherRunning DEF Next
<1>2. CASE UNCHANGED vars
  <2>1. UNCHANGED <<runs, pc, local, crashes>>
    BY <1>2 DEF vars
  <2> QED
    BY <2>1 DEF RunningInv, At
<1> QED
  BY <1>1, <1>2

LEMMA DayPage ==
  ASSUME TypeInv, RunningInv, crashes = 0, "db" \notin Faults,
         NEW day, DayState(day) = "running"
  PROVE  \E t \in Tasks : /\ pc[t] \in {"harness", "classify", "finish"}
                          /\ local[t].row = Max(EditorRunsOf(day))
<1>1. EditorRunsOf(day) # {} /\ runs[Max(EditorRunsOf(day))].status = "running"
  BY DEF DayState
<1>2. Len(runs) \in Nat /\ EditorRunsOf(day) \in SUBSET (1..Len(runs))
      /\ DOMAIN runs = 1..Len(runs)
  BY DEF EditorRunsOf, TypeInv, TypeOK
<1>3. Max(EditorRunsOf(day)) \in DOMAIN runs
  BY <1>1, <1>2, Greatest
<1> QED
  BY <1>1, <1>3 DEF RunningInv, At, AtRow

\* If a run fits in the stale window, the page of a run shows the attempts of one
\* call and no others, whatever ran before or after, died or was taken over; and a
\* day is shown as running only while a run works at its row.
THEOREM PagesTellTheTruth ==
  ASSUME Timely
  PROVE  Spec => []PagesFollowTheRuns
<1> DEFINE IInv == LedgerInv /\ ChainInv /\ RunningInv
<1>1. Init => IInv
  <2> SUFFICES ASSUME Init PROVE IInv
    OBVIOUS
  <2>1. \A t \in Tasks : AtLastRow(t, pc[t], local[t], runs)
    BY DEF Init, AtLastRow, Live, Attempting
  <2>2. RunningInv
    BY DEF Init, RunningInv
  <2> QED
    BY <2>1, <2>2, InitSafetyInv, InitChain DEF LedgerInv
<1>2. IInv /\ [Next]_vars => IInv'
  BY NextLedgerInv, NextChain, NextRunning
<1>3. IInv => PagesFollowTheRuns
  <2> SUFFICES ASSUME IInv PROVE PagesFollowTheRuns
    OBVIOUS
  <2>1. TypeInv /\ runs \in Seq(RunRow)
    BY DEF LedgerInv, SafetyInv, TypeInv, TypeOK
  <2>2. \A i \in DOMAIN runs : RetryChain(i) = {j \in DOMAIN runs : FirstOf(j) = FirstOf(i)}
    BY <2>1, RunPage DEF ChainInv
  <2> QED
    BY <2>1, <2>2, DayPage DEF PagesFollowTheRuns
<1> HIDE DEF IInv
<1> QED
  BY <1>1, <1>2, <1>3, PTL DEF Spec
=============================================================================
