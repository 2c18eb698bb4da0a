------------------------------ MODULE RunLedger ------------------------------
(***************************************************************************)
(* What the run lifecycle promises to whoever reads the table `runs` (the  *)
(* day pages, the run list with its retry chains, the manual-run cap):     *)
(* runs are serial.  At most one task runs at a time; its attempts are     *)
(* consecutive rows, each after a failed one; only the row it is at can    *)
(* get a verdict, and a sweep closes rows nobody works on any more.        *)
(* There is no lock, no clock and no flag here.                            *)
(***************************************************************************)
EXTENDS Naturals, Sequences

CONSTANTS Tasks, Nobody, MaxAttempts

VARIABLES
  owner,   \* the task whose run is going on
  fresh,   \* its run has no row yet
  ledger   \* the rows, oldest first

vars == <<owner, fresh, ledger>>

Last == ledger[Len(ledger)]

Closed == {"success", "failed", "killed"}

Init ==
  /\ owner = Nobody
  /\ fresh = FALSE
  /\ ledger = <<>>

Open(t) ==
  /\ owner = Nobody
  /\ owner' = t
  /\ fresh' = TRUE
  /\ UNCHANGED ledger

Row(t, n) == [task |-> t, attempt |-> n, status |-> "running"]

FirstAttempt(t) ==
  /\ owner = t
  /\ fresh
  /\ fresh' = FALSE
  /\ ledger' = Append(ledger, Row(t, 1))
  /\ UNCHANGED owner

Retry(t) ==
  /\ owner = t
  /\ ~fresh
  /\ Last.task = t
  /\ Last.status \in {"failed", "killed"}
  /\ Last.attempt < MaxAttempts
  /\ ledger' = Append(ledger, Row(t, Last.attempt + 1))
  /\ UNCHANGED <<owner, fresh>>

Settle(t) ==
  /\ owner = t
  /\ ~fresh
  /\ Last.task = t
  /\ Last.status = "running"
  /\ \E s \in Closed : ledger' = [ledger EXCEPT ![Len(ledger)].status = s]
  /\ UNCHANGED <<owner, fresh>>

Leave ==
  /\ owner # Nobody
  /\ owner' = Nobody
  /\ fresh' = FALSE
  /\ UNCHANGED ledger

\* The rows a run may still be working on.
Busy == IF owner # Nobody /\ ~fresh THEN {Len(ledger)} ELSE {}

Sweep ==
  /\ \E S \in SUBSET {i \in DOMAIN ledger \ Busy : ledger[i].status = "running"} :
       ledger' = [i \in DOMAIN ledger |->
         IF i \in S THEN [ledger[i] EXCEPT !.status = "killed"] ELSE ledger[i]]
  /\ UNCHANGED <<owner, fresh>>

Next ==
  \/ \E t \in Tasks : Open(t) \/ FirstAttempt(t) \/ Retry(t) \/ Settle(t)
  \/ Leave
  \/ Sweep

Spec == Init /\ [][Next]_vars
=============================================================================
