----------------------------- MODULE Transcript -----------------------------
(***************************************************************************)
(* What an attempt promises about its lines, without pipe, channel or      *)
(* tasks: they are stored in the order they were heard, none left out, and *)
(* the verdict is given once, on what was heard.                           *)
(***************************************************************************)
EXTENDS Naturals, Sequences

CONSTANTS
  Lines,          \* what may be heard
  Succeeds(_)     \* the lines heard end in success

VARIABLES heard, stored, verdict

vars == <<heard, stored, verdict>>

Init ==
  /\ heard = <<>>
  /\ stored = <<>>
  /\ verdict = "none"

Hear ==
  /\ verdict = "none"
  /\ \E l \in Lines : heard' = Append(heard, l)
  /\ UNCHANGED <<stored, verdict>>

\* The next line heard is stored, during the attempt or after the verdict.
Store ==
  /\ Len(stored) < Len(heard)
  /\ stored' = Append(stored, heard[Len(stored) + 1])
  /\ UNCHANGED <<heard, verdict>>

Judge ==
  /\ verdict = "none"
  /\ \E v \in {"success", "failed", "killed"} :
       /\ v = "success" => Succeeds(heard)
       /\ verdict' = v
  /\ UNCHANGED <<heard, stored>>

Next == Hear \/ Store \/ Judge

Spec == Init /\ [][Next]_vars
=============================================================================
