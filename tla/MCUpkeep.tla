------------------------------ MODULE MCUpkeep ------------------------------
(* The service with a window of two days against a command with one day.   *)
EXTENDS Upkeep

MCProcesses == {"serve", "prune"}
MCDays == [serve |-> 1, prune |-> 0]
=============================================================================
