------------------------ MODULE MCExecutionOwnership ------------------------
(* ExecutionOwnership for TLC: two interchangeable worker processes.       *)
EXTENDS ExecutionOwnership, TLC

(* Sound for the safety runs only. *)
ProcSymmetry == Permutations(Proc)
=============================================================================
