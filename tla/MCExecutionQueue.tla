-------------------------- MODULE MCExecutionQueue --------------------------
(***************************************************************************)
(* Model-checking instance of ExecutionQueue: the calls are model values;  *)
(* avulso calls and scheduled calls are interchangeable among themselves.  *)
(***************************************************************************)
EXTENDS ExecutionQueue, TLC

CallSymmetry == Permutations(Scheduled) \cup Permutations(Call \ Scheduled)
=============================================================================
