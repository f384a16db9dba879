---------------------------- MODULE MCScheduler -----------------------------
(***************************************************************************)
(* Model-checking instance of Scheduler: ticks and PATCH requests are      *)
(* model values, interchangeable among themselves.                         *)
(***************************************************************************)
EXTENDS Scheduler, TLC

Symmetry == Permutations(Tick) \cup Permutations(Patch)
=============================================================================
