----------------------------- MODULE MCApproval -----------------------------
(***************************************************************************)
(* Model-checking instance of Approval: runs and requests are model        *)
(* values, interchangeable among themselves.                               *)
(***************************************************************************)
EXTENDS Approval, TLC

Symmetry == Permutations(Run) \cup Permutations(Request)
=============================================================================
