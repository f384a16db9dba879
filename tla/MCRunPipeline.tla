--------------------------- MODULE MCRunPipeline ----------------------------
(***************************************************************************)
(* Model-checking instance of RunPipeline: the bounds are in the           *)
(* configurations.                                                         *)
(***************************************************************************)
EXTENDS RunPipeline
=============================================================================
