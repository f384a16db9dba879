---------------------------- MODULE MCCsvSource ----------------------------
(***************************************************************************)
(* Model-checking instance of CsvSource alone: small files, or large ones  *)
(* whose sample is all that is walked, with a field of any length.         *)
(***************************************************************************)
EXTENDS CsvSource

MCFile ==
  {[type |-> "csv", text |-> "utf8", sep |-> ",", sniffed |-> TRUE, large |-> large,
    flaw |-> "none", flawAt |-> "sample", field |-> n, fieldAt |-> "rest",
    decimals |-> "none"] : n \in FieldClass, large \in BOOLEAN}
=============================================================================
