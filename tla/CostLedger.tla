----------------------------- MODULE CostLedger -----------------------------
(***************************************************************************)
(* What a run promises about its cost: tokens are spent, then everything   *)
(* that was spent is booked, once; nothing is spent after that.            *)
(***************************************************************************)
EXTENDS Naturals

VARIABLES
  spent,   \* tokens of the model calls so far
  booked,  \* the tokens of the cost row; 0 while there is none
  closed   \* the cost row is written

Init == spent = 0 /\ booked = 0 /\ closed = FALSE

Spend ==
  /\ ~closed
  /\ spent' = spent + 1
  /\ UNCHANGED <<booked, closed>>

Book ==
  /\ ~closed
  /\ booked' = spent
  /\ closed' = TRUE
  /\ UNCHANGED spent

Next == Spend \/ Book

Spec == Init /\ [][Next]_<<spent, booked, closed>>
=============================================================================
