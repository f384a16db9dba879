----------------------------- MODULE FireLedger -----------------------------
(***************************************************************************)
(* What the scheduler promises about the instants of a cron schedule: each *)
(* instant is settled at most once, and for good.  It is fired, or it is   *)
(* dropped; a dropped instant never fires after all and a fired one never  *)
(* fires again, not even in doubt.  A doubtful fire, one that nobody knows *)
(* of, settles nothing: the instant stays open.  An edit of the schedule   *)
(* reopens the book: after it, the same instant may be settled once more.  *)
(***************************************************************************)
EXTENDS Naturals

CONSTANT Instant

VARIABLES fires, doubts, drops, edited

Open(i) == edited \/ fires[i] + drops[i] = 0

Init ==
  /\ fires = [i \in Instant |-> 0]
  /\ doubts = [i \in Instant |-> 0]
  /\ drops = [i \in Instant |-> 0]
  /\ edited = FALSE

Fire(i) ==
  /\ Open(i)
  /\ fires' = [fires EXCEPT ![i] = @ + 1]
  /\ UNCHANGED <<doubts, drops, edited>>

FireInDoubt(i) ==
  /\ Open(i)
  /\ doubts' = [doubts EXCEPT ![i] = @ + 1]
  /\ UNCHANGED <<fires, drops, edited>>

Drop(i) ==
  /\ Open(i)
  /\ drops' = [drops EXCEPT ![i] = @ + 1]
  /\ UNCHANGED <<fires, doubts, edited>>

Edit ==
  /\ edited' = TRUE
  /\ UNCHANGED <<fires, doubts, drops>>

Next == Edit \/ \E i \in Instant : Fire(i) \/ FireInDoubt(i) \/ Drop(i)

Spec == Init /\ [][Next]_<<fires, doubts, drops, edited>>
=============================================================================
