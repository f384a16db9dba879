---------------------------- MODULE BoundedCall ----------------------------
(***************************************************************************)
(* What execute_in_sandbox promises its callers, whatever the backend: one *)
(* call to generated code ends at most once, with the values the code      *)
(* produced, with an error, with a timeout once its time is up, or with an *)
(* exception.                                                              *)
(***************************************************************************)
VARIABLES
  call,     \* "idle", "running", or how the call ended
  produced, \* the code ran to its end and its result left the sandbox
  expired   \* the call's time is up

bcVars == <<call, produced, expired>>

Ended == {"values", "error", "timeout", "raised"}

BCInit == call = "idle" /\ produced = FALSE /\ expired = FALSE

Begin == call = "idle" /\ call' = "running" /\ UNCHANGED <<produced, expired>>
Refuse == call = "idle" /\ call' = "raised" /\ UNCHANGED <<produced, expired>>
\* Code that outlives its call may still come to its end.
Produce == call # "idle" /\ produced' = TRUE /\ UNCHANGED <<call, expired>>
Expire == expired' = TRUE /\ UNCHANGED <<call, produced>>

Answer ==
  /\ call = "running"
  /\ call' \in Ended
  /\ call' = "values" => produced
  /\ call' = "timeout" => expired
  /\ UNCHANGED <<produced, expired>>

BCNext == Begin \/ Refuse \/ Produce \/ Expire \/ Answer
BCSpec == BCInit /\ [][BCNext]_bcVars
=============================================================================
