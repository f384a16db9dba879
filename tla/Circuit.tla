------------------------------ MODULE Circuit ------------------------------
(***************************************************************************)
(* The circuit breaker in front of the LLM providers (invoke_llm).  The    *)
(* threads of one worker process share its state, under a lock; the check  *)
(* of the circuit, the call and the recording of its outcome are separate, *)
(* so other calls may open or close the circuit in between.                *)
(***************************************************************************)
EXTENDS Integers

CONSTANTS
  Thread,    \* threads of the worker's pool
  Provider,  \* LLM providers
  NoProvider,
  Threshold, \* AI_ETL_LLM_CIRCUIT_FAILURE_THRESHOLD
  Cooldown   \* AI_ETL_LLM_CIRCUIT_COOLDOWN_SECONDS, in ticks

ASSUME CircuitAssumption ==
  NoProvider \notin Provider /\ Threshold \in Nat \ {0} /\ Cooldown \in Nat \ {0}

VARIABLES
  failures,  \* consecutive_failures; counting stops at the threshold, above
             \* which nothing changes
  open,      \* whether opened_at is set
  wait,      \* ticks until the cooldown since opened_at is over
  tAt,       \* "idle", "checked" or "calling"
  calls,     \* the provider a thread is calling
  works,     \* whether the provider answers
  calm,      \* no provider stops to answer any more
  doomed,    \* the provider did not answer at some time of the thread's call
  streak,    \* history: calls that failed since the last one that succeeded
  outrun     \* history: the circuit was opened after the thread's check

circuitVars == <<failures, open, wait>>
threadVars == <<tAt, calls, doomed, outrun>>
cbVars == <<circuitVars, threadVars, works, calm, streak>>

CBInit ==
  /\ failures = [p \in Provider |-> 0]
  /\ open = [p \in Provider |-> FALSE]
  /\ wait = [p \in Provider |-> 0]
  /\ tAt = [t \in Thread |-> "idle"]
  /\ calls = [t \in Thread |-> NoProvider]
  /\ works = [p \in Provider |-> TRUE]
  /\ calm = FALSE
  /\ doomed = [t \in Thread |-> FALSE]
  /\ streak = [p \in Provider |-> 0]
  /\ outrun = [t \in Thread |-> FALSE]

CountUp(n) == IF n < Threshold THEN n + 1 ELSE n

-----------------------------------------------------------------------------
\* A mistake: the time since the circuit opened is not looked at.
CheckAlwaysPasses(t, p) ==
  /\ tAt[t] = "idle"
  /\ tAt' = [tAt EXCEPT ![t] = "checked"]
  /\ calls' = [calls EXCEPT ![t] = p]
  /\ UNCHANGED <<circuitVars, doomed, outrun, works, calm, streak>>

\* A mistake: an open circuit lets nothing through, not even a probe.
CheckNeverProbes(t, p) ==
  /\ tAt[t] = "idle"
  /\ ~open[p]
  /\ tAt' = [tAt EXCEPT ![t] = "checked"]
  /\ calls' = [calls EXCEPT ![t] = p]
  /\ UNCHANGED <<circuitVars, doomed, outrun, works, calm, streak>>

\* The circuit is closed, or its cooldown is over.  Otherwise invoke_llm raises
\* LLMCircuitOpenError and changes nothing.
Check(t, p) ==
  /\ tAt[t] = "idle"
  /\ open[p] => wait[p] = 0
  /\ tAt' = [tAt EXCEPT ![t] = "checked"]
  /\ calls' = [calls EXCEPT ![t] = p]
  /\ UNCHANGED <<circuitVars, doomed, outrun, works, calm, streak>>

\* llm.invoke
Invoke(t) ==
  /\ tAt[t] = "checked"
  /\ tAt' = [tAt EXCEPT ![t] = "calling"]
  /\ doomed' = [doomed EXCEPT ![t] = ~works[calls[t]]]
  /\ UNCHANGED <<circuitVars, calls, outrun, works, calm, streak>>

Hangup(t) ==
  /\ tAt' = [tAt EXCEPT ![t] = "idle"]
  /\ calls' = [calls EXCEPT ![t] = NoProvider]
  /\ doomed' = [doomed EXCEPT ![t] = FALSE]

\* A mistake: the failures of one provider count against all of them.
FailEverywhere(t) ==
  /\ tAt[t] = "calling" /\ doomed[t]
  /\ LET p == calls[t]
         opens == {q \in Provider : CountUp(failures[q]) = Threshold}
     IN /\ failures' = [q \in Provider |-> CountUp(failures[q])]
        /\ open' = [q \in Provider |-> open[q] \/ q \in opens]
        /\ wait' = [q \in Provider |-> IF q \in opens THEN Cooldown ELSE wait[q]]
        /\ streak' = [streak EXCEPT ![p] = CountUp(@)]
        /\ outrun' = [u \in Thread |-> u # t /\ (outrun[u] \/ calls[u] \in opens)]
  /\ Hangup(t)
  /\ UNCHANGED <<works, calm>>

\* Any exception counts: an outage is not told from a request the provider
\* refuses.  Each failure at or above the threshold restarts the cooldown.
Fail(t) ==
  /\ tAt[t] = "calling" /\ doomed[t]
  /\ LET p == calls[t]
         opens == CountUp(failures[p]) = Threshold
     IN /\ failures' = [failures EXCEPT ![p] = CountUp(@)]
        /\ open' = [open EXCEPT ![p] = @ \/ opens]
        /\ wait' = [wait EXCEPT ![p] = IF opens THEN Cooldown ELSE @]
        /\ streak' = [streak EXCEPT ![p] = CountUp(@)]
        /\ outrun' = [u \in Thread |-> u # t /\ (outrun[u] \/ (opens /\ calls[u] = p))]
  /\ Hangup(t)
  /\ UNCHANGED <<works, calm>>

\* The success of any call closes the circuit, whenever the call began.
Succeed(t) ==
  /\ tAt[t] = "calling" /\ works[calls[t]]
  /\ failures' = [failures EXCEPT ![calls[t]] = 0]
  /\ open' = [open EXCEPT ![calls[t]] = FALSE]
  /\ wait' = [wait EXCEPT ![calls[t]] = 0]
  /\ streak' = [streak EXCEPT ![calls[t]] = 0]
  /\ outrun' = [outrun EXCEPT ![t] = FALSE]
  /\ Hangup(t)
  /\ UNCHANGED <<works, calm>>

\* Time passes.
Elapse ==
  /\ \E p \in Provider : wait[p] > 0
  /\ wait' = [p \in Provider |-> IF wait[p] > 0 THEN wait[p] - 1 ELSE 0]
  /\ UNCHANGED <<failures, open, threadVars, works, calm, streak>>

-----------------------------------------------------------------------------
(* The provider, which is not part of the system                           *)

Break(p) ==
  /\ ~calm /\ works[p]
  /\ works' = [works EXCEPT ![p] = FALSE]
  /\ doomed' = [t \in Thread |-> doomed[t] \/ (tAt[t] = "calling" /\ calls[t] = p)]
  /\ UNCHANGED <<circuitVars, tAt, calls, outrun, calm, streak>>

Mend(p) ==
  /\ ~works[p]
  /\ works' = [works EXCEPT ![p] = TRUE]
  /\ UNCHANGED <<circuitVars, threadVars, calm, streak>>

Calm ==
  /\ ~calm /\ \A p \in Provider : works[p]
  /\ calm' = TRUE
  /\ UNCHANGED <<circuitVars, threadVars, works, streak>>

-----------------------------------------------------------------------------
Ends(t) == Fail(t) \/ Succeed(t)

CBNext ==
  \/ \E t \in Thread : (\E p \in Provider : Check(t, p)) \/ Invoke(t) \/ Ends(t)
  \/ \E p \in Provider : Break(p) \/ Mend(p)
  \/ Elapse \/ Calm

CBSpec == CBInit /\ [][CBNext]_cbVars

\* Calls keep being made to every provider, and each call ends; time passes.
CBFairness ==
  /\ \A p \in Provider : SF_cbVars(\E t \in Thread : Check(t, p))
  /\ \A t \in Thread : WF_cbVars(Invoke(t)) /\ WF_cbVars(Ends(t))
  /\ WF_cbVars(Elapse)
CBFairSpec == CBSpec /\ CBFairness

-----------------------------------------------------------------------------
CBTypeOK ==
  /\ failures \in [Provider -> 0..Threshold]
  /\ open \in [Provider -> BOOLEAN]
  /\ wait \in [Provider -> 0..Cooldown]
  /\ tAt \in [Thread -> {"idle", "checked", "calling"}]
  /\ calls \in [Thread -> Provider \cup {NoProvider}]
  /\ \A t \in Thread : tAt[t] # "idle" => calls[t] \in Provider
  /\ works \in [Provider -> BOOLEAN] /\ calm \in BOOLEAN
  /\ doomed \in [Thread -> BOOLEAN]
  /\ streak \in [Provider -> 0..Threshold]
  /\ outrun \in [Thread -> BOOLEAN]

\* The circuit of a provider is open if and only if its own last calls, as many
\* as the threshold, have all failed: other providers' outages and calls that
\* end in another order than they began do not confuse the count.
OpenMeansFailing ==
  \A p \in Provider : /\ failures[p] = streak[p]
                      /\ open[p] <=> streak[p] = Threshold

\* A circuit that closes before its cooldown is over is closed by a call that
\* was on its way when the circuit opened: none is let through meanwhile.
ClosesEarlyByLateCall ==
  [][\A p \in Provider :
       open[p] /\ wait[p] > 0 /\ ~open'[p]
         => \E t \in Thread : calls[t] = p /\ outrun[t] /\ tAt'[t] = "idle"]_cbVars

\* Once the providers answer for good, every circuit is closed for good.
Recovers == <>[]calm => <>[](\A p \in Provider : ~open[p])
=============================================================================
