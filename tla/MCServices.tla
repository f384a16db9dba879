----------------------------- MODULE MCServices -----------------------------
(***************************************************************************)
(* The parts whose liveness needs few actors, side by side: a scheduler    *)
(* with one tick, an execution queue of two calls, one call of the         *)
(* process sandbox, one of a remote sandbox, and the circuit breaker of a  *)
(* worker process.  The initial state chooses a part, and only that one    *)
(* takes steps.  Nothing is symmetric, for the sake of the temporal        *)
(* properties.                                                             *)
(***************************************************************************)
EXTENDS Scheduler, Sandboxes, Circuit

CONSTANTS
  Call, Scheduled, CapChoices, DefaultCap, Costs, RateLimitMaxRuns, MaxRetries, TTLCoversRun,
  NoCap, NoCall

VARIABLES
  part, \* the part that runs
  lock, count, cap, spent, req, seenCap, task, outcome, retries,
  charged, admitted, late, stranded, disturbed

Queue == INSTANCE ExecutionQueue

queueVars == <<lock, count, cap, spent, req, seenCap, task, outcome, retries,
              charged, admitted, late, stranded, disturbed>>
sandboxVars == <<sbVars, rsVars, cbVars>>
servicesVars == <<part, vars, queueVars, sandboxVars>>

ServicesInit ==
  /\ part \in {"scheduler", "queue", "sandbox", "remote sandbox", "circuit"}
  /\ Init /\ Queue!Init /\ SBInit /\ RSInit /\ CBInit

ServicesNext ==
  /\ UNCHANGED part
  /\ \/ part = "scheduler" /\ Next /\ UNCHANGED <<queueVars, sandboxVars>>
     \/ part = "queue" /\ Queue!Next /\ UNCHANGED <<vars, sandboxVars>>
     \/ part = "sandbox" /\ SBNext /\ UNCHANGED <<vars, queueVars, rsVars, cbVars>>
     \/ part = "remote sandbox" /\ RSNext /\ UNCHANGED <<vars, queueVars, sbVars, cbVars>>
     \/ part = "circuit" /\ CBNext /\ UNCHANGED <<vars, queueVars, sbVars, rsVars>>

\* Each part has the fairness of its own specification.
ServicesFairness ==
  /\ WF_vars(part = "scheduler" /\ Advance)
  /\ \A t \in Tick : /\ WF_vars(part = "scheduler" /\ TickStep(t))
                     /\ SF_vars(part = "scheduler" /\ TickEnqueues(t))
  /\ \A c \in Call : /\ WF_queueVars(part = "queue" /\ Queue!Caller(c))
                     /\ WF_queueVars(part = "queue" /\ Queue!Worker(c))
  /\ WF_queueVars(part = "queue" /\ Queue!LockExpires)
  /\ SBFairness
  /\ \A p \in Provider : SF_cbVars(part = "circuit" /\ \E t \in Thread : Check(t, p))
  /\ \A t \in Thread : WF_cbVars(Invoke(t)) /\ WF_cbVars(Ends(t))
  /\ WF_cbVars(Elapse)

ServicesSpec == ServicesInit /\ [][ServicesNext]_servicesVars /\ ServicesFairness

\* The in-flight lock is free again and again (ExecutionQueue).
LockEventuallyFree == Queue!LockEventuallyFree

\* Every task that the broker has accepted ends, or dies with its worker (ExecutionQueue).
AcceptedEnds == Queue!AcceptedEnds
=============================================================================
