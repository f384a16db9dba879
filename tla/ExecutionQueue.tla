--------------------------- MODULE ExecutionQueue ---------------------------
(***************************************************************************)
(* The asynchronous execution queue of one tenant                          *)
(* (services/execution_queue.py): the calls of enqueue_analysis, in the    *)
(* API and in the scheduler, pass a budget gate and a rate limiter kept in *)
(* Redis and Postgres and publish a Celery task; a worker runs the task,   *)
(* prices the run in Postgres, releases the tenant's in-flight lock and    *)
(* decides about a retry.                                                  *)
(*                                                                         *)
(* Every Redis command and every database transaction is a step of its     *)
(* own, so calls and tasks interleave between any two of them.  All keys   *)
(* and rows are per tenant, so one tenant is modelled.  A call publishes   *)
(* at most one task, which bears the name of the call.  Any command may    *)
(* raise, and one that changes something may raise after it took effect.   *)
(***************************************************************************)
EXTENDS Integers, FiniteSets

CONSTANTS
  Call,              \* the enqueue_analysis calls
  Scheduled,         \* those with a saved_pipeline_id (made by the scheduler)
  CapChoices,        \* what users.monthly_budget_usd may hold: amounts or NoCap
  DefaultCap,        \* AI_ETL_DEFAULT_MONTHLY_BUDGET_USD: an amount or NoCap
  Costs,             \* what one run may cost
  RateLimitMaxRuns,  \* RATE_LIMIT_MAX_RUNS
  MaxRetries,        \* SCHEDULED_PIPELINE_MAX_RETRIES
  TTLCoversRun,      \* TRUE: no queued or running task outlives the lock's TTL
  NoCap,             \* no cap configured
  NoCall             \* the lock's key is absent

ASSUME CallAssumption ==
  /\ NoCall \notin Call
  /\ Scheduled \subseteq Call
ASSUME AmountAssumption ==
  /\ NoCap \notin Nat
  /\ CapChoices \subseteq Nat \cup {NoCap}
  /\ CapChoices # {}
  /\ DefaultCap \in (Nat \ {0}) \cup {NoCap}
  /\ Costs \subseteq Nat
ASSUME LimitAssumption ==
  /\ RateLimitMaxRuns \in Nat
  /\ MaxRetries \in Nat
  /\ TTLCoversRun \in BOOLEAN

VARIABLES
  lock,      \* Redis: budget-inflight:{tenant}; the call that set it (the code stores "1")
  count,     \* Redis: ratelimit:{tenant}:{window_index} of the current window
  cap,       \* Postgres: users.monthly_budget_usd
  spent,     \* Postgres: sum of analysis_runs.cost_usd over the current month
  req,       \* where each enqueue_analysis call is
  seenCap,   \* the cap each call has read
  task,      \* where each call's task is, in the broker or in a worker
  outcome,   \* how the task's current attempt ended, until it is decided upon
  retries,   \* self.request.retries
  charged,   \* history: calls that incremented the current window's counter
  admitted,  \* history: those the rate limiter let through
  late,      \* history: calls that started when the cap was already reached
  stranded,  \* history: the call that set the key has gone on without deleting it
  disturbed  \* history: a call lost the lock while it held it

storeVars == <<lock, count, cap, spent>>
callVars == <<req, seenCap>>
taskVars == <<task, outcome, retries>>
historyVars == <<charged, admitted, late, stranded, disturbed>>
vars == <<storeVars, callVars, taskVars, historyVars>>

Amounts == Nat \cup {NoCap}

\* get_monthly_budget, else _default_monthly_budget_usd
EffectiveCap == IF cap = NoCap THEN DefaultCap ELSE cap

Capped(c) == seenCap[c] # NoCap

\* The task is in the broker, or a worker has yet to release the lock for it.
InFlight(c) == task[c] \in {"queued", "running", "priced", "finally"}

\* A capped call between its SET NX and the release that ends its attempt.
Holding(c) ==
  /\ Capped(c)
  /\ InFlight(c) \/ (task[c] = "none" /\ req[c] \in {"rate", "publish", "undo"})

\* A DELETE by c takes the lock from another call that holds it.
ForeignRelease(c) == lock \notin {c, NoCall} /\ Holding(lock)

-----------------------------------------------------------------------------
Init ==
  /\ lock = NoCall
  /\ count = 0
  /\ cap \in CapChoices
  /\ spent = 0
  /\ req = [c \in Call |-> "new"]
  /\ seenCap = [c \in Call |-> NoCap]
  /\ task = [c \in Call |-> "none"]
  /\ outcome = [c \in Call |-> "none"]
  /\ retries = [c \in Call |-> 0]
  /\ charged = {} /\ admitted = {} /\ late = {} /\ stranded = FALSE
  /\ disturbed = FALSE

-----------------------------------------------------------------------------
(* enqueue_analysis, in the API process or in a scheduler tick             *)

Goto(c, from, to) ==
  /\ req[c] = from
  /\ req' = [req EXCEPT ![c] = to]

\* get_budget_status reads the cap: an uncapped call skips the budget gate.
ReadCap(c) ==
  /\ Goto(c, "new", IF EffectiveCap = NoCap THEN "rate" ELSE "read_spend")
  /\ seenCap' = [seenCap EXCEPT ![c] = EffectiveCap]
  /\ late' = IF EffectiveCap # NoCap /\ spent >= EffectiveCap
             THEN late \cup {c} ELSE late
  /\ UNCHANGED <<storeVars, taskVars, charged, admitted, stranded, disturbed>>

\* get_budget_status sums the month's spend and compares it with the cap.
ReadSpend(c) ==
  /\ Goto(c, "read_spend", IF spent >= seenCap[c] THEN "over_budget" ELSE "acquire")
  /\ UNCHANGED <<storeVars, seenCap, taskVars, historyVars>>

\* Postgres raises in get_budget_status: nothing has been done yet.
ReadFails(c) ==
  /\ req[c] \in {"new", "read_spend"}
  /\ req' = [req EXCEPT ![c] = "rejected"]
  /\ UNCHANGED <<storeVars, seenCap, taskVars, historyVars>>

\* A mistake: SET without NX.
AcquireLockAlways(c) ==
  /\ Goto(c, "acquire", "rate")
  /\ lock' = c
  /\ UNCHANGED <<count, cap, spent, seenCap, taskVars, historyVars>>

\* _try_acquire_budget_inflight_lock: SET NX EX.
AcquireLock(c) ==
  /\ Goto(c, "acquire", IF lock = NoCall THEN "rate" ELSE "over_budget")
  /\ lock' = IF lock = NoCall THEN c ELSE lock
  /\ UNCHANGED <<count, cap, spent, seenCap, taskVars, historyVars>>

\* The SET raises, before or after it took effect.  check_budget_cap is called
\* outside the try block, so nobody deletes a key that was set.
AcquireLockFails(c) ==
  /\ Goto(c, "acquire", "rejected")
  /\ lock' \in IF lock = NoCall THEN {NoCall, c} ELSE {lock}
  /\ stranded' = (stranded \/ lock' = c)
  /\ UNCHANGED <<count, cap, spent, seenCap, taskVars, charged, admitted, late, disturbed>>

\* A mistake: the counter is compared before it is incremented.
CheckRateBeforeIncr(c) ==
  /\ Goto(c, "rate", IF count > RateLimitMaxRuns THEN "undo" ELSE "publish")
  /\ count' = count + 1
  /\ charged' = charged \cup {c}
  /\ admitted' = IF count > RateLimitMaxRuns THEN admitted ELSE admitted \cup {c}
  /\ UNCHANGED <<lock, cap, spent, seenCap, taskVars, late, stranded, disturbed>>

\* check_and_increment_rate_limit: INCR, then compare.
CheckRate(c) ==
  /\ Goto(c, "rate", IF count + 1 > RateLimitMaxRuns THEN "undo" ELSE "publish")
  /\ count' = count + 1
  /\ charged' = charged \cup {c}
  /\ admitted' = IF count + 1 > RateLimitMaxRuns THEN admitted ELSE admitted \cup {c}
  /\ UNCHANGED <<lock, cap, spent, seenCap, taskVars, late, stranded, disturbed>>

\* INCR or EXPIRE raises; the call may have been counted.
CheckRateFails(c) ==
  /\ Goto(c, "rate", "undo")
  /\ \/ UNCHANGED <<count, charged>>
     \/ count' = count + 1 /\ charged' = charged \cup {c}
  /\ UNCHANGED <<lock, cap, spent, seenCap, taskVars, admitted, late, stranded, disturbed>>

\* run_full_analysis_task.delay: the message reaches the broker.
Publish(c) ==
  /\ Goto(c, "publish", "accepted")
  /\ task' = [task EXCEPT ![c] = "queued"]
  /\ UNCHANGED <<storeVars, seenCap, outcome, retries, historyVars>>

\* .delay() raises: the message did not reach the broker, or it did and only
\* the answer was lost.  The caller cannot tell, and a worker may run the task
\* before the caller has gone on.
PublishFails(c) ==
  /\ Goto(c, "publish", "undo")
  /\ task' \in {task, [task EXCEPT ![c] = "queued"]}
  /\ UNCHANGED <<storeVars, seenCap, outcome, retries, historyVars>>

\* A mistake: enqueue_analysis without its except clause.
UndoNothing(c) ==
  /\ Goto(c, "undo", "rejected")
  /\ UNCHANGED <<storeVars, seenCap, taskVars, historyVars>>

\* The except clause: DELETE the lock if this call acquired it, then re-raise.
\* A DELETE that raises after it took effect ends in the same state.  A call whose
\* task is in flight after all takes the lock from itself.
UndoLock(c) ==
  /\ Goto(c, "undo", "rejected")
  /\ lock' = IF Capped(c) THEN NoCall ELSE lock
  /\ disturbed' = (disturbed \/ (Capped(c) /\ (ForeignRelease(c) \/ InFlight(c))))
  /\ stranded' = (stranded /\ ~Capped(c))
  /\ UNCHANGED <<count, cap, spent, seenCap, taskVars, charged, admitted, late>>

\* The DELETE of the except clause raises without effect: the key stays.
UndoLockFails(c) ==
  /\ Capped(c)
  /\ Goto(c, "undo", "rejected")
  /\ stranded' = (stranded \/ lock = c)
  /\ UNCHANGED <<storeVars, seenCap, taskVars, charged, admitted, late, disturbed>>

\* The calling process dies before enqueue_analysis returns.
CallerCrash(c) ==
  /\ req[c] \in {"read_spend", "acquire", "rate", "publish", "undo"}
  /\ req' = [req EXCEPT ![c] = "crashed"]
  /\ UNCHANGED <<storeVars, seenCap, taskVars, historyVars>>

-----------------------------------------------------------------------------
(* run_full_analysis_task, in a worker                                     *)

StartAttempt(c) ==
  /\ task[c] = "queued"
  /\ task' = [task EXCEPT ![c] = "running"]
  /\ UNCHANGED <<storeVars, callVars, outcome, retries, historyVars>>

\* The task of an avulso call with an uploaded file raises while it restores
\* the file (mkdir, b64decode, write_bytes): that is before the try block, so
\* the attempt ends without the DELETE of its finally clause.
RestoreFileFails(c) ==
  /\ task[c] = "queued"
  /\ c \notin Scheduled
  /\ task' = [task EXCEPT ![c] = "decide"]
  /\ outcome' = [outcome EXCEPT ![c] = "raised"]
  /\ stranded' = (stranded \/ lock = c)
  /\ UNCHANGED <<storeVars, callVars, retries, charged, admitted, late, disturbed>>

\* save_analysis writes the run's analysis_runs row, with its cost.
PriceRun(c) ==
  /\ task[c] = "running"
  /\ task' = [task EXCEPT ![c] = "priced"]
  /\ \E cost \in Costs : spent' = spent + cost
  /\ UNCHANGED <<lock, count, cap, callVars, outcome, retries, historyVars>>

\* run_full_analysis returns a state, which counts as a success if it is completed
\* or awaiting approval, or raises.  An attempt that found no row
\* to analyse, or raised first, ends without a priced row; one that raises in
\* save_stage_latencies ends with one.
EndRun(c) ==
  /\ task[c] \in {"running", "priced"}
  /\ task' = [task EXCEPT ![c] = "finally"]
  /\ \E o \in {"succeeded", "failed", "raised"} :
       outcome' = [outcome EXCEPT ![c] = o]
  /\ UNCHANGED <<storeVars, callVars, retries, historyVars>>

\* The finally clause: an unconditional DELETE, whoever set the key.  If it
\* raises after it took effect, its exception replaces the attempt's outcome.
ReleaseLock(c) ==
  /\ task[c] = "finally"
  /\ task' = [task EXCEPT ![c] = "decide"]
  /\ lock' = NoCall
  /\ outcome' \in {outcome, [outcome EXCEPT ![c] = "raised"]}
  /\ disturbed' = (disturbed \/ ForeignRelease(c))
  /\ stranded' = FALSE
  /\ UNCHANGED <<count, cap, spent, callVars, retries, charged, admitted, late>>

\* The DELETE raises inside the finally clause without effect: its exception
\* replaces the attempt's outcome and the key stays.
ReleaseLockFails(c) ==
  /\ task[c] = "finally"
  /\ task' = [task EXCEPT ![c] = "decide"]
  /\ outcome' = [outcome EXCEPT ![c] = "raised"]
  /\ stranded' = (stranded \/ lock = c)
  /\ UNCHANGED <<storeVars, callVars, retries, charged, admitted, late, disturbed>>

\* A mistake: retries without a budget.
WantsRetryAlways(c) ==
  outcome[c] = "raised" \/ (c \in Scheduled /\ outcome[c] = "failed")

\* Level A: an exception is retried by autoretry_for.  Level B: a scheduled
\* fire that failed logically is retried by self.retry.  One shared budget.
WantsRetry(c) ==
  /\ retries[c] < MaxRetries
  /\ \/ outcome[c] = "raised"
     \/ c \in Scheduled /\ outcome[c] = "failed"

\* A mistake: a manual retry that does not count.
RetryUncounted(c) ==
  /\ task[c] = "decide"
  /\ WantsRetry(c)
  /\ task' = [task EXCEPT ![c] = "queued"]
  /\ outcome' = [outcome EXCEPT ![c] = "none"]
  /\ UNCHANGED <<storeVars, callVars, retries, historyVars>>

\* The message of the next attempt reaches the broker, with or without an answer;
\* nobody takes the lock again.
Retry(c) ==
  /\ task[c] = "decide"
  /\ WantsRetry(c)
  /\ task' = [task EXCEPT ![c] = "queued"]
  /\ outcome' = [outcome EXCEPT ![c] = "none"]
  /\ retries' = [retries EXCEPT ![c] = @ + 1]
  /\ disturbed' = (disturbed \/ (Capped(c) /\ lock # c))
  /\ UNCHANGED <<storeVars, callVars, charged, admitted, late, stranded>>

\* The message of the next attempt does not reach the broker: Celery rejects the
\* task, which ends.
RetryFails(c) ==
  /\ task[c] = "decide"
  /\ WantsRetry(c)
  /\ task' = [task EXCEPT ![c] = "done"]
  /\ outcome' = [outcome EXCEPT ![c] = "none"]
  /\ UNCHANGED <<storeVars, callVars, retries, historyVars>>

Finish(c) ==
  /\ task[c] = "decide"
  /\ ~WantsRetry(c)
  /\ task' = [task EXCEPT ![c] = "done"]
  /\ outcome' = [outcome EXCEPT ![c] = "none"]
  /\ UNCHANGED <<storeVars, callVars, retries, historyVars>>

\* The worker dies.  Celery acknowledges a message just before it runs the task
\* (acks_late is not set), so a task that had begun is not delivered again.
WorkerCrash(c) ==
  /\ task[c] \in {"running", "priced", "finally", "decide"}
  /\ task' = [task EXCEPT ![c] = "lost"]
  /\ outcome' = [outcome EXCEPT ![c] = "none"]
  /\ UNCHANGED <<storeVars, callVars, retries, historyVars>>

-----------------------------------------------------------------------------
(* The environment                                                         *)

\* A mistake: SET without EX.
LockNeverExpires == FALSE /\ UNCHANGED vars

\* Redis drops the key after BUDGET_INFLIGHT_LOCK_TTL_SECONDS.
LockExpires ==
  /\ lock # NoCall
  /\ TTLCoversRun => ~Holding(lock)
  /\ lock' = NoCall
  /\ disturbed' = (disturbed \/ Holding(lock))
  /\ stranded' = FALSE
  /\ UNCHANGED <<count, cap, spent, callVars, taskVars, charged, admitted, late>>

\* PATCH /budget
SetMonthlyBudget(v) ==
  /\ cap # v
  /\ cap' = v
  /\ late' = {}
  /\ UNCHANGED <<lock, count, spent, callVars, taskVars,
                 charged, admitted, stranded, disturbed>>

\* The next calls use the key of a new window.
NextWindow ==
  /\ count > 0
  /\ count' = 0
  /\ charged' = {} /\ admitted' = {}
  /\ UNCHANGED <<lock, cap, spent, callVars, taskVars, late, stranded, disturbed>>

\* get_monthly_spend_usd sums from the first day of a new month.
NextMonth ==
  /\ spent > 0
  /\ spent' = 0
  /\ late' = {}
  /\ UNCHANGED <<lock, count, cap, callVars, taskVars,
                 charged, admitted, stranded, disturbed>>

-----------------------------------------------------------------------------
Caller(c) ==
  \/ ReadCap(c) \/ ReadSpend(c) \/ ReadFails(c)
  \/ AcquireLock(c) \/ AcquireLockFails(c) \/ CheckRate(c) \/ CheckRateFails(c)
  \/ Publish(c) \/ PublishFails(c) \/ UndoLock(c) \/ UndoLockFails(c)

Worker(c) ==
  \/ StartAttempt(c) \/ RestoreFileFails(c) \/ PriceRun(c) \/ EndRun(c)
  \/ ReleaseLock(c) \/ ReleaseLockFails(c)
  \/ Retry(c) \/ RetryFails(c) \/ Finish(c)

Environment ==
  \/ LockExpires
  \/ \E v \in CapChoices : SetMonthlyBudget(v)
  \/ NextWindow
  \/ NextMonth

Next ==
  \/ \E c \in Call : Caller(c) \/ CallerCrash(c) \/ Worker(c) \/ WorkerCrash(c)
  \/ Environment

Spec == Init /\ [][Next]_vars

\* A caller runs on unless its process dies; workers keep consuming the broker
\* and every run ends (each model call and sandbox has its own timeout); Redis
\* expires keys.  Crashes, cap changes and the calendar are not fair.
Fairness ==
  /\ \A c \in Call : WF_vars(Caller(c)) /\ WF_vars(Worker(c))
  /\ WF_vars(LockExpires)

FairSpec == Spec /\ Fairness

-----------------------------------------------------------------------------
(* Properties                                                              *)

ReqStates == {"new", "read_spend", "acquire", "rate", "publish", "undo",
              "accepted", "over_budget", "rejected", "crashed"}
TaskStates == {"none", "queued", "running", "priced", "finally", "decide", "done", "lost"}
Outcomes == {"none", "succeeded", "failed", "raised"}

\* Every store, call and task is in a state the code can give it; a task never
\* exceeds the retry budget that exceptions and logical failures share.
TypeOK ==
  /\ lock \in Call \cup {NoCall}
  /\ count \in Nat
  /\ cap \in CapChoices
  /\ spent \in Nat
  /\ req \in [Call -> ReqStates]
  /\ seenCap \in [Call -> Amounts]
  /\ task \in [Call -> TaskStates]
  /\ outcome \in [Call -> Outcomes]
  /\ retries \in [Call -> 0..MaxRetries]
  /\ charged \subseteq Call /\ admitted \subseteq Call
  /\ late \subseteq Call /\ stranded \in BOOLEAN
  /\ disturbed \in BOOLEAN

\* check_budget_cap's promise, "at most one of this tenant's executions may be
\* in flight and unreconciled", holds as long as none of four things has
\* happened: the TTL expired under a live run; a DELETE removed the lock of
\* another call; the publish raised although the broker has the message, so that
\* the caller undid the lock of its own task; or a retry went back to the queue
\* without the lock.
InFlightUnlessDisturbed ==
  ~disturbed => \A a, b \in Call : Holding(a) /\ Holding(b) => a = b

\* A lock that is set belongs to a call that is still on its way through the
\* queue, or to one that will not delete it, for one of three reasons: its process
\* died; a Redis command of its own raised; or its task raised before the try
\* block whose finally clause deletes it.  Such a lock stays until its TTL or
\* until the DELETE of another call.
NoLeakedLock ==
  lock # NoCall =>
    \/ Holding(lock)
    \/ req[lock] = "crashed" \/ task[lock] = "lost" \/ stranded

\* check_and_increment_rate_limit lets at most RATE_LIMIT_MAX_RUNS calls of a
\* window through, however the calls interleave.
AdmittedPerWindow == Cardinality(admitted) <= RateLimitMaxRuns

\* A call rejected by the budget gate never consumes a rate-limit slot
\* (enqueue_analysis: "a request rejected for being over budget must not still
\* consume a rate-limit slot").
BudgetRejectionCostsNoSlot == \A c \in charged : req[c] # "over_budget"

\* A call that starts when the month's spend has already reached the cap is
\* never executed, unless the cap changes or the month ends meanwhile.
OverBudgetNeverRuns == \A c \in late : task[c] = "none"

\* ADR-019: the month's spend overshoots the cap by less than the cost of one
\* run, as long as no call has lost the lock while it held it.  The code does not
\* keep this promise either, although the lock is there for it.
OvershootBelowOneRun ==
  ~disturbed /\ EffectiveCap # NoCap => \E cost \in Costs : spent < EffectiveCap + cost

\* The in-flight lock is free again and again, whatever crashes: a dead caller
\* or worker cannot block a capped tenant for longer than the TTL.
LockEventuallyFree == []<>(lock = NoCall)

\* Every task that the broker has accepted, whether or not its caller knows,
\* ends after finitely many retries or dies with its worker.
AcceptedEnds == \A c \in Call : task[c] = "queued" ~> task[c] \in {"done", "lost"}
=============================================================================
