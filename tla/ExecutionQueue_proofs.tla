------------------------ MODULE ExecutionQueue_proofs ------------------------
(***************************************************************************)
(* Proofs about ExecutionQueue, for every set of calls, every choice of    *)
(* caps, costs and limits, and whether or not the TTL covers a run.        *)
(***************************************************************************)
EXTENDS ExecutionQueue, FiniteSetTheorems, TLAPS

(***************************************************************************)
(* Type correctness                                                        *)
(***************************************************************************)

\* A step of a caller, of a worker or of the environment keeps every variable
\* in its type; only Retry touches retries, and its guard keeps them in bounds.
LEMMA TypeStep == TypeOK /\ [Next]_vars => TypeOK'
<1> SUFFICES ASSUME TypeOK, [Next]_vars PROVE TypeOK'
  OBVIOUS
<1> USE CallAssumption, AmountAssumption, LimitAssumption
    DEF TypeOK, ReqStates, TaskStates, Outcomes, Amounts,
        storeVars, callVars, taskVars, historyVars
<1>1. ASSUME NEW c \in Call, Caller(c) PROVE TypeOK'
  <2>1. CASE ReadCap(c)
    BY <2>1 DEF ReadCap, Goto, EffectiveCap
  <2>2. CASE ReadSpend(c)
    BY <2>2 DEF ReadSpend, Goto
  <2>3. CASE ReadFails(c)
    BY <2>3 DEF ReadFails
  <2>4. CASE AcquireLock(c)
    BY <2>4 DEF AcquireLock, Goto
  <2>5. CASE AcquireLockFails(c)
    BY <2>5 DEF AcquireLockFails, Goto
  <2>6. CASE CheckRate(c)
    BY <2>6 DEF CheckRate, Goto
  <2>7. CASE CheckRateFails(c)
    BY <2>7 DEF CheckRateFails, Goto
  <2>8. CASE Publish(c)
    BY <2>8 DEF Publish, Goto
  <2>9. CASE PublishFails(c)
    BY <2>9 DEF PublishFails, Goto
  <2>10. CASE UndoLock(c)
    BY <2>10 DEF UndoLock, Goto, ForeignRelease
  <2>11. CASE UndoLockFails(c)
    BY <2>11 DEF UndoLockFails, Goto
  <2> QED
    BY <1>1, <2>1, <2>2, <2>3, <2>4, <2>5, <2>6, <2>7, <2>8, <2>9, <2>10,
       <2>11 DEF Caller
<1>2. ASSUME NEW c \in Call, Worker(c) PROVE TypeOK'
  <2>1. CASE StartAttempt(c)
    BY <2>1 DEF StartAttempt
  <2>2. CASE RestoreFileFails(c)
    BY <2>2 DEF RestoreFileFails
  <2>3. CASE PriceRun(c)
    BY <2>3 DEF PriceRun
  <2>4. CASE EndRun(c)
    BY <2>4 DEF EndRun
  <2>5. CASE ReleaseLock(c)
    BY <2>5 DEF ReleaseLock, ForeignRelease
  <2>6. CASE ReleaseLockFails(c)
    BY <2>6 DEF ReleaseLockFails
  <2>7. CASE Retry(c)
    BY <2>7 DEF Retry, WantsRetry
  <2>8. CASE RetryFails(c)
    BY <2>8 DEF RetryFails
  <2>9. CASE Finish(c)
    BY <2>9 DEF Finish
  <2> QED
    BY <1>2, <2>1, <2>2, <2>3, <2>4, <2>5, <2>6, <2>7, <2>8, <2>9 DEF Worker
<1>3. ASSUME NEW c \in Call, CallerCrash(c) \/ WorkerCrash(c) PROVE TypeOK'
  BY <1>3, ZenonT(60) DEF CallerCrash, WorkerCrash
<1>4. ASSUME Environment PROVE TypeOK'
  <2>1. CASE LockExpires
    BY <2>1 DEF LockExpires
  <2>2. ASSUME NEW v \in CapChoices, SetMonthlyBudget(v) PROVE TypeOK'
    BY <2>2 DEF SetMonthlyBudget
  <2>3. CASE NextWindow
    BY <2>3 DEF NextWindow
  <2>4. CASE NextMonth
    BY <2>4 DEF NextMonth
  <2> QED
    BY <1>4, <2>1, <2>2, <2>3, <2>4 DEF Environment
<1>5. CASE UNCHANGED vars
  BY <1>5 DEF vars
<1> QED
  BY <1>1, <1>2, <1>3, <1>4, <1>5 DEF Next

\* The initial state is well typed.
LEMMA TypeInit == Init => TypeOK
<1> SUFFICES ASSUME Init PROVE TypeOK
  OBVIOUS
<1>1. stranded \in BOOLEAN /\ disturbed \in BOOLEAN
  BY Zenon DEF Init
<1> QED
  BY <1>1, CallAssumption, AmountAssumption, LimitAssumption
  DEF Init, TypeOK, ReqStates, TaskStates, Outcomes, Amounts

\* TypeOK holds in every reachable state; in particular no task is ever
\* executed more than MaxRetries + 1 times.
THEOREM TypeCorrect == Spec => []TypeOK
<1> QED
  BY TypeInit, TypeStep, PTL DEF Spec

(***************************************************************************)
(* The in-flight lock                                                      *)
(***************************************************************************)

\* Only a capped call reaches SET NX, only one that is past it has set the key, and
\* a task exists only for a call that has come to .delay(), whatever that returned.
CallOrder ==
  /\ \A c \in Call : req[c] \in {"read_spend", "acquire"} => Capped(c)
  /\ lock # NoCall => req[lock] \notin {"new", "read_spend", "acquire"}
  /\ \A c \in Call :
       task[c] # "none" => req[c] \in {"accepted", "undo", "rejected", "crashed"}

\* Until a disturbance, whoever may think it holds the lock owns the key.
LockGuardsHolder ==
  ~disturbed => \A c \in Call : Holding(c) => lock = c

\* A key that is set was set by a capped call, which still has to release it
\* or is one of those that never will.
LockHasOwner ==
  lock # NoCall =>
    /\ Capped(lock)
    /\ \/ Holding(lock)
       \/ req[lock] = "crashed" \/ task[lock] = "lost" \/ stranded

\* The strengthening: CallOrder excludes a task beside a call that has not
\* published, and LockGuardsHolder, unlike InFlightUnlessDisturbed, says who loses
\* the lock when a DELETE removes it.
LockInv == TypeOK /\ CallOrder /\ LockGuardsHolder /\ LockHasOwner

\* Every step keeps the strengthening: a DELETE that takes the lock from another
\* call or from a task the caller believes unpublished, an expiry under a holder
\* and a retry without the lock are exactly the steps that record a disturbance.
LEMMA LockStep == LockInv /\ [Next]_vars => LockInv'
<1> SUFFICES ASSUME LockInv, [Next]_vars PROVE LockInv'
  OBVIOUS
<1>t. TypeOK /\ TypeOK'
  BY TypeStep DEF LockInv
<1>i. CallOrder /\ LockGuardsHolder /\ LockHasOwner
  BY DEF LockInv
<1> SUFFICES (CallOrder /\ LockGuardsHolder /\ LockHasOwner)'
  BY <1>t DEF LockInv
<1> USE <1>t, <1>i, CallAssumption
    DEF TypeOK, CallOrder, LockGuardsHolder, LockHasOwner, Holding, InFlight, Capped,
        storeVars, callVars, taskVars, historyVars
<1>1. ASSUME NEW c \in Call, Caller(c)
      PROVE (CallOrder /\ LockGuardsHolder /\ LockHasOwner)'
  <2>1. CASE ReadCap(c)
    BY <2>1 DEF ReadCap, Goto, EffectiveCap
  <2>2. CASE ReadSpend(c)
    BY <2>2 DEF ReadSpend, Goto
  <2>3. CASE ReadFails(c)
    BY <2>3 DEF ReadFails
  <2>4. CASE AcquireLock(c)
    BY <2>4 DEF AcquireLock, Goto
  <2>5. CASE AcquireLockFails(c)
    BY <2>5 DEF AcquireLockFails, Goto
  <2>6. CASE CheckRate(c)
    BY <2>6 DEF CheckRate, Goto
  <2>7. CASE CheckRateFails(c)
    BY <2>7 DEF CheckRateFails, Goto
  <2>8. CASE Publish(c)
    BY <2>8 DEF Publish, Goto
  <2>9. CASE PublishFails(c)
    BY <2>9 DEF PublishFails, Goto
  <2>10. CASE UndoLock(c)
    BY <2>10 DEF UndoLock, Goto, ForeignRelease
  <2>11. CASE UndoLockFails(c)
    BY <2>11 DEF UndoLockFails, Goto
  <2> QED
    BY <1>1, <2>1, <2>2, <2>3, <2>4, <2>5, <2>6, <2>7, <2>8, <2>9, <2>10,
       <2>11 DEF Caller
<1>2. ASSUME NEW c \in Call, Worker(c)
      PROVE (CallOrder /\ LockGuardsHolder /\ LockHasOwner)'
  <2>1. CASE StartAttempt(c)
    BY <2>1 DEF StartAttempt
  <2>2. CASE RestoreFileFails(c)
    BY <2>2 DEF RestoreFileFails
  <2>3. CASE PriceRun(c)
    BY <2>3 DEF PriceRun
  <2>4. CASE EndRun(c)
    BY <2>4 DEF EndRun
  <2>5. CASE ReleaseLock(c)
    BY <2>5 DEF ReleaseLock, ForeignRelease
  <2>6. CASE ReleaseLockFails(c)
    BY <2>6 DEF ReleaseLockFails
  <2>7. CASE Retry(c)
    BY <2>7 DEF Retry, WantsRetry
  <2>8. CASE RetryFails(c)
    BY <2>8 DEF RetryFails
  <2>9. CASE Finish(c)
    BY <2>9 DEF Finish
  <2> QED
    BY <1>2, <2>1, <2>2, <2>3, <2>4, <2>5, <2>6, <2>7, <2>8, <2>9 DEF Worker
<1>3. ASSUME NEW c \in Call, CallerCrash(c) \/ WorkerCrash(c)
      PROVE (CallOrder /\ LockGuardsHolder /\ LockHasOwner)'
  BY <1>3 DEF CallerCrash, WorkerCrash
<1>4. ASSUME Environment PROVE (CallOrder /\ LockGuardsHolder /\ LockHasOwner)'
  <2>1. CASE LockExpires
    BY <2>1 DEF LockExpires
  <2>2. ASSUME NEW v \in CapChoices, SetMonthlyBudget(v)
        PROVE (CallOrder /\ LockGuardsHolder /\ LockHasOwner)'
    BY <2>2 DEF SetMonthlyBudget
  <2>3. CASE NextWindow
    BY <2>3 DEF NextWindow
  <2>4. CASE NextMonth
    BY <2>4 DEF NextMonth
  <2> QED
    BY <1>4, <2>1, <2>2, <2>3, <2>4 DEF Environment
<1>5. CASE UNCHANGED vars
  BY <1>5 DEF vars
<1> QED
  BY <1>1, <1>2, <1>3, <1>4, <1>5 DEF Next

\* The strengthening is an invariant of the specification.
THEOREM LockInvariant == Spec => []LockInv
<1>1. Init => LockInv
  <2> SUFFICES ASSUME Init PROVE LockInv
    OBVIOUS
  <2>1. TypeOK
    BY TypeInit
  <2>2. CallOrder /\ LockGuardsHolder /\ LockHasOwner
    BY DEF Init, CallOrder, LockGuardsHolder, LockHasOwner, Holding, InFlight, Capped
  <2> QED
    BY <2>1, <2>2 DEF LockInv
<1> QED
  BY <1>1, LockStep, PTL DEF Spec

\* Two capped executions can only be in flight together after an expiry under a
\* live run, a DELETE of another call's lock, the undoing of a publish that had
\* reached the broker or a retry without the lock.
THEOREM InFlightCorrect == Spec => []InFlightUnlessDisturbed
<1>1. LockInv => InFlightUnlessDisturbed
  BY DEF LockInv, LockGuardsHolder, InFlightUnlessDisturbed
<1> QED
  BY <1>1, LockInvariant, PTL

\* Only a crash, a Redis command that raised or a task that raised before its try
\* block leaves the lock behind.
THEOREM NoLeakCorrect == Spec => []NoLeakedLock
<1>1. LockInv => NoLeakedLock
  BY DEF LockInv, LockHasOwner, NoLeakedLock
<1> QED
  BY <1>1, LockInvariant, PTL

(***************************************************************************)
(* The rate limiter and the budget gate                                    *)
(***************************************************************************)

\* INCR returns a different number to each call of a window, so the calls let
\* through are no more than the counter and no more than the limit.
RateInv ==
  /\ IsFiniteSet(admitted)
  /\ Cardinality(admitted) <= count
  /\ Cardinality(admitted) <= RateLimitMaxRuns

\* A call is charged only after it has passed the budget gate.
ChargeInv ==
  \A c \in charged : req[c] \in {"publish", "undo", "accepted", "rejected", "crashed"}

\* A call that started too late still has a cap that the spend has reached, so
\* it can get no further than the comparison.
LateInv ==
  /\ \A c \in Call :
       task[c] # "none" => req[c] \in {"accepted", "undo", "rejected", "crashed"}
  /\ \A c \in late : /\ seenCap[c] \in Nat
                     /\ spent >= seenCap[c]
                     /\ req[c] \in {"read_spend", "over_budget", "rejected", "crashed"}
                     /\ task[c] = "none"

GateInv == TypeOK /\ RateInv /\ ChargeInv /\ LateInv

\* The limiter's three facts are kept by its own step, which adds one call and
\* one to the counter, and by the window's end; no other step touches them.
LEMMA RateStep == TypeOK /\ RateInv /\ [Next]_vars => RateInv'
<1> SUFFICES ASSUME TypeOK, RateInv, [Next]_vars PROVE RateInv'
  OBVIOUS
<1> USE LimitAssumption DEF TypeOK, RateInv, storeVars, historyVars
<1>c. Cardinality(admitted) \in Nat
  BY FS_CardinalityType
<1>1. ASSUME NEW c \in Call, CheckRate(c) PROVE RateInv'
  <2>1. CASE count + 1 > RateLimitMaxRuns
    BY <1>1, <1>c, <2>1 DEF CheckRate
  <2>2. CASE count + 1 <= RateLimitMaxRuns
    <3>1. admitted' = admitted \cup {c} /\ count' = count + 1
      BY <1>1, <2>2 DEF CheckRate
    <3>2. IsFiniteSet(admitted') /\ Cardinality(admitted') <= Cardinality(admitted) + 1
      <4>1. /\ IsFiniteSet(admitted \cup {c})
            /\ Cardinality(admitted \cup {c})
                 = IF c \in admitted THEN Cardinality(admitted) ELSE Cardinality(admitted) + 1
        BY FS_AddElement, Zenon
      <4> QED
        BY <3>1, <1>c, <4>1
    <3>3. Cardinality(admitted') \in Nat
      BY <3>2, FS_CardinalityType
    <3> QED
      BY <1>c, <2>2, <3>1, <3>2, <3>3
  <2> QED
    BY <2>1, <2>2
<1>2. CASE NextWindow
  <2>1. admitted' = {} /\ count' = 0
    BY <1>2 DEF NextWindow
  <2>2. IsFiniteSet(admitted') /\ Cardinality(admitted') = 0
    BY <2>1, FS_EmptySet
  <2> QED
    BY <2>1, <2>2
<1>3. CASE UNCHANGED <<admitted, count>>
  BY <1>3
<1>5. ASSUME NEW c \in Call, CheckRateFails(c) PROVE RateInv'
  BY <1>5, <1>c DEF CheckRateFails
<1>4. \/ \E c \in Call : CheckRate(c) \/ CheckRateFails(c)
      \/ NextWindow
      \/ UNCHANGED <<admitted, count>>
  <2>1. ASSUME NEW c \in Call, Caller(c), ~CheckRate(c), ~CheckRateFails(c)
        PROVE UNCHANGED <<admitted, count>>
    BY <2>1 DEF Caller, ReadCap, ReadSpend, ReadFails, AcquireLock, AcquireLockFails,
                Publish, PublishFails, UndoLock, UndoLockFails
  <2>2. ASSUME NEW c \in Call, Worker(c) PROVE UNCHANGED <<admitted, count>>
    BY <2>2 DEF Worker, StartAttempt, RestoreFileFails, PriceRun, EndRun,
                ReleaseLock, ReleaseLockFails, Retry, RetryFails, Finish
  <2>3. ASSUME NEW c \in Call, CallerCrash(c) \/ WorkerCrash(c)
        PROVE UNCHANGED <<admitted, count>>
    BY <2>3 DEF CallerCrash, WorkerCrash
  <2>4. ASSUME Environment, ~NextWindow PROVE UNCHANGED <<admitted, count>>
    BY <2>4 DEF Environment, LockExpires, SetMonthlyBudget, NextMonth
  <2>5. CASE UNCHANGED vars
    BY <2>5 DEF vars
  <2> QED
    BY <2>1, <2>2, <2>3, <2>4, <2>5 DEF Next
<1> QED
  BY <1>1, <1>2, <1>3, <1>4, <1>5

\* What the gate lets through: the counter is charged after the gate, and the
\* spend a late call compares with its cap can only have grown.
LEMMA GateStep == TypeOK /\ ChargeInv /\ LateInv /\ [Next]_vars => ChargeInv' /\ LateInv'
<1> SUFFICES ASSUME TypeOK, ChargeInv, LateInv, [Next]_vars PROVE (ChargeInv /\ LateInv)'
  OBVIOUS
<1>t. TypeOK'
  BY TypeStep
<1> USE <1>t, CallAssumption, AmountAssumption
    DEF TypeOK, Amounts, ChargeInv, LateInv, storeVars, callVars, taskVars, historyVars
<1>1. ASSUME NEW c \in Call, Caller(c) PROVE (ChargeInv /\ LateInv)'
  <2>1. CASE ReadCap(c)
    BY <2>1 DEF ReadCap, Goto, EffectiveCap
  <2>2. CASE ReadSpend(c)
    BY <2>2 DEF ReadSpend, Goto
  <2>3. CASE ReadFails(c)
    BY <2>3 DEF ReadFails
  <2>4. CASE AcquireLock(c)
    BY <2>4 DEF AcquireLock, Goto
  <2>5. CASE AcquireLockFails(c)
    BY <2>5 DEF AcquireLockFails, Goto
  <2>6. CASE CheckRate(c)
    BY <2>6 DEF CheckRate, Goto
  <2>7. CASE CheckRateFails(c)
    BY <2>7 DEF CheckRateFails, Goto
  <2>8. CASE Publish(c)
    BY <2>8 DEF Publish, Goto
  <2>9. CASE PublishFails(c)
    BY <2>9 DEF PublishFails, Goto
  <2>10. CASE UndoLock(c)
    BY <2>10 DEF UndoLock, Goto, ForeignRelease
  <2>11. CASE UndoLockFails(c)
    BY <2>11 DEF UndoLockFails, Goto
  <2> QED
    BY <1>1, <2>1, <2>2, <2>3, <2>4, <2>5, <2>6, <2>7, <2>8, <2>9, <2>10,
       <2>11 DEF Caller
<1>2. ASSUME NEW c \in Call, Worker(c) PROVE (ChargeInv /\ LateInv)'
  <2>1. CASE PriceRun(c)
    BY <2>1 DEF PriceRun
  <2>2. CASE StartAttempt(c) \/ RestoreFileFails(c) \/ EndRun(c)
    BY <2>2 DEF StartAttempt, RestoreFileFails, EndRun
  <2>3. CASE ReleaseLock(c) \/ ReleaseLockFails(c)
    BY <2>3 DEF ReleaseLock, ReleaseLockFails
  <2>4. CASE Retry(c) \/ RetryFails(c) \/ Finish(c)
    BY <2>4 DEF Retry, RetryFails, Finish
  <2> QED
    BY <1>2, <2>1, <2>2, <2>3, <2>4 DEF Worker
<1>3. ASSUME NEW c \in Call, CallerCrash(c) \/ WorkerCrash(c) PROVE (ChargeInv /\ LateInv)'
  BY <1>3 DEF CallerCrash, WorkerCrash
<1>4. ASSUME Environment PROVE (ChargeInv /\ LateInv)'
  <2>1. CASE LockExpires
    BY <2>1 DEF LockExpires
  <2>2. ASSUME NEW v \in CapChoices, SetMonthlyBudget(v) PROVE (ChargeInv /\ LateInv)'
    BY <2>2 DEF SetMonthlyBudget
  <2>3. CASE NextWindow
    BY <2>3 DEF NextWindow
  <2>4. CASE NextMonth
    BY <2>4 DEF NextMonth
  <2> QED
    BY <1>4, <2>1, <2>2, <2>3, <2>4 DEF Environment
<1>5. CASE UNCHANGED vars
  BY <1>5 DEF vars
<1> QED
  BY <1>1, <1>2, <1>3, <1>4, <1>5 DEF Next

\* The strengthening is an invariant of the specification.
THEOREM GateInvariant == Spec => []GateInv
<1>1. Init => RateInv /\ ChargeInv /\ LateInv
  BY FS_EmptySet, LimitAssumption DEF Init, RateInv, ChargeInv, LateInv
<1>2. TypeOK /\ RateInv /\ ChargeInv /\ LateInv /\ [Next]_vars
      => RateInv' /\ ChargeInv' /\ LateInv'
  BY RateStep, GateStep
<1> QED
  BY <1>1, <1>2, TypeCorrect, PTL DEF Spec, GateInv

\* No window lets more than RATE_LIMIT_MAX_RUNS calls through.
THEOREM RateLimitCorrect == Spec => []AdmittedPerWindow
<1>1. GateInv => AdmittedPerWindow
  BY DEF GateInv, RateInv, AdmittedPerWindow
<1> QED
  BY <1>1, GateInvariant, PTL

\* A call rejected by the budget gate costs no rate-limit slot.
THEOREM SlotCorrect == Spec => []BudgetRejectionCostsNoSlot
<1>1. GateInv => BudgetRejectionCostsNoSlot
  BY DEF GateInv, ChargeInv, BudgetRejectionCostsNoSlot
<1> QED
  BY <1>1, GateInvariant, PTL

\* A call that starts over budget is never executed.
THEOREM OverBudgetCorrect == Spec => []OverBudgetNeverRuns
<1>1. GateInv => OverBudgetNeverRuns
  BY DEF GateInv, TypeOK, LateInv, OverBudgetNeverRuns
<1> QED
  BY <1>1, GateInvariant, PTL

=============================================================================
