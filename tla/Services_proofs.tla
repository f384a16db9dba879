--------------------------- MODULE Services_proofs ---------------------------
(***************************************************************************)
(* Proofs about the services that a worker process calls: the circuit      *)
(* breaker of the model providers (Circuit), for every number of threads   *)
(* and providers, every threshold and every cooldown; and the process and  *)
(* remote sandboxes: what a call leaves behind, what it answers, and that  *)
(* either of them is a BoundedCall.  The last part is about MCServices,    *)
(* which has these, the scheduler and the execution queue side by side.    *)
(***************************************************************************)
EXTENDS MCServices, Scheduler_proofs

-----------------------------------------------------------------------------
(* The circuit breaker                                                     *)

\* A thread that is on its way to a provider whose circuit is cooling down passed
\* its check before the circuit was opened.
LateInv ==
  \A t \in Thread : \A p \in Provider :
    tAt[t] # "idle" /\ calls[t] = p /\ open[p] /\ wait[p] > 0 => outrun[t]

CBInv == CBTypeOK /\ OpenMeansFailing /\ LateInv

-----------------------------------------------------------------------------
\* Counting stops at the threshold.
LEMMA CountUpBounded ==
  ASSUME NEW n \in 0..Threshold
  PROVE  /\ CountUp(n) \in 0..Threshold
         /\ CountUp(n) = Threshold <=> n + 1 >= Threshold
         /\ n = Threshold => CountUp(n) = Threshold
BY CircuitAssumption DEF CountUp

\* A failure, seen at one provider: what it counts and whether it opens.
LEMMA FailOpens ==
  ASSUME CBTypeOK, OpenMeansFailing, NEW t \in Thread, Fail(t), NEW p \in Provider
  PROVE  /\ failures'[p] = streak'[p]
         /\ open'[p] <=> streak'[p] = Threshold
<1>1. calls[t] \in Provider
  BY DEF Fail, CBTypeOK
<1>2. failures[p] \in 0..Threshold /\ streak[p] \in 0..Threshold /\ open[p] \in BOOLEAN
  BY DEF CBTypeOK
<1>3. failures[p] = streak[p] /\ (open[p] <=> streak[p] = Threshold)
  BY DEF OpenMeansFailing
<1>4. CASE p = calls[t]
  <2>1. /\ failures'[p] = CountUp(failures[p])
        /\ streak'[p] = CountUp(streak[p])
        /\ open'[p] = (open[p] \/ CountUp(failures[p]) = Threshold)
    BY <1>4 DEF Fail, CBTypeOK
  <2>2. streak[p] = Threshold => CountUp(streak[p]) = Threshold
    BY <1>2, CountUpBounded
  <2> QED BY <1>3, <2>1, <2>2
<1>5. CASE p # calls[t]
  <2>1. failures'[p] = failures[p] /\ streak'[p] = streak[p] /\ open'[p] = open[p]
    BY <1>5, <1>1 DEF Fail, CBTypeOK
  <2> QED BY <1>3, <2>1
<1> QED BY <1>4, <1>5

\* Every step of a thread, a provider and the clock keeps the types.
LEMMA CircuitTypeStep ==
  ASSUME CBTypeOK, [CBNext]_cbVars
  PROVE  CBTypeOK'
<1> USE DEF CBTypeOK, circuitVars, threadVars
<1>1. ASSUME NEW t \in Thread, NEW p \in Provider, Check(t, p)
      PROVE  CBTypeOK'
  BY <1>1 DEF Check
<1>2. ASSUME NEW t \in Thread, Invoke(t)
      PROVE  CBTypeOK'
  BY <1>2 DEF Invoke
<1>3. ASSUME NEW t \in Thread, Fail(t)
      PROVE  CBTypeOK'
  <2>1. calls[t] \in Provider
    BY <1>3 DEF Fail
  <2>2. /\ CountUp(failures[calls[t]]) \in 0..Threshold
        /\ CountUp(streak[calls[t]]) \in 0..Threshold
    BY <2>1, CountUpBounded
  <2>3. failures' \in [Provider -> 0..Threshold] /\ streak' \in [Provider -> 0..Threshold]
    BY <1>3, <2>2 DEF Fail
  <2>4. open' \in [Provider -> BOOLEAN] /\ outrun' \in [Thread -> BOOLEAN]
    BY <1>3 DEF Fail
  <2>5. wait' \in [Provider -> 0..Cooldown]
    BY <1>3, CircuitAssumption DEF Fail
  <2>6. /\ tAt' \in [Thread -> {"idle", "checked", "calling"}]
        /\ calls' \in [Thread -> Provider \cup {NoProvider}]
        /\ \A u \in Thread : tAt'[u] # "idle" => calls'[u] \in Provider
        /\ doomed' \in [Thread -> BOOLEAN]
    BY <1>3 DEF Fail, Hangup
  <2> QED BY <1>3, <2>3, <2>4, <2>5, <2>6 DEF Fail
<1>4. ASSUME NEW t \in Thread, Succeed(t)
      PROVE  CBTypeOK'
  <2>1. /\ failures' \in [Provider -> 0..Threshold] /\ streak' \in [Provider -> 0..Threshold]
        /\ wait' \in [Provider -> 0..Cooldown]
    BY <1>4, CircuitAssumption DEF Succeed
  <2>2. open' \in [Provider -> BOOLEAN] /\ outrun' \in [Thread -> BOOLEAN]
    BY <1>4 DEF Succeed
  <2>3. /\ tAt' \in [Thread -> {"idle", "checked", "calling"}]
        /\ calls' \in [Thread -> Provider \cup {NoProvider}]
        /\ \A u \in Thread : tAt'[u] # "idle" => calls'[u] \in Provider
        /\ doomed' \in [Thread -> BOOLEAN]
    BY <1>4 DEF Succeed, Hangup
  <2> QED BY <1>4, <2>1, <2>2, <2>3 DEF Succeed
<1>5. ASSUME NEW p \in Provider, Break(p)
      PROVE  CBTypeOK'
  BY <1>5 DEF Break
<1>6. ASSUME NEW p \in Provider, Mend(p)
      PROVE  CBTypeOK'
  BY <1>6 DEF Mend
<1>7. CASE Elapse
  <2>1. wait' \in [Provider -> 0..Cooldown]
    BY <1>7, CircuitAssumption DEF Elapse
  <2> QED BY <1>7, <2>1 DEF Elapse
<1>8. CASE Calm
  BY <1>8 DEF Calm
<1>9. CASE UNCHANGED cbVars
  BY <1>9 DEF cbVars
<1> QED BY <1>1, <1>2, <1>3, <1>4, <1>5, <1>6, <1>7, <1>8, <1>9 DEF CBNext, Ends

\* Recording an outcome opens and closes a circuit as its last calls ask for.
LEMMA OpenStep ==
  ASSUME CBTypeOK, OpenMeansFailing, [CBNext]_cbVars
  PROVE  OpenMeansFailing'
<1>1. ASSUME NEW t \in Thread, Fail(t)
      PROVE  OpenMeansFailing'
  BY <1>1, FailOpens DEF OpenMeansFailing
<1>2. ASSUME NEW t \in Thread, Succeed(t)
      PROVE  OpenMeansFailing'
  <2> SUFFICES ASSUME NEW p \in Provider
               PROVE  failures'[p] = streak'[p] /\ (open'[p] <=> streak'[p] = Threshold)
    BY DEF OpenMeansFailing
  <2>1. CASE p = calls[t]
    <3>1. failures'[p] = 0 /\ streak'[p] = 0 /\ open'[p] = FALSE
      BY <1>2, <2>1 DEF Succeed, CBTypeOK
    <3>2. 0 # Threshold
      BY CircuitAssumption
    <3> QED BY <3>1, <3>2
  <2>2. CASE p # calls[t]
    <3>1. failures'[p] = failures[p] /\ streak'[p] = streak[p] /\ open'[p] = open[p]
      BY <1>2, <2>2 DEF Succeed, CBTypeOK
    <3> QED BY <3>1 DEF OpenMeansFailing
  <2> QED BY <2>1, <2>2
<1>3. ASSUME UNCHANGED <<failures, open, streak>>
      PROVE  OpenMeansFailing'
  BY <1>3 DEF OpenMeansFailing
<1>4. \/ \E t \in Thread : Fail(t) \/ Succeed(t)
      \/ UNCHANGED <<failures, open, streak>>
  BY DEF CBNext, Ends, Check, Invoke, Break, Mend, Elapse, Calm, circuitVars, cbVars
<1> QED BY <1>1, <1>2, <1>3, <1>4

\* Who is on the way to a cooling provider has passed its check before the circuit opened.
LEMMA LateStep ==
  ASSUME CBTypeOK, LateInv, [CBNext]_cbVars
  PROVE  LateInv'
<1> SUFFICES ASSUME NEW u \in Thread, NEW p \in Provider,
                    tAt'[u] # "idle", calls'[u] = p, open'[p], wait'[p] > 0
             PROVE  outrun'[u]
  BY DEF LateInv
<1>0. tAt[u] # "idle" /\ calls[u] = p /\ open[p] /\ wait[p] > 0 => outrun[u]
  BY DEF LateInv
<1>w. wait[p] \in 0..Cooldown
  BY DEF CBTypeOK
<1>1. ASSUME NEW t \in Thread, NEW q \in Provider, Check(t, q)
      PROVE  outrun'[u]
  <2>1. CASE t = u
    <3>1. q = p
      BY <1>1, <2>1 DEF Check, CBTypeOK
    <3>2. open[p] /\ wait[p] > 0
      BY <1>1 DEF Check, circuitVars
    <3>3. open[p] => wait[p] = 0
      BY <1>1, <3>1 DEF Check
    <3> QED BY <3>2, <3>3
  <2>2. CASE t # u
    BY <1>0, <1>1, <2>2 DEF Check, circuitVars, CBTypeOK
  <2> QED BY <2>1, <2>2
<1>2. ASSUME NEW t \in Thread, Invoke(t)
      PROVE  outrun'[u]
  BY <1>0, <1>2 DEF Invoke, circuitVars, CBTypeOK
<1>3. ASSUME NEW t \in Thread, Fail(t)
      PROVE  outrun'[u]
  <2>1. u # t
    BY <1>3 DEF Fail, Hangup, CBTypeOK
  <2>2. tAt[u] # "idle" /\ calls[u] = p
    BY <1>3, <2>1 DEF Fail, Hangup, CBTypeOK
  <2>3. CASE calls[t] = p /\ CountUp(failures[p]) = Threshold
    BY <1>3, <2>1, <2>2, <2>3 DEF Fail
  <2>4. CASE ~(calls[t] = p /\ CountUp(failures[p]) = Threshold)
    <3>1. open'[p] = open[p]
      BY <1>3, <2>4 DEF Fail, CBTypeOK
    <3>2. wait'[p] = wait[p]
      BY <1>3, <2>4 DEF Fail, CBTypeOK
    <3>3. outrun[u]
      BY <1>0, <2>2, <3>1, <3>2
    <3> QED BY <1>3, <2>1, <3>3 DEF Fail
  <2> QED BY <2>3, <2>4
<1>4. ASSUME NEW t \in Thread, Succeed(t)
      PROVE  outrun'[u]
  <2>1. u # t
    BY <1>4 DEF Succeed, Hangup, CBTypeOK
  <2>2. tAt[u] # "idle" /\ calls[u] = p
    BY <1>4, <2>1 DEF Succeed, Hangup, CBTypeOK
  <2>3. p # calls[t]
    BY <1>4 DEF Succeed, CBTypeOK
  <2>4. open[p]
    BY <1>4, <2>3 DEF Succeed, CBTypeOK
  <2>5. wait[p] > 0
    BY <1>4, <2>3 DEF Succeed, CBTypeOK
  <2>6. outrun[u]
    BY <1>0, <2>2, <2>4, <2>5
  <2> QED BY <1>4, <2>1, <2>6 DEF Succeed, CBTypeOK
<1>5. CASE Elapse
  <2>1. tAt[u] # "idle" /\ calls[u] = p /\ open[p] /\ outrun'[u] = outrun[u]
    BY <1>5 DEF Elapse, threadVars
  <2>2. wait[p] > 0
    BY <1>5, <1>w DEF Elapse
  <2> QED BY <1>0, <2>1, <2>2
<1>6. ASSUME UNCHANGED <<circuitVars, tAt, calls, outrun>>
      PROVE  outrun'[u]
  BY <1>0, <1>6 DEF circuitVars
<1>7. \/ \E t \in Thread : (\E q \in Provider : Check(t, q)) \/ Invoke(t) \/ Fail(t) \/ Succeed(t)
      \/ Elapse
      \/ UNCHANGED <<circuitVars, tAt, calls, outrun>>
  BY DEF CBNext, Ends, Break, Mend, Calm, threadVars, cbVars
<1> QED BY <1>1, <1>2, <1>3, <1>4, <1>5, <1>6, <1>7

-----------------------------------------------------------------------------
\* The invariant holds of the closed circuits of a new process.
LEMMA CircuitInit ==
  ASSUME CBInit
  PROVE  CBInv
<1>1. CBTypeOK
  <2>1. 0 \in 0..Threshold /\ 0 \in 0..Cooldown
    BY CircuitAssumption
  <2>2. /\ failures \in [Provider -> 0..Threshold]
        /\ streak \in [Provider -> 0..Threshold]
        /\ wait \in [Provider -> 0..Cooldown]
    BY <2>1 DEF CBInit
  <2>3. /\ tAt \in [Thread -> {"idle", "checked", "calling"}]
        /\ calls \in [Thread -> Provider \cup {NoProvider}]
        /\ \A t \in Thread : tAt[t] # "idle" => calls[t] \in Provider
    BY DEF CBInit
  <2>4. /\ open \in [Provider -> BOOLEAN]
        /\ works \in [Provider -> BOOLEAN] /\ calm \in BOOLEAN
        /\ doomed \in [Thread -> BOOLEAN] /\ outrun \in [Thread -> BOOLEAN]
    BY DEF CBInit
  <2> QED BY <2>2, <2>3, <2>4 DEF CBTypeOK
<1>2. OpenMeansFailing
  <2> SUFFICES ASSUME NEW p \in Provider
               PROVE  failures[p] = streak[p] /\ (open[p] <=> streak[p] = Threshold)
    BY DEF OpenMeansFailing
  <2>1. failures[p] = 0 /\ streak[p] = 0 /\ open[p] = FALSE
    BY DEF CBInit
  <2>2. 0 # Threshold
    BY CircuitAssumption
  <2> QED BY <2>1, <2>2
<1>3. LateInv
  BY DEF CBInit, LateInv
<1> QED BY <1>1, <1>2, <1>3 DEF CBInv

\* The invariant of the breaker holds throughout.
LEMMA CircuitInvariant == CBSpec => []CBInv
<1>1. CBInit => CBInv
  BY CircuitInit
<1>2. CBInv /\ [CBNext]_cbVars => CBInv'
  BY CircuitTypeStep, OpenStep, LateStep DEF CBInv
<1> QED BY <1>1, <1>2, PTL DEF CBSpec

\* The state of the breaker stays within its types (core/llm.py).
THEOREM CircuitTypeCorrect == CBSpec => []CBTypeOK
<1>1. CBInv => CBTypeOK
  BY DEF CBInv
<1> QED BY <1>1, CircuitInvariant, PTL

\* A provider's circuit is open if and only if its last calls, as many as the
\* threshold, have all failed, in whatever order the calls of the threads end
\* (_record_failure and _record_success of core/llm.py).
THEOREM OpenCorrect == CBSpec => []OpenMeansFailing
<1>1. CBInv => OpenMeansFailing
  BY DEF CBInv
<1> QED BY <1>1, CircuitInvariant, PTL

\* An opened circuit closes before the end of its cooldown only by a call that
\* had passed its check before (core/llm.py).
THEOREM CoolingCorrect == CBSpec => ClosesEarlyByLateCall
<1>1. ASSUME CBInv, [CBNext]_cbVars, NEW p \in Provider, open[p], wait[p] > 0, ~open'[p]
      PROVE  \E t \in Thread : calls[t] = p /\ outrun[t] /\ tAt'[t] = "idle"
  <2> USE <1>1
  <2>1. CBTypeOK /\ LateInv
    BY DEF CBInv
  <2>2. ASSUME NEW t \in Thread, Fail(t)
        PROVE  FALSE
    BY <2>1, <2>2 DEF Fail, CBTypeOK
  <2>3. ASSUME UNCHANGED open
        PROVE  FALSE
    BY <2>3
  <2>4. PICK t \in Thread : Succeed(t)
    BY <2>2, <2>3 DEF CBNext, Ends, Check, Invoke, Break, Mend, Elapse, Calm, circuitVars,
       cbVars
  <2>5. calls[t] = p
    BY <2>1, <2>4 DEF Succeed, CBTypeOK
  <2>6. tAt[t] # "idle" /\ tAt'[t] = "idle"
    BY <2>1, <2>4 DEF Succeed, Hangup, CBTypeOK
  <2>7. outrun[t]
    BY <2>1, <2>5, <2>6 DEF LateInv
  <2> QED BY <2>5, <2>6, <2>7
<1>2. CBInv /\ [CBNext]_cbVars =>
        [\A p \in Provider :
           open[p] /\ wait[p] > 0 /\ ~open'[p]
             => \E t \in Thread : calls[t] = p /\ outrun[t] /\ tAt'[t] = "idle"]_cbVars
  BY <1>1
<1> QED BY <1>2, CircuitInvariant, PTL DEF CBSpec, ClosesEarlyByLateCall

-----------------------------------------------------------------------------
(* The process sandbox                                                     *)

\* The child is born after the call has begun and is dead when it returns.
ChildInv ==
  /\ pAt = "new" => cAt = "none"
  /\ cAt = "none" => pAt \in {"new", "raised"}
  /\ NothingRunsOn

\* Only a child that has put its result has something in the pipe, and what the
\* parent has read or answers is that.
ResultInv ==
  /\ cAt \in {"none", "booting", "computing"} => result = "none" /\ pipe = "empty"
  /\ cAt = "putting" => result # "none"
  /\ pipe # "empty" \/ payload => result # "none"
  /\ answer = "none" <=> pAt # "returned"
  /\ answer = "values" => result = "values"

\* After its last poll the parent has missed what comes; it stops the child only
\* when the time is up.
PollInv ==
  /\ pAt \in {"loop", "empty", "check", "terminate", "stop", "reap", "returned"}
       /\ pipe = "whole" => missed
  /\ pAt = "check" => due \/ payload \/ ~ChildAlive
  /\ pAt \in {"terminate", "stop"} => due
  /\ answer = "timeout" => due

SBInv == SBTypeOK /\ ChildInv /\ ResultInv /\ PollInv

\* The invariant holds before a call.
LEMMA SandboxInit ==
  ASSUME SBInit
  PROVE  SBInv
BY DEF SBInit, SBInv, SBTypeOK, ChildInv, NothingRunsOn, ResultInv, PollInv, ChildAlive

\* Every step of the parent, the child and its feeder keeps the types.
LEMMA SandboxTypeStep ==
  ASSUME SBTypeOK, ResultInv, [SBNext]_sbVars
  PROVE  SBTypeOK'
<1> USE DEF SBTypeOK, parentVars, childVars
<1>1. CASE Start
  BY <1>1 DEF Start, ParentGoto
<1>2. CASE StartFails
  BY <1>2 DEF StartFails, ParentGoto
<1>3. CASE TestDeadline
  BY <1>3 DEF TestDeadline, ParentGoto
<1>4. CASE Get
  BY <1>4 DEF Get, ParentGoto
<1>5. CASE Receive
  BY <1>5 DEF Receive, ParentGoto
<1>6. CASE ReceiveFails
  BY <1>6 DEF ReceiveFails, ParentGoto
<1>7. CASE TestAlive
  BY <1>7 DEF TestAlive, ParentGoto, ChildAlive
<1>8. CASE TestPayload
  BY <1>8 DEF TestPayload, ParentGoto, ChildAlive
<1>9. CASE Terminate
  BY <1>9 DEF Terminate, ParentGoto
<1>10. CASE GraceEnds
  BY <1>10 DEF GraceEnds, ChildAlive
<1>11. CASE Kill
  BY <1>11 DEF Kill, ChildAlive
<1>12. CASE AnswerTimeout
  BY <1>12 DEF AnswerTimeout, ParentGoto, ChildAlive
<1>13. CASE AnswerResult
  BY <1>13 DEF AnswerResult, ParentGoto, ChildAlive
<1>14. CASE ParentDies
  BY <1>14 DEF ParentDies
<1>15. CASE TimeUp
  BY <1>15 DEF TimeUp
<1>16. CASE Boot
  BY <1>16 DEF Boot, ChildGoto
<1>17. CASE Put
  BY <1>17 DEF Put, ChildGoto
<1>18. CASE Feed
  BY <1>18 DEF Feed
<1>19. CASE FeedRest
  BY <1>19 DEF FeedRest
<1>20. CASE Exit
  BY <1>20 DEF Exit, ChildGoto
<1>21. CASE Crash
  BY <1>21 DEF Crash, ChildAlive
<1>22. CASE UNCHANGED sbVars
  BY <1>22 DEF sbVars
<1> QED BY <1>1, <1>2, <1>3, <1>4, <1>5, <1>6, <1>7, <1>8, <1>9, <1>10, <1>11, <1>12,
   <1>13, <1>14, <1>15, <1>16, <1>17, <1>18, <1>19, <1>20, <1>21, <1>22
   DEF SBNext, ParentStep, Feeder

\* A child is there once its parent has started it, and does not run on after the call.
LEMMA ChildStep ==
  ASSUME SBTypeOK, ChildInv, [SBNext]_sbVars
  PROVE  ChildInv'
<1> USE DEF SBTypeOK, ChildInv, NothingRunsOn, parentVars, childVars
<1>1. CASE Start
  BY <1>1 DEF Start, ParentGoto
<1>2. CASE StartFails
  BY <1>2 DEF StartFails, ParentGoto
<1>3. CASE TestDeadline
  BY <1>3 DEF TestDeadline, ParentGoto
<1>4. CASE Get
  BY <1>4 DEF Get, ParentGoto
<1>5. CASE Receive
  BY <1>5 DEF Receive, ParentGoto
<1>6. CASE ReceiveFails
  BY <1>6 DEF ReceiveFails, ParentGoto
<1>7. CASE TestAlive
  BY <1>7 DEF TestAlive, ParentGoto, ChildAlive
<1>8. CASE TestPayload
  BY <1>8 DEF TestPayload, ParentGoto, ChildAlive
<1>9. CASE Terminate
  BY <1>9 DEF Terminate, ParentGoto
<1>10. CASE GraceEnds
  BY <1>10 DEF GraceEnds, ChildAlive
<1>11. CASE Kill
  BY <1>11 DEF Kill, ChildAlive
<1>12. CASE AnswerTimeout
  BY <1>12 DEF AnswerTimeout, ParentGoto, ChildAlive
<1>13. CASE AnswerResult
  BY <1>13 DEF AnswerResult, ParentGoto, ChildAlive
<1>14. CASE ParentDies
  BY <1>14 DEF ParentDies
<1>15. CASE TimeUp
  BY <1>15 DEF TimeUp
<1>16. CASE Boot
  BY <1>16 DEF Boot, ChildGoto
<1>17. CASE Put
  BY <1>17 DEF Put, ChildGoto
<1>18. CASE Feed
  BY <1>18 DEF Feed
<1>19. CASE FeedRest
  BY <1>19 DEF FeedRest
<1>20. CASE Exit
  BY <1>20 DEF Exit, ChildGoto
<1>21. CASE Crash
  BY <1>21 DEF Crash, ChildAlive
<1>22. CASE UNCHANGED sbVars
  BY <1>22 DEF sbVars
<1> QED BY <1>1, <1>2, <1>3, <1>4, <1>5, <1>6, <1>7, <1>8, <1>9, <1>10, <1>11, <1>12,
   <1>13, <1>14, <1>15, <1>16, <1>17, <1>18, <1>19, <1>20, <1>21, <1>22
   DEF SBNext, ParentStep, Feeder

\* A result in hand or in the pipe is one that this child has produced.
LEMMA ResultStep ==
  ASSUME SBTypeOK, ChildInv, ResultInv, [SBNext]_sbVars
  PROVE  ResultInv'
<1> USE DEF SBTypeOK, ChildInv, NothingRunsOn, ResultInv, parentVars, childVars
<1>1. CASE Start
  BY <1>1 DEF Start, ParentGoto
<1>2. CASE StartFails
  BY <1>2 DEF StartFails, ParentGoto
<1>3. CASE TestDeadline
  BY <1>3 DEF TestDeadline, ParentGoto
<1>4. CASE Get
  BY <1>4 DEF Get, ParentGoto
<1>5. CASE Receive
  BY <1>5 DEF Receive, ParentGoto
<1>6. CASE ReceiveFails
  BY <1>6 DEF ReceiveFails, ParentGoto
<1>7. CASE TestAlive
  BY <1>7 DEF TestAlive, ParentGoto, ChildAlive
<1>8. CASE TestPayload
  BY <1>8 DEF TestPayload, ParentGoto, ChildAlive
<1>9. CASE Terminate
  BY <1>9 DEF Terminate, ParentGoto
<1>10. CASE GraceEnds
  BY <1>10 DEF GraceEnds, ChildAlive
<1>11. CASE Kill
  BY <1>11 DEF Kill, ChildAlive
<1>12. CASE AnswerTimeout
  BY <1>12 DEF AnswerTimeout, ParentGoto, ChildAlive
<1>13. CASE AnswerResult
  BY <1>13 DEF AnswerResult, ParentGoto, ChildAlive
<1>14. CASE ParentDies
  BY <1>14 DEF ParentDies
<1>15. CASE TimeUp
  BY <1>15 DEF TimeUp
<1>16. CASE Boot
  BY <1>16 DEF Boot, ChildGoto
<1>17. CASE Put
  BY <1>17 DEF Put, ChildGoto
<1>18. CASE Feed
  BY <1>18 DEF Feed
<1>19. CASE FeedRest
  BY <1>19 DEF FeedRest
<1>20. CASE Exit
  BY <1>20 DEF Exit, ChildGoto
<1>21. CASE Crash
  BY <1>21 DEF Crash, ChildAlive
<1>22. CASE UNCHANGED sbVars
  BY <1>22 DEF sbVars
<1> QED BY <1>1, <1>2, <1>3, <1>4, <1>5, <1>6, <1>7, <1>8, <1>9, <1>10, <1>11, <1>12,
   <1>13, <1>14, <1>15, <1>16, <1>17, <1>18, <1>19, <1>20, <1>21, <1>22
   DEF SBNext, ParentStep, Feeder

\* A parent past its last poll has missed only what came after that poll.
LEMMA PollStep ==
  ASSUME SBTypeOK, ChildInv, ResultInv, PollInv, [SBNext]_sbVars
  PROVE  PollInv'
<1> USE DEF SBTypeOK, ChildInv, NothingRunsOn, ResultInv, PollInv, ChildAlive,
    parentVars, childVars
<1>1. CASE Start
  BY <1>1 DEF Start, ParentGoto
<1>2. CASE StartFails
  BY <1>2 DEF StartFails, ParentGoto
<1>3. CASE TestDeadline
  BY <1>3 DEF TestDeadline, ParentGoto
<1>4. CASE Get
  BY <1>4 DEF Get, ParentGoto
<1>5. CASE Receive
  BY <1>5 DEF Receive, ParentGoto
<1>6. CASE ReceiveFails
  BY <1>6 DEF ReceiveFails, ParentGoto
<1>7. CASE TestAlive
  BY <1>7 DEF TestAlive, ParentGoto
<1>8. CASE TestPayload
  BY <1>8 DEF TestPayload, ParentGoto
<1>9. CASE Terminate
  BY <1>9 DEF Terminate, ParentGoto
<1>10. CASE GraceEnds
  BY <1>10 DEF GraceEnds
<1>11. CASE Kill
  BY <1>11 DEF Kill
<1>12. CASE AnswerTimeout
  BY <1>12 DEF AnswerTimeout, ParentGoto
<1>13. CASE AnswerResult
  BY <1>13 DEF AnswerResult, ParentGoto
<1>14. CASE ParentDies
  BY <1>14 DEF ParentDies
<1>15. CASE TimeUp
  BY <1>15 DEF TimeUp
<1>16. CASE Boot
  BY <1>16 DEF Boot, ChildGoto
<1>17. CASE Put
  BY <1>17 DEF Put, ChildGoto
<1>18. CASE Feed
  BY <1>18 DEF Feed
<1>19. CASE FeedRest
  BY <1>19 DEF FeedRest
<1>20. CASE Exit
  BY <1>20 DEF Exit, ChildGoto
<1>21. CASE Crash
  BY <1>21 DEF Crash
<1>22. CASE UNCHANGED sbVars
  BY <1>22 DEF sbVars
<1> QED BY <1>1, <1>2, <1>3, <1>4, <1>5, <1>6, <1>7, <1>8, <1>9, <1>10, <1>11, <1>12,
   <1>13, <1>14, <1>15, <1>16, <1>17, <1>18, <1>19, <1>20, <1>21, <1>22
   DEF SBNext, ParentStep, Feeder

\* The invariant of the local sandbox holds throughout.
LEMMA SandboxAlways == SBSpec => []SBInv
<1>1. SBInit => SBInv
  BY SandboxInit
<1>2. SBInv /\ [SBNext]_sbVars => SBInv'
  BY SandboxTypeStep, ChildStep, ResultStep, PollStep DEF SBInv
<1> QED BY <1>1, <1>2, PTL DEF SBSpec

\* The state of the call stays within its types (execute_in_sandbox).
THEOREM SandboxTypeCorrect == SBSpec => []SBTypeOK
<1>1. SBInv => SBTypeOK
  BY DEF SBInv
<1> QED BY <1>1, SandboxAlways, PTL

\* When the call has returned, no generated code is running any more: terminate,
\* join, kill and join of execute_in_sandbox.
THEOREM NothingRunsOnCorrect == SBSpec => []NothingRunsOn
<1>1. SBInv => NothingRunsOn
  BY DEF SBInv, ChildInv
<1> QED BY <1>1, SandboxAlways, PTL

\* A result that came through whole before the last poll of the pipe is returned
\* (the loop of execute_in_sandbox).
THEOREM ResultIsDeliveredCorrect == SBSpec => []ResultIsDelivered
<1>1. SBInv => ResultIsDelivered
  BY DEF SBInv, ResultInv, PollInv, ResultIsDelivered
<1> QED BY <1>1, SandboxAlways, PTL

\* Every step of the local sandbox is one of the abstract call, or a stutter.
LEMMA SandboxCallStep ==
  ASSUME SBInv, [SBNext]_sbVars
  PROVE  [SandboxCall!BCNext]_(SandboxCall!bcVars)
<1> USE DEF SBInv, SBTypeOK, ChildInv, ResultInv, PollInv, SBCall, SBProduced,
    parentVars, childVars, SandboxCall!BCNext, SandboxCall!bcVars
<1>1. CASE Start
  BY <1>1 DEF Start, ParentGoto, SandboxCall!Begin
<1>2. CASE StartFails
  BY <1>2 DEF StartFails, ParentGoto, SandboxCall!Refuse
<1>3. CASE TestDeadline
  BY <1>3 DEF TestDeadline, ParentGoto
<1>4. CASE Get
  BY <1>4 DEF Get, ParentGoto
<1>5. CASE Receive
  BY <1>5 DEF Receive, ParentGoto
<1>6. CASE ReceiveFails
  BY <1>6 DEF ReceiveFails, ParentGoto, SandboxCall!Answer, SandboxCall!Ended
<1>7. CASE TestAlive
  BY <1>7 DEF TestAlive, ParentGoto, ChildAlive
<1>8. CASE TestPayload
  BY <1>8 DEF TestPayload, ParentGoto, ChildAlive
<1>9. CASE Terminate
  BY <1>9 DEF Terminate, ParentGoto
<1>10. CASE GraceEnds
  BY <1>10 DEF GraceEnds, ChildAlive
<1>11. CASE Kill
  BY <1>11 DEF Kill, ChildAlive
<1>12. CASE AnswerTimeout
  BY <1>12 DEF AnswerTimeout, ParentGoto, ChildAlive, SandboxCall!Answer,
      SandboxCall!Ended
<1>13. CASE AnswerResult
  BY <1>13 DEF AnswerResult, ParentGoto, ChildAlive, SandboxCall!Answer,
      SandboxCall!Ended
<1>14. CASE ParentDies
  BY <1>14 DEF ParentDies
<1>15. CASE TimeUp
  BY <1>15 DEF TimeUp, SandboxCall!Expire
<1>16. CASE Boot
  BY <1>16 DEF Boot, ChildGoto
<1>17. CASE Put
  BY <1>17 DEF Put, ChildGoto, SandboxCall!Produce
<1>18. CASE Feed
  BY <1>18 DEF Feed
<1>19. CASE FeedRest
  BY <1>19 DEF FeedRest
<1>20. CASE Exit
  BY <1>20 DEF Exit, ChildGoto
<1>21. CASE Crash
  BY <1>21 DEF Crash, ChildAlive
<1>22. CASE UNCHANGED sbVars
  BY <1>22 DEF sbVars
<1> QED BY <1>1, <1>2, <1>3, <1>4, <1>5, <1>6, <1>7, <1>8, <1>9, <1>10, <1>11, <1>12,
   <1>13, <1>14, <1>15, <1>16, <1>17, <1>18, <1>19, <1>20, <1>21, <1>22
   DEF SBNext, ParentStep, Feeder

\* The local sandbox implements the abstract call.
LEMMA SandboxIsBoundedCall == SBSpec => ImplementsBoundedCall
<1>1. SBInit => SandboxCall!BCInit
  BY DEF SBInit, SandboxCall!BCInit, SBCall, SBProduced
<1>2. SBInv /\ [SBNext]_sbVars => [SandboxCall!BCNext]_(SandboxCall!bcVars)
  BY SandboxCallStep
<1> QED BY <1>1, <1>2, SandboxAlways, PTL DEF SBSpec, ImplementsBoundedCall,
    SandboxCall!BCSpec

-----------------------------------------------------------------------------
(* The docker and the vercel sandbox                                       *)

DockerAt == {"communicate", "kill", "drain"}
VercelAt == {"payload", "process", "close"}

\* Which backend the call is in, and what it knows of the box.
BackendInv ==
  /\ rAt = "new" <=> backend = "none"
  /\ rAt = "new" => box = "none" /\ code = "none" /\ clock = "early" /\ rAnswer = "none"
  /\ rAt \in DockerAt => backend = "docker"
  /\ rAt \in VercelAt => backend = "vercel" /\ box = "running"
  /\ box \in {"none", "starting"} => code = "none"

\* From the kill on, the box is stopped or its kill was without effect; a call that
\* returned without a kill had waited for a CLI that ended with the box, or alone.
BoxInv ==
  /\ rAt = "communicate" => cli \/ detached
  /\ rAt \in {"drain", "raised"} => box \in {"none", "stopped"} \/ unkilled
  /\ rAt = "returned" => \/ box \in {"none", "stopped"}
                         \/ unkilled
                         \/ detached /\ rAnswer = "error"

\* What the call answers, or is about to, is so.
AnswerInv ==
  /\ rAt \in {"kill", "drain"} => clock = "past"
  /\ rAnswer = "none" <=> rAt \notin {"close", "returned"}
  /\ rAnswer = "values" => code = "values"
  /\ rAnswer = "timeout" => RSExpired

RSInv == RSTypeOK /\ BackendInv /\ BoxInv /\ AnswerInv

\* The invariant holds before a call.
LEMMA RemoteInit ==
  ASSUME RSInit
  PROVE  RSInv
BY DEF RSInit, RSInv, RSTypeOK, BackendInv, BoxInv, AnswerInv, DockerAt, VercelAt

\* Every step of the caller, the CLI, the box and the service keeps the types.
LEMMA RemoteTypeStep ==
  ASSUME RSTypeOK, [RSNext]_rsVars
  PROVE  RSTypeOK'
<1> USE DEF RSTypeOK
<1>1. CASE Pass1s
  BY <1>1 DEF Pass1s
<1>2. CASE BoxStarts
  BY <1>2 DEF BoxStarts
<1>3. CASE BoxEnds
  BY <1>3 DEF BoxEnds
<1>4. CASE KillAfter
  BY <1>4 DEF KillAfter
<1>5. CASE Unavailable
  BY <1>5 DEF Unavailable
<1>6. CASE DockerRun
  BY <1>6 DEF DockerRun
<1>7. CASE DockerRefuses
  BY <1>7 DEF DockerRefuses
<1>8. CASE Communicate
  BY <1>8 DEF Communicate, Return, RGoto
<1>9. CASE CommunicateExpires
  BY <1>9 DEF CommunicateExpires, RGoto
<1>10. CASE DockerKill
  BY <1>10 DEF DockerKill, RGoto
<1>11. CASE DockerKillHangs
  BY <1>11 DEF DockerKillHangs, RGoto
<1>12. CASE Drain
  BY <1>12 DEF Drain, Return, RGoto
<1>13. CASE CreateSandbox
  BY <1>13 DEF CreateSandbox
<1>14. CASE RunProcess
  BY <1>14 DEF RunProcess, RGoto
<1>15. CASE ProcessReturns
  BY <1>15 DEF ProcessReturns, RGoto
<1>16. CASE CloseBox
  BY <1>16 DEF CloseBox, RGoto
<1>17. CASE ServiceFails
  BY <1>17 DEF ServiceFails
<1>18. CASE SessionEnds
  BY <1>18 DEF SessionEnds
<1>19. CASE CliDies
  BY <1>19 DEF CliDies
<1>20. CASE UNCHANGED rsVars
  BY <1>20 DEF rsVars
<1> QED BY <1>1, <1>2, <1>3, <1>4, <1>5, <1>6, <1>7, <1>8, <1>9, <1>10, <1>11, <1>12,
   <1>13, <1>14, <1>15, <1>16, <1>17, <1>18, <1>19, <1>20 DEF RSNext

\* What each step of a call implies about its backend, its box and its clock stays true.
LEMMA BackendStep ==
  ASSUME RSTypeOK, BackendInv, [RSNext]_rsVars
  PROVE  BackendInv'
<1> USE DEF RSTypeOK, BackendInv, DockerAt, VercelAt
<1>1. CASE Pass1s
  BY <1>1 DEF Pass1s
<1>2. CASE BoxStarts
  BY <1>2 DEF BoxStarts
<1>3. CASE BoxEnds
  BY <1>3 DEF BoxEnds
<1>4. CASE KillAfter
  BY <1>4 DEF KillAfter
<1>5. CASE Unavailable
  BY <1>5 DEF Unavailable
<1>6. CASE DockerRun
  BY <1>6 DEF DockerRun
<1>7. CASE DockerRefuses
  BY <1>7 DEF DockerRefuses
<1>8. CASE Communicate
  BY <1>8 DEF Communicate, Return, RGoto
<1>9. CASE CommunicateExpires
  BY <1>9 DEF CommunicateExpires, RGoto
<1>10. CASE DockerKill
  BY <1>10 DEF DockerKill, RGoto
<1>11. CASE DockerKillHangs
  BY <1>11 DEF DockerKillHangs, RGoto
<1>12. CASE Drain
  BY <1>12 DEF Drain, Return, RGoto
<1>13. CASE CreateSandbox
  BY <1>13 DEF CreateSandbox
<1>14. CASE RunProcess
  BY <1>14 DEF RunProcess, RGoto
<1>15. CASE ProcessReturns
  BY <1>15 DEF ProcessReturns, RGoto
<1>16. CASE CloseBox
  BY <1>16 DEF CloseBox, RGoto
<1>17. CASE ServiceFails
  BY <1>17 DEF ServiceFails
<1>18. CASE SessionEnds
  BY <1>18 DEF SessionEnds
<1>19. CASE CliDies
  BY <1>19 DEF CliDies
<1>20. CASE UNCHANGED rsVars
  BY <1>20 DEF rsVars
<1> QED BY <1>1, <1>2, <1>3, <1>4, <1>5, <1>6, <1>7, <1>8, <1>9, <1>10, <1>11, <1>12,
   <1>13, <1>14, <1>15, <1>16, <1>17, <1>18, <1>19, <1>20 DEF RSNext

\* After the kill nothing starts the box again.
LEMMA BoxStep ==
  ASSUME RSTypeOK, BackendInv, BoxInv, [RSNext]_rsVars
  PROVE  BoxInv'
<1> USE DEF RSTypeOK, BackendInv, BoxInv, DockerAt, VercelAt
<1>1. CASE Pass1s
  BY <1>1 DEF Pass1s
<1>2. CASE BoxStarts
  BY <1>2 DEF BoxStarts
<1>3. CASE BoxEnds
  BY <1>3 DEF BoxEnds
<1>4. CASE KillAfter
  BY <1>4 DEF KillAfter
<1>5. CASE Unavailable
  BY <1>5 DEF Unavailable
<1>6. CASE DockerRun
  BY <1>6 DEF DockerRun
<1>7. CASE DockerRefuses
  BY <1>7 DEF DockerRefuses
<1>8. CASE Communicate
  BY <1>8 DEF Communicate, Return, RGoto
<1>9. CASE CommunicateExpires
  BY <1>9 DEF CommunicateExpires, RGoto
<1>10. CASE DockerKill
  BY <1>10 DEF DockerKill, RGoto
<1>11. CASE DockerKillHangs
  BY <1>11 DEF DockerKillHangs, RGoto
<1>12. CASE Drain
  BY <1>12 DEF Drain, Return, RGoto
<1>13. CASE CreateSandbox
  BY <1>13 DEF CreateSandbox
<1>14. CASE RunProcess
  BY <1>14 DEF RunProcess, RGoto
<1>15. CASE ProcessReturns
  BY <1>15 DEF ProcessReturns, RGoto
<1>16. CASE CloseBox
  BY <1>16 DEF CloseBox, RGoto
<1>17. CASE ServiceFails
  BY <1>17 DEF ServiceFails
<1>18. CASE SessionEnds
  BY <1>18 DEF SessionEnds
<1>19. CASE CliDies
  BY <1>19 DEF CliDies
<1>20. CASE UNCHANGED rsVars
  BY <1>20 DEF rsVars
<1> QED BY <1>1, <1>2, <1>3, <1>4, <1>5, <1>6, <1>7, <1>8, <1>9, <1>10, <1>11, <1>12,
   <1>13, <1>14, <1>15, <1>16, <1>17, <1>18, <1>19, <1>20 DEF RSNext

\* The answer in hand is one that the call's course allows.
LEMMA AnswerStep ==
  ASSUME RSTypeOK, BackendInv, AnswerInv, [RSNext]_rsVars
  PROVE  AnswerInv'
<1> USE DEF RSTypeOK, BackendInv, AnswerInv, RSExpired, DockerAt, VercelAt
<1>1. CASE Pass1s
  BY <1>1 DEF Pass1s
<1>2. CASE BoxStarts
  BY <1>2 DEF BoxStarts
<1>3. CASE BoxEnds
  BY <1>3 DEF BoxEnds
<1>4. CASE KillAfter
  BY <1>4 DEF KillAfter
<1>5. CASE Unavailable
  BY <1>5 DEF Unavailable
<1>6. CASE DockerRun
  BY <1>6 DEF DockerRun
<1>7. CASE DockerRefuses
  BY <1>7 DEF DockerRefuses
<1>8. CASE Communicate
  BY <1>8 DEF Communicate, Return, RGoto
<1>9. CASE CommunicateExpires
  BY <1>9 DEF CommunicateExpires, RGoto
<1>10. CASE DockerKill
  BY <1>10 DEF DockerKill, RGoto
<1>11. CASE DockerKillHangs
  BY <1>11 DEF DockerKillHangs, RGoto
<1>12. CASE Drain
  BY <1>12 DEF Drain, Return, RGoto
<1>13. CASE CreateSandbox
  BY <1>13 DEF CreateSandbox
<1>14. CASE RunProcess
  BY <1>14 DEF RunProcess, RGoto
<1>15. CASE ProcessReturns
  BY <1>15 DEF ProcessReturns, RGoto
<1>16. CASE CloseBox
  BY <1>16 DEF CloseBox, RGoto
<1>17. CASE ServiceFails
  BY <1>17 DEF ServiceFails
<1>18. CASE SessionEnds
  BY <1>18 DEF SessionEnds
<1>19. CASE CliDies
  BY <1>19 DEF CliDies
<1>20. CASE UNCHANGED rsVars
  BY <1>20 DEF rsVars
<1> QED BY <1>1, <1>2, <1>3, <1>4, <1>5, <1>6, <1>7, <1>8, <1>9, <1>10, <1>11, <1>12,
   <1>13, <1>14, <1>15, <1>16, <1>17, <1>18, <1>19, <1>20 DEF RSNext

\* The invariant of the remote sandboxes holds throughout.
LEMMA RemoteAlways == RSSpec => []RSInv
<1>1. RSInit => RSInv
  BY RemoteInit
<1>2. RSInv /\ [RSNext]_rsVars => RSInv'
  BY RemoteTypeStep, BackendStep, BoxStep, AnswerStep DEF RSInv
<1> QED BY <1>1, <1>2, PTL DEF RSSpec

\* The state of the call stays within its types (execute_in_docker_sandbox and
\* execute_in_vercel_sandbox).
THEOREM RemoteTypeCorrect == RSSpec => []RSTypeOK
<1>1. RSInv => RSTypeOK
  BY DEF RSInv
<1> QED BY <1>1, RemoteAlways, PTL

\* However the call ends, the box with the generated code is stopped, unless the
\* kill the call asked for had no effect or the docker CLI had ended before the
\* container (core/sandbox_docker.py, sandbox_vercel.py).
THEOREM NoBoxLeftBehindCorrect == RSSpec => []NoBoxLeftBehind
<1>1. RSInv => NoBoxLeftBehind
  BY DEF RSInv, BoxInv, NoBoxLeftBehind
<1> QED BY <1>1, RemoteAlways, PTL

\* Every step of a remote sandbox is one of the abstract call, or a stutter.
LEMMA RemoteCallStep ==
  ASSUME RSInv, [RSNext]_rsVars
  PROVE  [RemoteCall!BCNext]_(RemoteCall!bcVars)
<1> USE DEF RSInv, RSTypeOK, BackendInv, AnswerInv, RSCall, RSExpired, DockerAt,
    VercelAt, RemoteCall!BCNext, RemoteCall!bcVars
<1>1. CASE Pass1s
  BY <1>1 DEF Pass1s, RemoteCall!Expire
<1>2. CASE BoxStarts
  BY <1>2 DEF BoxStarts
<1>3. CASE BoxEnds
  BY <1>3 DEF BoxEnds, RemoteCall!Produce
<1>4. CASE KillAfter
  BY <1>4 DEF KillAfter, RemoteCall!Produce
<1>5. CASE Unavailable
  BY <1>5 DEF Unavailable, RemoteCall!Refuse
<1>6. CASE DockerRun
  BY <1>6 DEF DockerRun, RemoteCall!Begin
<1>7. CASE DockerRefuses
  BY <1>7 DEF DockerRefuses, RemoteCall!Produce
<1>8. CASE Communicate
  BY <1>8 DEF Communicate, Return, RGoto, RemoteCall!Answer, RemoteCall!Ended
<1>9. CASE CommunicateExpires
  BY <1>9 DEF CommunicateExpires, RGoto
<1>10. CASE DockerKill
  BY <1>10 DEF DockerKill, RGoto
<1>11. CASE DockerKillHangs
  BY <1>11 DEF DockerKillHangs, RGoto, RemoteCall!Answer, RemoteCall!Ended
<1>12. CASE Drain
  BY <1>12 DEF Drain, Return, RGoto, RemoteCall!Answer, RemoteCall!Ended
<1>13. CASE CreateSandbox
  BY <1>13 DEF CreateSandbox, RemoteCall!Begin
<1>14. CASE RunProcess
  BY <1>14 DEF RunProcess, RGoto
<1>15. CASE ProcessReturns
  BY <1>15 DEF ProcessReturns, RGoto
<1>16. CASE CloseBox
  BY <1>16 DEF CloseBox, RGoto, RemoteCall!Answer, RemoteCall!Ended
<1>17. CASE ServiceFails
  BY <1>17 DEF ServiceFails, RemoteCall!Answer, RemoteCall!Ended
<1>18. CASE SessionEnds
  BY <1>18 DEF SessionEnds
<1>19. CASE CliDies
  BY <1>19 DEF CliDies
<1>20. CASE UNCHANGED rsVars
  BY <1>20 DEF rsVars
<1> QED BY <1>1, <1>2, <1>3, <1>4, <1>5, <1>6, <1>7, <1>8, <1>9, <1>10, <1>11, <1>12,
   <1>13, <1>14, <1>15, <1>16, <1>17, <1>18, <1>19, <1>20 DEF RSNext

\* The remote sandboxes implement the abstract call.
LEMMA RemoteIsBoundedCall == RSSpec => RemoteImplementsBoundedCall
<1>1. RSInit => RemoteCall!BCInit
  BY DEF RSInit, RemoteCall!BCInit, RSCall, RSExpired
<1>2. RSInv /\ [RSNext]_rsVars => [RemoteCall!BCNext]_(RemoteCall!bcVars)
  BY RemoteCallStep
<1> QED BY <1>1, <1>2, RemoteAlways, PTL DEF RSSpec, RemoteImplementsBoundedCall,
    RemoteCall!BCSpec

\* Whichever backend is configured, a call of execute_in_sandbox answers once,
\* and only values that the code produced or a timeout once its time is up.
THEOREM SandboxesCorrect == SBSpec /\ RSSpec => SandboxesImplementBoundedCall
BY SandboxIsBoundedCall, RemoteIsBoundedCall DEF SandboxesImplementBoundedCall

-----------------------------------------------------------------------------
(* The services side by side                                               *)

\* Whichever part a behaviour of MCServices is of, every part behaves as its own
\* specification says.
THEOREM ServicesParts == ServicesSpec => Spec /\ Queue!Spec /\ SBSpec /\ RSSpec /\ CBSpec
<1>1. ServicesInit => Init /\ Queue!Init /\ SBInit /\ RSInit /\ CBInit
  BY DEF ServicesInit
<1>2. [ServicesNext]_servicesVars
        => /\ [Next]_vars /\ [Queue!Next]_(Queue!vars)
           /\ [SBNext]_sbVars /\ [RSNext]_rsVars /\ [CBNext]_cbVars
  BY DEF ServicesNext, servicesVars, sandboxVars, queueVars, Queue!vars, Queue!storeVars,
     Queue!callVars, Queue!taskVars, Queue!historyVars
<1>3. QED
  BY <1>1, <1>2, PTL DEF ServicesSpec, Spec, Queue!Spec, SBSpec, RSSpec, CBSpec

\* What the run of MCServices checks of the safety of its parts, for every number of
\* threads, providers, ticks and calls.
THEOREM ServicesCorrect ==
  ServicesSpec => /\ [](NothingRunsOn /\ ResultIsDelivered /\ NoBoxLeftBehind /\ OpenMeansFailing)
                  /\ ClosesEarlyByLateCall /\ SandboxesImplementBoundedCall
BY ServicesParts, NothingRunsOnCorrect, ResultIsDeliveredCorrect, NoBoxLeftBehindCorrect,
   OpenCorrect, CoolingCorrect, SandboxesCorrect, PTL
=============================================================================
