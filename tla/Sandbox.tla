------------------------------ MODULE Sandbox ------------------------------
(***************************************************************************)
(* One call of execute_in_sandbox with the "process" backend.  The parent  *)
(* starts a child, polls the pipe its result comes through until there is  *)
(* one, the child is gone or the time is up, and then makes sure that the  *)
(* child is dead.  The child runs generated code, which may never end, and *)
(* writes its result with a feeder thread: a result larger than the pipe's *)
(* buffer is only written while the parent reads.                          *)
(***************************************************************************)

VARIABLES
  pAt,     \* where the parent is
  payload, \* whether it has read the result
  answer,  \* what execute_in_sandbox returned
  cAt,     \* where the child is; "gone" once it is dead
  result,  \* what the child put on the queue
  pipe,    \* how much of the result is in the pipe
  due,     \* whether the deadline has passed
  grace,   \* whether the parent's join of _TERMINATE_GRACE_SECONDS is over
  missed   \* history: the result was complete only after the parent's last poll

parentVars == <<pAt, payload, answer, grace>>
childVars == <<cAt, result, pipe>>
sbVars == <<parentVars, childVars, due, missed>>

SBInit ==
  /\ pAt = "new" /\ payload = FALSE /\ answer = "none" /\ grace = FALSE
  /\ cAt = "none" /\ result = "none" /\ pipe = "empty"
  /\ due = FALSE /\ missed = FALSE

ChildAlive == cAt \notin {"none", "gone"}

\* The time of the call runs out.
TimeUp ==
  /\ ~due
  /\ due' = TRUE
  /\ UNCHANGED <<parentVars, childVars, missed>>

-----------------------------------------------------------------------------
(* The child: _sandbox_worker                                              *)

ChildGoto(from, to) == cAt = from /\ cAt' = to

\* The spawned interpreter is ready and the arguments are unpickled.
Boot ==
  /\ ChildGoto("booting", "computing")
  /\ UNCHANGED <<parentVars, result, pipe, due, missed>>

\* The code ends or raises, and result_queue.put takes the result.
Put ==
  /\ ChildGoto("computing", "putting")
  /\ result' \in {"values", "error"}
  /\ UNCHANGED <<parentVars, pipe, due, missed>>

\* The feeder thread writes a result that fits the pipe, or the part that fits.
Feed ==
  /\ cAt = "putting" /\ pipe = "empty" /\ ~payload
  /\ pipe' \in {"partial", "whole"}
  /\ missed' = (pipe' = "whole" /\ pAt # "get")
  /\ UNCHANGED <<parentVars, cAt, result, due>>

\* The rest, as the parent reads.
FeedRest ==
  /\ cAt = "putting" /\ pipe = "partial" /\ pAt = "receiving"
  /\ pipe' = "whole"
  /\ UNCHANGED <<parentVars, cAt, result, due, missed>>

\* The child exits once its feeder thread has nothing left to write.
Exit ==
  /\ pipe = "whole" \/ payload
  /\ ChildGoto("putting", "gone")
  /\ UNCHANGED <<parentVars, result, pipe, due, missed>>

\* It is killed for its memory or dies in native code, its arguments do not
\* unpickle, or its result does not pickle and the feeder thread drops it.
Crash ==
  /\ ChildAlive
  /\ cAt' = "gone"
  /\ UNCHANGED <<parentVars, result, pipe, due, missed>>

-----------------------------------------------------------------------------
(* The parent: execute_in_sandbox                                          *)

ParentGoto(from, to) == pAt = from /\ pAt' = to

Start ==
  /\ ParentGoto("new", "loop")
  /\ cAt' = "booting"
  /\ UNCHANGED <<payload, answer, grace, result, pipe, due, missed>>

\* process.start: the arguments do not pickle, or the system has no process.
StartFails ==
  /\ ParentGoto("new", "raised")
  /\ UNCHANGED <<payload, answer, grace, childVars, due, missed>>

\* A mistake: the deadline is not compared with the time.
TestNoDeadline ==
  /\ ParentGoto("loop", "get")
  /\ UNCHANGED <<payload, answer, grace, childVars, due, missed>>

\* remaining <= 0
TestDeadline ==
  /\ ParentGoto("loop", IF due THEN "check" ELSE "get")
  /\ UNCHANGED <<payload, answer, grace, childVars, due, missed>>

\* A mistake: the queue is read only when the child has exited.
GetAfterExit ==
  /\ ParentGoto("get", IF cAt = "gone" /\ pipe # "empty" THEN "receiving" ELSE "empty")
  /\ missed' = FALSE
  /\ UNCHANGED <<payload, answer, grace, childVars, due>>

\* result_queue.get waits for the first byte, up to 0.1 s.
Get ==
  /\ ParentGoto("get", IF pipe = "empty" THEN "empty" ELSE "receiving")
  /\ missed' = FALSE
  /\ UNCHANGED <<payload, answer, grace, childVars, due>>

\* After the first byte it waits for the last one, without a limit.
Receive ==
  /\ pipe = "whole"
  /\ ParentGoto("receiving", "check")
  /\ payload' = TRUE
  /\ pipe' = "empty"
  /\ UNCHANGED <<answer, grace, cAt, result, due, missed>>

\* The result does not unpickle in the parent: the exception leaves the call.
ReceiveFails ==
  /\ pipe = "whole"
  /\ ParentGoto("receiving", "raised")
  /\ UNCHANGED <<payload, answer, grace, childVars, due, missed>>

\* queue.Empty: go on while the child is alive.
TestAlive ==
  /\ ParentGoto("empty", IF ChildAlive THEN "loop" ELSE "check")
  /\ UNCHANGED <<payload, answer, grace, childVars, due, missed>>

\* A mistake: a child that is still exiting is taken for one that ran too long.
TestAliveOnly ==
  /\ ParentGoto("check", IF ChildAlive THEN "terminate" ELSE "reap")
  /\ UNCHANGED <<payload, answer, grace, childVars, due, missed>>

\* payload is None and process.is_alive()
TestPayload ==
  /\ ParentGoto("check", IF ~payload /\ ChildAlive THEN "terminate" ELSE "reap")
  /\ UNCHANGED <<payload, answer, grace, childVars, due, missed>>

\* process.terminate: the child dies of SIGTERM, or does not.
Terminate ==
  /\ ParentGoto("terminate", "stop")
  /\ \/ cAt' = "gone"
     \/ UNCHANGED cAt
  /\ UNCHANGED <<payload, answer, grace, result, pipe, due, missed>>

\* process.join ends without the child.
GraceEnds ==
  /\ pAt \in {"stop", "reap"} /\ ChildAlive /\ ~grace
  /\ grace' = TRUE
  /\ UNCHANGED <<pAt, payload, answer, childVars, due, missed>>

\* A mistake: a child that outlives the grace period is left to itself.
KillForgotten ==
  /\ pAt \in {"stop", "reap"} /\ grace
  /\ pAt' = "returned"
  /\ answer' = IF pAt = "stop" THEN "timeout" ELSE IF payload THEN result ELSE "crash"
  /\ UNCHANGED <<payload, grace, childVars, due, missed>>

\* process.kill, and a join without a limit.
Kill ==
  /\ pAt \in {"stop", "reap"} /\ grace /\ ChildAlive
  /\ cAt' = "gone"
  /\ UNCHANGED <<parentVars, result, pipe, due, missed>>

AnswerTimeout ==
  /\ ~ChildAlive
  /\ ParentGoto("stop", "returned")
  /\ answer' = "timeout"
  /\ UNCHANGED <<payload, grace, childVars, due, missed>>

\* The result, or "exited unexpectedly" without one.
AnswerResult ==
  /\ ~ChildAlive
  /\ ParentGoto("reap", "returned")
  /\ answer' = IF payload THEN result ELSE "crash"
  /\ UNCHANGED <<payload, grace, childVars, due, missed>>

\* The worker process that makes the call dies.
ParentDies ==
  /\ pAt \notin {"new", "returned", "raised", "dead"}
  /\ pAt' = "dead"
  /\ UNCHANGED <<payload, answer, grace, childVars, due, missed>>

-----------------------------------------------------------------------------
Feeder == Feed \/ FeedRest
ParentStep ==
  \/ TestDeadline \/ Get \/ Receive \/ ReceiveFails \/ TestAlive \/ TestPayload
  \/ Terminate \/ GraceEnds \/ Kill \/ AnswerTimeout \/ AnswerResult

SBNext ==
  \/ Start \/ StartFails \/ ParentStep \/ ParentDies \/ TimeUp
  \/ Boot \/ Put \/ Feeder \/ Exit \/ Crash

SBSpec == SBInit /\ [][SBNext]_sbVars

\* The parent's thread is scheduled and time passes.  Nothing is assumed of the
\* code in the child, only of the thread that writes what it has put.
SBFairness == WF_sbVars(ParentStep) /\ WF_sbVars(TimeUp /\ pAt # "new") /\ WF_sbVars(Feeder)
SBFairSpec == SBSpec /\ SBFairness

-----------------------------------------------------------------------------
SBTypeOK ==
  /\ pAt \in {"new", "loop", "get", "receiving", "empty", "check", "terminate", "stop",
              "reap", "returned", "raised", "dead"}
  /\ answer \in {"none", "values", "error", "timeout", "crash"}
  /\ cAt \in {"none", "booting", "computing", "putting", "gone"}
  /\ result \in {"none", "values", "error"}
  /\ pipe \in {"empty", "partial", "whole"}
  /\ payload \in BOOLEAN /\ due \in BOOLEAN /\ grace \in BOOLEAN /\ missed \in BOOLEAN

\* When the call has returned, no generated code is running any more.
NothingRunsOn == pAt = "returned" => cAt = "gone"

\* A call that returns without the child's result although all of it had come
\* through had polled the pipe for the last time before.
ResultIsDelivered ==
  answer \in {"timeout", "crash"} /\ pipe = "whole" => missed

\* A child that died in the middle of a large result.
TornResult == pAt = "receiving" /\ pipe = "partial" /\ cAt = "gone"

\* However long the generated code runs, the call ends, unless the child dies
\* while the parent reads its result.
CallEnds ==
  pAt = "loop" ~> (pAt \in {"returned", "raised", "dead"} \/ TornResult)

\* The call is a bounded call.
SBCall ==
  CASE pAt = "new" -> "idle"
    [] pAt = "raised" -> "raised"
    [] pAt = "returned" -> IF answer = "crash" THEN "error" ELSE answer
    [] OTHER -> "running"

SBProduced == result = "values" /\ cAt \in {"putting", "gone"}

SandboxCall ==
  INSTANCE BoundedCall WITH call <- SBCall, produced <- SBProduced, expired <- due
ImplementsBoundedCall == SandboxCall!BCSpec
=============================================================================
