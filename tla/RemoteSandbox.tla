--------------------------- MODULE RemoteSandbox ---------------------------
(***************************************************************************)
(* One call of execute_in_sandbox with the "docker" or the "vercel"        *)
(* backend.  The generated code runs in a box that is not a child of the   *)
(* worker: a container, reached through the docker CLI, or a microVM,      *)
(* reached through an SDK.  Stopping to wait for it does not stop it: the  *)
(* docker backend kills the container by name, and the vercel backend lets *)
(* the service kill the process and the end of its context the microVM.    *)
(* Nor does the end of the CLI, which may come before the container's.     *)
(***************************************************************************)

VARIABLES
  backend, \* "docker" or "vercel", once the call has begun
  rAt,     \* where the call is
  rAnswer, \* what it returned
  box,     \* "none", "starting", "running" or "stopped"
  cli,     \* whether the docker CLI is alive
  code,    \* how the code in the box ended: "values", "failed", "none" before
  clock,   \* "early", "near" (the last second) or "past" the time of the call
  unkilled, \* history: a kill of the box was without effect, or had no answer
  detached \* history: the CLI ended by itself, before its container

rsVars == <<backend, rAt, rAnswer, box, cli, code, clock, unkilled, detached>>

RSInit ==
  /\ backend = "none" /\ rAt = "new" /\ rAnswer = "none"
  /\ box = "none" /\ cli = FALSE /\ code = "none" /\ clock = "early"
  /\ unkilled = FALSE /\ detached = FALSE

RGoto(b, from, to) == backend = b /\ rAt = from /\ rAt' = to

Return(b, from, with) == RGoto(b, from, "returned") /\ rAnswer' = with

Pass1s ==
  /\ rAt # "new"
  /\ clock' = IF clock = "early" THEN "near" ELSE "past"
  /\ UNCHANGED <<backend, rAt, rAnswer, box, cli, code, unkilled, detached>>

-----------------------------------------------------------------------------
(* The box.  A container starts some time after the CLI asked for it.      *)

BoxStarts ==
  /\ box = "starting"
  /\ box' = "running"
  /\ UNCHANGED <<backend, rAt, rAnswer, cli, code, clock, unkilled, detached>>

\* The code ends by itself, with a result or with a nonzero exit code.
BoxEnds ==
  /\ box = "running" /\ code = "none"
  /\ backend = "docker" \/ rAt = "process"
  /\ code' \in {"values", "failed"}
  /\ box' = IF backend = "docker" THEN "stopped" ELSE box
  /\ UNCHANGED <<backend, rAt, rAnswer, cli, clock, unkilled, detached>>

\* kill_after: the service kills the process in the microVM.
KillAfter ==
  /\ backend = "vercel" /\ rAt = "process" /\ clock = "past" /\ code = "none"
  /\ code' = "failed"
  /\ UNCHANGED <<backend, rAt, rAnswer, box, cli, clock, unkilled, detached>>

-----------------------------------------------------------------------------
(* execute_in_docker_sandbox                                               *)

\* The backend is asked for and is not there: no other is taken instead.
Unavailable ==
  /\ rAt = "new"
  /\ backend' \in {"docker", "vercel"}
  /\ rAt' = "raised"
  /\ UNCHANGED <<rAnswer, box, cli, code, clock, unkilled, detached>>

DockerRun ==
  /\ rAt = "new"
  /\ backend' = "docker"
  /\ rAt' = "communicate"
  /\ box' = "starting" /\ cli' = TRUE
  /\ UNCHANGED <<rAnswer, code, clock, unkilled, detached>>

\* The daemon refuses the container: the CLI exits with a nonzero code.
DockerRefuses ==
  /\ backend = "docker" /\ box = "starting" /\ cli
  /\ box' = "stopped" /\ code' = "failed"
  /\ UNCHANGED <<backend, rAt, rAnswer, cli, clock, unkilled, detached>>

\* The CLI is killed, or loses its connection to the daemon, and exits with a
\* nonzero code; the container goes on.
CliDies ==
  /\ backend = "docker" /\ cli /\ box # "stopped"
  /\ cli' = FALSE
  /\ detached' = TRUE
  /\ UNCHANGED <<backend, rAt, rAnswer, box, code, clock, unkilled>>

\* The CLI has ended: with the container, whose output may not be decoded, or
\* without it, which is an error like any other; nobody looks for the container.
Communicate ==
  /\ \/ /\ cli /\ box = "stopped" /\ code = "values"
        /\ Return("docker", "communicate", "values")
     \/ /\ box = "stopped" \/ ~cli
        /\ Return("docker", "communicate", "error")
  /\ cli' = FALSE
  /\ UNCHANGED <<backend, box, code, clock, unkilled, detached>>

CommunicateExpires ==
  /\ clock = "past"
  /\ RGoto("docker", "communicate", "kill")
  /\ UNCHANGED <<backend, rAnswer, box, cli, code, clock, unkilled, detached>>

\* A mistake: the CLI is killed and the container left alone.
KillTheCLI ==
  /\ RGoto("docker", "kill", "drain")
  /\ cli' = FALSE
  /\ UNCHANGED <<backend, rAnswer, box, code, clock, unkilled, detached>>

\* docker kill: a container that is not running yet is not found, and a refusal
\* of the daemon is not looked at.
DockerKill ==
  /\ RGoto("docker", "kill", "drain")
  /\ \/ box \in {"running", "stopped"} /\ box' = "stopped" /\ UNCHANGED unkilled
     \/ box # "stopped" /\ unkilled' = TRUE /\ UNCHANGED box
  /\ UNCHANGED <<backend, rAnswer, cli, code, clock, detached>>

\* It has no answer in time: the exception leaves the call.
DockerKillHangs ==
  /\ RGoto("docker", "kill", "raised")
  /\ unkilled' = TRUE
  /\ UNCHANGED <<backend, rAnswer, box, cli, code, clock, detached>>

\* The CLI ends with the container, or is killed after the grace period.
Drain ==
  /\ Return("docker", "drain", "timeout")
  /\ cli' = FALSE
  /\ UNCHANGED <<backend, box, code, clock, unkilled, detached>>

-----------------------------------------------------------------------------
(* execute_in_vercel_sandbox                                               *)

CreateSandbox ==
  /\ rAt = "new"
  /\ backend' = "vercel"
  /\ rAt' = "payload"
  /\ box' = "running"
  /\ UNCHANGED <<rAnswer, cli, code, clock, unkilled, detached>>

RunProcess ==
  /\ box = "running"
  /\ RGoto("vercel", "payload", "process")
  /\ UNCHANGED <<backend, rAnswer, box, cli, code, clock, unkilled, detached>>

\* A nonzero exit code in the last second or later is taken for the kill; a
\* result file that cannot be read is an error.
ProcessReturns ==
  /\ code # "none"
  /\ RGoto("vercel", "process", "close")
  /\ rAnswer' \in IF code = "values" THEN {"values", "error"}
                  ELSE {IF clock = "early" THEN "error" ELSE "timeout"}
  /\ UNCHANGED <<backend, box, cli, code, clock, unkilled, detached>>

\* The end of the context stops the microVM.
CloseBox ==
  /\ RGoto("vercel", "close", "returned")
  /\ box' = "stopped"
  /\ UNCHANGED <<backend, rAnswer, cli, code, clock, unkilled, detached>>

\* A request to the service fails: the backend is reported as unavailable, even
\* if the code has already ended.  The context's end is tried all the same.
ServiceFails ==
  /\ backend = "vercel" /\ rAt \in {"payload", "process", "close"}
  /\ rAt' = "raised" /\ rAnswer' = "none"
  /\ \/ box' = "stopped" /\ UNCHANGED unkilled
     \/ unkilled' = TRUE /\ UNCHANGED box
  /\ UNCHANGED <<backend, cli, code, clock, detached>>

\* The service ends a session half a minute after the time of its process.
SessionEnds ==
  /\ backend = "vercel" /\ clock = "past" /\ box = "running"
  /\ rAt \notin {"payload", "process", "close"}
  /\ box' = "stopped"
  /\ UNCHANGED <<backend, rAt, rAnswer, cli, code, clock, unkilled, detached>>

-----------------------------------------------------------------------------
RSNext ==
  \/ Pass1s \/ BoxStarts \/ BoxEnds \/ KillAfter
  \/ Unavailable \/ DockerRun \/ DockerRefuses \/ CliDies \/ Communicate \/ CommunicateExpires
  \/ DockerKill \/ DockerKillHangs \/ Drain
  \/ CreateSandbox \/ RunProcess \/ ProcessReturns \/ CloseBox \/ ServiceFails \/ SessionEnds

RSSpec == RSInit /\ [][RSNext]_rsVars

-----------------------------------------------------------------------------
RSTypeOK ==
  /\ backend \in {"none", "docker", "vercel"}
  /\ rAt \in {"new", "communicate", "kill", "drain", "payload", "process", "close",
              "returned", "raised"}
  /\ rAnswer \in {"none", "values", "error", "timeout"}
  /\ box \in {"none", "starting", "running", "stopped"}
  /\ code \in {"none", "values", "failed"}
  /\ clock \in {"early", "near", "past"}
  /\ cli \in BOOLEAN /\ unkilled \in BOOLEAN /\ detached \in BOOLEAN

\* A call that has returned, or been left by an exception, leaves no box running
\* the generated code, with two exceptions: the kill it asked for had no effect, or
\* the docker CLI ended before its container and the call returned that as an error.
\* A timeout always asks for the kill, even when the CLI is gone.
NoBoxLeftBehind ==
  rAt \in {"returned", "raised"} =>
    \/ box \in {"none", "stopped"}
    \/ unkilled
    \/ detached /\ rAnswer = "error"

\* The call is a bounded call; the vercel backend takes the last second of its
\* time for the end of it.
RSCall ==
  CASE rAt = "new" -> "idle"
    [] rAt = "raised" -> "raised"
    [] rAt = "returned" -> rAnswer
    [] OTHER -> "running"

RSExpired == clock = "past" \/ (backend = "vercel" /\ clock = "near")

RemoteCall ==
  INSTANCE BoundedCall WITH
    call <- RSCall, produced <- code = "values", expired <- RSExpired
RemoteImplementsBoundedCall == RemoteCall!BCSpec
=============================================================================
