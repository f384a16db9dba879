------------------------------ MODULE Approval ------------------------------
(***************************************************************************)
(* The human approval of a saved pipeline's writes (ADR-028).  The worker  *)
(* runs the pipeline; the Loader either writes to the destination or, if   *)
(* the pipeline's policy gates the write, stops at awaiting_approval.  An  *)
(* operator's request then approves the run, which reloads its artifacts   *)
(* and calls the Loader a second time, or rejects it.                      *)
(*                                                                         *)
(* One saved pipeline is modelled.  A Run is one attempt of one fire: each *)
(* attempt has a run id of its own.  Storage writes, row updates and the   *)
(* destination's write are steps of their own, and a worker or an API      *)
(* process may die, or one of these calls raise, between any two.          *)
(***************************************************************************)
EXTENDS Integers, FiniteSets

CONSTANTS
  Run,        \* attempts of fires of the pipeline
  Request,    \* POST /runs/{run_id}/approve and /reject requests
  NoRun,      \* a request not made yet
  MaxActors,  \* bound: how many runs and requests start in a behaviour
  MaxPatches, \* bound: how many requests edit the policy
  MaxSwept    \* bound: how many runs retention sweeps reach

ASSUME ApprovalAssumption ==
  NoRun \notin Run /\ MaxActors \in Nat /\ MaxPatches \in Nat /\ MaxSwept \in Nat

VARIABLES
  pipeline,   \* saved_pipelines row: exists, require_approval, whether a
              \* threshold is set, whether last_approved_at is set
  failures,   \* saved_pipelines.consecutive_failures
  at,         \* where each run's worker is
  policy,     \* approval_policy, as the run read it at its start
  size,       \* rows of the run's Silver data: none, below or above the threshold
  outcome,    \* the status the run's worker or request computed
  json,       \* the status in {run_id}.json; "none" if there is no such artifact
  silver,     \* whether {run_id}_silver.csv exists
  row,        \* runs.status; "none" if there is no row
  reqAt,      \* where each request is
  kind,       \* "approve" or "reject"
  target,     \* the run it is about
  linked,     \* whether it read a saved_pipeline_id in the run's row
  reloaded,   \* the status it read in {run_id}.json
  answer,     \* the status it computed
  writes,     \* history: how often each run's data went to the destination
  unattended, \* history: runs whose worker wrote without approval
  contended,  \* history: runs a request opened while another was at work on
              \* them or had died at work
  relaxed,    \* history: the policy has been weakened by a PATCH
  approved,   \* history: runs whose approved write has succeeded
  swept,      \* history: runs of which a retention sweep deleted an artifact
  patches     \* history: how many requests have edited the policy

pipelineVars == <<pipeline, failures>>
runVars == <<at, policy, size, outcome>>
storeVars == <<json, silver, row>>
requestVars == <<reqAt, kind, target, linked, reloaded, answer>>
historyVars == <<writes, unattended, contended, relaxed, approved, swept, patches>>
vars == <<pipelineVars, runVars, storeVars, requestVars, historyVars>>

Sizes == {"empty", "small", "large"}
Policies == [require : BOOLEAN, threshold : BOOLEAN, approved : BOOLEAN]
NeverGated == [require |-> FALSE, threshold |-> FALSE, approved |-> FALSE]

\* _is_write_gated
Gated(p, s) == p.require /\ (~p.approved \/ ~p.threshold \/ s = "large")

\* A request that found its run awaiting and has not resolved it.
AtWork(q) == reqAt[q] \in {"reload", "act", "save_json", "save_row", "died"}

\* The bound on runs and requests.
ActorsLeft ==
  Cardinality({r \in Run : at[r] # "new"}) + Cardinality({q \in Request : reqAt[q] # "new"})
    < MaxActors

-----------------------------------------------------------------------------
Init ==
  /\ pipeline \in [exists : {TRUE}, require : {TRUE}, threshold : BOOLEAN, approved : {FALSE}]
  /\ failures = 0
  /\ at = [r \in Run |-> "new"]
  /\ policy = [r \in Run |-> NeverGated]
  /\ size = [r \in Run |-> "empty"]
  /\ outcome = [r \in Run |-> "none"]
  /\ json = [r \in Run |-> "none"]
  /\ silver = [r \in Run |-> FALSE]
  /\ row = [r \in Run |-> "none"]
  /\ reqAt = [q \in Request |-> "new"]
  /\ kind = [q \in Request |-> "approve"]
  /\ target = [q \in Request |-> NoRun]
  /\ linked = [q \in Request |-> FALSE]
  /\ reloaded = [q \in Request |-> "none"]
  /\ answer = [q \in Request |-> "none"]
  /\ writes = [r \in Run |-> 0]
  /\ unattended = {} /\ contended = {} /\ relaxed = FALSE /\ approved = {} /\ swept = {}
  /\ patches = 0

-----------------------------------------------------------------------------
(* The worker: run_full_analysis_task of a scheduled fire                  *)

RunGoto(r, from, to) ==
  /\ at[r] = from
  /\ at' = [at EXCEPT ![r] = to]

\* The scheduler enqueues a task of the pipeline.
Fire(r) ==
  /\ ActorsLeft
  /\ pipeline.exists
  /\ RunGoto(r, "new", "queued")
  /\ UNCHANGED <<pipelineVars, policy, size, outcome, storeVars, requestVars, historyVars>>

\* run_silver_pipeline reads the policy; a pipeline deleted meanwhile has none.
Start(r) ==
  /\ RunGoto(r, "queued", "running")
  /\ policy' = [policy EXCEPT ![r] =
       IF pipeline.exists
       THEN [require |-> pipeline.require, threshold |-> pipeline.threshold,
             approved |-> pipeline.approved]
       ELSE NeverGated]
  /\ UNCHANGED <<pipelineVars, size, outcome, storeVars, requestVars, historyVars>>

\* The graph ends in a failure: a node fails, the quality gate blocks, or the
\* Loader's preview or write raises.  A write can raise after the data is in the
\* destination: the destinations count the rows afterwards.
RunFails(r) ==
  /\ RunGoto(r, "running", "save_json")
  /\ outcome' = [outcome EXCEPT ![r] = "failed"]
  /\ \E s \in Sizes, wrote \in BOOLEAN :
       /\ wrote => ~Gated(policy[r], s)
       /\ size' = [size EXCEPT ![r] = s]
       /\ writes' = IF wrote THEN [writes EXCEPT ![r] = @ + 1] ELSE writes
       /\ unattended' = IF wrote THEN unattended \cup {r} ELSE unattended
  /\ UNCHANGED <<pipelineVars, policy, storeVars, requestVars,
                 contended, relaxed, approved, swept, patches>>

\* loader_node: preview a gated write, do any other.
Load(r) ==
  /\ RunGoto(r, "running", "save_json")
  /\ \E s \in Sizes :
       LET gated == Gated(policy[r], s)
       IN /\ size' = [size EXCEPT ![r] = s]
          /\ outcome' = [outcome EXCEPT ![r] = IF gated THEN "awaiting_approval" ELSE "completed"]
          /\ writes' = IF gated THEN writes ELSE [writes EXCEPT ![r] = @ + 1]
          /\ unattended' = IF gated THEN unattended ELSE unattended \cup {r}
  /\ UNCHANGED <<pipelineVars, policy, storeVars, requestVars,
                 contended, relaxed, approved, swept, patches>>

\* A mistake: the row is written before the artifacts.
SaveRunRowFirst(r) ==
  /\ RunGoto(r, "save_json", "save_row")
  /\ row' = [row EXCEPT ![r] = outcome[r]]
  /\ UNCHANGED <<pipelineVars, policy, size, outcome, json, silver, requestVars, historyVars>>

\* save_run: the artifacts.  Empty Silver data is not written.
SaveArtifacts(r) ==
  /\ RunGoto(r, "save_json", "save_row")
  /\ json' = [json EXCEPT ![r] = outcome[r]]
  /\ silver' = [silver EXCEPT ![r] = size[r] # "empty"]
  /\ UNCHANGED <<pipelineVars, policy, size, outcome, row, requestVars, historyVars>>

\* save_run: the row.  Its foreign key refuses a deleted pipeline, and the task
\* raises; so it does when the database is down.
SaveRow(r) ==
  /\ pipeline.exists
  /\ RunGoto(r, "save_row", "saved")
  /\ row' = [row EXCEPT ![r] = outcome[r]]
  /\ UNCHANGED <<pipelineVars, policy, size, outcome, json, silver, requestVars, historyVars>>

\* The last attempt of the fire records the pipeline's health, unless the write
\* is waiting for approval.
RunEnds(r) ==
  /\ RunGoto(r, "saved", "done")
  /\ failures' = IF pipeline.exists /\ outcome[r] # "awaiting_approval"
                 THEN IF outcome[r] = "completed" THEN 0 ELSE failures + 1
                 ELSE failures
  /\ UNCHANGED <<pipeline, policy, size, outcome, storeVars, requestVars, historyVars>>

\* The worker dies, the task raises, or a failed attempt is retried: this
\* attempt ends without recording anything.
RunStops(r) ==
  /\ at[r] \in {"running", "save_json", "save_row", "saved"}
  /\ at' = [at EXCEPT ![r] = "done"]
  /\ UNCHANGED <<pipelineVars, policy, size, outcome, storeVars, requestVars, historyVars>>

-----------------------------------------------------------------------------
(* The request: resume_pending_load and reject_pending_load                *)

ReqGoto(q, from, to) ==
  /\ reqAt[q] = from
  /\ reqAt' = [reqAt EXCEPT ![q] = to]

Contenders(q, r) ==
  IF \E other \in Request \ {q} : target[other] = r /\ AtWork(other) THEN {r} ELSE {}

\* A mistake: the status of the run is not looked at.
OpenAnyRun(q, r, k) ==
  /\ ActorsLeft
  /\ row[r] # "none"
  /\ ReqGoto(q, "new", "reload")
  /\ kind' = [kind EXCEPT ![q] = k]
  /\ target' = [target EXCEPT ![q] = r]
  /\ linked' = [linked EXCEPT ![q] = pipeline.exists]
  /\ contended' = contended \cup Contenders(q, r)
  /\ UNCHANGED <<pipelineVars, runVars, storeVars, reloaded, answer,
                 writes, unattended, relaxed, approved, swept, patches>>

\* _reload_awaiting_state: the row says awaiting_approval (else the request is
\* answered 404 or 409 and changes nothing).  A deleted pipeline has left NULL
\* in runs.saved_pipeline_id.
Open(q, r, k) ==
  /\ ActorsLeft
  /\ row[r] = "awaiting_approval"
  /\ ReqGoto(q, "new", "reload")
  /\ kind' = [kind EXCEPT ![q] = k]
  /\ target' = [target EXCEPT ![q] = r]
  /\ linked' = [linked EXCEPT ![q] = pipeline.exists]
  /\ contended' = contended \cup Contenders(q, r)
  /\ UNCHANGED <<pipelineVars, runVars, storeVars, reloaded, answer,
                 writes, unattended, relaxed, approved, swept, patches>>

Reloadable(r) == json[r] # "none" /\ silver[r]

\* _reload_awaiting_state: load_full_result rebuilds the state.
Reload(q) ==
  /\ ReqGoto(q, "reload", "act")
  /\ Reloadable(target[q])
  /\ reloaded' = [reloaded EXCEPT ![q] = json[target[q]]]
  /\ UNCHANGED <<pipelineVars, runVars, storeVars, kind, target, linked, answer, historyVars>>

\* _reload_awaiting_state: no state, or no Silver data in it (409).
ReloadRefused(q) ==
  /\ ReqGoto(q, "reload", "refused")
  /\ ~Reloadable(target[q])
  /\ UNCHANGED <<pipelineVars, runVars, storeVars, kind, target, linked, reloaded, answer,
                 historyVars>>

\* resume_pending_load: loader_node writes.
Approve(q) ==
  /\ kind[q] = "approve" /\ reloaded[q] # "failed"
  /\ ReqGoto(q, "act", "save_json")
  /\ answer' = [answer EXCEPT ![q] = "completed"]
  /\ writes' = [writes EXCEPT ![target[q]] = @ + 1]
  /\ approved' = approved \cup {target[q]}
  /\ UNCHANGED <<pipelineVars, runVars, storeVars, kind, target, linked, reloaded,
                 unattended, contended, relaxed, swept, patches>>

\* resume_pending_load: loader_node's write raises, before or after the data is
\* in the destination, or it is not tried because the reloaded state already
\* holds an error.
ApproveFails(q) ==
  /\ kind[q] = "approve"
  /\ ReqGoto(q, "act", "save_json")
  /\ answer' = [answer EXCEPT ![q] = "failed"]
  /\ \/ UNCHANGED writes
     \/ reloaded[q] # "failed" /\ writes' = [writes EXCEPT ![target[q]] = @ + 1]
  /\ UNCHANGED <<pipelineVars, runVars, storeVars, kind, target, linked, reloaded,
                 unattended, contended, relaxed, approved, swept, patches>>

\* reject_pending_load
Reject(q) ==
  /\ kind[q] = "reject"
  /\ ReqGoto(q, "act", "save_json")
  /\ answer' = [answer EXCEPT ![q] = "failed"]
  /\ UNCHANGED <<pipelineVars, runVars, storeVars, kind, target, linked, reloaded, historyVars>>

\* save_run: the artifacts, the reloaded Silver data among them.
AnswerArtifacts(q) ==
  /\ ReqGoto(q, "save_json", "save_row")
  /\ json' = [json EXCEPT ![target[q]] = answer[q]]
  /\ silver' = [silver EXCEPT ![target[q]] = TRUE]
  /\ UNCHANGED <<pipelineVars, runVars, row, kind, target, linked, reloaded, answer, historyVars>>

\* save_run: the row, unless its foreign key refuses the pipeline the request
\* has read, which is deleted by now.  The health of no pipeline is recorded.
AnswerRow(q) ==
  /\ linked[q] => pipeline.exists
  /\ ReqGoto(q, "save_row", IF linked[q] THEN "health" ELSE "done")
  /\ row' = [row EXCEPT ![target[q]] = answer[q]]
  /\ UNCHANGED <<pipelineVars, runVars, json, silver, kind, target, linked, reloaded, answer,
                 historyVars>>

\* A mistake: a failed write counts as the first approved write.
AnswerHealthMarksAll(q) ==
  /\ ReqGoto(q, "health", "mark")
  /\ failures' = IF pipeline.exists
                 THEN IF answer[q] = "completed" THEN 0 ELSE failures + 1
                 ELSE failures
  /\ UNCHANGED <<pipeline, runVars, storeVars, kind, target, linked, reloaded, answer, historyVars>>

\* A mistake: a completed write takes one failure back instead of resetting.
AnswerHealthDecrements(q) ==
  /\ ReqGoto(q, "health", IF answer[q] = "completed" THEN "mark" ELSE "done")
  /\ failures' = IF pipeline.exists
                 THEN IF answer[q] = "completed" THEN failures - 1 ELSE failures + 1
                 ELSE failures
  /\ UNCHANGED <<pipeline, runVars, storeVars, kind, target, linked, reloaded, answer, historyVars>>

\* record_pipeline_health
AnswerHealth(q) ==
  /\ ReqGoto(q, "health", IF answer[q] = "completed" THEN "mark" ELSE "done")
  /\ failures' = IF pipeline.exists
                 THEN IF answer[q] = "completed" THEN 0 ELSE failures + 1
                 ELSE failures
  /\ UNCHANGED <<pipeline, runVars, storeVars, kind, target, linked, reloaded, answer, historyVars>>

\* mark_pipeline_approved
AnswerMark(q) ==
  /\ ReqGoto(q, "mark", "done")
  /\ pipeline' = [pipeline EXCEPT !.approved = @ \/ pipeline.exists]
  /\ UNCHANGED <<failures, runVars, storeVars, kind, target, linked, reloaded, answer, historyVars>>

\* The bookkeeping is best effort: its exceptions are swallowed.
AnswerSkipsBookkeeping(q) ==
  /\ reqAt[q] \in {"health", "mark"}
  /\ reqAt' = [reqAt EXCEPT ![q] = "done"]
  /\ UNCHANGED <<pipelineVars, runVars, storeVars, kind, target, linked, reloaded, answer,
                 historyVars>>

\* The API process dies, or a call raises and the request ends with a 500.
RequestDies(q) ==
  /\ reqAt[q] \in {"reload", "act", "save_json", "save_row"}
  /\ reqAt' = [reqAt EXCEPT ![q] = "died"]
  /\ UNCHANGED <<pipelineVars, runVars, storeVars, kind, target, linked, reloaded, answer,
                 historyVars>>

-----------------------------------------------------------------------------
(* Everything else that touches the rows and the artifacts                 *)

\* PATCH /pipelines/{id}; a threshold cannot be cleared.
SetPolicy(require, threshold) ==
  /\ pipeline.exists
  /\ pipeline.threshold => threshold
  /\ <<require, threshold>> # <<pipeline.require, pipeline.threshold>>
  /\ patches < MaxPatches
  /\ patches' = patches + 1
  /\ pipeline' = [pipeline EXCEPT !.require = require, !.threshold = threshold]
  /\ relaxed' = (relaxed \/ ~require \/ (threshold /\ ~pipeline.threshold))
  /\ UNCHANGED <<failures, runVars, storeVars, requestVars,
                 writes, unattended, contended, approved, swept>>

\* delete_saved_pipeline
Delete ==
  /\ pipeline.exists
  /\ pipeline' = [pipeline EXCEPT !.exists = FALSE]
  /\ UNCHANGED <<failures, runVars, storeVars, requestVars, historyVars>>

\* cleanup_expired_retention_for_tenant deletes the artifacts of an old run, one
\* key after another, whatever the run's status; the row stays.
Sweep(r) ==
  /\ row[r] # "none"
  /\ swept' = swept \cup {r}
  /\ Cardinality(swept') <= MaxSwept
  /\ \/ json[r] # "none" /\ json' = [json EXCEPT ![r] = "none"] /\ UNCHANGED silver
     \/ silver[r] /\ silver' = [silver EXCEPT ![r] = FALSE] /\ UNCHANGED json
  /\ UNCHANGED <<pipelineVars, runVars, row, requestVars,
                 writes, unattended, contended, relaxed, approved, patches>>

-----------------------------------------------------------------------------
RunStep(r) ==
  \/ Fire(r) \/ Start(r) \/ RunFails(r) \/ Load(r)
  \/ SaveArtifacts(r) \/ SaveRow(r) \/ RunEnds(r) \/ RunStops(r)

RequestStep(q) ==
  \/ \E r \in Run, k \in {"approve", "reject"} : Open(q, r, k)
  \/ Reload(q) \/ ReloadRefused(q)
  \/ Approve(q) \/ ApproveFails(q) \/ Reject(q)
  \/ AnswerArtifacts(q) \/ AnswerRow(q)
  \/ AnswerHealth(q) \/ AnswerMark(q) \/ AnswerSkipsBookkeeping(q)
  \/ RequestDies(q)

Next ==
  \/ \E r \in Run : RunStep(r) \/ Sweep(r)
  \/ \E q \in Request : RequestStep(q)
  \/ \E require, threshold \in BOOLEAN : SetPolicy(require, threshold)
  \/ Delete

Spec == Init /\ [][Next]_vars

-----------------------------------------------------------------------------
(* Properties                                                              *)

Statuses == {"none", "awaiting_approval", "completed", "failed"}

\* Every row, artifact and process is in a state the code can give it.
TypeOK ==
  /\ pipeline \in [exists : BOOLEAN, require : BOOLEAN, threshold : BOOLEAN, approved : BOOLEAN]
  /\ failures \in Nat
  /\ at \in [Run -> {"new", "queued", "running", "save_json", "save_row", "saved", "done"}]
  /\ policy \in [Run -> Policies]
  /\ size \in [Run -> Sizes]
  /\ outcome \in [Run -> Statuses]
  /\ json \in [Run -> Statuses] /\ row \in [Run -> Statuses]
  /\ silver \in [Run -> BOOLEAN]
  /\ reqAt \in [Request -> {"new", "reload", "act", "save_json", "save_row", "health",
                            "mark", "done", "refused", "died"}]
  /\ kind \in [Request -> {"approve", "reject"}]
  /\ target \in [Request -> Run \cup {NoRun}]
  /\ \A q \in Request : reqAt[q] # "new" => target[q] \in Run
  /\ linked \in [Request -> BOOLEAN]
  /\ reloaded \in [Request -> Statuses] /\ answer \in [Request -> Statuses]
  /\ writes \in [Run -> Nat]
  /\ unattended \subseteq Run /\ contended \subseteq Run
  /\ approved \subseteq Run /\ swept \subseteq Run
  /\ patches \in 0..MaxPatches
  /\ relaxed \in BOOLEAN

\* The request has answered that the run is resolved.
Answered(q) == reqAt[q] \in {"health", "mark", "done"}

\* A run that no two requests work on at once, and no request dies on, has the
\* fate its one request gave it, for good: its row says what the request
\* answered, a rejected run was never written, an approved one was written once.
OneDecision ==
  \A q \in Request :
    Answered(q) /\ target[q] \notin contended =>
      /\ row[target[q]] = answer[q]
      /\ kind[q] = "reject" => writes[target[q]] = 0
      /\ answer[q] = "completed" => writes[target[q]] = 1
      /\ \A other \in Request \ {q} :
           target[other] = target[q] => ~AtWork(other) /\ ~Answered(other)

\* reject_run "never writes to the destination": the data of a run whose
\* rejection was answered is not in the destination.  The code does not keep
\* this promise against a concurrent approval, nor after one that died.
RejectedNeverWritten ==
  \A q \in Request : Answered(q) /\ kind[q] = "reject" => writes[target[q]] = 0

\* While its policy is not weakened and it exists, a pipeline that requires
\* approval is written unattended only after an approved write has succeeded,
\* and then only below its threshold.
GateHolds ==
  ~relaxed /\ pipeline.exists =>
    \A r \in unattended : approved # {} /\ policy[r].threshold /\ size[r] # "large"

\* save_run writes the artifacts before the row: unless a sweep has deleted
\* them, a run in the approval queue has the state its approval needs, and,
\* unless it is empty, its data.
PendingHasArtifacts ==
  \A r \in Run :
    row[r] = "awaiting_approval" /\ r \notin swept =>
      json[r] # "none" /\ (size[r] # "empty" => silver[r])

\* A run in the approval queue can be approved or rejected (ADR-028: it is left
\* alone "until the pending write is resolved one way or the other").  The code
\* does not keep this promise for a run whose Silver data is empty.
PendingIsResolvable ==
  \A r \in Run : row[r] = "awaiting_approval" /\ r \notin swept => Reloadable(r)
=============================================================================
