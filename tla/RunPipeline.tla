---------------------------- MODULE RunPipeline -----------------------------
(***************************************************************************)
(* One execution of run_full_analysis (services/pipeline_service.py): the  *)
(* Silver graph of five nodes (core/graph.py), save_run, and the analysis  *)
(* layer of Planner, Analyst or Science, Reviewer and Advisor, with what   *)
(* each model call costs and where its tokens are counted.                 *)
(*                                                                         *)
(* A model call that answers costs one token.  An answer is usable or not; *)
(* a call, a sandbox, a source, a destination or the database may fail.    *)
(* Of the data, the rows count: none, fewer than MIN_ROWS_FOR_ANALYSIS or  *)
(* enough.  Analyst and Science differ in nothing that is modelled.        *)
(***************************************************************************)
EXTENDS Integers

CONSTANTS
  Documents,  \* most document sources a plan may have
  MaxTasks    \* MAX_TASKS of the Planner

ASSUME DocumentsAssumption == Documents \in Nat
ASSUME TasksAssumption == MaxTasks \in Nat \ {0}

\* The attempts of each loop: range(1, 3), MAX_ATTEMPTS, range(1, 4).
OrchestratorTries == 2
DocumentTries == 3
TransformerTries == 3
AnalystTries == 3
AdvisorTries == 2

VARIABLES
  step,       \* what the execution does next, or how it ended
  tries,      \* failed attempts of the retry loop it is in
  gated,      \* the approval policy gates this run's write
  review,     \* AI_ETL_LLM_REVIEW_ENABLED
  documents,  \* document sources not yet loaded
  status,     \* PipelineState: status,
  error,      \*   whether error is set,
  silver,     \*   transformed_data,
  report,     \*   the severity of quality_report,
  usage,      \*   llm_usage
  written,    \* the destination has received the data
  row,        \* the status in the runs row, or "none"
  tasks,      \* sub-tasks of the Planner not yet answered
  repair,     \* the current sub-task is on its simplified question
  discarded,  \* tokens of the sub-task's first question
  current,    \* tokens of the question at work
  results,    \* tokens in the Gold and Science results
  planner,    \* planner_tokens
  advisor,    \* tokens of the Advisor's attempts
  priced,     \* the analysis_runs row, which holds the cost, exists
  cost,       \* its tokens
  answered,   \* history: model calls that answered
  unbooked,   \* history: those whose token usage no code reads
  analysed    \* history: the analysis layer was entered

configVars == <<gated, review>>
stateVars == <<status, error, silver, report, usage>>
taskVars == <<tasks, repair, discarded, current, results>>
costVars == <<planner, advisor, priced, cost>>
historyVars == <<answered, unbooked, analysed>>
vars == <<step, tries, configVars, documents, stateVars, written, row, taskVars,
          costVars, historyVars>>

Nodes == {"orchestrator", "extractor", "transformer", "quality", "loader"}
Analysis == {"planner", "task", "review", "advisor"}
Saves == {"save_run", "branch", "save_analysis", "save_latencies"}
Over == {"returned", "raised", "died"}

\* extract_token_usage of an answer: the call is made, and its tokens are known.
Answers == answered' = answered + 1 /\ UNCHANGED <<unbooked, analysed>>

\* An answer whose tokens are dropped on the spot.
AnswersUnbooked ==
  answered' = answered + 1 /\ unbooked' = unbooked + 1 /\ UNCHANGED analysed

-----------------------------------------------------------------------------
\* initial_state; a plan's document sources are drawn here, before the
\* Orchestrator's answer that names them.
Init ==
  /\ step = "orchestrator" /\ tries = 0
  /\ gated \in BOOLEAN /\ review \in BOOLEAN /\ documents \in 0..Documents
  /\ status = "running" /\ error = FALSE /\ silver = "none" /\ report = "none"
  /\ usage = 0
  /\ written = FALSE /\ row = "none"
  /\ tasks = 0 /\ repair = FALSE /\ discarded = 0 /\ current = 0 /\ results = 0
  /\ planner = 0 /\ advisor = 0 /\ priced = FALSE /\ cost = 0
  /\ answered = 0 /\ unbooked = 0 /\ analysed = FALSE

(***************************************************************************)
(* The Silver graph                                                        *)
(***************************************************************************)
GraphOnly == UNCHANGED <<configVars, row, taskVars, costVars>>

\* A node sets error and status; the graph goes on.
FailsAt(next) ==
  /\ error' = TRUE /\ status' = "failed"
  /\ step' = next /\ tries' = 0

\* The unconditional edges.
NextNode ==
  CASE step = "orchestrator" -> "extractor"
    [] step = "extractor" -> "transformer"
    [] step = "transformer" -> "quality"
    [] step = "quality" -> "loader"
    [] OTHER -> "save_run"

\* route_after_quality: only a report of severity "error" avoids the loader.
RouteAfterQuality(severity) == IF severity = "error" THEN "save_run" ELSE "loader"

PlanCreated ==
  /\ step = "orchestrator"
  /\ Answers /\ usage' = usage + 1
  /\ step' = NextNode /\ tries' = 0
  /\ UNCHANGED <<documents, status, error, silver, report, written>>
  /\ GraphOnly

PlanInvalid ==
  /\ step = "orchestrator"
  /\ Answers /\ usage' = usage + 1
  /\ IF tries + 1 < OrchestratorTries
     THEN tries' = tries + 1 /\ UNCHANGED <<step, error, status>>
     ELSE FailsAt(NextNode)
  /\ UNCHANGED <<documents, silver, report, written>>
  /\ GraphOnly

\* Every later node begins with: if state.get("error"): return state.  No report
\* exists then, and its default severity leads on to the loader.
ShortCircuit ==
  /\ step \in Nodes \ {"orchestrator"}
  /\ error
  /\ step' = IF step = "quality" THEN RouteAfterQuality(report) ELSE NextNode
  /\ UNCHANGED <<tries, documents, stateVars, written, historyVars>>
  /\ GraphOnly

\* load_document calls the model itself and keeps no token usage.
DocumentStructured ==
  /\ step = "extractor" /\ ~error /\ documents > 0
  /\ AnswersUnbooked
  /\ documents' = documents - 1
  /\ tries' = 0
  /\ UNCHANGED <<step, stateVars, written>>
  /\ GraphOnly

DocumentUnusable ==
  /\ step = "extractor" /\ ~error /\ documents > 0
  /\ AnswersUnbooked
  /\ IF tries + 1 < DocumentTries
     THEN tries' = tries + 1 /\ UNCHANGED <<step, error, status>>
     ELSE FailsAt(NextNode)
  /\ UNCHANGED <<documents, silver, report, usage, written>>
  /\ GraphOnly

\* Any exception of a source, a document's failed model call included.
SourceFails ==
  /\ step = "extractor" /\ ~error
  /\ FailsAt(NextNode)
  /\ UNCHANGED <<documents, silver, report, usage, written, historyVars>>
  /\ GraphOnly

Extracted ==
  /\ step = "extractor" /\ ~error /\ documents = 0
  /\ step' = NextNode
  /\ UNCHANGED <<tries, documents, stateVars, written, historyVars>>
  /\ GraphOnly

Transformed(data) ==
  /\ step = "transformer" /\ ~error
  /\ Answers /\ usage' = usage + 1
  /\ silver' = data
  /\ step' = NextNode /\ tries' = 0
  /\ UNCHANGED <<documents, status, error, report, written>>
  /\ GraphOnly

\* The code failed in the sandbox, or it removed a decimal point.
TransformInvalid ==
  /\ step = "transformer" /\ ~error
  /\ Answers /\ usage' = usage + 1
  /\ IF tries + 1 < TransformerTries
     THEN tries' = tries + 1 /\ UNCHANGED <<step, error, status>>
     ELSE FailsAt(NextNode)
  /\ UNCHANGED <<documents, silver, report, written>>
  /\ GraphOnly

QualityPasses ==
  /\ step = "quality" /\ ~error
  /\ report' = "ok"
  /\ step' = RouteAfterQuality("ok")
  /\ UNCHANGED <<tries, documents, status, error, silver, usage, written, historyVars>>
  /\ GraphOnly

\* A mistake: the state is left "running".
QualityBlocksSilently ==
  /\ step = "quality" /\ ~error
  /\ report' = "error"
  /\ step' = RouteAfterQuality("error")
  /\ UNCHANGED <<tries, documents, status, error, silver, usage, written, historyVars>>
  /\ GraphOnly

QualityBlocks ==
  /\ step = "quality" /\ ~error
  /\ report' = "error"
  /\ FailsAt(RouteAfterQuality("error"))
  /\ UNCHANGED <<documents, silver, usage, written, historyVars>>
  /\ GraphOnly

\* The write waits for an approval: only a preview is built.
LoadGated ==
  /\ step = "loader" /\ ~error /\ gated
  /\ status' = "awaiting_approval"
  /\ step' = NextNode
  /\ UNCHANGED <<tries, documents, error, silver, report, usage, written, historyVars>>
  /\ GraphOnly

\* A mistake: without the early return of a failed state.
LoadedAnyway ==
  /\ step = "loader" /\ ~gated
  /\ written' = TRUE /\ status' = "completed"
  /\ step' = NextNode
  /\ UNCHANGED <<tries, documents, error, silver, report, usage, historyVars>>
  /\ GraphOnly

Loaded ==
  /\ step = "loader" /\ ~error /\ ~gated
  /\ written' = TRUE /\ status' = "completed"
  /\ step' = NextNode
  /\ UNCHANGED <<tries, documents, error, silver, report, usage, historyVars>>
  /\ GraphOnly

\* The preview fails; or the write does, possibly after the data has arrived.
LoadFails ==
  /\ step = "loader" /\ ~error
  /\ written' \in IF gated THEN {FALSE} ELSE BOOLEAN
  /\ FailsAt(NextNode)
  /\ UNCHANGED <<documents, silver, report, usage, historyVars>>
  /\ GraphOnly

\* save_run; its artifacts and its row are the subject of Approval.
SaveRun ==
  /\ step = "save_run"
  /\ row' = status
  /\ step' = "branch"
  /\ UNCHANGED <<tries, configVars, documents, stateVars, written, taskVars,
                 costVars, historyVars>>

(***************************************************************************)
(* The analysis layer, after save_stage_latencies of the Silver graph      *)
(***************************************************************************)
AnalysisOnly == UNCHANGED <<configVars, documents, stateVars, written, row, priced, cost>>

\* A mistake: data may be there and empty.
NoDataMissing ==
  /\ step = "branch" /\ silver = "none"
  /\ step' = "returned"
  /\ UNCHANGED <<tries, taskVars, planner, advisor, historyVars>>
  /\ AnalysisOnly

\* The branch tests transformed_data alone, not the status of the run.
NoData ==
  /\ step = "branch" /\ silver \in {"none", "empty"}
  /\ step' = "returned"
  /\ UNCHANGED <<tries, taskVars, planner, advisor, historyVars>>
  /\ AnalysisOnly

\* A mistake: no cost row for the tokens of the Silver graph.
TooFewRowsUnsaved ==
  /\ step = "branch" /\ silver = "few"
  /\ step' = "returned"
  /\ UNCHANGED <<tries, taskVars, planner, advisor, historyVars>>
  /\ AnalysisOnly

TooFewRows ==
  /\ step = "branch" /\ silver = "few"
  /\ step' = "save_analysis"
  /\ UNCHANGED <<tries, taskVars, planner, advisor, historyVars>>
  /\ AnalysisOnly

BeginAnalysis ==
  /\ step = "branch" /\ silver = "enough"
  /\ step' = "planner"
  /\ analysed' = TRUE
  /\ UNCHANGED <<tries, taskVars, planner, advisor, answered, unbooked>>
  /\ AnalysisOnly

\* n sub-tasks; an unusable answer is one sub-task, and has been paid for.
Planned(n) ==
  /\ step = "planner"
  /\ Answers /\ planner' = planner + 1
  /\ tasks' = n
  /\ step' = "task"
  /\ UNCHANGED <<tries, repair, discarded, current, results, advisor>>
  /\ AnalysisOnly

PlannerCallFails ==
  /\ step = "planner"
  /\ tasks' = 1
  /\ step' = "task"
  /\ UNCHANGED <<tries, repair, discarded, current, results, planner, advisor, historyVars>>
  /\ AnalysisOnly

\* A mistake: one sub-task too many.
EndTaskLate(tokens) ==
  /\ results' = results + discarded + tokens
  /\ discarded' = 0 /\ current' = 0 /\ repair' = FALSE /\ tries' = 0
  /\ tasks' = tasks - 1
  /\ step' = IF tasks > 0 THEN "task" ELSE "advisor"

\* The sub-task's result, with the tokens of both of its questions.
EndTask(tokens) ==
  /\ results' = results + discarded + tokens
  /\ discarded' = 0 /\ current' = 0 /\ repair' = FALSE /\ tries' = 0
  /\ tasks' = tasks - 1
  /\ step' = IF tasks > 1 THEN "task" ELSE "advisor"

\* A mistake: the discarded question's tokens are lost.
RepairUncounted ==
  /\ repair' = TRUE
  /\ discarded' = 0 /\ current' = 0 /\ tries' = 0
  /\ UNCHANGED <<step, tasks, results>>

\* A mistake: a repair that is not remembered.
RepairAgain ==
  /\ discarded' = discarded + current + 1
  /\ current' = 0 /\ tries' = 0
  /\ UNCHANGED <<step, tasks, repair, results>>

\* The simplified question, if the first one has used up its attempts.
Repair ==
  /\ repair' = TRUE
  /\ discarded' = current + 1
  /\ current' = 0 /\ tries' = 0
  /\ UNCHANGED <<step, tasks, results>>

TaskAnswered ==
  /\ step = "task"
  /\ Answers
  /\ IF review
     THEN /\ current' = current + 1
          /\ step' = "review"
          /\ UNCHANGED <<tries, tasks, repair, discarded, results>>
     ELSE EndTask(current + 1)
  /\ UNCHANGED <<planner, advisor>>
  /\ AnalysisOnly

\* The code stated figures of its own, failed, timed out or left no result.
TaskInvalid ==
  /\ step = "task"
  /\ Answers
  /\ IF tries + 1 < AnalystTries
     THEN /\ tries' = tries + 1 /\ current' = current + 1
          /\ UNCHANGED <<step, tasks, repair, discarded, results>>
     ELSE IF repair THEN EndTask(current + 1) ELSE Repair
  /\ UNCHANGED <<planner, advisor>>
  /\ AnalysisOnly

Reviewed ==
  /\ step = "review"
  /\ Answers
  /\ EndTask(current + 1)
  /\ UNCHANGED <<planner, advisor>>
  /\ AnalysisOnly

\* _run_review returns zero tokens when the answer cannot be parsed.
ReviewUnusable ==
  /\ step = "review"
  /\ AnswersUnbooked
  /\ EndTask(current)
  /\ UNCHANGED <<planner, advisor>>
  /\ AnalysisOnly

ReviewCallFails ==
  /\ step = "review"
  /\ EndTask(current)
  /\ UNCHANGED <<planner, advisor, historyVars>>
  /\ AnalysisOnly

Advised ==
  /\ step = "advisor"
  /\ Answers /\ advisor' = advisor + 1
  /\ step' = "save_analysis" /\ tries' = 0
  /\ UNCHANGED <<taskVars, planner>>
  /\ AnalysisOnly

\* The second invalid answer makes an error result, which is saved like another.
AdviceInvalid ==
  /\ step = "advisor"
  /\ Answers /\ advisor' = advisor + 1
  /\ IF tries + 1 < AdvisorTries
     THEN tries' = tries + 1 /\ UNCHANGED step
     ELSE tries' = 0 /\ step' = "save_analysis"
  /\ UNCHANGED <<taskVars, planner>>
  /\ AnalysisOnly

\* An answer that is JSON but no object: run_advisor does not catch AttributeError.
AdviceNotAnObject ==
  /\ step = "advisor"
  /\ Answers /\ advisor' = advisor + 1
  /\ step' = "raised"
  /\ UNCHANGED <<tries, taskVars, planner>>
  /\ AnalysisOnly

\* save_analysis: the cost of the results, of the Planner and of the Silver graph.
SaveAnalysis ==
  /\ step = "save_analysis"
  /\ priced' = TRUE
  /\ cost' = results + advisor + planner + usage
  /\ step' = IF analysed THEN "save_latencies" ELSE "returned"
  /\ UNCHANGED <<tries, configVars, documents, stateVars, written, row, taskVars,
                 planner, advisor, historyVars>>

SaveLatencies ==
  /\ step = "save_latencies"
  /\ step' = "returned"
  /\ UNCHANGED <<tries, configVars, documents, stateVars, written, row, taskVars,
                 costVars, historyVars>>

(***************************************************************************)
(* Exceptions that run_full_analysis does not catch                        *)
(***************************************************************************)
Ends(how) ==
  /\ step' = how
  /\ UNCHANGED <<tries, configVars, documents, stateVars, written, row, taskVars,
                 costVars, historyVars>>

\* invoke_llm raises: the call itself failed, or the circuit is open.
CallRaises ==
  /\ \/ step \in {"orchestrator", "task", "advisor"}
     \/ step = "transformer" /\ ~error
  /\ Ends("raised")

\* A container sandbox is not available; the call that wrote the code is paid for.
SandboxRaises ==
  /\ step = "task" \/ (step = "transformer" /\ ~error)
  /\ Answers
  /\ step' = "raised"
  /\ UNCHANGED <<tries, configVars, documents, stateVars, written, row, taskVars, costVars>>

\* A check fails on values it cannot hash, or the plan names no destination.
NodeRaises == step \in {"quality", "loader"} /\ ~error /\ Ends("raised")

SaveRaises == step \in Saves /\ Ends("raised")

\* The worker process dies.
Dies == step \notin Over /\ Ends("died")

-----------------------------------------------------------------------------
SilverStep ==
  \/ PlanCreated \/ PlanInvalid \/ ShortCircuit
  \/ DocumentStructured \/ DocumentUnusable \/ SourceFails \/ Extracted
  \/ \E data \in {"empty", "few", "enough"} : Transformed(data)
  \/ TransformInvalid
  \/ QualityPasses \/ QualityBlocks
  \/ LoadGated \/ Loaded \/ LoadFails
  \/ SaveRun

AnalysisStep ==
  \/ NoData \/ TooFewRows \/ BeginAnalysis
  \/ \E n \in 1..MaxTasks : Planned(n)
  \/ PlannerCallFails
  \/ TaskAnswered \/ TaskInvalid
  \/ Reviewed \/ ReviewUnusable \/ ReviewCallFails
  \/ Advised \/ AdviceInvalid \/ AdviceNotAnObject
  \/ SaveAnalysis \/ SaveLatencies

Raise == CallRaises \/ SandboxRaises \/ NodeRaises \/ SaveRaises

Next == SilverStep \/ AnalysisStep \/ Raise \/ Dies

Spec == Init /\ [][Next]_vars

\* Model calls, sandboxes, sources and saves all return or raise, and the run
\* goes on; that it fails or dies is not relied on.
FairSpec == Spec /\ WF_vars(SilverStep \/ AnalysisStep)

-----------------------------------------------------------------------------
(* Properties                                                              *)

FlagsOK ==
  /\ gated \in BOOLEAN /\ review \in BOOLEAN /\ error \in BOOLEAN /\ written \in BOOLEAN
  /\ repair \in BOOLEAN /\ priced \in BOOLEAN /\ analysed \in BOOLEAN

RangesOK ==
  /\ step \in Nodes \cup Analysis \cup Saves \cup Over
  /\ tries \in 0..2 /\ documents \in 0..Documents /\ tasks \in 0..MaxTasks
  /\ status \in {"running", "completed", "failed", "awaiting_approval"}
  /\ row \in {"none", "running", "completed", "failed", "awaiting_approval"}
  /\ silver \in {"none", "empty", "few", "enough"}
  /\ report \in {"none", "ok", "error"}
  /\ usage \in Nat /\ discarded \in Nat /\ current \in Nat /\ results \in Nat
  /\ planner \in Nat /\ advisor \in Nat /\ cost \in Nat
  /\ answered \in Nat /\ unbooked \in 0..answered

\* Every retry loop stays within its attempts and the Planner within its tasks.
TypeOK == FlagsOK /\ RangesOK

\* The loader writes data that the Quality agent has passed, of a run whose
\* every node succeeded and whose policy does not gate it, and no other.
OnlyPassedDataLoaded ==
  written => report = "ok" /\ silver # "none" /\ ~gated

\* A saved row is never "running" nor failed without a reason; "completed" says
\* that the data is in the destination, "awaiting_approval" that it is not, and
\* that there is data which may be approved.
RowTellsTheTruth ==
  row # "none" =>
    /\ row # "running"
    /\ row = "failed" <=> error
    /\ row = "completed" => written
    /\ row = "awaiting_approval" => ~written /\ silver # "none"

\* The cost row holds every call that answered, over all retries, discarded
\* questions and repairs, except those whose usage the code never reads; no
\* call is made after it is written, and it is written once.
Ledger == INSTANCE CostLedger WITH
  spent <- answered - unbooked, booked <- cost, closed <- priced

KeepsCostLedger == Ledger!Spec

\* A run that returned has a cost row exactly if its data was not empty; one that
\* did not return may have none, whatever it has spent.
ReturnedIsPriced ==
  step = "returned" => (priced <=> silver \in {"few", "enough"})

\* The nested retries multiply to this: an execution cannot cost more.
MostCalls ==
  OrchestratorTries + DocumentTries * Documents + TransformerTries
    + 1 + (2 * AnalystTries + 1) * MaxTasks + AdvisorTries

CallsBounded == answered <= MostCalls

\* Every execution ends.
EndsAtLast == <>(step \in Over)

\* run_full_analysis: "If Silver fails or produces an empty/missing DataFrame,
\* Planner/Gold/Science/Advisor are skipped entirely".  The code skips them only
\* without data: a run that the Quality gate blocked, or whose load failed, is
\* analysed.
FailedIsNotAnalysed == analysed => row # "failed"
=============================================================================
