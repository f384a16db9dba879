------------------------- MODULE RunPipeline_proofs -------------------------
(***************************************************************************)
(* Proofs about RunPipeline, for every number of document sources and of   *)
(* sub-tasks.  Each invariant of the specification is strengthened by what *)
(* holds at each step, and proved action by action.                        *)
(***************************************************************************)
EXTENDS RunPipeline, TLAPS

\* A sub-task is at work only while one is left, and only a retry loop that has
\* failed has failed attempts; the loops of two attempts fail once at most.
RangesInv ==
  /\ RangesOK
  /\ step \in {"task", "review"} => tasks > 0
  /\ step \in {"orchestrator", "advisor"} => tries < 2
  /\ step \in {"quality", "loader", "planner"} \cup Saves => tries = 0
  /\ step = "extractor" /\ (error \/ documents = 0) => tries = 0
  /\ step \in {"transformer", "extractor"} /\ error => tries = 0

TypeInv == FlagsOK /\ RangesInv

\* What TaskInvalid does with the sub-task.
Retry ==
  /\ tries + 1 < AnalystTries
  /\ tries' = tries + 1 /\ current' = current + 1
  /\ UNCHANGED <<step, tasks, repair, discarded, results>>

\* Where every answered call is counted, at every step; an exception loses the count.
CostInv ==
  /\ step # "raised" =>
       answered = unbooked + usage + planner + results + discarded + current + advisor
  /\ step \notin {"task", "review", "raised", "died"} => discarded = 0 /\ current = 0
  /\ ~repair => discarded = 0
  /\ priced => cost + unbooked = answered /\ step \in {"save_latencies"} \cup Over
  /\ ~priced => cost = 0

\* What the graph has established by the step it has reached.
GraphInv ==
  /\ status = "failed" <=> error
  /\ step \in Nodes => status \in {"running", "failed"} /\ row = "none" /\ ~written
  /\ step \in Nodes \ {"loader"} => report = "none"
  /\ step = "quality" /\ ~error => silver # "none"
  /\ step = "loader" /\ ~error => silver # "none" /\ report = "ok"
  /\ step \in Analysis \cup Saves => status # "running"
  /\ row # "none" => row = status /\ status # "running"
  /\ status = "completed" => written
  /\ status = "awaiting_approval" => ~written /\ silver # "none"
  /\ OnlyPassedDataLoaded

\* Data has reached the analysis layer, and is priced before the run returns.
PricedInv ==
  /\ step \in Analysis => silver = "enough"
  /\ step \in {"save_analysis", "save_latencies"} => silver \in {"few", "enough"}
  /\ step = "save_latencies" => priced
  /\ ReturnedIsPriced

\* The calls that the analysis layer may still make for n sub-tasks and the advice.
CallsFor(n) == (2 * AnalystTries + 1) * n + AdvisorTries

\* The calls that an execution may still make.
CallsLeft ==
  CASE step = "orchestrator" ->
         OrchestratorTries - tries + DocumentTries * documents + TransformerTries + 1
           + CallsFor(MaxTasks)
    [] step = "extractor" ->
         DocumentTries * documents - tries + TransformerTries + 1 + CallsFor(MaxTasks)
    [] step = "transformer" -> TransformerTries - tries + 1 + CallsFor(MaxTasks)
    [] step \in {"quality", "loader", "save_run", "branch", "planner"} ->
         1 + CallsFor(MaxTasks)
    [] step = "task" ->
         (IF repair THEN AnalystTries ELSE 2 * AnalystTries) + 1 - tries
           + CallsFor(tasks - 1)
    [] step = "review" -> 1 + CallsFor(tasks - 1)
    [] step = "advisor" -> AdvisorTries - tries
    [] OTHER -> 0

\* The calls made and those left never exceed the bound.
CallsInv == answered + CallsLeft <= MostCalls

-----------------------------------------------------------------------------
\* An invalid attempt is paid for.
LEMMA InvalidPaid ==
  ASSUME TaskInvalid
  PROVE  step = "task" /\ Answers /\ UNCHANGED <<planner, advisor>> /\ AnalysisOnly
BY DEF TaskInvalid

\* What an invalid attempt leads to.
LEMMA InvalidCases ==
  ASSUME TaskInvalid, tries \in 0..2
  PROVE  Retry \/ (~repair /\ Repair) \/ EndTask(current + 1)
BY DEF TaskInvalid, Retry, AnalystTries

\* The flags are Boolean.
LEMMA FlagsInvariant == Spec => []FlagsOK
<1>1. Init => FlagsOK
  BY DEF Init, FlagsOK
<1>2. FlagsOK /\ [Next]_vars => FlagsOK'
  <2> SUFFICES ASSUME FlagsOK, [Next]_vars PROVE FlagsOK'
        OBVIOUS
  <2> USE DEF FlagsOK, configVars, stateVars, taskVars, costVars, historyVars
  <2>1. CASE SilverStep
        BY <2>1, ZenonT(60) DEF SilverStep, PlanCreated, PlanInvalid, ShortCircuit, DocumentStructured,
            DocumentUnusable, SourceFails, Extracted, Transformed, TransformInvalid,
            QualityPasses, QualityBlocks, LoadGated, Loaded, LoadFails, SaveRun, Answers,
            AnswersUnbooked, GraphOnly, FailsAt
  <2>2. CASE AnalysisStep
        BY <2>2, ZenonT(60) DEF AnalysisStep, NoData, TooFewRows, BeginAnalysis, Planned,
            PlannerCallFails, TaskAnswered, TaskInvalid, Reviewed, ReviewUnusable,
            ReviewCallFails, Advised, AdviceInvalid, AdviceNotAnObject, SaveAnalysis,
            SaveLatencies, Answers, AnswersUnbooked, AnalysisOnly, EndTask, Repair
  <2>3. CASE Raise \/ Dies
        BY <2>3 DEF Raise, CallRaises, SandboxRaises, NodeRaises, SaveRaises,
            Dies, Ends, Answers
  <2>4. CASE UNCHANGED vars
        BY <2>4 DEF vars
  <2>5. QED
        BY <2>1, <2>2, <2>3, <2>4 DEF Next
<1>3. QED
  BY <1>1, <1>2, PTL DEF Spec

\* RangesInv is inductive, given the flags.
LEMMA RangesInvariant == Spec => []RangesInv
<1>1. Init => RangesInv
  BY DocumentsAssumption, TasksAssumption DEF Init, RangesInv, RangesOK, Nodes, Analysis,
         Saves, Over
<1>2. RangesInv /\ FlagsOK /\ [Next]_vars => RangesInv'
  <2> SUFFICES ASSUME RangesInv, FlagsOK, [Next]_vars PROVE RangesInv'
        OBVIOUS
  <2> USE DEF RangesInv, RangesOK, Nodes, Analysis, Saves, Over, FlagsOK, configVars,
              stateVars, taskVars, costVars, historyVars
  <2>1. CASE PlanCreated
        BY <2>1, DocumentsAssumption, TasksAssumption DEF PlanCreated, Answers, NextNode,
            GraphOnly
  <2>2. CASE PlanInvalid
    <3>1. CASE tries + 1 < OrchestratorTries
          BY <2>2, <3>1, DocumentsAssumption, TasksAssumption DEF PlanInvalid, Answers,
              NextNode, GraphOnly, FailsAt, OrchestratorTries
    <3>2. CASE ~(tries + 1 < OrchestratorTries)
          BY <2>2, <3>2, DocumentsAssumption, TasksAssumption DEF PlanInvalid, Answers,
              NextNode, GraphOnly, FailsAt, OrchestratorTries
    <3>3. QED
          BY <2>2, DocumentsAssumption, TasksAssumption, <3>1, <3>2 DEF PlanInvalid
  <2>3. CASE ShortCircuit
        BY <2>3, DocumentsAssumption, TasksAssumption DEF ShortCircuit, RouteAfterQuality,
            NextNode, GraphOnly, Nodes
  <2>4. CASE DocumentStructured
        BY <2>4, DocumentsAssumption, TasksAssumption DEF DocumentStructured,
            AnswersUnbooked, GraphOnly
  <2>5. CASE DocumentUnusable
    <3>1. CASE tries + 1 < DocumentTries
          BY <2>5, <3>1, DocumentsAssumption, TasksAssumption DEF DocumentUnusable,
              AnswersUnbooked, NextNode, GraphOnly, FailsAt, DocumentTries
    <3>2. CASE ~(tries + 1 < DocumentTries)
          BY <2>5, <3>2, DocumentsAssumption, TasksAssumption DEF DocumentUnusable,
              AnswersUnbooked, NextNode, GraphOnly, FailsAt, DocumentTries
    <3>3. QED
          BY <2>5, DocumentsAssumption, TasksAssumption, <3>1, <3>2 DEF DocumentUnusable
  <2>6. CASE SourceFails
        BY <2>6, DocumentsAssumption, TasksAssumption DEF SourceFails, NextNode, GraphOnly,
            FailsAt
  <2>7. CASE Extracted
        BY <2>7, DocumentsAssumption, TasksAssumption DEF Extracted, NextNode, GraphOnly
  <2>8. ASSUME NEW data \in {"empty", "few", "enough"}, Transformed(data)
          PROVE  RangesInv'
        BY <2>8, DocumentsAssumption, TasksAssumption DEF Transformed, Answers, NextNode,
            GraphOnly
  <2>9. CASE TransformInvalid
    <3>1. CASE tries + 1 < TransformerTries
          BY <2>9, <3>1, DocumentsAssumption, TasksAssumption DEF TransformInvalid, Answers,
              NextNode, GraphOnly, FailsAt, TransformerTries
    <3>2. CASE ~(tries + 1 < TransformerTries)
          BY <2>9, <3>2, DocumentsAssumption, TasksAssumption DEF TransformInvalid, Answers,
              NextNode, GraphOnly, FailsAt, TransformerTries
    <3>3. QED
          BY <2>9, DocumentsAssumption, TasksAssumption, <3>1, <3>2 DEF TransformInvalid
  <2>10. CASE QualityPasses
        BY <2>10, DocumentsAssumption, TasksAssumption DEF QualityPasses, RouteAfterQuality,
            GraphOnly
  <2>11. CASE QualityBlocks
        BY <2>11, DocumentsAssumption, TasksAssumption DEF QualityBlocks, RouteAfterQuality,
            GraphOnly, FailsAt
  <2>12. CASE LoadGated
        BY <2>12, DocumentsAssumption, TasksAssumption DEF LoadGated, NextNode, GraphOnly
  <2>13. CASE Loaded
        BY <2>13, DocumentsAssumption, TasksAssumption DEF Loaded, NextNode, GraphOnly
  <2>14. CASE LoadFails
        BY <2>14, DocumentsAssumption, TasksAssumption DEF LoadFails, NextNode, GraphOnly,
            FailsAt
  <2>15. CASE SaveRun
        BY <2>15, DocumentsAssumption, TasksAssumption DEF SaveRun
  <2>16. CASE NoData
        BY <2>16, DocumentsAssumption, TasksAssumption DEF NoData, AnalysisOnly
  <2>17. CASE TooFewRows
        BY <2>17, DocumentsAssumption, TasksAssumption DEF TooFewRows, AnalysisOnly
  <2>18. CASE BeginAnalysis
        BY <2>18, DocumentsAssumption, TasksAssumption DEF BeginAnalysis, AnalysisOnly
  <2>19. ASSUME NEW n \in 1..MaxTasks, Planned(n)
          PROVE  RangesInv'
        BY <2>19, DocumentsAssumption, TasksAssumption DEF Planned, Answers, AnalysisOnly
  <2>20. CASE PlannerCallFails
        BY <2>20, DocumentsAssumption, TasksAssumption DEF PlannerCallFails, AnalysisOnly
  <2>21. CASE TaskAnswered
    <3>1. CASE review
          BY <2>21, <3>1, DocumentsAssumption, TasksAssumption DEF TaskAnswered, Answers,
              EndTask, AnalysisOnly
    <3>2. CASE ~review /\ tasks > 1
          BY <2>21, <3>2, DocumentsAssumption, TasksAssumption DEF TaskAnswered, Answers,
              EndTask, AnalysisOnly
    <3>3. CASE ~review /\ tasks = 1
          BY <2>21, <3>3, DocumentsAssumption, TasksAssumption DEF TaskAnswered, Answers,
              EndTask, AnalysisOnly
    <3>4. QED
          BY <2>21, DocumentsAssumption, TasksAssumption, <3>1, <3>2, <3>3 DEF TaskAnswered
  <2>22. CASE TaskInvalid
    <3>1. CASE Retry
          BY <2>22, <3>1, InvalidPaid, DocumentsAssumption, TasksAssumption DEF Answers,
              AnalysisOnly, Retry, AnalystTries
    <3>2. CASE ~repair /\ Repair
          BY <2>22, <3>2, InvalidPaid, DocumentsAssumption, TasksAssumption DEF Answers,
              AnalysisOnly, Repair
    <3>3. CASE EndTask(current + 1) /\ tasks > 1
          BY <2>22, <3>3, InvalidPaid, DocumentsAssumption, TasksAssumption DEF Answers,
              AnalysisOnly, EndTask
    <3>4. CASE EndTask(current + 1) /\ tasks = 1
          BY <2>22, <3>4, InvalidPaid, DocumentsAssumption, TasksAssumption DEF Answers,
              AnalysisOnly, EndTask
    <3>5. Retry \/ (~repair /\ Repair) \/ EndTask(current + 1)
          BY <2>22, InvalidCases
    <3>6. tasks > 1 \/ tasks = 1
          BY <2>22, InvalidPaid, DocumentsAssumption, TasksAssumption
    <3>7. QED
          BY <3>1, <3>2, <3>3, <3>4, <3>5, <3>6
  <2>23. CASE Reviewed
    <3>1. CASE tasks > 1
          BY <2>23, <3>1, DocumentsAssumption, TasksAssumption DEF Reviewed, Answers,
              EndTask, AnalysisOnly
    <3>2. CASE tasks = 1
          BY <2>23, <3>2, DocumentsAssumption, TasksAssumption DEF Reviewed, Answers,
              EndTask, AnalysisOnly
    <3>3. QED
          BY <2>23, DocumentsAssumption, TasksAssumption, <3>1, <3>2 DEF Reviewed
  <2>24. CASE ReviewUnusable
    <3>1. CASE tasks > 1
          BY <2>24, <3>1, DocumentsAssumption, TasksAssumption DEF ReviewUnusable,
              AnswersUnbooked, EndTask, AnalysisOnly
    <3>2. CASE tasks = 1
          BY <2>24, <3>2, DocumentsAssumption, TasksAssumption DEF ReviewUnusable,
              AnswersUnbooked, EndTask, AnalysisOnly
    <3>3. QED
          BY <2>24, DocumentsAssumption, TasksAssumption, <3>1, <3>2 DEF ReviewUnusable
  <2>25. CASE ReviewCallFails
    <3>1. CASE tasks > 1
          BY <2>25, <3>1, DocumentsAssumption, TasksAssumption DEF ReviewCallFails, EndTask,
              AnalysisOnly
    <3>2. CASE tasks = 1
          BY <2>25, <3>2, DocumentsAssumption, TasksAssumption DEF ReviewCallFails, EndTask,
              AnalysisOnly
    <3>3. QED
          BY <2>25, DocumentsAssumption, TasksAssumption, <3>1, <3>2 DEF ReviewCallFails
  <2>26. CASE Advised
        BY <2>26, DocumentsAssumption, TasksAssumption DEF Advised, Answers, AnalysisOnly
  <2>27. CASE AdviceInvalid
        BY <2>27, DocumentsAssumption, TasksAssumption DEF AdviceInvalid, Answers,
            AnalysisOnly, AdvisorTries
  <2>28. CASE AdviceNotAnObject
        BY <2>28, DocumentsAssumption, TasksAssumption DEF AdviceNotAnObject, Answers,
            AnalysisOnly
  <2>29. CASE SaveAnalysis
        BY <2>29, DocumentsAssumption, TasksAssumption DEF SaveAnalysis
  <2>30. CASE SaveLatencies
        BY <2>30, DocumentsAssumption, TasksAssumption DEF SaveLatencies
  <2>31. CASE CallRaises
        BY <2>31, DocumentsAssumption, TasksAssumption DEF CallRaises, Ends
  <2>32. CASE SandboxRaises
        BY <2>32, DocumentsAssumption, TasksAssumption DEF SandboxRaises, Answers
  <2>33. CASE NodeRaises
        BY <2>33, DocumentsAssumption, TasksAssumption DEF NodeRaises, Ends
  <2>34. CASE SaveRaises
        BY <2>34, DocumentsAssumption, TasksAssumption DEF SaveRaises, Ends, Saves
  <2>35. CASE Dies
        BY <2>35, DocumentsAssumption, TasksAssumption DEF Dies, Ends, Over
  <2>36. CASE UNCHANGED vars
        BY <2>36, DocumentsAssumption, TasksAssumption DEF vars
  <2>37. QED
        BY <2>1, <2>2, <2>3, <2>4, <2>5, <2>6, <2>7, <2>8, <2>9, <2>10, <2>11, <2>12, <2>13,
           <2>14, <2>15, <2>16, <2>17, <2>18, <2>19, <2>20, <2>21, <2>22, <2>23, <2>24,
           <2>25, <2>26, <2>27, <2>28, <2>29, <2>30, <2>31, <2>32, <2>33, <2>34, <2>35,
           <2>36 DEF Next, SilverStep, AnalysisStep, Raise
<1>3. QED
  BY <1>1, <1>2, FlagsInvariant, PTL DEF Spec

\* Both together are what the lemmas below take as given.
LEMMA TypeInvariant == Spec => []TypeInv
BY FlagsInvariant, RangesInvariant, PTL DEF TypeInv

\* Type correctness: the counters stay natural numbers and within their loops.
THEOREM TypeCorrect == Spec => []TypeOK
BY TypeInvariant, PTL DEF TypeInv, RangesInv, TypeOK

-----------------------------------------------------------------------------
\* CostInv is inductive, given the types.
LEMMA CostInvariant == Spec => []CostInv
<1>1. Init => CostInv
  BY DEF Init, CostInv, Nodes, Analysis, Saves, Over
<1>2. CostInv /\ TypeInv /\ [Next]_vars => CostInv'
  <2> SUFFICES ASSUME CostInv, TypeInv, [Next]_vars PROVE CostInv'
        OBVIOUS
  <2> USE DEF CostInv, Nodes, Analysis, Saves, Over, TypeInv, FlagsOK, RangesInv, RangesOK,
              configVars, stateVars, taskVars, costVars, historyVars
  <2>1. CASE PlanCreated
        BY <2>1 DEF PlanCreated, Answers, NextNode, GraphOnly
  <2>2. CASE PlanInvalid
        BY <2>2 DEF PlanInvalid, Answers, NextNode, GraphOnly, FailsAt, OrchestratorTries
  <2>3. CASE ShortCircuit
        BY <2>3 DEF ShortCircuit, RouteAfterQuality, NextNode, GraphOnly, Nodes
  <2>4. CASE DocumentStructured
        BY <2>4 DEF DocumentStructured, AnswersUnbooked, GraphOnly
  <2>5. CASE DocumentUnusable
        BY <2>5 DEF DocumentUnusable, AnswersUnbooked, NextNode, GraphOnly, FailsAt,
            DocumentTries
  <2>6. CASE SourceFails
        BY <2>6 DEF SourceFails, NextNode, GraphOnly, FailsAt
  <2>7. CASE Extracted
        BY <2>7 DEF Extracted, NextNode, GraphOnly
  <2>8. ASSUME NEW data \in {"empty", "few", "enough"}, Transformed(data)
          PROVE  CostInv'
        BY <2>8 DEF Transformed, Answers, NextNode, GraphOnly
  <2>9. CASE TransformInvalid
        BY <2>9 DEF TransformInvalid, Answers, NextNode, GraphOnly, FailsAt,
            TransformerTries
  <2>10. CASE QualityPasses
        BY <2>10 DEF QualityPasses, RouteAfterQuality, GraphOnly
  <2>11. CASE QualityBlocks
        BY <2>11 DEF QualityBlocks, RouteAfterQuality, GraphOnly, FailsAt
  <2>12. CASE LoadGated
        BY <2>12 DEF LoadGated, NextNode, GraphOnly
  <2>13. CASE Loaded
        BY <2>13 DEF Loaded, NextNode, GraphOnly
  <2>14. CASE LoadFails
        BY <2>14 DEF LoadFails, NextNode, GraphOnly, FailsAt
  <2>15. CASE SaveRun
        BY <2>15 DEF SaveRun
  <2>16. CASE NoData
        BY <2>16 DEF NoData, AnalysisOnly
  <2>17. CASE TooFewRows
        BY <2>17 DEF TooFewRows, AnalysisOnly
  <2>18. CASE BeginAnalysis
        BY <2>18 DEF BeginAnalysis, AnalysisOnly
  <2>19. ASSUME NEW n \in 1..MaxTasks, Planned(n)
          PROVE  CostInv'
        BY <2>19 DEF Planned, Answers, AnalysisOnly
  <2>20. CASE PlannerCallFails
        BY <2>20 DEF PlannerCallFails, AnalysisOnly
  <2>21. CASE TaskAnswered
    <3>1. CASE review
          BY <2>21, <3>1 DEF TaskAnswered, Answers, EndTask, AnalysisOnly
    <3>2. CASE ~review
          BY <2>21, <3>2 DEF TaskAnswered, Answers, EndTask, AnalysisOnly
    <3>3. QED
          BY <2>21, <3>1, <3>2 DEF TaskAnswered
  <2>22. CASE TaskInvalid
    <3>1. CASE Retry
          BY <2>22, <3>1, InvalidPaid DEF Answers, AnalysisOnly, Retry, AnalystTries
    <3>2. CASE ~repair /\ Repair
          BY <2>22, <3>2, InvalidPaid DEF Answers, AnalysisOnly, Repair
    <3>3. CASE EndTask(current + 1) /\ tasks > 1
          BY <2>22, <3>3, InvalidPaid DEF Answers, AnalysisOnly, EndTask
    <3>4. CASE EndTask(current + 1) /\ tasks = 1
          BY <2>22, <3>4, InvalidPaid DEF Answers, AnalysisOnly, EndTask
    <3>5. Retry \/ (~repair /\ Repair) \/ EndTask(current + 1)
          BY <2>22, InvalidCases
    <3>6. tasks > 1 \/ tasks = 1
          BY <2>22, InvalidPaid
    <3>7. QED
          BY <3>1, <3>2, <3>3, <3>4, <3>5, <3>6
  <2>23. CASE Reviewed
        BY <2>23 DEF Reviewed, Answers, EndTask, AnalysisOnly
  <2>24. CASE ReviewUnusable
        BY <2>24 DEF ReviewUnusable, AnswersUnbooked, EndTask, AnalysisOnly
  <2>25. CASE ReviewCallFails
        BY <2>25 DEF ReviewCallFails, EndTask, AnalysisOnly
  <2>26. CASE Advised
        BY <2>26 DEF Advised, Answers, AnalysisOnly
  <2>27. CASE AdviceInvalid
        BY <2>27 DEF AdviceInvalid, Answers, AnalysisOnly, AdvisorTries
  <2>28. CASE AdviceNotAnObject
        BY <2>28 DEF AdviceNotAnObject, Answers, AnalysisOnly
  <2>29. CASE SaveAnalysis
        BY <2>29 DEF SaveAnalysis
  <2>30. CASE SaveLatencies
        BY <2>30 DEF SaveLatencies
  <2>31. CASE CallRaises
        BY <2>31 DEF CallRaises, Ends
  <2>32. CASE SandboxRaises
        BY <2>32 DEF SandboxRaises, Answers
  <2>33. CASE NodeRaises
        BY <2>33 DEF NodeRaises, Ends
  <2>34. CASE SaveRaises
        BY <2>34 DEF SaveRaises, Ends, Saves
  <2>35. CASE Dies
        BY <2>35 DEF Dies, Ends, Over
  <2>36. CASE UNCHANGED vars
        BY <2>36 DEF vars
  <2>37. QED
        BY <2>1, <2>2, <2>3, <2>4, <2>5, <2>6, <2>7, <2>8, <2>9, <2>10, <2>11, <2>12, <2>13,
           <2>14, <2>15, <2>16, <2>17, <2>18, <2>19, <2>20, <2>21, <2>22, <2>23, <2>24,
           <2>25, <2>26, <2>27, <2>28, <2>29, <2>30, <2>31, <2>32, <2>33, <2>34, <2>35,
           <2>36 DEF Next, SilverStep, AnalysisStep, Raise
<1>3. QED
  BY <1>1, <1>2, TypeInvariant, PTL DEF Spec

\* run_full_analysis implements CostLedger: save_analysis books, once, every call
\* that answered and whose usage the code reads, and no call follows.
THEOREM LedgerCorrect == Spec => KeepsCostLedger
<1>1. Init => Ledger!Init
  BY DEF Init, Ledger!Init
<1>2. CostInv /\ CostInv' /\ TypeInv /\ [Next]_vars
        => [Ledger!Next]_<<answered - unbooked, cost, priced>>
  <2> SUFFICES ASSUME CostInv, CostInv', TypeInv, [Next]_vars
               PROVE  Ledger!Spend \/ Ledger!Book
                        \/ UNCHANGED <<answered - unbooked, cost, priced>>
        BY DEF Ledger!Next
  <2> USE DEF CostInv, TypeInv, FlagsOK, RangesInv, RangesOK, Over, configVars, stateVars,
              taskVars, costVars, historyVars
  <2>1. ASSUME PlanCreated PROVE Ledger!Spend
        BY <2>1 DEF PlanCreated, Answers, GraphOnly, Ledger!Spend
  <2>2. ASSUME PlanInvalid PROVE Ledger!Spend
        BY <2>2 DEF PlanInvalid, Answers, GraphOnly, Ledger!Spend
  <2>3. ASSUME ShortCircuit PROVE UNCHANGED <<answered - unbooked, cost, priced>>
        BY <2>3 DEF ShortCircuit, GraphOnly
  <2>4. ASSUME DocumentStructured PROVE UNCHANGED <<answered - unbooked, cost, priced>>
        BY <2>4 DEF DocumentStructured, AnswersUnbooked, GraphOnly
  <2>5. ASSUME DocumentUnusable PROVE UNCHANGED <<answered - unbooked, cost, priced>>
        BY <2>5 DEF DocumentUnusable, AnswersUnbooked, GraphOnly
  <2>6. ASSUME SourceFails PROVE UNCHANGED <<answered - unbooked, cost, priced>>
        BY <2>6 DEF SourceFails, GraphOnly
  <2>7. ASSUME Extracted PROVE UNCHANGED <<answered - unbooked, cost, priced>>
        BY <2>7 DEF Extracted, GraphOnly
  <2>8. ASSUME NEW data \in {"empty", "few", "enough"}, Transformed(data)
          PROVE  Ledger!Spend
        BY <2>8 DEF Transformed, Answers, GraphOnly, Ledger!Spend
  <2>9. ASSUME TransformInvalid PROVE Ledger!Spend
        BY <2>9 DEF TransformInvalid, Answers, GraphOnly, Ledger!Spend
  <2>10. ASSUME QualityPasses PROVE UNCHANGED <<answered - unbooked, cost, priced>>
        BY <2>10 DEF QualityPasses, GraphOnly
  <2>11. ASSUME QualityBlocks PROVE UNCHANGED <<answered - unbooked, cost, priced>>
        BY <2>11 DEF QualityBlocks, GraphOnly
  <2>12. ASSUME LoadGated PROVE UNCHANGED <<answered - unbooked, cost, priced>>
        BY <2>12 DEF LoadGated, GraphOnly
  <2>13. ASSUME Loaded PROVE UNCHANGED <<answered - unbooked, cost, priced>>
        BY <2>13 DEF Loaded, GraphOnly
  <2>14. ASSUME LoadFails PROVE UNCHANGED <<answered - unbooked, cost, priced>>
        BY <2>14 DEF LoadFails, GraphOnly
  <2>15. ASSUME SaveRun PROVE UNCHANGED <<answered - unbooked, cost, priced>>
        BY <2>15 DEF SaveRun
  <2>16. ASSUME NoData PROVE UNCHANGED <<answered - unbooked, cost, priced>>
        BY <2>16 DEF NoData, AnalysisOnly
  <2>17. ASSUME TooFewRows PROVE UNCHANGED <<answered - unbooked, cost, priced>>
        BY <2>17 DEF TooFewRows, AnalysisOnly
  <2>18. ASSUME BeginAnalysis PROVE UNCHANGED <<answered - unbooked, cost, priced>>
        BY <2>18 DEF BeginAnalysis, AnalysisOnly
  <2>19. ASSUME NEW n \in 1..MaxTasks, Planned(n)
          PROVE  Ledger!Spend
        BY <2>19 DEF Planned, Answers, AnalysisOnly, Ledger!Spend
  <2>20. ASSUME PlannerCallFails PROVE UNCHANGED <<answered - unbooked, cost, priced>>
        BY <2>20 DEF PlannerCallFails, AnalysisOnly
  <2>21. ASSUME TaskAnswered PROVE Ledger!Spend
        BY <2>21 DEF TaskAnswered, Answers, AnalysisOnly, Ledger!Spend
  <2>22. ASSUME TaskInvalid PROVE Ledger!Spend
        BY <2>22 DEF TaskInvalid, Answers, AnalysisOnly, Ledger!Spend
  <2>23. ASSUME Reviewed PROVE Ledger!Spend
        BY <2>23 DEF Reviewed, Answers, AnalysisOnly, Ledger!Spend
  <2>24. ASSUME ReviewUnusable PROVE UNCHANGED <<answered - unbooked, cost, priced>>
        BY <2>24 DEF ReviewUnusable, AnswersUnbooked, AnalysisOnly
  <2>25. ASSUME ReviewCallFails PROVE UNCHANGED <<answered - unbooked, cost, priced>>
        BY <2>25 DEF ReviewCallFails, AnalysisOnly
  <2>26. ASSUME Advised PROVE Ledger!Spend
        BY <2>26 DEF Advised, Answers, AnalysisOnly, Ledger!Spend
  <2>27. ASSUME AdviceInvalid PROVE Ledger!Spend
        BY <2>27 DEF AdviceInvalid, Answers, AnalysisOnly, Ledger!Spend
  <2>28. ASSUME AdviceNotAnObject PROVE Ledger!Spend
        BY <2>28 DEF AdviceNotAnObject, Answers, AnalysisOnly, Ledger!Spend
  <2>29. ASSUME SaveAnalysis PROVE Ledger!Book
        BY <2>29 DEF SaveAnalysis, Ledger!Book
  <2>30. ASSUME SaveLatencies PROVE UNCHANGED <<answered - unbooked, cost, priced>>
        BY <2>30 DEF SaveLatencies
  <2>31. ASSUME CallRaises PROVE UNCHANGED <<answered - unbooked, cost, priced>>
        BY <2>31 DEF CallRaises, Ends
  <2>32. ASSUME SandboxRaises PROVE Ledger!Spend
        BY <2>32 DEF SandboxRaises, Answers, Ledger!Spend
  <2>33. ASSUME NodeRaises PROVE UNCHANGED <<answered - unbooked, cost, priced>>
        BY <2>33 DEF NodeRaises, Ends
  <2>34. ASSUME SaveRaises PROVE UNCHANGED <<answered - unbooked, cost, priced>>
        BY <2>34 DEF SaveRaises, Ends
  <2>35. ASSUME Dies PROVE UNCHANGED <<answered - unbooked, cost, priced>>
        BY <2>35 DEF Dies, Ends
  <2>36. ASSUME UNCHANGED vars PROVE UNCHANGED <<answered - unbooked, cost, priced>>
        BY <2>36 DEF vars
  <2>37. QED
        BY <2>1, <2>2, <2>3, <2>4, <2>5, <2>6, <2>7, <2>8, <2>9, <2>10, <2>11, <2>12, <2>13,
           <2>14, <2>15, <2>16, <2>17, <2>18, <2>19, <2>20, <2>21, <2>22, <2>23, <2>24,
           <2>25, <2>26, <2>27, <2>28, <2>29, <2>30, <2>31, <2>32, <2>33, <2>34, <2>35,
           <2>36 DEF Next, SilverStep, AnalysisStep, Raise
<1>3. QED
  BY <1>1, <1>2, TypeInvariant, CostInvariant, PTL DEF Spec, KeepsCostLedger, Ledger!Spec

-----------------------------------------------------------------------------
\* GraphInv is inductive, given the types.
LEMMA GraphInvariant == Spec => []GraphInv
<1>1. Init => GraphInv
  BY DEF Init, GraphInv, OnlyPassedDataLoaded, Nodes, Analysis, Saves, Over
<1>2. GraphInv /\ TypeInv /\ [Next]_vars => GraphInv'
  <2> SUFFICES ASSUME GraphInv, TypeInv, [Next]_vars PROVE GraphInv'
        OBVIOUS
  <2> USE DEF GraphInv, OnlyPassedDataLoaded, Nodes, Analysis, Saves, Over, TypeInv,
              FlagsOK, RangesInv, RangesOK, configVars, stateVars, taskVars, costVars,
              historyVars
  <2>1. CASE PlanCreated
        BY <2>1 DEF PlanCreated, Answers, NextNode, GraphOnly
  <2>2. CASE PlanInvalid
        BY <2>2 DEF PlanInvalid, Answers, NextNode, GraphOnly, FailsAt, OrchestratorTries
  <2>3. CASE ShortCircuit
        BY <2>3 DEF ShortCircuit, RouteAfterQuality, NextNode, GraphOnly, Nodes
  <2>4. CASE DocumentStructured
        BY <2>4 DEF DocumentStructured, AnswersUnbooked, GraphOnly
  <2>5. CASE DocumentUnusable
        BY <2>5 DEF DocumentUnusable, AnswersUnbooked, NextNode, GraphOnly, FailsAt,
            DocumentTries
  <2>6. CASE SourceFails
        BY <2>6 DEF SourceFails, NextNode, GraphOnly, FailsAt
  <2>7. CASE Extracted
        BY <2>7 DEF Extracted, NextNode, GraphOnly
  <2>8. ASSUME NEW data \in {"empty", "few", "enough"}, Transformed(data)
          PROVE  GraphInv'
        BY <2>8 DEF Transformed, Answers, NextNode, GraphOnly
  <2>9. CASE TransformInvalid
        BY <2>9 DEF TransformInvalid, Answers, NextNode, GraphOnly, FailsAt,
            TransformerTries
  <2>10. CASE QualityPasses
        BY <2>10 DEF QualityPasses, RouteAfterQuality, GraphOnly
  <2>11. CASE QualityBlocks
        BY <2>11 DEF QualityBlocks, RouteAfterQuality, GraphOnly, FailsAt
  <2>12. CASE LoadGated
        BY <2>12 DEF LoadGated, NextNode, GraphOnly
  <2>13. CASE Loaded
        BY <2>13 DEF Loaded, NextNode, GraphOnly
  <2>14. CASE LoadFails
        BY <2>14 DEF LoadFails, NextNode, GraphOnly, FailsAt
  <2>15. CASE SaveRun
        BY <2>15 DEF SaveRun
  <2>16. CASE NoData
        BY <2>16 DEF NoData, AnalysisOnly
  <2>17. CASE TooFewRows
        BY <2>17 DEF TooFewRows, AnalysisOnly
  <2>18. CASE BeginAnalysis
        BY <2>18 DEF BeginAnalysis, AnalysisOnly
  <2>19. ASSUME NEW n \in 1..MaxTasks, Planned(n)
          PROVE  GraphInv'
        BY <2>19 DEF Planned, Answers, AnalysisOnly
  <2>20. CASE PlannerCallFails
        BY <2>20 DEF PlannerCallFails, AnalysisOnly
  <2>21. CASE TaskAnswered
        BY <2>21 DEF TaskAnswered, Answers, EndTask, AnalysisOnly
  <2>22. CASE TaskInvalid
        BY <2>22 DEF TaskInvalid, Answers, EndTask, Repair, AnalysisOnly, AnalystTries
  <2>23. CASE Reviewed
        BY <2>23 DEF Reviewed, Answers, EndTask, AnalysisOnly
  <2>24. CASE ReviewUnusable
        BY <2>24 DEF ReviewUnusable, AnswersUnbooked, EndTask, AnalysisOnly
  <2>25. CASE ReviewCallFails
        BY <2>25 DEF ReviewCallFails, EndTask, AnalysisOnly
  <2>26. CASE Advised
        BY <2>26 DEF Advised, Answers, AnalysisOnly
  <2>27. CASE AdviceInvalid
        BY <2>27 DEF AdviceInvalid, Answers, AnalysisOnly, AdvisorTries
  <2>28. CASE AdviceNotAnObject
        BY <2>28 DEF AdviceNotAnObject, Answers, AnalysisOnly
  <2>29. CASE SaveAnalysis
        BY <2>29 DEF SaveAnalysis
  <2>30. CASE SaveLatencies
        BY <2>30 DEF SaveLatencies
  <2>31. CASE CallRaises
        BY <2>31 DEF CallRaises, Ends
  <2>32. CASE SandboxRaises
        BY <2>32 DEF SandboxRaises, Answers
  <2>33. CASE NodeRaises
        BY <2>33 DEF NodeRaises, Ends
  <2>34. CASE SaveRaises
        BY <2>34 DEF SaveRaises, Ends, Saves
  <2>35. CASE Dies
        BY <2>35 DEF Dies, Ends, Over
  <2>36. CASE UNCHANGED vars
        BY <2>36 DEF vars
  <2>37. QED
        BY <2>1, <2>2, <2>3, <2>4, <2>5, <2>6, <2>7, <2>8, <2>9, <2>10, <2>11, <2>12, <2>13,
           <2>14, <2>15, <2>16, <2>17, <2>18, <2>19, <2>20, <2>21, <2>22, <2>23, <2>24,
           <2>25, <2>26, <2>27, <2>28, <2>29, <2>30, <2>31, <2>32, <2>33, <2>34, <2>35,
           <2>36 DEF Next, SilverStep, AnalysisStep, Raise
<1>3. QED
  BY <1>1, <1>2, TypeInvariant, PTL DEF Spec

\* Only data that the Quality agent has passed reaches the destination.
THEOREM LoadCorrect == Spec => []OnlyPassedDataLoaded
BY GraphInvariant, PTL DEF GraphInv

\* The row of a run tells what happened to its data.
THEOREM RowCorrect == Spec => []RowTellsTheTruth
<1>1. GraphInv => RowTellsTheTruth
  BY DEF GraphInv, RowTellsTheTruth
<1>2. QED
  BY <1>1, GraphInvariant, PTL

-----------------------------------------------------------------------------
\* PricedInv is inductive, given the types and what is counted.
LEMMA PricedInvariant == Spec => []PricedInv
<1>1. Init => PricedInv
  BY DEF Init, PricedInv, ReturnedIsPriced, Nodes, Analysis, Saves, Over
<1>2. PricedInv /\ TypeInv /\ CostInv /\ [Next]_vars => PricedInv'
  <2> SUFFICES ASSUME PricedInv, TypeInv, CostInv, [Next]_vars PROVE PricedInv'
        OBVIOUS
  <2>1. step \in Nodes \cup Analysis \cup Saves \cup Over /\ priced \in BOOLEAN
        BY DEF TypeInv, FlagsOK, RangesInv, RangesOK
  <2>2. priced => step \in {"save_latencies"} \cup Over
        BY DEF CostInv
  <2> USE <2>1, <2>2 DEF PricedInv, ReturnedIsPriced, Nodes, Analysis, Saves, Over
  <2>3. CASE SilverStep
    <3>1. CASE \E data \in {"empty", "few", "enough"} : Transformed(data)
          BY <3>1 DEF Transformed, NextNode, GraphOnly, costVars
    <3>2. CASE PlanCreated \/ PlanInvalid \/ ShortCircuit \/ Extracted \/ SourceFails
                 \/ DocumentStructured \/ DocumentUnusable \/ TransformInvalid
          BY <3>2 DEF PlanCreated, PlanInvalid, ShortCircuit, Extracted, SourceFails,
              DocumentStructured, DocumentUnusable, TransformInvalid, FailsAt, NextNode,
              RouteAfterQuality, GraphOnly, stateVars, costVars
    <3>3. CASE QualityPasses \/ QualityBlocks \/ LoadGated \/ Loaded \/ LoadFails \/ SaveRun
          BY <3>3 DEF QualityPasses, QualityBlocks, LoadGated, Loaded, LoadFails, SaveRun,
              FailsAt, NextNode, RouteAfterQuality, GraphOnly, stateVars, costVars
    <3>4. QED
          BY <2>3, <3>1, <3>2, <3>3 DEF SilverStep
  <2>4. CASE AnalysisStep
    <3>1. CASE NoData \/ TooFewRows \/ BeginAnalysis \/ PlannerCallFails
                 \/ (\E n \in 1..MaxTasks : Planned(n)) \/ SaveAnalysis \/ SaveLatencies
          BY <3>1 DEF NoData, TooFewRows, BeginAnalysis, PlannerCallFails, Planned,
              SaveAnalysis, SaveLatencies, AnalysisOnly, stateVars, costVars
    <3>2. CASE TaskAnswered \/ TaskInvalid \/ Reviewed \/ ReviewUnusable \/ ReviewCallFails
          BY <3>2 DEF TaskAnswered, TaskInvalid, Reviewed, ReviewUnusable, ReviewCallFails,
              EndTask, Repair, AnalysisOnly, stateVars
    <3>3. CASE Advised \/ AdviceInvalid \/ AdviceNotAnObject
          BY <3>3 DEF Advised, AdviceInvalid, AdviceNotAnObject, AnalysisOnly, stateVars
    <3>4. QED
          BY <2>4, <3>1, <3>2, <3>3 DEF AnalysisStep
  <2>5. CASE Raise \/ Dies
        BY <2>5 DEF Raise, CallRaises, SandboxRaises, NodeRaises, SaveRaises, Dies, Ends,
            stateVars, costVars
  <2>6. CASE UNCHANGED vars
        BY <2>6 DEF vars, stateVars, costVars
  <2>7. QED
        BY <2>3, <2>4, <2>5, <2>6 DEF Next
<1>3. QED
  BY <1>1, <1>2, TypeInvariant, CostInvariant, PTL DEF Spec

\* A run that returned has a cost row exactly if it had data to analyse.
THEOREM PriceCorrect == Spec => []ReturnedIsPriced
BY PricedInvariant, PTL DEF PricedInv

-----------------------------------------------------------------------------
\* CallsInv is inductive, given the types.
LEMMA CallsInvariant == Spec => []CallsInv
<1>1. Init => CallsInv
  BY DocumentsAssumption, TasksAssumption DEF Init, CallsInv, CallsLeft, CallsFor,
         MostCalls, OrchestratorTries, DocumentTries, TransformerTries, AnalystTries,
         AdvisorTries, Nodes, Analysis, Saves, Over
<1>2. CallsInv /\ TypeInv /\ TypeInv' /\ [Next]_vars => CallsInv'
  <2> SUFFICES ASSUME CallsInv, TypeInv, TypeInv', [Next]_vars PROVE CallsInv'
        OBVIOUS
  <2> USE DEF CallsInv, CallsLeft, CallsFor, MostCalls, OrchestratorTries, DocumentTries,
              TransformerTries, AnalystTries, AdvisorTries, Nodes, Analysis, Saves, Over,
              TypeInv, FlagsOK, RangesInv, RangesOK, configVars, stateVars, taskVars,
              costVars, historyVars
  <2>1. CASE PlanCreated
        BY <2>1, DocumentsAssumption, TasksAssumption DEF PlanCreated, Answers, NextNode,
            GraphOnly
  <2>2. CASE PlanInvalid
        BY <2>2, DocumentsAssumption, TasksAssumption DEF PlanInvalid, Answers, NextNode,
            GraphOnly, FailsAt, OrchestratorTries
  <2>3. CASE ShortCircuit
        BY <2>3, DocumentsAssumption, TasksAssumption DEF ShortCircuit, RouteAfterQuality,
            NextNode, GraphOnly, Nodes
  <2>4. CASE DocumentStructured
        BY <2>4, DocumentsAssumption, TasksAssumption DEF DocumentStructured,
            AnswersUnbooked, GraphOnly
  <2>5. CASE DocumentUnusable
        BY <2>5, DocumentsAssumption, TasksAssumption DEF DocumentUnusable, AnswersUnbooked,
            NextNode, GraphOnly, FailsAt, DocumentTries
  <2>6. CASE SourceFails
        BY <2>6, DocumentsAssumption, TasksAssumption DEF SourceFails, NextNode, GraphOnly,
            FailsAt
  <2>7. CASE Extracted
        BY <2>7, DocumentsAssumption, TasksAssumption DEF Extracted, NextNode, GraphOnly
  <2>8. ASSUME NEW data \in {"empty", "few", "enough"}, Transformed(data)
          PROVE  CallsInv'
        BY <2>8, DocumentsAssumption, TasksAssumption DEF Transformed, Answers, NextNode,
            GraphOnly
  <2>9. CASE TransformInvalid
        BY <2>9, DocumentsAssumption, TasksAssumption DEF TransformInvalid, Answers,
            NextNode, GraphOnly, FailsAt, TransformerTries
  <2>10. CASE QualityPasses
        BY <2>10, DocumentsAssumption, TasksAssumption DEF QualityPasses, RouteAfterQuality,
            GraphOnly
  <2>11. CASE QualityBlocks
        BY <2>11, DocumentsAssumption, TasksAssumption DEF QualityBlocks, RouteAfterQuality,
            GraphOnly, FailsAt
  <2>12. CASE LoadGated
        BY <2>12, DocumentsAssumption, TasksAssumption DEF LoadGated, NextNode, GraphOnly
  <2>13. CASE Loaded
        BY <2>13, DocumentsAssumption, TasksAssumption DEF Loaded, NextNode, GraphOnly
  <2>14. CASE LoadFails
        BY <2>14, DocumentsAssumption, TasksAssumption DEF LoadFails, NextNode, GraphOnly,
            FailsAt
  <2>15. CASE SaveRun
        BY <2>15, DocumentsAssumption, TasksAssumption DEF SaveRun
  <2>16. CASE NoData
        BY <2>16, DocumentsAssumption, TasksAssumption DEF NoData, AnalysisOnly
  <2>17. CASE TooFewRows
        BY <2>17, DocumentsAssumption, TasksAssumption DEF TooFewRows, AnalysisOnly
  <2>18. CASE BeginAnalysis
        BY <2>18, DocumentsAssumption, TasksAssumption DEF BeginAnalysis, AnalysisOnly
  <2>19. ASSUME NEW n \in 1..MaxTasks, Planned(n)
          PROVE  CallsInv'
        BY <2>19, DocumentsAssumption, TasksAssumption DEF Planned, Answers, AnalysisOnly
  <2>20. CASE PlannerCallFails
        BY <2>20, DocumentsAssumption, TasksAssumption DEF PlannerCallFails, AnalysisOnly
  <2>21. CASE TaskAnswered
        BY <2>21, DocumentsAssumption, TasksAssumption DEF TaskAnswered, Answers, EndTask,
            AnalysisOnly
  <2>22. CASE TaskInvalid
    <3>1. CASE Retry
          BY <2>22, <3>1, InvalidPaid, DocumentsAssumption, TasksAssumption DEF Answers,
              AnalysisOnly, Retry, AnalystTries
    <3>2. CASE ~repair /\ Repair
          BY <2>22, <3>2, InvalidPaid, DocumentsAssumption, TasksAssumption DEF Answers,
              AnalysisOnly, Repair
    <3>3. CASE EndTask(current + 1) /\ tasks > 1
          BY <2>22, <3>3, InvalidPaid, DocumentsAssumption, TasksAssumption DEF Answers,
              AnalysisOnly, EndTask
    <3>4. CASE EndTask(current + 1) /\ tasks = 1
          BY <2>22, <3>4, InvalidPaid, DocumentsAssumption, TasksAssumption DEF Answers,
              AnalysisOnly, EndTask
    <3>5. Retry \/ (~repair /\ Repair) \/ EndTask(current + 1)
          BY <2>22, InvalidCases
    <3>6. tasks > 1 \/ tasks = 1
          BY <2>22, InvalidPaid, DocumentsAssumption, TasksAssumption
    <3>7. QED
          BY <3>1, <3>2, <3>3, <3>4, <3>5, <3>6
  <2>23. CASE Reviewed
        BY <2>23, DocumentsAssumption, TasksAssumption DEF Reviewed, Answers, EndTask,
            AnalysisOnly
  <2>24. CASE ReviewUnusable
        BY <2>24, DocumentsAssumption, TasksAssumption DEF ReviewUnusable, AnswersUnbooked,
            EndTask, AnalysisOnly
  <2>25. CASE ReviewCallFails
        BY <2>25, DocumentsAssumption, TasksAssumption DEF ReviewCallFails, EndTask,
            AnalysisOnly
  <2>26. CASE Advised
        BY <2>26, DocumentsAssumption, TasksAssumption DEF Advised, Answers, AnalysisOnly
  <2>27. CASE AdviceInvalid
        BY <2>27, DocumentsAssumption, TasksAssumption DEF AdviceInvalid, Answers,
            AnalysisOnly, AdvisorTries
  <2>28. CASE AdviceNotAnObject
        BY <2>28, DocumentsAssumption, TasksAssumption DEF AdviceNotAnObject, Answers,
            AnalysisOnly
  <2>29. CASE SaveAnalysis
        BY <2>29, DocumentsAssumption, TasksAssumption DEF SaveAnalysis
  <2>30. CASE SaveLatencies
        BY <2>30, DocumentsAssumption, TasksAssumption DEF SaveLatencies
  <2>31. CASE CallRaises
        BY <2>31, DocumentsAssumption, TasksAssumption DEF CallRaises, Ends
  <2>32. CASE SandboxRaises
        BY <2>32, DocumentsAssumption, TasksAssumption DEF SandboxRaises, Answers
  <2>33. CASE NodeRaises
        BY <2>33, DocumentsAssumption, TasksAssumption DEF NodeRaises, Ends
  <2>34. CASE SaveRaises
        BY <2>34, DocumentsAssumption, TasksAssumption DEF SaveRaises, Ends, Saves
  <2>35. CASE Dies
        BY <2>35, DocumentsAssumption, TasksAssumption DEF Dies, Ends, Over
  <2>36. CASE UNCHANGED vars
        BY <2>36, DocumentsAssumption, TasksAssumption DEF vars
  <2>37. QED
        BY <2>1, <2>2, <2>3, <2>4, <2>5, <2>6, <2>7, <2>8, <2>9, <2>10, <2>11, <2>12, <2>13,
           <2>14, <2>15, <2>16, <2>17, <2>18, <2>19, <2>20, <2>21, <2>22, <2>23, <2>24,
           <2>25, <2>26, <2>27, <2>28, <2>29, <2>30, <2>31, <2>32, <2>33, <2>34, <2>35,
           <2>36 DEF Next, SilverStep, AnalysisStep, Raise
<1>3. QED
  BY <1>1, <1>2, TypeInvariant, PTL DEF Spec

\* No execution calls a model more often than its nested retries allow.
THEOREM CallsCorrect == Spec => []CallsBounded
<1>1. CallsInv /\ TypeInv => CallsBounded
  BY DocumentsAssumption, TasksAssumption
     DEF CallsInv, TypeInv, FlagsOK, RangesInv, RangesOK, CallsLeft, CallsFor, CallsBounded, MostCalls,
         OrchestratorTries, DocumentTries, TransformerTries, AnalystTries, AdvisorTries
<1>2. QED
  BY <1>1, CallsInvariant, TypeInvariant, PTL
=============================================================================
