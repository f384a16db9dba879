--------------------------- MODULE Approval_proofs ---------------------------
(***************************************************************************)
(* Proofs about Approval, for any number of runs and requests: the gate    *)
(* holds, what waits for approval has what its approval needs, and a run   *)
(* gets one decision.                                                      *)
(***************************************************************************)
EXTENDS Approval, TLAPS

\* A request that has found its run awaiting and was not refused its state.
Busy(q) == AtWork(q) \/ Answered(q)

\* How far a run has come says what it can have left behind.
RunInv ==
  \A r \in Run :
    /\ at[r] \in {"new", "queued", "running"} => writes[r] = 0 /\ r \notin unattended
    /\ at[r] \in {"save_json", "save_row", "saved"} => outcome[r] # "none"
    /\ row[r] # "none" => at[r] \in {"saved", "done"}
    /\ row[r] = "awaiting_approval" => outcome[r] = "awaiting_approval"

\* How far a request has come says what it has computed.
RequestInv ==
  \A q \in Request :
    /\ reqAt[q] # "new" => row[target[q]] # "none"
    /\ reqAt[q] \in {"new", "reload", "act", "refused"} => answer[q] = "none"
    /\ reqAt[q] \in {"save_json", "save_row", "health", "mark", "done"} =>
         answer[q] \in {"completed", "failed"}
    /\ answer[q] = "completed" => approved # {} /\ kind[q] = "approve"
    /\ reqAt[q] = "mark" => answer[q] = "completed"

\* While the policy is not weakened, every run that has started requires approval as
\* the pipeline does, and takes it for approved only after an approved write.
GateInv ==
  ~relaxed /\ pipeline.exists =>
    /\ pipeline.require
    /\ pipeline.approved => approved # {}
    /\ \A r \in Run :
         at[r] \notin {"new", "queued"} =>
           policy[r].require /\ (policy[r].approved => approved # {})
    /\ \A r \in unattended : approved # {} /\ policy[r].threshold /\ size[r] # "large"

\* The artifacts are there before the row is, and until a sweep.
ArtifactsInv ==
  \A r \in Run :
    r \notin swept /\ (at[r] \in {"save_row", "saved"} \/ row[r] # "none") =>
      json[r] # "none" /\ (size[r] # "empty" => silver[r])

\* A request that alone is busy with its run finds it, and leaves it, as it says.
DecisionInv ==
  \A q \in Request :
    Busy(q) /\ target[q] \notin contended =>
      /\ outcome[target[q]] = "awaiting_approval"
      /\ row[target[q]] = IF Answered(q) THEN answer[q] ELSE "awaiting_approval"
      /\ reqAt[q] \in {"reload", "act"} \/ kind[q] = "reject" => writes[target[q]] = 0
      /\ answer[q] = "completed" => writes[target[q]] = 1
      /\ \A other \in Request \ {q} : target[other] = target[q] => ~Busy(other)

\* Before a request is busy with it, a run that awaits approval is not written.
UntouchedInv ==
  \A r \in Run :
    /\ outcome[r] = "awaiting_approval" /\ r \notin contended
    /\ \A q \in Request : target[q] = r => ~Busy(q)
    => writes[r] = 0

-----------------------------------------------------------------------------
\* Every step of a run, a request, the operator and the sweep keeps the types.
LEMMA TypeStep ==
  ASSUME TypeOK, [Next]_vars
  PROVE  TypeOK'
<1> USE DEF TypeOK, Statuses, Sizes, Policies, NeverGated, pipelineVars, runVars,
   storeVars, requestVars, historyVars, vars
<1>1. ASSUME NEW r \in Run, Fire(r)
      PROVE  TypeOK'
  BY <1>1 DEF Fire, RunGoto
<1>2. ASSUME NEW r \in Run, Start(r)
      PROVE  TypeOK'
  BY <1>2 DEF Start, RunGoto
<1>3. ASSUME NEW r \in Run, RunFails(r)
      PROVE  TypeOK'
  BY <1>3 DEF RunFails, RunGoto
<1>4. ASSUME NEW r \in Run, Load(r)
      PROVE  TypeOK'
  BY <1>4 DEF Load, RunGoto
<1>5. ASSUME NEW r \in Run, SaveArtifacts(r)
      PROVE  TypeOK'
  BY <1>5 DEF SaveArtifacts, RunGoto
<1>6. ASSUME NEW r \in Run, SaveRow(r)
      PROVE  TypeOK'
  BY <1>6 DEF SaveRow, RunGoto
<1>7. ASSUME NEW r \in Run, RunEnds(r)
      PROVE  TypeOK'
  BY <1>7 DEF RunEnds, RunGoto
<1>8. ASSUME NEW r \in Run, RunStops(r)
      PROVE  TypeOK'
  BY <1>8 DEF RunStops
<1>9. ASSUME NEW q \in Request, Reload(q)
      PROVE  TypeOK'
  BY <1>9 DEF Reload, ReqGoto
<1>10. ASSUME NEW q \in Request, ReloadRefused(q)
      PROVE  TypeOK'
  BY <1>10 DEF ReloadRefused, ReqGoto
<1>11. ASSUME NEW q \in Request, Approve(q)
      PROVE  TypeOK'
  BY <1>11 DEF Approve, ReqGoto
<1>12. ASSUME NEW q \in Request, ApproveFails(q)
      PROVE  TypeOK'
  BY <1>12 DEF ApproveFails, ReqGoto
<1>13. ASSUME NEW q \in Request, Reject(q)
      PROVE  TypeOK'
  BY <1>13 DEF Reject, ReqGoto
<1>14. ASSUME NEW q \in Request, AnswerArtifacts(q)
      PROVE  TypeOK'
  BY <1>14 DEF AnswerArtifacts, ReqGoto
<1>15. ASSUME NEW q \in Request, AnswerRow(q)
      PROVE  TypeOK'
  BY <1>15 DEF AnswerRow, ReqGoto
<1>16. ASSUME NEW q \in Request, AnswerHealth(q)
      PROVE  TypeOK'
  BY <1>16 DEF AnswerHealth, ReqGoto
<1>17. ASSUME NEW q \in Request, AnswerMark(q)
      PROVE  TypeOK'
  BY <1>17 DEF AnswerMark, ReqGoto
<1>18. ASSUME NEW q \in Request, AnswerSkipsBookkeeping(q)
      PROVE  TypeOK'
  BY <1>18 DEF AnswerSkipsBookkeeping
<1>19. ASSUME NEW q \in Request, RequestDies(q)
      PROVE  TypeOK'
  BY <1>19 DEF RequestDies
<1>20. ASSUME NEW q \in Request, NEW r \in Run, NEW k \in {"approve", "reject"},
             Open(q, r, k)
      PROVE  TypeOK'
  <2>1. Contenders(q, r) \subseteq Run
    BY DEF Contenders
  <2>2. contended' \subseteq Run
    BY <1>20, <2>1 DEF Open
  <2> QED BY <1>20, <2>2 DEF Open, ReqGoto
<1>21. ASSUME NEW r \in Run, Sweep(r)
      PROVE  TypeOK'
  <2>1. json' \in [Run -> Statuses]
    BY <1>21 DEF Sweep
  <2>2. swept' \subseteq Run
    BY <1>21 DEF Sweep
  <2>3. UNCHANGED <<pipelineVars, runVars, row, requestVars, writes, unattended, contended,
                    relaxed, approved, patches>>
    BY <1>21 DEF Sweep
  <2>4. CASE UNCHANGED silver
    BY <2>1, <2>2, <2>3, <2>4
  <2>5. CASE silver' = [silver EXCEPT ![r] = FALSE]
    <3>1. silver' \in [Run -> BOOLEAN]
      BY <2>5
    <3> QED BY <2>1, <2>2, <2>3, <3>1
  <2> QED BY <1>21, <2>4, <2>5 DEF Sweep
<1>22. ASSUME NEW require \in BOOLEAN, NEW threshold \in BOOLEAN,
             SetPolicy(require, threshold)
      PROVE  TypeOK'
  <2>1. patches' \in 0..MaxPatches
    BY <1>22, ApprovalAssumption DEF SetPolicy
  <2>2. /\ pipeline' \in [exists : BOOLEAN, require : BOOLEAN, threshold : BOOLEAN,
                       approved : BOOLEAN]
        /\ relaxed' \in BOOLEAN
    BY <1>22 DEF SetPolicy
  <2> QED BY <1>22, <2>1, <2>2 DEF SetPolicy
<1>23. ASSUME Delete
      PROVE  TypeOK'
  BY <1>23 DEF Delete
<1>24. ASSUME UNCHANGED vars
      PROVE  TypeOK'
  BY <1>24
<1> HIDE DEF TypeOK, Statuses, Sizes, Policies, NeverGated, pipelineVars, runVars,
   storeVars, requestVars, historyVars, vars
<1> QED BY <1>1, <1>2, <1>3, <1>4, <1>5, <1>6, <1>7, <1>8, <1>9, <1>10, <1>11, <1>12,
   <1>13, <1>14, <1>15, <1>16, <1>17, <1>18, <1>19, <1>20, <1>21, <1>22, <1>23, <1>24
  DEF Next, RunStep, RequestStep

\* What a run can have left behind by each of its steps stays true, whatever a request does to
\* its row meanwhile.
LEMMA RunStepInv ==
  ASSUME TypeOK, RunInv, RequestInv, [Next]_vars
  PROVE  RunInv'
<1> USE DEF TypeOK, Statuses, Sizes, Policies, NeverGated, RunInv, RequestInv,
   pipelineVars, runVars, storeVars, requestVars, historyVars, vars
<1>1. ASSUME NEW r \in Run, Fire(r)
      PROVE  RunInv'
  BY <1>1 DEF Fire, RunGoto
<1>2. ASSUME NEW r \in Run, Start(r)
      PROVE  RunInv'
  BY <1>2 DEF Start, RunGoto
<1>3. ASSUME NEW r \in Run, RunFails(r)
      PROVE  RunInv'
  BY <1>3 DEF RunFails, RunGoto
<1>4. ASSUME NEW r \in Run, Load(r)
      PROVE  RunInv'
  BY <1>4 DEF Load, RunGoto
<1>5. ASSUME NEW r \in Run, SaveArtifacts(r)
      PROVE  RunInv'
  BY <1>5 DEF SaveArtifacts, RunGoto
<1>6. ASSUME NEW r \in Run, SaveRow(r)
      PROVE  RunInv'
  BY <1>6 DEF SaveRow, RunGoto
<1>7. ASSUME NEW r \in Run, RunEnds(r)
      PROVE  RunInv'
  BY <1>7 DEF RunEnds, RunGoto
<1>8. ASSUME NEW r \in Run, RunStops(r)
      PROVE  RunInv'
  BY <1>8 DEF RunStops
<1>9. ASSUME NEW q \in Request, Reload(q)
      PROVE  RunInv'
  BY <1>9 DEF Reload, ReqGoto
<1>10. ASSUME NEW q \in Request, ReloadRefused(q)
      PROVE  RunInv'
  BY <1>10 DEF ReloadRefused, ReqGoto
<1>11. ASSUME NEW q \in Request, Approve(q)
      PROVE  RunInv'
  BY <1>11 DEF Approve, ReqGoto
<1>12. ASSUME NEW q \in Request, ApproveFails(q)
      PROVE  RunInv'
  BY <1>12 DEF ApproveFails, ReqGoto
<1>13. ASSUME NEW q \in Request, Reject(q)
      PROVE  RunInv'
  BY <1>13 DEF Reject, ReqGoto
<1>14. ASSUME NEW q \in Request, AnswerArtifacts(q)
      PROVE  RunInv'
  BY <1>14 DEF AnswerArtifacts, ReqGoto
<1>15. ASSUME NEW q \in Request, AnswerRow(q)
      PROVE  RunInv'
  BY <1>15 DEF AnswerRow, ReqGoto
<1>16. ASSUME NEW q \in Request, AnswerHealth(q)
      PROVE  RunInv'
  BY <1>16 DEF AnswerHealth, ReqGoto
<1>17. ASSUME NEW q \in Request, AnswerMark(q)
      PROVE  RunInv'
  BY <1>17 DEF AnswerMark, ReqGoto
<1>18. ASSUME NEW q \in Request, AnswerSkipsBookkeeping(q)
      PROVE  RunInv'
  BY <1>18 DEF AnswerSkipsBookkeeping
<1>19. ASSUME NEW q \in Request, RequestDies(q)
      PROVE  RunInv'
  BY <1>19 DEF RequestDies
<1>20. ASSUME NEW q \in Request, NEW r \in Run, NEW k \in {"approve", "reject"},
             Open(q, r, k)
      PROVE  RunInv'
  BY <1>20 DEF Open, ReqGoto
<1>21. ASSUME NEW r \in Run, Sweep(r)
      PROVE  RunInv'
  BY <1>21 DEF Sweep
<1>22. ASSUME NEW require \in BOOLEAN, NEW threshold \in BOOLEAN,
             SetPolicy(require, threshold)
      PROVE  RunInv'
  BY <1>22 DEF SetPolicy
<1>23. ASSUME Delete
      PROVE  RunInv'
  BY <1>23 DEF Delete
<1>24. ASSUME UNCHANGED vars
      PROVE  RunInv'
  BY <1>24
<1> QED BY <1>1, <1>2, <1>3, <1>4, <1>5, <1>6, <1>7, <1>8, <1>9, <1>10, <1>11, <1>12,
   <1>13, <1>14, <1>15, <1>16, <1>17, <1>18, <1>19, <1>20, <1>21, <1>22, <1>23, <1>24
  DEF Next, RunStep, RequestStep

\* What a request has read and done by each of its steps stays true.
LEMMA RequestStepInv ==
  ASSUME TypeOK, RunInv, RequestInv, [Next]_vars
  PROVE  RequestInv'
<1> USE DEF TypeOK, Statuses, Sizes, Policies, NeverGated, RunInv, RequestInv,
   pipelineVars, runVars, storeVars, requestVars, historyVars, vars
<1>1. ASSUME NEW r \in Run, Fire(r)
      PROVE  RequestInv'
  BY <1>1 DEF Fire, RunGoto
<1>2. ASSUME NEW r \in Run, Start(r)
      PROVE  RequestInv'
  BY <1>2 DEF Start, RunGoto
<1>3. ASSUME NEW r \in Run, RunFails(r)
      PROVE  RequestInv'
  BY <1>3 DEF RunFails, RunGoto
<1>4. ASSUME NEW r \in Run, Load(r)
      PROVE  RequestInv'
  BY <1>4 DEF Load, RunGoto
<1>5. ASSUME NEW r \in Run, SaveArtifacts(r)
      PROVE  RequestInv'
  BY <1>5 DEF SaveArtifacts, RunGoto
<1>6. ASSUME NEW r \in Run, SaveRow(r)
      PROVE  RequestInv'
  BY <1>6 DEF SaveRow, RunGoto
<1>7. ASSUME NEW r \in Run, RunEnds(r)
      PROVE  RequestInv'
  BY <1>7 DEF RunEnds, RunGoto
<1>8. ASSUME NEW r \in Run, RunStops(r)
      PROVE  RequestInv'
  BY <1>8 DEF RunStops
<1>9. ASSUME NEW q \in Request, Reload(q)
      PROVE  RequestInv'
  BY <1>9 DEF Reload, ReqGoto
<1>10. ASSUME NEW q \in Request, ReloadRefused(q)
      PROVE  RequestInv'
  BY <1>10 DEF ReloadRefused, ReqGoto
<1>11. ASSUME NEW q \in Request, Approve(q)
      PROVE  RequestInv'
  BY <1>11 DEF Approve, ReqGoto
<1>12. ASSUME NEW q \in Request, ApproveFails(q)
      PROVE  RequestInv'
  BY <1>12 DEF ApproveFails, ReqGoto
<1>13. ASSUME NEW q \in Request, Reject(q)
      PROVE  RequestInv'
  BY <1>13 DEF Reject, ReqGoto
<1>14. ASSUME NEW q \in Request, AnswerArtifacts(q)
      PROVE  RequestInv'
  BY <1>14 DEF AnswerArtifacts, ReqGoto
<1>15. ASSUME NEW q \in Request, AnswerRow(q)
      PROVE  RequestInv'
  BY <1>15 DEF AnswerRow, ReqGoto
<1>16. ASSUME NEW q \in Request, AnswerHealth(q)
      PROVE  RequestInv'
  BY <1>16 DEF AnswerHealth, ReqGoto
<1>17. ASSUME NEW q \in Request, AnswerMark(q)
      PROVE  RequestInv'
  BY <1>17 DEF AnswerMark, ReqGoto
<1>18. ASSUME NEW q \in Request, AnswerSkipsBookkeeping(q)
      PROVE  RequestInv'
  BY <1>18 DEF AnswerSkipsBookkeeping
<1>19. ASSUME NEW q \in Request, RequestDies(q)
      PROVE  RequestInv'
  BY <1>19 DEF RequestDies
<1>20. ASSUME NEW q \in Request, NEW r \in Run, NEW k \in {"approve", "reject"},
             Open(q, r, k)
      PROVE  RequestInv'
  BY <1>20 DEF Open, ReqGoto
<1>21. ASSUME NEW r \in Run, Sweep(r)
      PROVE  RequestInv'
  BY <1>21 DEF Sweep
<1>22. ASSUME NEW require \in BOOLEAN, NEW threshold \in BOOLEAN,
             SetPolicy(require, threshold)
      PROVE  RequestInv'
  BY <1>22 DEF SetPolicy
<1>23. ASSUME Delete
      PROVE  RequestInv'
  BY <1>23 DEF Delete
<1>24. ASSUME UNCHANGED vars
      PROVE  RequestInv'
  BY <1>24
<1> QED BY <1>1, <1>2, <1>3, <1>4, <1>5, <1>6, <1>7, <1>8, <1>9, <1>10, <1>11, <1>12,
   <1>13, <1>14, <1>15, <1>16, <1>17, <1>18, <1>19, <1>20, <1>21, <1>22, <1>23, <1>24
  DEF Next, RunStep, RequestStep

\* No run gets past the gate by a policy weaker than the pipeline's: an edit that weakens it ends
\* the claim.
LEMMA GateStep ==
  ASSUME TypeOK, RunInv, RequestInv, GateInv, [Next]_vars
  PROVE  GateInv'
<1> USE DEF TypeOK, Statuses, Sizes, Policies, NeverGated, RunInv, RequestInv,
   GateInv, pipelineVars, runVars, storeVars, requestVars, historyVars, vars
<1>1. ASSUME NEW r \in Run, Fire(r)
      PROVE  GateInv'
  BY <1>1 DEF Fire, RunGoto
<1>2. ASSUME NEW r \in Run, Start(r)
      PROVE  GateInv'
  BY <1>2 DEF Start, RunGoto
<1>3. ASSUME NEW r \in Run, RunFails(r)
      PROVE  GateInv'
  BY <1>3 DEF RunFails, RunGoto, Gated
<1>4. ASSUME NEW r \in Run, Load(r)
      PROVE  GateInv'
  BY <1>4 DEF Load, RunGoto, Gated
<1>5. ASSUME NEW r \in Run, SaveArtifacts(r)
      PROVE  GateInv'
  BY <1>5 DEF SaveArtifacts, RunGoto
<1>6. ASSUME NEW r \in Run, SaveRow(r)
      PROVE  GateInv'
  BY <1>6 DEF SaveRow, RunGoto
<1>7. ASSUME NEW r \in Run, RunEnds(r)
      PROVE  GateInv'
  BY <1>7 DEF RunEnds, RunGoto
<1>8. ASSUME NEW r \in Run, RunStops(r)
      PROVE  GateInv'
  BY <1>8 DEF RunStops
<1>9. ASSUME NEW q \in Request, Reload(q)
      PROVE  GateInv'
  BY <1>9 DEF Reload, ReqGoto
<1>10. ASSUME NEW q \in Request, ReloadRefused(q)
      PROVE  GateInv'
  BY <1>10 DEF ReloadRefused, ReqGoto
<1>11. ASSUME NEW q \in Request, Approve(q)
      PROVE  GateInv'
  BY <1>11 DEF Approve, ReqGoto
<1>12. ASSUME NEW q \in Request, ApproveFails(q)
      PROVE  GateInv'
  BY <1>12 DEF ApproveFails, ReqGoto
<1>13. ASSUME NEW q \in Request, Reject(q)
      PROVE  GateInv'
  BY <1>13 DEF Reject, ReqGoto
<1>14. ASSUME NEW q \in Request, AnswerArtifacts(q)
      PROVE  GateInv'
  BY <1>14 DEF AnswerArtifacts, ReqGoto
<1>15. ASSUME NEW q \in Request, AnswerRow(q)
      PROVE  GateInv'
  BY <1>15 DEF AnswerRow, ReqGoto
<1>16. ASSUME NEW q \in Request, AnswerHealth(q)
      PROVE  GateInv'
  BY <1>16 DEF AnswerHealth, ReqGoto
<1>17. ASSUME NEW q \in Request, AnswerMark(q)
      PROVE  GateInv'
  BY <1>17 DEF AnswerMark, ReqGoto
<1>18. ASSUME NEW q \in Request, AnswerSkipsBookkeeping(q)
      PROVE  GateInv'
  BY <1>18 DEF AnswerSkipsBookkeeping
<1>19. ASSUME NEW q \in Request, RequestDies(q)
      PROVE  GateInv'
  BY <1>19 DEF RequestDies
<1>20. ASSUME NEW q \in Request, NEW r \in Run, NEW k \in {"approve", "reject"},
             Open(q, r, k)
      PROVE  GateInv'
  BY <1>20 DEF Open, ReqGoto
<1>21. ASSUME NEW r \in Run, Sweep(r)
      PROVE  GateInv'
  BY <1>21 DEF Sweep
<1>22. ASSUME NEW require \in BOOLEAN, NEW threshold \in BOOLEAN,
             SetPolicy(require, threshold)
      PROVE  GateInv'
  BY <1>22 DEF SetPolicy
<1>23. ASSUME Delete
      PROVE  GateInv'
  BY <1>23 DEF Delete
<1>24. ASSUME UNCHANGED vars
      PROVE  GateInv'
  BY <1>24
<1> QED BY <1>1, <1>2, <1>3, <1>4, <1>5, <1>6, <1>7, <1>8, <1>9, <1>10, <1>11, <1>12,
   <1>13, <1>14, <1>15, <1>16, <1>17, <1>18, <1>19, <1>20, <1>21, <1>22, <1>23, <1>24
  DEF Next, RunStep, RequestStep

\* A run on its way into the queue, or in it, keeps the artifacts its approval reloads.
LEMMA ArtifactsStep ==
  ASSUME TypeOK, RunInv, RequestInv, ArtifactsInv, [Next]_vars
  PROVE  ArtifactsInv'
<1> USE DEF TypeOK, Statuses, Sizes, Policies, NeverGated, RunInv, RequestInv,
   ArtifactsInv, pipelineVars, runVars, storeVars, requestVars, historyVars, vars
<1>1. ASSUME NEW r \in Run, Fire(r)
      PROVE  ArtifactsInv'
  BY <1>1 DEF Fire, RunGoto
<1>2. ASSUME NEW r \in Run, Start(r)
      PROVE  ArtifactsInv'
  BY <1>2 DEF Start, RunGoto
<1>3. ASSUME NEW r \in Run, RunFails(r)
      PROVE  ArtifactsInv'
  BY <1>3 DEF RunFails, RunGoto
<1>4. ASSUME NEW r \in Run, Load(r)
      PROVE  ArtifactsInv'
  BY <1>4 DEF Load, RunGoto
<1>5. ASSUME NEW r \in Run, SaveArtifacts(r)
      PROVE  ArtifactsInv'
  <2> SUFFICES ASSUME NEW s \in Run, s \notin swept',
                      at'[s] \in {"save_row", "saved"} \/ row'[s] # "none"
               PROVE  json'[s] # "none" /\ (size'[s] # "empty" => silver'[s])
    OBVIOUS
  <2>1. CASE s = r
    <3>1. json'[r] # "none"
      BY <1>5 DEF SaveArtifacts, RunGoto
    <3>2. size'[r] # "empty" => silver'[r]
      <4>1. silver'[r] = (size[r] # "empty") /\ size' = size
        BY <1>5 DEF SaveArtifacts
      <4> QED BY <4>1
    <3> QED BY <2>1, <3>1, <3>2
  <2>2. CASE s # r
    BY <1>5, <2>2 DEF SaveArtifacts, RunGoto
  <2> QED BY <2>1, <2>2
<1>6. ASSUME NEW r \in Run, SaveRow(r)
      PROVE  ArtifactsInv'
  BY <1>6 DEF SaveRow, RunGoto
<1>7. ASSUME NEW r \in Run, RunEnds(r)
      PROVE  ArtifactsInv'
  BY <1>7 DEF RunEnds, RunGoto
<1>8. ASSUME NEW r \in Run, RunStops(r)
      PROVE  ArtifactsInv'
  BY <1>8 DEF RunStops
<1>9. ASSUME NEW q \in Request, Reload(q)
      PROVE  ArtifactsInv'
  BY <1>9 DEF Reload, ReqGoto
<1>10. ASSUME NEW q \in Request, ReloadRefused(q)
      PROVE  ArtifactsInv'
  BY <1>10 DEF ReloadRefused, ReqGoto
<1>11. ASSUME NEW q \in Request, Approve(q)
      PROVE  ArtifactsInv'
  BY <1>11 DEF Approve, ReqGoto
<1>12. ASSUME NEW q \in Request, ApproveFails(q)
      PROVE  ArtifactsInv'
  BY <1>12 DEF ApproveFails, ReqGoto
<1>13. ASSUME NEW q \in Request, Reject(q)
      PROVE  ArtifactsInv'
  BY <1>13 DEF Reject, ReqGoto
<1>14. ASSUME NEW q \in Request, AnswerArtifacts(q)
      PROVE  ArtifactsInv'
  BY <1>14 DEF AnswerArtifacts, ReqGoto
<1>15. ASSUME NEW q \in Request, AnswerRow(q)
      PROVE  ArtifactsInv'
  BY <1>15 DEF AnswerRow, ReqGoto
<1>16. ASSUME NEW q \in Request, AnswerHealth(q)
      PROVE  ArtifactsInv'
  BY <1>16 DEF AnswerHealth, ReqGoto
<1>17. ASSUME NEW q \in Request, AnswerMark(q)
      PROVE  ArtifactsInv'
  BY <1>17 DEF AnswerMark, ReqGoto
<1>18. ASSUME NEW q \in Request, AnswerSkipsBookkeeping(q)
      PROVE  ArtifactsInv'
  BY <1>18 DEF AnswerSkipsBookkeeping
<1>19. ASSUME NEW q \in Request, RequestDies(q)
      PROVE  ArtifactsInv'
  BY <1>19 DEF RequestDies
<1>20. ASSUME NEW q \in Request, NEW r \in Run, NEW k \in {"approve", "reject"},
             Open(q, r, k)
      PROVE  ArtifactsInv'
  BY <1>20 DEF Open, ReqGoto
<1>21. ASSUME NEW r \in Run, Sweep(r)
      PROVE  ArtifactsInv'
  BY <1>21 DEF Sweep
<1>22. ASSUME NEW require \in BOOLEAN, NEW threshold \in BOOLEAN,
             SetPolicy(require, threshold)
      PROVE  ArtifactsInv'
  BY <1>22 DEF SetPolicy
<1>23. ASSUME Delete
      PROVE  ArtifactsInv'
  BY <1>23 DEF Delete
<1>24. ASSUME UNCHANGED vars
      PROVE  ArtifactsInv'
  BY <1>24
<1> QED BY <1>1, <1>2, <1>3, <1>4, <1>5, <1>6, <1>7, <1>8, <1>9, <1>10, <1>11, <1>12,
   <1>13, <1>14, <1>15, <1>16, <1>17, <1>18, <1>19, <1>20, <1>21, <1>22, <1>23, <1>24
  DEF Next, RunStep, RequestStep

\* A request that is alone with its run has found it waiting and decides its fate.
LEMMA DecisionStep ==
  ASSUME TypeOK, RunInv, RequestInv, DecisionInv, UntouchedInv, [Next]_vars
  PROVE  DecisionInv'
<1> USE DEF TypeOK, Statuses, Sizes, Policies, NeverGated, RunInv, RequestInv,
   DecisionInv, UntouchedInv, Busy, AtWork, Answered, pipelineVars, runVars,
   storeVars, requestVars, historyVars, vars
<1>1. ASSUME NEW r \in Run, Fire(r)
      PROVE  DecisionInv'
  BY <1>1 DEF Fire, RunGoto
<1>2. ASSUME NEW r \in Run, Start(r)
      PROVE  DecisionInv'
  BY <1>2 DEF Start, RunGoto
<1>3. ASSUME NEW r \in Run, RunFails(r)
      PROVE  DecisionInv'
  BY <1>3, SMTT(20) DEF RunFails, RunGoto
<1>4. ASSUME NEW r \in Run, Load(r)
      PROVE  DecisionInv'
  BY <1>4, SMTT(20) DEF Load, RunGoto
<1>5. ASSUME NEW r \in Run, SaveArtifacts(r)
      PROVE  DecisionInv'
  BY <1>5 DEF SaveArtifacts, RunGoto
<1>6. ASSUME NEW r \in Run, SaveRow(r)
      PROVE  DecisionInv'
  BY <1>6 DEF SaveRow, RunGoto
<1>7. ASSUME NEW r \in Run, RunEnds(r)
      PROVE  DecisionInv'
  BY <1>7 DEF RunEnds, RunGoto
<1>8. ASSUME NEW r \in Run, RunStops(r)
      PROVE  DecisionInv'
  BY <1>8 DEF RunStops
<1>9. ASSUME NEW q \in Request, Reload(q)
      PROVE  DecisionInv'
  BY <1>9 DEF Reload, ReqGoto
<1>10. ASSUME NEW q \in Request, ReloadRefused(q)
      PROVE  DecisionInv'
  BY <1>10 DEF ReloadRefused, ReqGoto
<1>11. ASSUME NEW q \in Request, Approve(q)
      PROVE  DecisionInv'
  BY <1>11 DEF Approve, ReqGoto
<1>12. ASSUME NEW q \in Request, ApproveFails(q)
      PROVE  DecisionInv'
  BY <1>12 DEF ApproveFails, ReqGoto
<1>13. ASSUME NEW q \in Request, Reject(q)
      PROVE  DecisionInv'
  BY <1>13 DEF Reject, ReqGoto
<1>14. ASSUME NEW q \in Request, AnswerArtifacts(q)
      PROVE  DecisionInv'
  BY <1>14 DEF AnswerArtifacts, ReqGoto
<1>15. ASSUME NEW q \in Request, AnswerRow(q)
      PROVE  DecisionInv'
  BY <1>15 DEF AnswerRow, ReqGoto
<1>16. ASSUME NEW q \in Request, AnswerHealth(q)
      PROVE  DecisionInv'
  BY <1>16 DEF AnswerHealth, ReqGoto
<1>17. ASSUME NEW q \in Request, AnswerMark(q)
      PROVE  DecisionInv'
  BY <1>17 DEF AnswerMark, ReqGoto
<1>18. ASSUME NEW q \in Request, AnswerSkipsBookkeeping(q)
      PROVE  DecisionInv'
  BY <1>18 DEF AnswerSkipsBookkeeping
<1>19. ASSUME NEW q \in Request, RequestDies(q)
      PROVE  DecisionInv'
  BY <1>19 DEF RequestDies
<1>20. ASSUME NEW q \in Request, NEW r \in Run, NEW k \in {"approve", "reject"},
             Open(q, r, k)
      PROVE  DecisionInv'
  <2> SUFFICES ASSUME NEW p \in Request, Busy(p)', target'[p] \notin contended'
               PROVE  /\ outcome'[target'[p]] = "awaiting_approval"
                      /\ row'[target'[p]] = IF Answered(p)' THEN answer'[p]
                                            ELSE "awaiting_approval"
                      /\ reqAt'[p] \in {"reload", "act"} \/ kind'[p] = "reject"
                           => writes'[target'[p]] = 0
                      /\ answer'[p] = "completed" => writes'[target'[p]] = 1
                      /\ \A other \in Request \ {p} :
                           target'[other] = target'[p] => ~Busy(other)'
    OBVIOUS
  <2>0. /\ row[r] = "awaiting_approval" /\ reqAt[q] = "new"
        /\ reqAt' = [reqAt EXCEPT ![q] = "reload"] /\ target' = [target EXCEPT ![q] = r]
        /\ contended' = contended \cup Contenders(q, r)
        /\ UNCHANGED <<row, outcome, writes, answer>>
    BY <1>20 DEF Open, ReqGoto
  <2>1. CASE p = q
    <3>1. target'[p] = r /\ r \notin contended
      BY <2>0, <2>1
    <3>2. \A other \in Request \ {q} : target[other] = r => ~AtWork(other)
      BY <2>0, <3>1 DEF Contenders
    <3>3. \A other \in Request \ {q} : target[other] = r => ~Busy(other)
      BY <2>0, <3>1, <3>2
    <3>4. target[q] = r => ~Busy(q)
      BY <2>0
    <3>5. outcome[r] = "awaiting_approval" /\ writes[r] = 0
      BY <2>0, <3>1, <3>3, <3>4
    <3>6. answer[q] = "none" /\ ~Answered(q)'
      BY <2>0
    <3> QED BY <2>0, <2>1, <3>1, <3>3, <3>5, <3>6
  <2>2. CASE p # q /\ target[p] = r
    <3>1. target'[q] = r /\ r \notin contended /\ Busy(p)
      BY <2>0, <2>2
    <3>2. ~AtWork(p)
      BY <2>0, <2>2 DEF Contenders
    <3>3. row[r] = answer[p]
      BY <2>2, <3>1, <3>2
    <3> QED BY <2>0, <3>2, <3>1, <3>3
  <2>3. CASE p # q /\ target[p] # r
    BY <1>20, <2>3 DEF Open, ReqGoto
  <2> QED BY <2>1, <2>2, <2>3
<1>21. ASSUME NEW r \in Run, Sweep(r)
      PROVE  DecisionInv'
  BY <1>21 DEF Sweep
<1>22. ASSUME NEW require \in BOOLEAN, NEW threshold \in BOOLEAN,
             SetPolicy(require, threshold)
      PROVE  DecisionInv'
  BY <1>22 DEF SetPolicy
<1>23. ASSUME Delete
      PROVE  DecisionInv'
  BY <1>23 DEF Delete
<1>24. ASSUME UNCHANGED vars
      PROVE  DecisionInv'
  BY <1>24
<1> QED BY <1>1, <1>2, <1>3, <1>4, <1>5, <1>6, <1>7, <1>8, <1>9, <1>10, <1>11, <1>12,
   <1>13, <1>14, <1>15, <1>16, <1>17, <1>18, <1>19, <1>20, <1>21, <1>22, <1>23, <1>24
  DEF Next, RunStep, RequestStep

\* A run that no request has worked on is unwritten as long as it waits.
LEMMA UntouchedStep ==
  ASSUME TypeOK, RunInv, RequestInv, DecisionInv, UntouchedInv, [Next]_vars
  PROVE  UntouchedInv'
<1> USE DEF TypeOK, Statuses, Sizes, Policies, NeverGated, RunInv, RequestInv,
   DecisionInv, UntouchedInv, Busy, AtWork, Answered, pipelineVars, runVars,
   storeVars, requestVars, historyVars, vars
<1>1. ASSUME NEW r \in Run, Fire(r)
      PROVE  UntouchedInv'
  BY <1>1 DEF Fire, RunGoto
<1>2. ASSUME NEW r \in Run, Start(r)
      PROVE  UntouchedInv'
  BY <1>2 DEF Start, RunGoto
<1>3. ASSUME NEW r \in Run, RunFails(r)
      PROVE  UntouchedInv'
  BY <1>3 DEF RunFails, RunGoto
<1>4. ASSUME NEW r \in Run, Load(r)
      PROVE  UntouchedInv'
  BY <1>4 DEF Load, RunGoto
<1>5. ASSUME NEW r \in Run, SaveArtifacts(r)
      PROVE  UntouchedInv'
  BY <1>5 DEF SaveArtifacts, RunGoto
<1>6. ASSUME NEW r \in Run, SaveRow(r)
      PROVE  UntouchedInv'
  BY <1>6 DEF SaveRow, RunGoto
<1>7. ASSUME NEW r \in Run, RunEnds(r)
      PROVE  UntouchedInv'
  BY <1>7 DEF RunEnds, RunGoto
<1>8. ASSUME NEW r \in Run, RunStops(r)
      PROVE  UntouchedInv'
  BY <1>8 DEF RunStops
<1>9. ASSUME NEW q \in Request, Reload(q)
      PROVE  UntouchedInv'
  BY <1>9 DEF Reload, ReqGoto
<1>10. ASSUME NEW q \in Request, ReloadRefused(q)
      PROVE  UntouchedInv'
  BY <1>10 DEF ReloadRefused, ReqGoto
<1>11. ASSUME NEW q \in Request, Approve(q)
      PROVE  UntouchedInv'
  BY <1>11 DEF Approve, ReqGoto
<1>12. ASSUME NEW q \in Request, ApproveFails(q)
      PROVE  UntouchedInv'
  BY <1>12 DEF ApproveFails, ReqGoto
<1>13. ASSUME NEW q \in Request, Reject(q)
      PROVE  UntouchedInv'
  BY <1>13 DEF Reject, ReqGoto
<1>14. ASSUME NEW q \in Request, AnswerArtifacts(q)
      PROVE  UntouchedInv'
  BY <1>14 DEF AnswerArtifacts, ReqGoto
<1>15. ASSUME NEW q \in Request, AnswerRow(q)
      PROVE  UntouchedInv'
  BY <1>15 DEF AnswerRow, ReqGoto
<1>16. ASSUME NEW q \in Request, AnswerHealth(q)
      PROVE  UntouchedInv'
  BY <1>16 DEF AnswerHealth, ReqGoto
<1>17. ASSUME NEW q \in Request, AnswerMark(q)
      PROVE  UntouchedInv'
  BY <1>17 DEF AnswerMark, ReqGoto
<1>18. ASSUME NEW q \in Request, AnswerSkipsBookkeeping(q)
      PROVE  UntouchedInv'
  BY <1>18 DEF AnswerSkipsBookkeeping
<1>19. ASSUME NEW q \in Request, RequestDies(q)
      PROVE  UntouchedInv'
  BY <1>19 DEF RequestDies
<1>20. ASSUME NEW q \in Request, NEW r \in Run, NEW k \in {"approve", "reject"},
             Open(q, r, k)
      PROVE  UntouchedInv'
  BY <1>20 DEF Open, ReqGoto, Contenders
<1>21. ASSUME NEW r \in Run, Sweep(r)
      PROVE  UntouchedInv'
  BY <1>21 DEF Sweep
<1>22. ASSUME NEW require \in BOOLEAN, NEW threshold \in BOOLEAN,
             SetPolicy(require, threshold)
      PROVE  UntouchedInv'
  BY <1>22 DEF SetPolicy
<1>23. ASSUME Delete
      PROVE  UntouchedInv'
  BY <1>23 DEF Delete
<1>24. ASSUME UNCHANGED vars
      PROVE  UntouchedInv'
  BY <1>24
<1> QED BY <1>1, <1>2, <1>3, <1>4, <1>5, <1>6, <1>7, <1>8, <1>9, <1>10, <1>11, <1>12,
   <1>13, <1>14, <1>15, <1>16, <1>17, <1>18, <1>19, <1>20, <1>21, <1>22, <1>23, <1>24
  DEF Next, RunStep, RequestStep

-----------------------------------------------------------------------------
ApprovalInv ==
  /\ TypeOK /\ RunInv /\ RequestInv /\ GateInv /\ ArtifactsInv
  /\ DecisionInv /\ UntouchedInv

\* The invariant holds before anything has run.
LEMMA InvInit ==
  ASSUME Init
  PROVE  ApprovalInv
<1>1. TypeOK
  <2>1. patches \in 0..MaxPatches
    BY ApprovalAssumption DEF Init
  <2>2. pipeline \in [exists : BOOLEAN, require : BOOLEAN, threshold : BOOLEAN, approved : BOOLEAN]
    BY DEF Init
  <2>3. /\ silver \in [Run -> BOOLEAN] /\ linked \in [Request -> BOOLEAN]
        /\ relaxed \in BOOLEAN
    BY DEF Init
  <2> QED BY <2>1, <2>2, <2>3 DEF Init, TypeOK, Statuses, Sizes, Policies, NeverGated
<1>2. RunInv /\ RequestInv
  BY DEF Init, RunInv, RequestInv
<1>3. GateInv /\ ArtifactsInv
  BY DEF Init, GateInv, ArtifactsInv
<1>4. DecisionInv /\ UntouchedInv
  BY DEF Init, DecisionInv, UntouchedInv, Busy, AtWork, Answered
<1> QED BY <1>1, <1>2, <1>3, <1>4 DEF ApprovalInv

\* The invariant of runs and requests holds throughout.
LEMMA InvAlways == Spec => []ApprovalInv
<1>1. Init => ApprovalInv
  BY InvInit
<1>2. ApprovalInv /\ [Next]_vars => ApprovalInv'
  BY TypeStep, RunStepInv, RequestStepInv, GateStep, ArtifactsStep, DecisionStep,
     UntouchedStep DEF ApprovalInv
<1> QED BY <1>1, <1>2, PTL DEF Spec

\* Rows, artifacts, runs and requests stay within their types.
THEOREM TypeCorrect == Spec => []TypeOK
<1>1. ApprovalInv => TypeOK
  BY DEF ApprovalInv
<1> QED BY <1>1, InvAlways, PTL

\* However runs, requests, edits and crashes interleave, the gate of a policy that is
\* not weakened holds (_is_write_gated, mark_pipeline_approved).
THEOREM GateCorrect == Spec => []GateHolds
<1>1. ApprovalInv => GateHolds
  BY DEF ApprovalInv, GateInv, GateHolds
<1> QED BY <1>1, InvAlways, PTL

\* A run in the approval queue has the artifacts its approval needs, until a sweep
\* (the order of save_run).
THEOREM ArtifactsCorrect == Spec => []PendingHasArtifacts
<1>1. ApprovalInv => PendingHasArtifacts
  BY DEF ApprovalInv, ArtifactsInv, PendingHasArtifacts
<1> QED BY <1>1, InvAlways, PTL

\* A run on which no two requests meet gets one decision, and keeps it
\* (resume_pending_load, reject_pending_load).
THEOREM DecisionCorrect == Spec => []OneDecision
<1>1. ApprovalInv => OneDecision
  <2> SUFFICES ASSUME ApprovalInv, NEW q \in Request, Answered(q), target[q] \notin contended
               PROVE  /\ row[target[q]] = answer[q]
                      /\ kind[q] = "reject" => writes[target[q]] = 0
                      /\ answer[q] = "completed" => writes[target[q]] = 1
                      /\ \A other \in Request \ {q} :
                           target[other] = target[q] => ~AtWork(other) /\ ~Answered(other)
    BY DEF OneDecision
  <2> QED BY DEF ApprovalInv, DecisionInv, Busy
<1> QED BY <1>1, InvAlways, PTL
=============================================================================
