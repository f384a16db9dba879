--------------------------- MODULE PipelineHealth ---------------------------
(***************************************************************************)
(* What follows a fire of a saved pipeline: the count of its consecutive   *)
(* failures and the alert when it reaches a threshold, the comparison of   *)
(* its KPIs with the previous completed run and the digest of a drift, and *)
(* the delivery of both over the channels.  All of it is best effort: an   *)
(* exception ends it silently.  The fires of one pipeline may overlap.     *)
(*                                                                         *)
(* A fire stands for its last attempt.  Every transaction and every        *)
(* delivery is a step of its own; the two reads of the drift check, of the *)
(* pipeline and of its previous run, are one.                              *)
(***************************************************************************)
EXTENDS Integers, Sequences

CONSTANTS
  Fires,         \* how many fires of the pipeline there are
  Channel,       \* delivery channels, in the order they are tried
  AlertAt,       \* HEALTH_ALERT_FAILURE_THRESHOLD
  Kpi,           \* values of the one KPI that is compared
  DriftThreshold, \* drift_threshold_pct, 0 or unset standing for the default
  DefaultThreshold \* DEFAULT_DRIFT_THRESHOLD_PCT

ASSUME PipelineHealthAssumption ==
  /\ Fires \in Nat /\ Kpi \subseteq Nat
  /\ AlertAt \in Nat \ {0} /\ DriftThreshold \in Nat /\ DefaultThreshold \in Nat
  /\ Channel \in Seq(STRING) \ {<<>>}

\* The fires, in the order in which their runs end.
PFire == 1..Fires
NoFire == 0

VARIABLES
  fAt,       \* where each fire is
  ended,     \* the final status of its run
  kpi,       \* its KPI
  saved,     \* the timestamp of its row among the pipeline's runs, 0 if there is none
  stamp,     \* the latest of these timestamps
  exists,    \* whether the saved_pipelines row exists
  active,    \* its is_active
  counter,   \* its consecutive_failures
  tried,     \* how many channels it has tried
  malformed, \* the channel whose overridden target cannot be sent to, or "none"
  told,      \* history: what it delivered: "alert", "digest" or "none"
  streak,    \* history: failures recorded since the last completed fire
  crossed,   \* history: fires whose failure took the streak to the threshold
  raced, \* history: fires that read the counter or the previous run after
             \* something else had changed it since their own record or row
  base       \* history: the newest completed run when a fire's row was saved

fireVars == <<fAt, ended, kpi, tried, malformed>>
pipelineRow == <<exists, active, counter>>
phHistory == <<told, streak, crossed, raced, base>>
runRows == <<saved, stamp>>
phVars == <<fireVars, runRows, pipelineRow, phHistory>>

PHInit ==
  /\ fAt = [f \in PFire |-> "new"] /\ ended = [f \in PFire |-> "none"]
  /\ kpi = [f \in PFire |-> 0]
  /\ tried = [f \in PFire |-> 0] /\ malformed = [f \in PFire |-> "none"]
  /\ saved = [f \in PFire |-> 0] /\ stamp = 0
  /\ exists = TRUE /\ active = TRUE /\ counter = 0
  /\ told = [f \in PFire |-> "none"]
  /\ streak = 0 /\ crossed = {} /\ raced = {}
  /\ base = [f \in PFire |-> NoFire]

FireGoto(f, from, to) == fAt[f] = from /\ fAt' = [fAt EXCEPT ![f] = to]

\* The row of a run is written: for the first time, or over its older one.
SaveRow(f) == stamp' = stamp + 1 /\ saved' = [saved EXCEPT ![f] = stamp + 1]

Completed == {g \in PFire : saved[g] > 0 /\ ended[g] \in {"completed", "approved"}}

\* ORDER BY timestamp DESC LIMIT 1
Newest(runs) ==
  IF runs = {} THEN NoFire ELSE CHOOSE g \in runs : \A h \in runs : saved[h] <= saved[g]

\* Fires that are about to read the counter, or the previous run.
Readers(f) == {g \in PFire \ {f} : fAt[g] = "read"}
Comparers(f) == {g \in PFire \ {f} : ended[g] = "completed" /\ fAt[g] \in {"record", "lookup"}}

\* detect_kpi_drift, in percent of the previous value.
Distance(a, b) == IF a > b THEN a - b ELSE b - a
Triggered(before, now) ==
  LET threshold == IF DriftThreshold = 0 THEN DefaultThreshold ELSE DriftThreshold
  IN IF before = 0 THEN now # 0 ELSE 100 * Distance(now, before) >= threshold * before

-----------------------------------------------------------------------------
(* The fire                                                                *)

\* The run ends and its row is saved.  A write that waits for approval is no
\* failure and has no KPI to compare: nothing follows it.
FireEnds(f) ==
  /\ exists
  /\ f > 1 => fAt[f - 1] # "new"
  /\ \E status \in {"completed", "failed", "awaiting_approval"}, value \in Kpi :
       /\ FireGoto(f, "new", IF status = "awaiting_approval" THEN "done" ELSE "record")
       /\ ended' = [ended EXCEPT ![f] = status]
       /\ kpi' = [kpi EXCEPT ![f] = IF status = "failed" THEN 0 ELSE value]
       /\ raced' = IF status = "completed" THEN raced \cup Comparers(f) ELSE raced
  /\ SaveRow(f)
  /\ base' = [base EXCEPT ![f] = Newest(Completed)]
  /\ UNCHANGED <<tried, malformed, pipelineRow, told, streak, crossed>>

\* POST /runs/{run_id}/approve saves the run again, as completed.
Approved(f) ==
  /\ exists /\ ended[f] = "awaiting_approval"
  /\ ended' = [ended EXCEPT ![f] = "approved"]
  /\ SaveRow(f)
  /\ raced' = raced \cup Comparers(f)
  /\ UNCHANGED <<fAt, kpi, tried, malformed, pipelineRow, told, streak, crossed, base>>

\* record_pipeline_health: one UPDATE, which adds to the counter or resets it.
Record(f) ==
  /\ exists
  /\ FireGoto(f, "record", IF ended[f] = "completed" THEN "lookup" ELSE "read")
  /\ counter' = IF ended[f] = "completed" THEN 0 ELSE counter + 1
  /\ streak' = IF ended[f] = "completed" THEN 0 ELSE streak + 1
  /\ crossed' = IF streak' = AlertAt THEN crossed \cup {f} ELSE crossed
  /\ raced' = raced \cup Readers(f)
  /\ UNCHANGED <<ended, kpi, tried, malformed, runRows, exists, active, told, base>>

Channels == {Channel[i] : i \in 1..Len(Channel)}

\* resolve_pipeline_notification_override, read once before the first channel:
\* the tenant may have set any target, for one channel.  Recipients of mail are
\* no URL, and never raise.
Override(f) ==
  \E target \in (Channels \ {"email"}) \cup {"none"} : malformed' = [malformed EXCEPT ![f] = target]

\* A mistake: every failure past the threshold is alerted.
ReadAtLeast(f) ==
  /\ fAt[f] = "read"
  /\ LET alert == exists /\ counter >= AlertAt
     IN /\ fAt' = [fAt EXCEPT ![f] = IF alert THEN "send" ELSE "done"]
        /\ told' = [told EXCEPT ![f] = IF alert THEN "alert" ELSE "none"]
        /\ IF alert THEN Override(f) ELSE UNCHANGED malformed
  /\ UNCHANGED <<ended, kpi, tried, runRows, pipelineRow, streak, crossed, raced, base>>

\* get_saved_pipeline, in a transaction of its own, and the comparison: == and
\* not >=, to alert on the crossing alone.
Read(f) ==
  /\ fAt[f] = "read"
  /\ LET alert == exists /\ counter = AlertAt
     IN /\ fAt' = [fAt EXCEPT ![f] = IF alert THEN "send" ELSE "done"]
        /\ told' = [told EXCEPT ![f] = IF alert THEN "alert" ELSE "none"]
        /\ IF alert THEN Override(f) ELSE UNCHANGED malformed
  /\ UNCHANGED <<ended, kpi, tried, runRows, pipelineRow, streak, crossed, raced, base>>

\* A mistake: the previous run is the previous row, however it ended.
LookUpAnyRun(f) ==
  /\ fAt[f] = "lookup"
  /\ LET before == IF exists /\ active THEN Newest({g \in PFire \ {f} : saved[g] > 0}) ELSE NoFire
         drift == before # NoFire /\ Triggered(kpi[before], kpi[f])
     IN /\ fAt' = [fAt EXCEPT ![f] = IF drift THEN "send" ELSE "done"]
        /\ told' = [told EXCEPT ![f] = IF drift THEN "digest" ELSE "none"]
        /\ IF drift THEN Override(f) ELSE UNCHANGED malformed
  /\ UNCHANGED <<ended, kpi, tried, runRows, pipelineRow, streak, crossed, raced, base>>

\* check_drift_and_notify: compare with the newest completed run but this one.
LookUpPrevious(f) ==
  /\ fAt[f] = "lookup"
  /\ LET before == IF exists /\ active THEN Newest(Completed \ {f}) ELSE NoFire
         drift == before # NoFire /\ Triggered(kpi[before], kpi[f])
     IN /\ fAt' = [fAt EXCEPT ![f] = IF drift THEN "send" ELSE "done"]
        /\ told' = [told EXCEPT ![f] = IF drift THEN "digest" ELSE "none"]
        /\ IF drift THEN Override(f) ELSE UNCHANGED malformed
  /\ UNCHANGED <<ended, kpi, tried, runRows, pipelineRow, streak, crossed, raced, base>>

\* The next channel is tried.  One that is not configured, or whose request
\* fails, is passed over; a target that is no URL raises, and ends the delivery.
Send(f) ==
  /\ fAt[f] = "send"
  /\ LET i == tried[f] + 1
         last == i = Len(Channel) \/ Channel[i] = malformed[f]
     IN /\ tried' = [tried EXCEPT ![f] = i]
        /\ fAt' = [fAt EXCEPT ![f] = IF last THEN "done" ELSE "send"]
  /\ UNCHANGED <<ended, kpi, malformed, runRows, pipelineRow, phHistory>>

\* A statement raises, which is swallowed, or the worker dies.  After a failed
\* record the drift of a completed run is looked up all the same.
Abandon(f) ==
  /\ fAt[f] \notin {"new", "done", "stopped"}
  /\ \/ fAt' = [fAt EXCEPT ![f] = "stopped"]
     \/ fAt[f] = "record" /\ ended[f] = "completed" /\ fAt' = [fAt EXCEPT ![f] = "lookup"]
  /\ UNCHANGED <<ended, kpi, tried, malformed, runRows, pipelineRow, phHistory>>

-----------------------------------------------------------------------------
(* The tenant's requests                                                   *)

SetActive ==
  /\ exists /\ active' = ~active
  /\ raced' = raced \cup {f \in PFire : ended[f] = "completed"}
  /\ UNCHANGED <<fireVars, runRows, exists, counter, told, streak, crossed, base>>

\* DELETE: the rows of the runs stay, without the pipeline's id.
DeletePipeline ==
  /\ exists
  /\ exists' = FALSE /\ saved' = [f \in PFire |-> 0]
  /\ raced' = raced \cup Comparers(NoFire) \cup Readers(NoFire)
  /\ UNCHANGED <<fireVars, stamp, active, counter, told, streak, crossed, base>>

\* record_pipeline_health of a deleted pipeline updates no row.
RecordNothing(f) ==
  /\ ~exists
  /\ FireGoto(f, "record", IF ended[f] = "completed" THEN "lookup" ELSE "read")
  /\ UNCHANGED <<ended, kpi, tried, malformed, runRows, pipelineRow, phHistory>>

PHNext ==
  \/ \E f \in PFire :
       \/ FireEnds(f) \/ Approved(f) \/ Record(f) \/ RecordNothing(f) \/ Read(f)
       \/ LookUpPrevious(f) \/ Send(f) \/ Abandon(f)
  \/ SetActive \/ DeletePipeline

PHSpec == PHInit /\ [][PHNext]_phVars

-----------------------------------------------------------------------------
PHTypeOK ==
  /\ fAt \in [PFire -> {"new", "record", "read", "lookup", "send", "done", "stopped"}]
  /\ ended \in [PFire -> {"none", "completed", "failed", "awaiting_approval", "approved"}]
  /\ kpi \in [PFire -> Kpi \cup {0}]
  /\ tried \in [PFire -> 0..Len(Channel)] /\ malformed \in [PFire -> Channels \cup {"none"}]
  /\ saved \in [PFire -> 0..stamp] /\ stamp \in Nat
  /\ \A f, g \in PFire : saved[f] = saved[g] => f = g \/ saved[f] = 0
  /\ exists \in BOOLEAN /\ active \in BOOLEAN /\ counter \in Nat
  /\ told \in [PFire -> {"none", "alert", "digest"}]
  /\ streak \in Nat /\ crossed \in SUBSET PFire /\ raced \in SUBSET PFire
  /\ base \in [PFire -> PFire \cup {NoFire}]

\* A fire alerts if and only if its own failure is the one that makes the streak
\* as long as the threshold, unless another fire was recorded, or the pipeline
\* deleted, before it read the counter again.
AlertOnCrossing ==
  \A f \in PFire \ raced :
    fAt[f] \in {"send", "done"} /\ ended[f] = "failed"
      => (told[f] = "alert" <=> f \in crossed)

\* A completed fire delivers a digest if and only if its KPI has drifted from that
\* of the completed run before it, unless another completed run was saved, or the
\* pipeline deleted, before it looked that run up, or it was paused or resumed since.
DigestOnDrift ==
  \A f \in PFire \ raced :
    fAt[f] \in {"send", "done"} /\ ended[f] = "completed" /\ active /\ base[f] # NoFire
      => (told[f] = "digest" <=> Triggered(kpi[base[f]], kpi[f]))
=============================================================================
