----------------------------- MODULE Scheduler ------------------------------
(***************************************************************************)
(* The beat task that fires due saved pipelines (services/scheduler.py),   *)
(* against the requests that edit one (audit/db/pipelines.py).             *)
(*                                                                         *)
(* One row of saved_pipelines is modelled: ticks treat each row on its     *)
(* own.  Beat queues a tick every interval, whether or not the last one    *)
(* has ended, so ticks overlap; a Tick is a worker that runs one tick      *)
(* after another.  Each transaction on the row is a step of its own.       *)
(*                                                                         *)
(* A cron expression is the set of the instants it denotes.  Ends of a     *)
(* schedule do not exist: a validated five-field expression has no year.   *)
(***************************************************************************)
EXTENDS Integers

CONSTANTS
  Tick,          \* workers that run check_scheduled_pipelines_task
  Patch,         \* PATCH requests for the pipeline, each made at most once
  Crons,         \* cron expressions, each the set of its instants
  Horizon,       \* bound: the clock stops here
  MaxCrashes,    \* bound: how many ticks may die
  MaxUnanswered, \* bound: how many enqueues of an instant may raise with the task queued
  Keep           \* a field that a PATCH request omits

ASSUME CronAssumption ==
  /\ Crons \subseteq SUBSET Nat
  /\ Keep \notin Crons
  /\ \A c \in Crons, time \in 0..Horizon : \E i \in c : time < i
ASSUME BoundAssumption == Horizon \in Nat /\ MaxCrashes \in Nat /\ MaxUnanswered \in Nat
ASSUME KeepAssumption == Keep \notin Nat /\ Keep \notin BOOLEAN

VARIABLES
  now,        \* the clock
  row,        \* the saved_pipelines row: exists, is_active, cron_schedule, next_run_at
  lastTask,   \* the instant whose task last_task_id names; 0 if none
  at,         \* where each tick is with this pipeline
  expected,   \* expected_next_run_at: next_run_at as the tick listed it
  listedCron, \* cron_schedule as the tick listed it
  claimed,    \* new_next_run_at, which the tick's claim wrote
  patch,      \* where each PATCH request is
  values,     \* the columns a PATCH request is about to write
  fired,      \* history: calls of enqueue_analysis for each instant that returned
  unanswered, \* history: those that raised although the task was queued
  lost,       \* history: claims of each instant that died with their tick
  overtaken,  \* history: releases of each instant that matched no row
  rewritten,  \* history: a PATCH has recomputed next_run_at
  crashes

tickVars == <<at, expected, listedCron, claimed>>
patchVars == <<patch, values>>
historyVars == <<fired, unanswered, lost, overtaken, rewritten, crashes>>
vars == <<now, row, lastTask, tickVars, patchVars, historyVars>>

Instant == UNION Crons

\* compute_next_run_at: i is the first instant of cron after time.
IsNext(cron, time, i) ==
  /\ i \in cron
  /\ time < i
  /\ \A j \in cron : time < j => i <= j

\* The instants a tick has claimed and not yet fired or given back.
Pending(t) == at[t] \in {"claimed", "failed"}

-----------------------------------------------------------------------------
\* create_saved_pipeline, at time 0
Init ==
  /\ now = 0
  /\ row \in {r \in [exists : {TRUE}, active : {TRUE}, cron : Crons, next : Instant] :
                IsNext(r.cron, 0, r.next)}
  /\ lastTask = 0
  /\ at = [t \in Tick |-> "idle"]
  /\ expected = [t \in Tick |-> row.next]
  /\ listedCron = [t \in Tick |-> row.cron]
  /\ claimed = [t \in Tick |-> row.next]
  /\ patch = [p \in Patch |-> "new"]
  /\ values = [p \in Patch |-> [active |-> Keep, cron |-> Keep, next |-> Keep]]
  /\ fired = [i \in Instant |-> 0]
  /\ unanswered = [i \in Instant |-> 0]
  /\ lost = [i \in Instant |-> 0]
  /\ overtaken = [i \in Instant |-> 0]
  /\ rewritten = FALSE
  /\ crashes = 0

-----------------------------------------------------------------------------
(* check_scheduled_pipelines_task                                          *)

TickGoto(t, from, to) ==
  /\ at[t] = from
  /\ at' = [at EXCEPT ![t] = to]

Due == row.exists /\ row.active /\ row.next <= now

\* list_due_pipelines returns the row.
TickLists(t) ==
  /\ Due
  /\ TickGoto(t, "idle", "listed")
  /\ expected' = [expected EXCEPT ![t] = row.next]
  /\ listedCron' = [listedCron EXCEPT ![t] = row.cron]
  /\ UNCHANGED <<now, row, lastTask, claimed, patchVars, historyVars>>

\* list_due_pipelines does not return the row.
TickFindsNothing(t) ==
  /\ ~Due
  /\ at[t] = "idle"
  /\ UNCHANGED vars

\* A mistake: the claim is an UPDATE without the compare.
TickClaimsBlindly(t) ==
  /\ TickGoto(t, "listed", "claimed")
  /\ \E i \in Instant :
       /\ IsNext(listedCron[t], expected[t], i)
       /\ claimed' = [claimed EXCEPT ![t] = i]
       /\ row' = [row EXCEPT !.next = i]
  /\ UNCHANGED <<now, lastTask, expected, listedCron, patchVars, historyVars>>

\* A mistake: the next instant is computed from the clock, not from the listed one.
TickClaimsFromNow(t) ==
  /\ row.exists /\ row.next = expected[t]
  /\ TickGoto(t, "listed", "claimed")
  /\ \E i \in Instant :
       /\ IsNext(listedCron[t], now, i)
       /\ claimed' = [claimed EXCEPT ![t] = i]
       /\ row' = [row EXCEPT !.next = i]
  /\ UNCHANGED <<now, lastTask, expected, listedCron, patchVars, historyVars>>

\* claim_due_pipeline finds next_run_at as listed and advances it.
TickClaims(t) ==
  /\ row.exists /\ row.next = expected[t]
  /\ TickGoto(t, "listed", "claimed")
  /\ \E i \in Instant :
       /\ IsNext(listedCron[t], expected[t], i)
       /\ claimed' = [claimed EXCEPT ![t] = i]
       /\ row' = [row EXCEPT !.next = i]
  /\ UNCHANGED <<now, lastTask, expected, listedCron, patchVars, historyVars>>

\* claim_due_pipeline matches no row: skipped.
TickLosesClaim(t) ==
  /\ ~(row.exists /\ row.next = expected[t])
  /\ TickGoto(t, "listed", "idle")
  /\ UNCHANGED <<now, row, lastTask, expected, listedCron, claimed, patchVars, historyVars>>

\* enqueue_analysis publishes the task.
TickEnqueues(t) ==
  /\ TickGoto(t, "claimed", "fired")
  /\ fired' = [fired EXCEPT ![expected[t]] = @ + 1]
  /\ UNCHANGED <<now, row, lastTask, expected, listedCron, claimed, patchVars,
                 unanswered, lost, overtaken, rewritten, crashes>>

\* enqueue_analysis raises: the rate limit, the budget, or anything else.
TickEnqueueFails(t) ==
  /\ TickGoto(t, "claimed", "failed")
  /\ UNCHANGED <<now, row, lastTask, expected, listedCron, claimed, patchVars, historyVars>>

\* enqueue_analysis raises because the broker's answer to .delay() was lost: the
\* task is queued, and the tick takes it for a failure like any other.
TickEnqueueUnanswered(t) ==
  /\ unanswered[expected[t]] < MaxUnanswered
  /\ TickGoto(t, "claimed", "failed")
  /\ unanswered' = [unanswered EXCEPT ![expected[t]] = @ + 1]
  /\ UNCHANGED <<now, row, lastTask, expected, listedCron, claimed, patchVars,
                 fired, lost, overtaken, rewritten, crashes>>

\* A mistake: the release is an UPDATE without the compare.
TickReleasesBlindly(t) ==
  /\ TickGoto(t, "failed", "idle")
  /\ row' = [row EXCEPT !.next = expected[t]]
  /\ UNCHANGED <<now, lastTask, expected, listedCron, claimed, patchVars, historyVars>>

\* A mistake: the claim is not given back.
TickForgetsRelease(t) ==
  /\ TickGoto(t, "failed", "idle")
  /\ UNCHANGED <<now, row, lastTask, expected, listedCron, claimed, patchVars, historyVars>>

\* release_pipeline_claim, a no-op if next_run_at is not what the claim wrote.
TickReleases(t) ==
  LET undo == row.exists /\ row.next = claimed[t]
  IN /\ TickGoto(t, "failed", "idle")
     /\ row' = IF undo THEN [row EXCEPT !.next = expected[t]] ELSE row
     /\ overtaken' = IF undo THEN overtaken
                     ELSE [overtaken EXCEPT ![expected[t]] = @ + 1]
     /\ UNCHANGED <<now, lastTask, expected, listedCron, claimed, patchVars,
                    fired, unanswered, lost, rewritten, crashes>>

\* record_pipeline_run, which compares nothing
TickRecords(t) ==
  /\ TickGoto(t, "fired", "idle")
  /\ lastTask' = IF row.exists THEN expected[t] ELSE lastTask
  /\ UNCHANGED <<now, row, expected, listedCron, claimed, patchVars, historyVars>>

\* The worker dies, or a statement outside the try block raises and ends the
\* tick; its message has been acknowledged.
TickCrashes(t) ==
  /\ crashes < MaxCrashes
  /\ at[t] # "idle"
  /\ at' = [at EXCEPT ![t] = "idle"]
  /\ lost' = IF Pending(t) THEN [lost EXCEPT ![expected[t]] = @ + 1] ELSE lost
  /\ crashes' = crashes + 1
  /\ UNCHANGED <<now, row, lastTask, expected, listedCron, claimed, patchVars,
                 fired, unanswered, overtaken, rewritten>>

-----------------------------------------------------------------------------
(* Requests                                                                *)

\* update_saved_pipeline reads the row and the clock and computes its columns.
PatchReads(p, active, cron) ==
  LET becomesActive == active = TRUE /\ ~row.active
      resolvedCron == IF cron = Keep THEN row.cron ELSE cron
  IN /\ patch[p] = "new"
     /\ row.exists
     /\ patch' = [patch EXCEPT ![p] = "computed"]
     /\ \E next \in Instant \cup {Keep} :
          /\ IF cron # Keep \/ becomesActive
             THEN next # Keep /\ IsNext(resolvedCron, now, next)
             ELSE next = Keep
          /\ values' = [values EXCEPT ![p] = [active |-> active, cron |-> cron, next |-> next]]
     /\ UNCHANGED <<now, row, lastTask, tickVars, historyVars>>

\* The UPDATE, in a transaction of its own.
PatchWrites(p) ==
  LET Written(column, old) == IF column = Keep THEN old ELSE column
  IN /\ patch[p] = "computed"
     /\ patch' = [patch EXCEPT ![p] = "done"]
     /\ row' = IF row.exists
               THEN [row EXCEPT !.active = Written(values[p].active, @),
                                !.cron = Written(values[p].cron, @),
                                !.next = Written(values[p].next, @)]
               ELSE row
     /\ rewritten' = (rewritten \/ (row.exists /\ values[p].next # Keep))
     /\ UNCHANGED <<now, lastTask, tickVars, values, fired, unanswered, lost, overtaken, crashes>>

\* delete_saved_pipeline
Delete ==
  /\ row.exists
  /\ row' = [row EXCEPT !.exists = FALSE]
  /\ UNCHANGED <<now, lastTask, tickVars, patchVars, historyVars>>

Advance ==
  /\ now < Horizon
  /\ now' = now + 1
  /\ UNCHANGED <<row, lastTask, tickVars, patchVars, historyVars>>

-----------------------------------------------------------------------------
TickStep(t) ==
  \/ TickLists(t) \/ TickFindsNothing(t)
  \/ TickClaims(t) \/ TickLosesClaim(t)
  \/ TickEnqueues(t) \/ TickEnqueueFails(t) \/ TickEnqueueUnanswered(t)
  \/ TickReleases(t) \/ TickRecords(t)

PatchStep(p) ==
  \/ \E active \in BOOLEAN \cup {Keep}, cron \in Crons \cup {Keep} :
       PatchReads(p, active, cron)
  \/ PatchWrites(p)

Next ==
  \/ \E t \in Tick : TickStep(t) \/ TickCrashes(t)
  \/ \E p \in Patch : PatchStep(p)
  \/ Delete
  \/ Advance

Spec == Init /\ [][Next]_vars

\* Beat keeps queueing ticks and workers keep running them; time passes.  A
\* tenant's calls to enqueue_analysis succeed again and again: windows of the
\* rate limiter and months of the budget end.
Fairness ==
  /\ WF_vars(Advance)
  /\ \A t \in Tick : WF_vars(TickStep(t)) /\ SF_vars(TickEnqueues(t))

FairSpec == Spec /\ Fairness

-----------------------------------------------------------------------------
(* Properties                                                              *)

Places == {"idle", "listed", "claimed", "failed", "fired"}

\* The row holds a cron of the schedule's own and one of the instants, never an
\* omitted PATCH field; what ticks hold are instants.
TypeOK ==
  /\ now \in 0..Horizon
  /\ row \in [exists : BOOLEAN, active : BOOLEAN, cron : Crons, next : Instant]
  /\ lastTask \in Instant \cup {0}
  /\ at \in [Tick -> Places]
  /\ expected \in [Tick -> Instant] /\ claimed \in [Tick -> Instant]
  /\ listedCron \in [Tick -> Crons]
  /\ patch \in [Patch -> {"new", "computed", "done"}]
  /\ values \in [Patch -> [active : BOOLEAN \cup {Keep}, cron : Crons \cup {Keep},
                           next : Instant \cup {Keep}]]
  /\ fired \in [Instant -> Nat] /\ unanswered \in [Instant -> Nat]
  /\ lost \in [Instant -> Nat]
  /\ overtaken \in [Instant -> Nat]
  /\ rewritten \in BOOLEAN
  /\ crashes \in 0..MaxCrashes

\* The tasks that ticks have put on the queue for an instant.
Tasks(i) == fired[i] + unanswered[i]

\* scheduler.py, "exactly one overlapping tick can win the claim for a given due
\* fire": however ticks overlap, fail, give claims back and die, an instant has at
\* most one task, as long as no PATCH recomputes next_run_at, and one more for each
\* enqueue_analysis that raised with its task on the queue: its tick gives the
\* claim back, and the next one fires the instant again.
AtMostOnce == ~rewritten => \A i \in Instant : Tasks(i) <= 1 + unanswered[i]

\* The same claim without the provisos.  The code does not keep it.
AtMostOnceAnyway == \A i \in Instant : Tasks(i) <= 1

\* As long as no PATCH recomputes next_run_at, an instant that next_run_at has
\* passed was fired, or is in a tick's hands, or died with its tick, or was
\* given back too late: ticks lose no instant in any other way.
NoSilentMiss ==
  ~rewritten =>
    \A i \in row.cron :
      0 < i /\ i < row.next =>
        \/ fired[i] > 0 \/ lost[i] > 0 \/ overtaken[i] > 0
        \/ \E t \in Tick : Pending(t) /\ expected[t] = i

\* A due instant of a pipeline that stays active is fired in the end, although
\* enqueue_analysis may fail many times ("retried on the very next tick rather
\* than silently missing this fire").
DueFires ==
  \A i \in Instant :
    Due /\ row.next = i ~> fired[i] > 0 \/ ~row.exists \/ ~row.active \/ rewritten

\* The scheduler implements the ledger of fires: an enqueue that raised with its
\* task queued settles nothing, and a PATCH that recomputes next_run_at is the
\* ledger's edit.
Ledger == INSTANCE FireLedger WITH
  fires <- fired,
  doubts <- unanswered,
  drops <- [i \in Instant |-> lost[i] + overtaken[i]],
  edited <- rewritten

KeepsLedger == Ledger!Spec
=============================================================================
