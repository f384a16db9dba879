-------------------------- MODULE PipelineSettings --------------------------
(***************************************************************************)
(* The endpoints of one saved pipeline (api/routers/pipelines.py over      *)
(* audit/db/pipelines.py and audit/db/health.py).  A request reads, writes *)
(* and reads again in transactions of its own, so requests interleave      *)
(* between them; a tick of the scheduler that claims the pipeline does so  *)
(* too.  Answering a GET takes three lookups in parallel.                  *)
(*                                                                         *)
(* A row is a record of its columns.  One of them, name, stands for those  *)
(* that a PATCH only copies: spec, business_question, drift_threshold_pct, *)
(* quality_rules and the approval policy.                                  *)
(***************************************************************************)
EXTENDS Integers, Sequences, FiniteSets

CONSTANTS
  PRequest,     \* the requests
  Name, Cron,   \* values of the columns name and cron_schedule; Bad is not valid
  Pair,         \* the allowed provider-model pairs, as records
  Chan,         \* ALLOWED_NOTIFICATION_CHANNELS
  HealthWindow, \* DEFAULT_PIPELINE_HEALTH_WINDOW
  MaxFires,     \* bound: runs the pipeline saves
  Omit, None, Bad, NoRequest

ASSUME PipelineSettingsAssumption ==
  /\ \A p \in Pair : p = [provider |-> p.provider, model |-> p.model]
  /\ Name # {} /\ HealthWindow \in Nat /\ MaxFires \in Nat
  /\ Omit \notin Name \cup Cron \cup BOOLEAN /\ Bad \notin Cron \cup Chan \cup {None}

VARIABLES
  psRow,    \* the saved_pipelines row
  psRuns,   \* statuses of the pipeline's runs, oldest first
  psAt,     \* where each request is
  psOp,     \* what it asks for
  psWrite,  \* the columns it is about to write
  psLooked, \* what the lookups of a GET have found
  psAnswer, \* what it answers: an HTTP status, and for a GET the composed settings
  psTick,   \* the row a tick has listed, and is about to claim
  psLast,   \* history: per column, the request that wrote it last
  psStale   \* history: a schedule was changed under the feet of one who then
            \* writes an instant of the schedule it had read

psVars == <<psRow, psRuns, psAt, psOp, psWrite, psLooked, psAnswer, psTick, psLast, psStale>>
reqVars == <<psAt, psOp, psWrite, psLooked, psAnswer>>

Instant == {1, 2} \* instants may coincide for two schedules

PatchBody == [kind : {"patch"}, name : Name \cup {Omit}, cron : Cron \cup {Omit, Bad},
              active : BOOLEAN \cup {Omit}]
NoPair == [provider |-> None, model |-> None]
\* Both null clears the override.
LlmBody == [kind : {"llm"}, pair : Pair \cup {NoPair, Bad}]
NotifyBody == [kind : {"notify"}, channel : Chan \cup {None, Bad}]
Operation == PatchBody \cup LlmBody \cup NotifyBody \cup [kind : {"get", "history", "delete"}]

Column == {"name", "cron", "active", "provider", "model", "channel", "configured"}

\* _value_required..., _both_or_neither, _validate_source_type, the allowlists.
Valid(op) ==
  /\ op.kind = "patch" => op.cron # Bad
  /\ op.kind = "llm" => op.pair # Bad
  /\ op.kind = "notify" => op.channel # Bad

\* The columns a request names, with their values; the target of a notification is
\* kept encrypted, and is there if and only if a channel is.
Named(op) ==
  CASE op.kind = "patch" ->
         [c \in {d \in {"name", "cron", "active"} : op[d] # Omit} |-> op[c]]
    [] op.kind = "llm" -> op.pair
    [] op.kind = "notify" -> [channel |-> op.channel, configured |-> op.channel # None]
    [] OTHER -> <<>>

\* create_saved_pipeline; a pause may have followed.
Created(cron, active, at) ==
  [exists |-> TRUE, name |-> CHOOSE n \in Name : TRUE, cron |-> cron, active |-> active,
   next |-> [of |-> cron, at |-> at],
   provider |-> None, model |-> None, channel |-> None, configured |-> FALSE]

NoRow == [exists |-> FALSE]
NoAnswer == [status |-> 0]

\* The lookups that a GET needs.
Part == {"health", "llm", "notify"}

PSInit ==
  /\ \E c \in Cron, b \in BOOLEAN, i \in Instant : psRow = Created(c, b, i)
  /\ psRuns = <<>>
  /\ psAt = [q \in PRequest |-> "new"] /\ psOp = [q \in PRequest |-> [kind |-> "none"]]
  /\ psWrite = [q \in PRequest |-> <<>>] /\ psLooked = [q \in PRequest |-> [part \in Part |-> None]]
  /\ psAnswer = [q \in PRequest |-> NoAnswer]
  /\ psTick = NoRow
  /\ psLast = [c \in Column |-> NoRequest] /\ psStale = FALSE

AnswerWith(q, answer) ==
  /\ psAnswer' = [psAnswer EXCEPT ![q] = answer]
  /\ psAt' = [psAt EXCEPT ![q] = "answered"]

-----------------------------------------------------------------------------
(* Requests                                                                *)

Arrive(q, op) ==
  /\ psAt[q] = "new"
  /\ psOp' = [psOp EXCEPT ![q] = op]
  /\ IF Valid(op) THEN psAt' = [psAt EXCEPT ![q] = "read"] /\ UNCHANGED psAnswer
                  ELSE AnswerWith(q, [status |-> 400])
  /\ UNCHANGED <<psRow, psRuns, psWrite, psLooked, psTick, psLast, psStale>>

\* get_saved_pipeline: of no other tenant, and not of a deleted pipeline.
NotFound(q) ==
  /\ psAt[q] \in {"read", "reread"} /\ ~psRow.exists
  /\ AnswerWith(q, [status |-> 404])
  /\ UNCHANGED <<psRow, psRuns, psOp, psWrite, psLooked, psTick, psLast, psStale>>

\* A mistake: the next instant is computed before the schedule is replaced.
ColumnsOldSchedule(q, row) ==
  LET named == DOMAIN Named(psOp[q])
      due == IF psOp[q].cron # Omit THEN {"next"} ELSE {}
  IN {[c \in named \cup due |->
         IF c = "next" THEN [of |-> row.cron, at |-> i] ELSE Named(psOp[q])[c]] : i \in Instant}

\* The columns that are written, with an instant of the schedule if that is new or has
\* been paused.
Columns(q, row) ==
  LET op == psOp[q]
      cron == IF op.cron # Omit THEN op.cron ELSE row.cron
      becameActive == op.active = TRUE /\ row.active = FALSE
      due == IF op.cron # Omit \/ becameActive THEN {"next"} ELSE {}
  IN {[c \in DOMAIN Named(op) \cup due |->
         IF c = "next" THEN [of |-> cron, at |-> i] ELSE Named(op)[c]] : i \in Instant}

\* update_saved_pipeline: what it is about to write depends on the row it has read.
PatchReads(q) ==
  /\ psAt[q] = "read" /\ psOp[q].kind = "patch" /\ psRow.exists
  /\ \E w \in Columns(q, psRow) : psWrite' = [psWrite EXCEPT ![q] = w]
  /\ psAt' = [psAt EXCEPT ![q] = "write"]
  /\ UNCHANGED <<psRow, psRuns, psOp, psLooked, psAnswer, psTick, psLast, psStale>>

\* A mistake: the whole of what was read is written back, the name with it.
ConfigReadsName(q) ==
  /\ psAt[q] = "read" /\ psOp[q].kind \in {"llm", "notify"} /\ psRow.exists
  /\ psWrite' = [psWrite EXCEPT ![q] = [c \in DOMAIN Named(psOp[q]) \cup {"name"} |->
                                        IF c = "name" THEN psRow.name ELSE Named(psOp[q])[c]]]
  /\ psAt' = [psAt EXCEPT ![q] = "write"]
  /\ UNCHANGED <<psRow, psRuns, psOp, psLooked, psAnswer, psTick, psLast, psStale>>

\* set_saved_pipeline_llm_config, set_saved_pipeline_notification_config.
ConfigReads(q) ==
  /\ psAt[q] = "read" /\ psOp[q].kind \in {"llm", "notify"} /\ psRow.exists
  /\ psWrite' = [psWrite EXCEPT ![q] = Named(psOp[q])]
  /\ psAt' = [psAt EXCEPT ![q] = "write"]
  /\ UNCHANGED <<psRow, psRuns, psOp, psLooked, psAnswer, psTick, psLast, psStale>>

\* Those about to write an instant of the schedule they have read.
WithInstant == {q \in PRequest : psAt[q] = "write" /\ "next" \in DOMAIN psWrite[q]
                                   /\ "cron" \notin DOMAIN psWrite[q]}

\* UPDATE ... SET: the columns that are named, and no others.
SetColumns(row, columns) ==
  [c \in DOMAIN row |-> IF c \in DOMAIN columns THEN columns[c] ELSE row[c]]

\* The UPDATE; of a deleted pipeline it changes no row.
Update(q, columns) ==
  IF ~psRow.exists THEN UNCHANGED <<psRow, psLast, psStale>>
  ELSE /\ psRow' = SetColumns(psRow, columns)
       /\ psLast' = [c \in Column |-> IF c \in DOMAIN Named(psOp[q]) THEN q ELSE psLast[c]]
       /\ psStale' = (psStale \/ /\ psRow'.cron # psRow.cron
                                 /\ WithInstant # {} \/ psTick.exists)

PatchWrites(q) ==
  /\ psAt[q] = "write" /\ psOp[q].kind = "patch"
  /\ Update(q, psWrite[q])
  /\ psAt' = [psAt EXCEPT ![q] = "reread"]
  /\ UNCHANGED <<psRuns, psOp, psWrite, psLooked, psAnswer, psTick>>

\* A PATCH answers with the row it reads afterwards.
PatchRereads(q) ==
  /\ psAt[q] = "reread" /\ psRow.exists
  /\ AnswerWith(q, [status |-> 200])
  /\ UNCHANGED <<psRow, psRuns, psOp, psWrite, psLooked, psTick, psLast, psStale>>

\* A PUT answers with what it was given, whether or not there was a row to change.
ConfigWrites(q) ==
  /\ psAt[q] = "write" /\ psOp[q].kind \in {"llm", "notify"}
  /\ Update(q, psWrite[q])
  /\ AnswerWith(q, [status |-> 200])
  /\ UNCHANGED <<psRuns, psOp, psWrite, psLooked, psTick>>

DeleteRow(q) ==
  /\ psAt[q] = "read" /\ psOp[q].kind = "delete" /\ psRow.exists
  /\ psRow' = NoRow
  /\ AnswerWith(q, [status |-> 204])
  /\ UNCHANGED <<psRuns, psOp, psWrite, psLooked, psTick, psLast, psStale>>

\* The history is read after the check that there is a pipeline.
History(q) ==
  /\ psAt[q] = "read" /\ psOp[q].kind = "history" /\ psRow.exists
  /\ AnswerWith(q, [status |-> 200])
  /\ UNCHANGED <<psRow, psRuns, psOp, psWrite, psLooked, psTick, psLast, psStale>>

-----------------------------------------------------------------------------
(* GET: the row, then the three lookups, each in a transaction of its own  *)

GetReads(q) ==
  /\ psAt[q] = "read" /\ psOp[q].kind = "get" /\ psRow.exists
  /\ psAt' = [psAt EXCEPT ![q] = "lookup"]
  /\ UNCHANGED <<psRow, psRuns, psOp, psWrite, psLooked, psAnswer, psTick, psLast, psStale>>

\* get_pipeline_health, of the newest runs in the window.
Health ==
  LET size == IF Len(psRuns) < HealthWindow THEN Len(psRuns) ELSE HealthWindow
  IN [sample |-> size, completed |->
        Cardinality({i \in 1..size : psRuns[Len(psRuns) - size + i] = "completed"})]

\* What each lookup finds; the defaults of _compose if there is no row any more.
Finds(part) ==
  CASE part = "health" -> Health
    [] part = "llm" -> IF psRow.exists THEN [provider |-> psRow.provider, model |-> psRow.model]
                       ELSE NoPair
    [] part = "notify" -> IF psRow.exists
                          THEN [channel |-> psRow.channel, configured |-> psRow.configured]
                          ELSE [channel |-> None, configured |-> FALSE]

LookUpPart(q, part) ==
  /\ psAt[q] = "lookup" /\ psLooked[q][part] = None
  /\ psLooked' = [psLooked EXCEPT ![q] = [@ EXCEPT ![part] = Finds(part)]]
  /\ UNCHANGED <<psRow, psRuns, psAt, psOp, psWrite, psAnswer, psTick, psLast, psStale>>

Compose(q) ==
  /\ psAt[q] = "lookup" /\ \A part \in Part : psLooked[q][part] # None
  /\ LET found == psLooked[q] IN
       AnswerWith(q, [status |-> 200, health |-> found.health,
                      provider |-> found.llm.provider, model |-> found.llm.model,
                      channel |-> found.notify.channel,
                      configured |-> found.notify.configured])
  /\ UNCHANGED <<psRow, psRuns, psOp, psWrite, psLooked, psTick, psLast, psStale>>

-----------------------------------------------------------------------------
(* The scheduler, of which this is only the part that touches the row, and *)
(* the runs it leads to                                                    *)

\* list_due_pipelines
TickReadsRow ==
  /\ psRow.exists /\ psRow.active /\ ~psTick.exists
  /\ psTick' = psRow
  /\ UNCHANGED <<psRow, psRuns, reqVars, psLast, psStale>>

\* claim_due_pipeline: the row must still have the instant that was listed.
TickClaimsRow ==
  /\ psTick.exists
  /\ IF psRow.exists /\ psRow.next.at = psTick.next.at
     THEN /\ \E i \in Instant : psRow' = SetColumns(psRow, [next |-> [of |-> psTick.cron, at |-> i]])
          /\ \E status \in {"completed", "failed"} :
               psRuns' = IF Len(psRuns) < MaxFires THEN Append(psRuns, status) ELSE psRuns
     ELSE UNCHANGED <<psRow, psRuns>>
  /\ psTick' = NoRow
  /\ UNCHANGED <<reqVars, psLast, psStale>>

PSNext ==
  \/ \E q \in PRequest :
       \/ \E op \in Operation : Arrive(q, op)
       \/ NotFound(q) \/ PatchReads(q) \/ PatchWrites(q) \/ PatchRereads(q)
       \/ ConfigReads(q) \/ ConfigWrites(q) \/ DeleteRow(q) \/ History(q)
       \/ GetReads(q) \/ (\E part \in Part : LookUpPart(q, part)) \/ Compose(q)
  \/ TickReadsRow \/ TickClaimsRow

PSSpec == PSInit /\ [][PSNext]_psVars

-----------------------------------------------------------------------------
\* A provider is stored, and shown to a client, only with a model of its own, and a
\* channel only with a target.
WholePair(s) ==
  /\ [provider |-> s.provider, model |-> s.model] \in Pair \cup {NoPair}
  /\ s.configured <=> s.channel # None
PairsAreWhole ==
  /\ psRow.exists => WholePair(psRow)
  /\ \A q \in PRequest :
       psOp[q].kind = "get" /\ psAnswer[q].status = 200 => WholePair(psAnswer[q])

\* Requests, the row and what is shown of it are of the shapes that the client and the
\* next request expect.
PSTypeOK ==
  /\ psAt \in [PRequest -> {"new", "read", "write", "reread", "lookup", "answered"}]
  /\ psRow.exists => /\ psRow.name \in Name /\ psRow.cron \in Cron /\ psRow.active \in BOOLEAN
                     /\ psRow.next \in [of : Cron, at : Instant]
  /\ \A q \in PRequest : psAnswer[q].status \in {0, 200, 204, 400, 404}
  /\ Len(psRuns) <= MaxFires /\ psLast \in [Column -> PRequest \cup {NoRequest}]
  /\ psStale \in BOOLEAN
  /\ PairsAreWhole

\* However requests interleave, a column of the row has the value that the last
\* request to name it gave it: an edit of one setting loses no edit of another.
NoEditLost ==
  psRow.exists =>
    \A c \in Column : psLast[c] # NoRequest => psRow[c] = Named(psOp[psLast[c]])[c]

\* The next fire is an instant of the schedule the row has, unless the schedule was
\* changed between the read and the write of a resume or of a claim.
FiresBySchedule == psRow.exists => psRow.next.of = psRow.cron \/ psStale
=============================================================================
