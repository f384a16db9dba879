------------------------ MODULE Tenant_proofs ------------------------
(***************************************************************************)
(* Proofs about the saved pipelines of a tenant, for any number of         *)
(* requests and of fires, any values and thresholds: no edit of the        *)
(* settings is lost and fires follow the schedule (PipelineSettings),      *)
(* alerts and digests are of what happened (PipelineHealth).  The last     *)
(* part is about MCTenant: what its runs check of four parts side by side  *)
(* is checked of each of them alone.                                       *)
(***************************************************************************)
EXTENDS MCTenant, ExecutionQueue_proofs, TenantData_proofs

-----------------------------------------------------------------------------
(* The settings of a pipeline                                              *)

SettingsKind == {"patch", "llm", "notify"}
Stage == {"new", "read", "write", "reread", "lookup", "answered"}

\* What is kept for each request.
PlacesInv ==
  /\ psAt \in [PRequest -> Stage]
  /\ DOMAIN psOp = PRequest /\ DOMAIN psWrite = PRequest
  /\ DOMAIN psLooked = PRequest /\ DOMAIN psAnswer = PRequest
  /\ psLast \in [Column -> PRequest \cup {NoRequest}]
  /\ psStale \in BOOLEAN

\* A request past its validation is one of those there are.
OpInv ==
  \A q \in PRequest :
    /\ psAt[q] # "new" => psOp[q] \in Operation
    /\ psAt[q] \in {"read", "write", "reread", "lookup"} => Valid(psOp[q])
    /\ psAt[q] = "write" => psOp[q].kind \in SettingsKind
    /\ psAt[q] = "reread" => psOp[q].kind = "patch"
    /\ psAt[q] = "lookup" => psOp[q].kind = "get"

\* A row has all of its columns.
RowOK(row) ==
  /\ DOMAIN row = Column \cup {"exists", "next"}
  /\ row.name \in Name /\ row.cron \in Cron /\ row.active \in BOOLEAN
  /\ row.next \in [of : Cron, at : Instant]
  /\ WholePair(row)

RowInv == psRow.exists \in BOOLEAN /\ (psRow.exists => RowOK(psRow))

RunsInv == psRuns \in Seq({"completed", "failed"}) /\ Len(psRuns) <= MaxFires

\* What is about to be written: the columns of the request, and an instant.
WriteOK(named, w) ==
  /\ DOMAIN named \subseteq DOMAIN w /\ DOMAIN w \subseteq DOMAIN named \cup {"next"}
  /\ \A c \in DOMAIN named : w[c] = named[c]
  /\ "next" \in DOMAIN w => w["next"] \in [of : Cron, at : Instant]
  /\ "cron" \in DOMAIN w => "next" \in DOMAIN w /\ w["next"].of = w["cron"]

WriteInv ==
  \A q \in PRequest : psAt[q] = "write" => WriteOK(Named(psOp[q]), psWrite[q])

\* What the lookups have found, of a pair or channel that was whole.
LookedOK(looks) ==
  /\ DOMAIN looks = Part
  /\ looks["llm"] # None => looks["llm"] \in Pair \cup {NoPair}
  /\ looks["notify"] # None => (looks["notify"].configured <=> looks["notify"].channel # None)

LookedInv == \A q \in PRequest : LookedOK(psLooked[q])

\* Nothing has been answered before the answer.
AnswerInv ==
  \A q \in PRequest :
    /\ psAnswer[q].status \in {0, 200, 204, 400, 404}
    /\ psAt[q] # "answered" => psAnswer[q].status = 0
    /\ psOp[q].kind = "get" /\ psAnswer[q].status = 200 => WholePair(psAnswer[q])

\* An edit is of a request that has arrived, and that names the column.
EditInv ==
  \A c \in Column : psLast[c] # NoRequest =>
    psAt[psLast[c]] # "new" /\ c \in DOMAIN Named(psOp[psLast[c]])

TickInv ==
  psTick.exists =>
    psTick.cron \in Cron /\ (psRow.exists => psTick.cron = psRow.cron \/ psStale)

\* Who writes an instant without its schedule writes one of the row's.
InstantInv ==
  \A q \in WithInstant :
    psRow.exists => psWrite[q].next.of = psRow.cron \/ psStale

PSInv ==
  /\ PlacesInv /\ OpInv /\ RowInv /\ RunsInv /\ WriteInv /\ LookedInv /\ AnswerInv
  /\ EditInv /\ TickInv /\ InstantInv

\* An UPDATE sets what it names.
LEMMA SetNamed ==
  ASSUME NEW row, NEW columns, NEW c \in DOMAIN row
  PROVE  /\ DOMAIN SetColumns(row, columns) = DOMAIN row
         /\ c \in DOMAIN columns => SetColumns(row, columns)[c] = columns[c]
         /\ c \notin DOMAIN columns => SetColumns(row, columns)[c] = row[c]
BY DEF SetColumns

\* What a valid request names is of the shape of its column.
NamedOK(w) ==
  /\ "name" \in DOMAIN w => w["name"] \in Name
  /\ "cron" \in DOMAIN w => w["cron"] \in Cron
  /\ "active" \in DOMAIN w => w["active"] \in BOOLEAN
  /\ "provider" \in DOMAIN w <=> "model" \in DOMAIN w
  /\ "provider" \in DOMAIN w =>
       [provider |-> w["provider"], model |-> w["model"]] \in Pair \cup {NoPair}
  /\ "channel" \in DOMAIN w <=> "configured" \in DOMAIN w
  /\ "channel" \in DOMAIN w => (w["configured"] <=> w["channel"] # None)

\* A channel is written together with whether it is configured.
LEMMA TargetWithChannel ==
  ASSUME NEW w, NEW channel, w = [channel |-> channel, configured |-> channel # None]
  PROVE  DOMAIN w \subseteq Column /\ NamedOK(w)
<1>1. DOMAIN w = {"channel", "configured"} /\ w["channel"] = channel
  OBVIOUS
<1>2. w["configured"] = (channel # None)
  BY Zenon
<1>3. QED
  BY <1>1, <1>2 DEF NamedOK, Column

\* A valid request names whole pairs of columns.
LEMMA NamedColumns ==
  ASSUME NEW op \in Operation, Valid(op)
  PROVE  DOMAIN Named(op) \subseteq Column /\ NamedOK(Named(op))
<1>1. CASE op.kind = "patch"
  <2>1. op \in PatchBody
    BY <1>1 DEF Operation, PatchBody, LlmBody, NotifyBody
  <2>2. /\ op.name \in Name \cup {Omit} /\ op.cron \in Cron \cup {Omit}
        /\ op.active \in BOOLEAN \cup {Omit}
    BY <2>1, <1>1 DEF PatchBody, Valid
  <2>3. Named(op) = [c \in {d \in {"name", "cron", "active"} : op[d] # Omit} |-> op[c]]
    BY <1>1 DEF Named
  <2>4. op["name"] = op.name /\ op["cron"] = op.cron /\ op["active"] = op.active
    OBVIOUS
  <2>5. QED
    BY <2>2, <2>3, <2>4 DEF NamedOK, Column
<1>2. CASE op.kind = "llm"
  <2>1. op \in LlmBody
    BY <1>2 DEF Operation, PatchBody, LlmBody, NotifyBody
  <2>2. op.pair \in Pair \cup {NoPair}
    BY <2>1, <1>2 DEF LlmBody, Valid
  <2>3. Named(op) = op.pair
    BY <1>2 DEF Named
  <2>4. op.pair = [provider |-> op.pair.provider, model |-> op.pair.model]
    BY <2>2, PipelineSettingsAssumption DEF NoPair
  <2>5. QED
    BY <2>2, <2>3, <2>4 DEF NamedOK, Column
<1>3. CASE op.kind = "notify"
  <2>1. Named(op) = [channel |-> op.channel, configured |-> op.channel # None]
    BY <1>3 DEF Named
  <2>2. QED
    BY <2>1, TargetWithChannel
<1>4. CASE op.kind \notin SettingsKind
  <2>1. Named(op) = <<>>
    BY <1>4 DEF Named, SettingsKind
  <2>2. DOMAIN <<>> = {}
    OBVIOUS
  <2>3. QED
    BY <2>1, <2>2, Zenon DEF NamedOK, Column
<1>5. QED
  BY <1>1, <1>2, <1>3, <1>4 DEF SettingsKind

\* A PUT names no schedule.
LEMMA NamesOfConfig ==
  ASSUME NEW op \in LlmBody \cup NotifyBody, Valid(op)
  PROVE  "next" \notin DOMAIN Named(op) /\ "cron" \notin DOMAIN Named(op)
<1>1. CASE op.kind = "llm"
  <2>1. op.pair \in Pair \cup {NoPair} /\ Named(op) = op.pair
    BY <1>1 DEF LlmBody, NotifyBody, Valid, Named
  <2>2. op.pair = [provider |-> op.pair.provider, model |-> op.pair.model]
    BY <2>1, PipelineSettingsAssumption DEF NoPair
  <2>3. QED
    BY <2>1, <2>2
<1>2. CASE op.kind = "notify"
  <2>1. Named(op) = [channel |-> op.channel, configured |-> op.channel # None]
    BY <1>2 DEF Named
  <2>2. QED
    BY <2>1
<1>3. QED
  BY <1>1, <1>2 DEF LlmBody, NotifyBody

\* A whole row stays whole when a request's columns are written.
LEMMA RowWritten ==
  ASSUME NEW row, RowOK(row), NEW named, NamedOK(named), DOMAIN named \subseteq Column,
         NEW w, WriteOK(named, w)
  PROVE  RowOK(SetColumns(row, w)) /\ SetColumns(row, w).exists = row.exists
<1> DEFINE new == SetColumns(row, w)
<1>1. DOMAIN new = Column \cup {"exists", "next"}
  BY SetNamed DEF SetColumns, RowOK
<1>2. \A c \in Column \cup {"exists", "next"} :
        new[c] = IF c \in DOMAIN w THEN w[c] ELSE row[c]
  BY DEF SetColumns, RowOK
<1> HIDE DEF new
<1>3. /\ new["exists"] = row["exists"]
      /\ \A c \in Column : new[c] = IF c \in DOMAIN named THEN named[c] ELSE row[c]
  BY <1>2 DEF WriteOK, Column
<1>4. new["next"] \in [of : Cron, at : Instant]
  BY <1>2 DEF WriteOK, RowOK
<1>5. new["name"] \in Name /\ new["cron"] \in Cron /\ new["active"] \in BOOLEAN
  BY <1>3 DEF NamedOK, RowOK, Column
<1>6. [provider |-> new["provider"], model |-> new["model"]] \in Pair \cup {NoPair}
  BY <1>3 DEF NamedOK, RowOK, WholePair, Column
<1>7. new["configured"] <=> new["channel"] # None
  <2>1. CASE "channel" \in DOMAIN named
    BY <1>3, <2>1 DEF NamedOK, Column
  <2>2. CASE "channel" \notin DOMAIN named
    BY <1>3, <2>2 DEF NamedOK, RowOK, WholePair, Column
  <2>3. QED
    BY <2>1, <2>2
<1>8. QED
  BY <1>1, <1>3, <1>4, <1>5, <1>6, <1>7 DEF RowOK, WholePair, new

\* What a PATCH is about to write.
LEMMA ColumnsOK ==
  ASSUME NEW q \in PRequest, psOp[q] \in PatchBody, Valid(psOp[q]), psRow.exists, RowInv,
         NEW w \in Columns(q, psRow)
  PROVE  /\ WriteOK(Named(psOp[q]), w)
         /\ "next" \in DOMAIN w /\ "cron" \notin DOMAIN w => w["next"].of = psRow.cron
<1> DEFINE op == psOp[q]
           cron == IF op.cron # Omit THEN op.cron ELSE psRow.cron
           due == IF op.cron # Omit \/ (op.active = TRUE /\ psRow.active = FALSE)
                  THEN {"next"} ELSE {}
<1>1. PICK i \in Instant :
        w = [c \in DOMAIN Named(op) \cup due |->
               IF c = "next" THEN [of |-> cron, at |-> i] ELSE Named(op)[c]]
  BY DEF Columns
<1>2. op.kind = "patch" /\ op.cron \in Cron \cup {Omit}
  BY DEF PatchBody, Valid
<1>3. Named(op) = [c \in {d \in {"name", "cron", "active"} : op[d] # Omit} |-> op[c]]
  BY <1>2 DEF Named
<1>4. /\ "next" \notin DOMAIN Named(op) /\ ("cron" \in DOMAIN Named(op) <=> op["cron"] # Omit)
      /\ "cron" \in DOMAIN Named(op) => Named(op)["cron"] = op["cron"]
  BY <1>3
<1>5. cron \in Cron
  BY <1>2 DEF RowInv, RowOK
<1> HIDE DEF cron
<1>6. "cron" \in DOMAIN Named(op) => due = {"next"} /\ cron = Named(op)["cron"]
  BY <1>4 DEF cron
<1>7. "cron" \notin DOMAIN Named(op) => cron = psRow.cron
  BY <1>4 DEF cron
<1>8. due \subseteq {"next"}
  OBVIOUS
<1> HIDE DEF due
<1>9. QED
  BY <1>1, <1>4, <1>5, <1>6, <1>7, <1>8 DEF WriteOK

\* A lookup of a whole row, or of none, finds what is whole.
LEMMA FoundOK ==
  ASSUME RowInv, NEW looks, LookedOK(looks), NEW piece \in Part
  PROVE  LookedOK([looks EXCEPT ![piece] = Finds(piece)])
<1> DEFINE new == [looks EXCEPT ![piece] = Finds(piece)]
<1>1. DOMAIN new = Part /\ \A p \in Part : new[p] = IF p = piece THEN Finds(piece) ELSE looks[p]
  BY DEF LookedOK
<1>2. CASE piece = "llm"
  <2>1. Finds("llm") \in Pair \cup {NoPair}
    BY DEF Finds, RowInv, RowOK, WholePair
  <2>2. QED
    BY <1>1, <1>2, <2>1 DEF LookedOK, Part
<1>3. CASE piece = "notify"
  <2>1. Finds("notify") = IF psRow.exists
                          THEN [channel |-> psRow.channel, configured |-> psRow.configured]
                          ELSE [channel |-> None, configured |-> FALSE]
    BY DEF Finds
  <2>2. CASE psRow.exists
    <3>1. Finds("notify").channel = psRow.channel /\ Finds("notify").configured = psRow.configured
      BY <2>1, <2>2
    <3>2. psRow.configured <=> psRow.channel # None
      BY <2>2 DEF RowInv, RowOK, WholePair
    <3>3. new["notify"] = Finds("notify") /\ new["llm"] = looks["llm"]
      BY <1>1, <1>3 DEF Part
    <3>4. QED
      BY <1>1, <3>1, <3>2, <3>3 DEF LookedOK
  <2>3. CASE ~psRow.exists
    <3>1. Finds("notify").channel = None /\ Finds("notify").configured = FALSE
      BY <2>1, <2>3
    <3>2. new["notify"] = Finds("notify") /\ new["llm"] = looks["llm"]
      BY <1>1, <1>3 DEF Part
    <3>3. QED
      BY <1>1, <3>1, <3>2 DEF LookedOK
  <2>4. QED
    BY <2>2, <2>3
<1>4. CASE piece = "health"
  BY <1>1, <1>4 DEF LookedOK, Part
<1>5. QED
  BY <1>2, <1>3, <1>4 DEF Part

\* Requests are where they can be.
LEMMA PlacesStep ==
  ASSUME PlacesInv, [PSNext]_psVars
  PROVE  PlacesInv'
<1> USE DEF PlacesInv, Stage
<1>1. ASSUME NEW q \in PRequest, NEW op \in Operation, Arrive(q, op) PROVE PlacesInv'
  BY <1>1 DEF Arrive, AnswerWith
<1>2. ASSUME NEW q \in PRequest,
   NotFound(q) \/ PatchRereads(q) \/ History(q) \/ DeleteRow(q) PROVE PlacesInv'
  BY <1>2 DEF NotFound, PatchRereads, History, DeleteRow, AnswerWith
<1>3. ASSUME NEW q \in PRequest, Compose(q) PROVE PlacesInv'
  BY <1>3 DEF Compose, AnswerWith
<1>4. ASSUME NEW q \in PRequest, PatchReads(q) PROVE PlacesInv'
  BY <1>4 DEF PatchReads
<1>5. ASSUME NEW q \in PRequest, ConfigReads(q) PROVE PlacesInv'
  BY <1>5 DEF ConfigReads
<1>6. ASSUME NEW q \in PRequest, PatchWrites(q) PROVE PlacesInv'
  BY <1>6 DEF PatchWrites, Update
<1>7. ASSUME NEW q \in PRequest, ConfigWrites(q) PROVE PlacesInv'
  BY <1>7 DEF ConfigWrites, Update, AnswerWith
<1>8. ASSUME NEW q \in PRequest, GetReads(q) PROVE PlacesInv'
  BY <1>8 DEF GetReads
<1>9. ASSUME NEW q \in PRequest, NEW piece \in Part, LookUpPart(q, piece) PROVE PlacesInv'
  BY <1>9 DEF LookUpPart
<1>10. CASE TickReadsRow
  BY <1>10 DEF TickReadsRow, reqVars
<1>11. CASE TickClaimsRow
  BY <1>11 DEF TickClaimsRow, reqVars
<1>12. CASE UNCHANGED psVars
  BY <1>12 DEF psVars
<1>13. QED
  BY <1>1, <1>2, <1>3, <1>4, <1>5, <1>6, <1>7, <1>8, <1>9, <1>10, <1>11, <1>12 DEF PSNext

\* A request stays what it is.
LEMMA OpStep ==
  ASSUME PlacesInv, OpInv, [PSNext]_psVars
  PROVE  OpInv'
<1> USE DEF PlacesInv, OpInv, Stage, SettingsKind
<1>1. ASSUME NEW q \in PRequest, NEW op \in Operation, Arrive(q, op) PROVE OpInv'
  BY <1>1 DEF Arrive, AnswerWith
<1>2. ASSUME NEW q \in PRequest,
   NotFound(q) \/ PatchRereads(q) \/ History(q) \/ DeleteRow(q) PROVE OpInv'
  BY <1>2 DEF NotFound, PatchRereads, History, DeleteRow, AnswerWith
<1>3. ASSUME NEW q \in PRequest, Compose(q) PROVE OpInv'
  BY <1>3 DEF Compose, AnswerWith
<1>4. ASSUME NEW q \in PRequest, PatchReads(q) PROVE OpInv'
  BY <1>4 DEF PatchReads
<1>5. ASSUME NEW q \in PRequest, ConfigReads(q) PROVE OpInv'
  BY <1>5 DEF ConfigReads
<1>6. ASSUME NEW q \in PRequest, PatchWrites(q) PROVE OpInv'
  BY <1>6 DEF PatchWrites, Update
<1>7. ASSUME NEW q \in PRequest, ConfigWrites(q) PROVE OpInv'
  BY <1>7 DEF ConfigWrites, Update, AnswerWith
<1>8. ASSUME NEW q \in PRequest, GetReads(q) PROVE OpInv'
  BY <1>8 DEF GetReads
<1>9. ASSUME NEW q \in PRequest, NEW piece \in Part, LookUpPart(q, piece) PROVE OpInv'
  BY <1>9 DEF LookUpPart
<1>10. CASE TickReadsRow
  BY <1>10 DEF TickReadsRow, reqVars
<1>11. CASE TickClaimsRow
  BY <1>11 DEF TickClaimsRow, reqVars
<1>12. CASE UNCHANGED psVars
  BY <1>12 DEF psVars
<1>13. QED
  BY <1>1, <1>2, <1>3, <1>4, <1>5, <1>6, <1>7, <1>8, <1>9, <1>10, <1>11, <1>12 DEF PSNext

\* Answers come at the end.
LEMMA AnswerStep ==
  ASSUME PlacesInv, OpInv, AnswerInv, LookedInv, [PSNext]_psVars
  PROVE  AnswerInv'
<1> USE DEF PlacesInv, OpInv, AnswerInv, Stage, SettingsKind
<1>1. ASSUME NEW q \in PRequest, NEW op \in Operation, Arrive(q, op) PROVE AnswerInv'
  BY <1>1 DEF Arrive, AnswerWith
<1>2. ASSUME NEW q \in PRequest,
   NotFound(q) \/ PatchRereads(q) \/ History(q) \/ DeleteRow(q) PROVE AnswerInv'
  BY <1>2 DEF NotFound, PatchRereads, History, DeleteRow, AnswerWith
<1>3. ASSUME NEW q \in PRequest, Compose(q) PROVE AnswerInv'
  <2>1. psAt[q] = "lookup" /\ psAnswer[q].status = 0 /\ psOp[q].kind = "get"
    BY <1>3 DEF Compose
  <2>2. PICK looks : looks = psLooked[q] /\ looks.llm # None /\ looks.notify # None
          /\ psAnswer' = [psAnswer EXCEPT ![q] =
               [status |-> 200, health |-> looks.health,
                provider |-> looks.llm.provider, model |-> looks.llm.model,
                channel |-> looks.notify.channel,
                configured |-> looks.notify.configured]]
    BY <1>3 DEF Compose, AnswerWith, Part
  <2>3. /\ [provider |-> looks.llm.provider, model |-> looks.llm.model] \in Pair \cup {NoPair}
        /\ looks.notify.configured <=> looks.notify.channel # None
    BY <2>1, <2>2, PipelineSettingsAssumption DEF LookedInv, LookedOK, NoPair
  <2>4. psAnswer'[q].status = 200 /\ WholePair(psAnswer'[q])
    BY <2>2, <2>3 DEF WholePair
  <2>5. psAt' = [psAt EXCEPT ![q] = "answered"] /\ UNCHANGED psOp
    BY <1>3 DEF Compose, AnswerWith
  <2>6. \A r \in PRequest : r # q => psAnswer'[r] = psAnswer[r]
    BY <2>2
  <2>7. QED
    BY <2>4, <2>5, <2>6 DEF WholePair
<1>4. ASSUME NEW q \in PRequest, PatchReads(q) PROVE AnswerInv'
  BY <1>4 DEF PatchReads
<1>5. ASSUME NEW q \in PRequest, ConfigReads(q) PROVE AnswerInv'
  BY <1>5 DEF ConfigReads
<1>6. ASSUME NEW q \in PRequest, PatchWrites(q) PROVE AnswerInv'
  BY <1>6 DEF PatchWrites, Update
<1>7. ASSUME NEW q \in PRequest, ConfigWrites(q) PROVE AnswerInv'
  BY <1>7 DEF ConfigWrites, Update, AnswerWith
<1>8. ASSUME NEW q \in PRequest, GetReads(q) PROVE AnswerInv'
  BY <1>8 DEF GetReads
<1>9. ASSUME NEW q \in PRequest, NEW piece \in Part, LookUpPart(q, piece) PROVE AnswerInv'
  BY <1>9 DEF LookUpPart
<1>10. CASE TickReadsRow
  BY <1>10 DEF TickReadsRow, reqVars
<1>11. CASE TickClaimsRow
  BY <1>11 DEF TickClaimsRow, reqVars
<1>12. CASE UNCHANGED psVars
  BY <1>12 DEF psVars
<1>13. QED
  BY <1>1, <1>2, <1>3, <1>4, <1>5, <1>6, <1>7, <1>8, <1>9, <1>10, <1>11, <1>12 DEF PSNext

\* The row stays whole.
LEMMA RowStep ==
  ASSUME RowInv, PlacesInv, OpInv, WriteInv, TickInv, [PSNext]_psVars
  PROVE  RowInv'
<1> USE DEF RowInv
<1>1. ASSUME NEW q \in PRequest, NEW op \in Operation, Arrive(q, op) PROVE RowInv'
  BY <1>1 DEF Arrive, AnswerWith, PatchBody
<1>2. ASSUME NEW q \in PRequest,
   NotFound(q) \/ PatchRereads(q) \/ History(q) \/ DeleteRow(q) PROVE RowInv'
  <2>1. CASE DeleteRow(q)
    BY <2>1, Zenon DEF DeleteRow, NoRow
  <2>2. CASE NotFound(q) \/ PatchRereads(q) \/ History(q)
    BY <2>2 DEF NotFound, PatchRereads, History
  <2>3. QED
    BY <1>2, <2>1, <2>2
<1>3. ASSUME NEW q \in PRequest, Compose(q) PROVE RowInv'
  BY <1>3 DEF Compose, AnswerWith
<1>4. ASSUME NEW q \in PRequest, PatchReads(q) PROVE RowInv'
  BY <1>4 DEF PatchReads
<1>5. ASSUME NEW q \in PRequest, ConfigReads(q) PROVE RowInv'
  BY <1>5 DEF ConfigReads
<1>6. ASSUME NEW q \in PRequest, PatchWrites(q) PROVE RowInv'
  <2>1. psAt[q] = "write" /\ (psRow.exists => psRow' = SetColumns(psRow, psWrite[q]))
          /\ (~psRow.exists => psRow' = psRow)
    BY <1>6 DEF PatchWrites, Update
  <2>2. WriteOK(Named(psOp[q]), psWrite[q]) /\ Valid(psOp[q]) /\ psOp[q] \in Operation
    BY <2>1 DEF WriteInv, OpInv
  <2>3. NamedOK(Named(psOp[q])) /\ DOMAIN Named(psOp[q]) \subseteq Column
    BY <2>2, NamedColumns
  <2>4. CASE psRow.exists
    <3>1. RowOK(psRow) /\ psRow' = SetColumns(psRow, psWrite[q])
      BY <2>1, <2>4 DEF RowInv
    <3>2. RowOK(SetColumns(psRow, psWrite[q]))
            /\ SetColumns(psRow, psWrite[q]).exists = psRow.exists
      BY <2>2, <2>3, <3>1, RowWritten
    <3>3. QED
      BY <3>1, <3>2, <2>4 DEF RowInv
  <2>5. CASE ~psRow.exists
    BY <2>1, <2>5 DEF RowInv
  <2>6. QED
    BY <2>4, <2>5 DEF RowInv
<1>7. ASSUME NEW q \in PRequest, ConfigWrites(q) PROVE RowInv'
  <2>1. psAt[q] = "write" /\ (psRow.exists => psRow' = SetColumns(psRow, psWrite[q]))
          /\ (~psRow.exists => psRow' = psRow)
    BY <1>7 DEF ConfigWrites, Update
  <2>2. WriteOK(Named(psOp[q]), psWrite[q]) /\ Valid(psOp[q]) /\ psOp[q] \in Operation
    BY <2>1 DEF WriteInv, OpInv
  <2>3. NamedOK(Named(psOp[q])) /\ DOMAIN Named(psOp[q]) \subseteq Column
    BY <2>2, NamedColumns
  <2>4. CASE psRow.exists
    <3>1. RowOK(psRow) /\ psRow' = SetColumns(psRow, psWrite[q])
      BY <2>1, <2>4 DEF RowInv
    <3>2. RowOK(SetColumns(psRow, psWrite[q]))
            /\ SetColumns(psRow, psWrite[q]).exists = psRow.exists
      BY <2>2, <2>3, <3>1, RowWritten
    <3>3. QED
      BY <3>1, <3>2, <2>4 DEF RowInv
  <2>5. CASE ~psRow.exists
    BY <2>1, <2>5 DEF RowInv
  <2>6. QED
    BY <2>4, <2>5 DEF RowInv
<1>8. ASSUME NEW q \in PRequest, GetReads(q) PROVE RowInv'
  BY <1>8 DEF GetReads
<1>9. ASSUME NEW q \in PRequest, NEW piece \in Part, LookUpPart(q, piece) PROVE RowInv'
  BY <1>9 DEF LookUpPart
<1>10. CASE TickReadsRow
  BY <1>10 DEF TickReadsRow, reqVars
<1>11. CASE TickClaimsRow
  <2>1. CASE psRow' = psRow
    BY <2>1
  <2>2. ASSUME psRow.exists, psTick.exists, NEW i \in Instant,
                psRow' = SetColumns(psRow, [next |-> [of |-> psTick.cron, at |-> i]])
         PROVE  RowInv'
    <3> DEFINE w == [next |-> [of |-> psTick.cron, at |-> i]]
    <3>1. psTick.cron \in Cron
      BY <2>2 DEF TickInv
    <3>2. DOMAIN w = {"next"} /\ w["next"] = [of |-> psTick.cron, at |-> i]
      OBVIOUS
    <3> HIDE DEF w
    <3>3. DOMAIN <<>> = {}
      OBVIOUS
    <3>4. NamedOK(<<>>) /\ DOMAIN <<>> \subseteq Column
      BY <3>3, Zenon DEF NamedOK
    <3>5. WriteOK(<<>>, w)
      BY <3>1, <3>2, <3>3 DEF WriteOK
    <3>6. psRow' = SetColumns(psRow, w)
      BY <2>2 DEF w
    <3>7. RowOK(psRow') /\ psRow'.exists = psRow.exists
      BY <2>2, <3>4, <3>5, <3>6, RowWritten, ZenonT(60) DEF RowInv
    <3>8. QED
      BY <3>7, <2>2 DEF RowInv
  <2>3. QED
    BY <1>11, <2>1, <2>2 DEF TickClaimsRow
<1>12. CASE UNCHANGED psVars
  BY <1>12 DEF psVars
<1>13. QED
  BY <1>1, <1>2, <1>3, <1>4, <1>5, <1>6, <1>7, <1>8, <1>9, <1>10, <1>11, <1>12 DEF PSNext

\* The history of the runs stays within its bound.
LEMMA RunsStep ==
  ASSUME RunsInv, [PSNext]_psVars
  PROVE  RunsInv'
<1> USE DEF RunsInv
<1>1. ASSUME NEW q \in PRequest, NEW op \in Operation, Arrive(q, op) PROVE RunsInv'
  BY <1>1 DEF Arrive, AnswerWith
<1>2. ASSUME NEW q \in PRequest,
   NotFound(q) \/ PatchRereads(q) \/ History(q) \/ DeleteRow(q) PROVE RunsInv'
  BY <1>2 DEF NotFound, PatchRereads, History, DeleteRow, AnswerWith
<1>3. ASSUME NEW q \in PRequest, Compose(q) PROVE RunsInv'
  BY <1>3 DEF Compose, AnswerWith
<1>4. ASSUME NEW q \in PRequest, PatchReads(q) PROVE RunsInv'
  BY <1>4 DEF PatchReads
<1>5. ASSUME NEW q \in PRequest, ConfigReads(q) PROVE RunsInv'
  BY <1>5 DEF ConfigReads
<1>6. ASSUME NEW q \in PRequest, PatchWrites(q) PROVE RunsInv'
  BY <1>6 DEF PatchWrites, Update
<1>7. ASSUME NEW q \in PRequest, ConfigWrites(q) PROVE RunsInv'
  BY <1>7 DEF ConfigWrites, Update, AnswerWith
<1>8. ASSUME NEW q \in PRequest, GetReads(q) PROVE RunsInv'
  BY <1>8 DEF GetReads
<1>9. ASSUME NEW q \in PRequest, NEW piece \in Part, LookUpPart(q, piece) PROVE RunsInv'
  BY <1>9 DEF LookUpPart
<1>10. CASE TickReadsRow
  BY <1>10 DEF TickReadsRow, reqVars
<1>11. CASE TickClaimsRow
  BY <1>11, PipelineSettingsAssumption, SMTT(20) DEF TickClaimsRow, reqVars
<1>12. CASE UNCHANGED psVars
  BY <1>12 DEF psVars
<1>13. QED
  BY <1>1, <1>2, <1>3, <1>4, <1>5, <1>6, <1>7, <1>8, <1>9, <1>10, <1>11, <1>12 DEF PSNext

\* A tick that has listed the row knows its schedule, or the change is noted.
LEMMA TickStep ==
  ASSUME PlacesInv, RowInv, TickInv, [PSNext]_psVars
  PROVE  TickInv'
<1> USE DEF TickInv
<1>1. ASSUME NEW q \in PRequest, NEW op \in Operation, Arrive(q, op) PROVE TickInv'
  BY <1>1 DEF Arrive, AnswerWith
<1>2. ASSUME NEW q \in PRequest,
   NotFound(q) \/ PatchRereads(q) \/ History(q) \/ DeleteRow(q) PROVE TickInv'
  BY <1>2 DEF NotFound, PatchRereads, History, DeleteRow, AnswerWith, NoRow
<1>3. ASSUME NEW q \in PRequest, Compose(q) PROVE TickInv'
  BY <1>3 DEF Compose, AnswerWith
<1>4. ASSUME NEW q \in PRequest, PatchReads(q) PROVE TickInv'
  BY <1>4 DEF PatchReads
<1>5. ASSUME NEW q \in PRequest, ConfigReads(q) PROVE TickInv'
  BY <1>5 DEF ConfigReads
<1>6. ASSUME NEW q \in PRequest, PatchWrites(q) PROVE TickInv'
  BY <1>6 DEF PatchWrites, Update
<1>7. ASSUME NEW q \in PRequest, ConfigWrites(q) PROVE TickInv'
  BY <1>7 DEF ConfigWrites, Update, AnswerWith
<1>8. ASSUME NEW q \in PRequest, GetReads(q) PROVE TickInv'
  BY <1>8 DEF GetReads
<1>9. ASSUME NEW q \in PRequest, NEW piece \in Part, LookUpPart(q, piece) PROVE TickInv'
  BY <1>9 DEF LookUpPart
<1>10. CASE TickReadsRow
  BY <1>10 DEF TickReadsRow, reqVars, RowInv, RowOK
<1>11. CASE TickClaimsRow
  BY <1>11 DEF TickClaimsRow, reqVars, NoRow
<1>12. CASE UNCHANGED psVars
  BY <1>12 DEF psVars
<1>13. QED
  BY <1>1, <1>2, <1>3, <1>4, <1>5, <1>6, <1>7, <1>8, <1>9, <1>10, <1>11, <1>12 DEF PSNext

\* A lookup finds what was whole.
LEMMA LookedStep ==
  ASSUME PlacesInv, OpInv, RowInv, LookedInv, [PSNext]_psVars
  PROVE  LookedInv'
<1> USE DEF LookedInv, PlacesInv
<1>1. ASSUME NEW q \in PRequest, NEW op \in Operation, Arrive(q, op) PROVE LookedInv'
  BY <1>1 DEF Arrive, AnswerWith
<1>2. ASSUME NEW q \in PRequest,
   NotFound(q) \/ PatchRereads(q) \/ History(q) \/ DeleteRow(q) PROVE LookedInv'
  BY <1>2 DEF NotFound, PatchRereads, History, DeleteRow, AnswerWith
<1>3. ASSUME NEW q \in PRequest, Compose(q) PROVE LookedInv'
  BY <1>3 DEF Compose, AnswerWith
<1>4. ASSUME NEW q \in PRequest, PatchReads(q) PROVE LookedInv'
  BY <1>4 DEF PatchReads
<1>5. ASSUME NEW q \in PRequest, ConfigReads(q) PROVE LookedInv'
  BY <1>5 DEF ConfigReads
<1>6. ASSUME NEW q \in PRequest, PatchWrites(q) PROVE LookedInv'
  BY <1>6 DEF PatchWrites, Update
<1>7. ASSUME NEW q \in PRequest, ConfigWrites(q) PROVE LookedInv'
  BY <1>7 DEF ConfigWrites, Update, AnswerWith
<1>8. ASSUME NEW q \in PRequest, GetReads(q) PROVE LookedInv'
  BY <1>8 DEF GetReads
<1>9. ASSUME NEW q \in PRequest, NEW piece \in Part, LookUpPart(q, piece) PROVE LookedInv'
  BY <1>9, FoundOK DEF LookUpPart
<1>10. CASE TickReadsRow
  BY <1>10 DEF TickReadsRow, reqVars
<1>11. CASE TickClaimsRow
  BY <1>11 DEF TickClaimsRow, reqVars
<1>12. CASE UNCHANGED psVars
  BY <1>12 DEF psVars
<1>13. QED
  BY <1>1, <1>2, <1>3, <1>4, <1>5, <1>6, <1>7, <1>8, <1>9, <1>10, <1>11, <1>12 DEF PSNext

\* What is about to be written is what was asked for.
LEMMA WriteStep ==
  ASSUME PlacesInv, OpInv, RowInv, WriteInv, [PSNext]_psVars
  PROVE  WriteInv'
<1> USE DEF WriteInv, PlacesInv
<1>1. ASSUME NEW q \in PRequest, NEW op \in Operation, Arrive(q, op) PROVE WriteInv'
  BY <1>1 DEF Arrive, AnswerWith
<1>2. ASSUME NEW q \in PRequest,
   NotFound(q) \/ PatchRereads(q) \/ History(q) \/ DeleteRow(q) PROVE WriteInv'
  BY <1>2 DEF NotFound, PatchRereads, History, DeleteRow, AnswerWith
<1>3. ASSUME NEW q \in PRequest, Compose(q) PROVE WriteInv'
  BY <1>3 DEF Compose, AnswerWith
<1>4. ASSUME NEW q \in PRequest, PatchReads(q) PROVE WriteInv'
  <2>1. psOp[q] \in PatchBody /\ Valid(psOp[q]) /\ psRow.exists
    BY <1>4 DEF PatchReads, OpInv, Operation, LlmBody, NotifyBody
  <2>2. PICK w \in Columns(q, psRow) : psWrite' = [psWrite EXCEPT ![q] = w]
    BY <1>4 DEF PatchReads
  <2>3. WriteOK(Named(psOp[q]), w)
    BY <2>1, <2>2, ColumnsOK
  <2>4. psAt' = [psAt EXCEPT ![q] = "write"] /\ UNCHANGED psOp
    BY <1>4 DEF PatchReads
  <2>5. QED
    BY <2>2, <2>3, <2>4
<1>5. ASSUME NEW q \in PRequest, ConfigReads(q) PROVE WriteInv'
  <2>1. psOp[q] \in LlmBody \cup NotifyBody /\ Valid(psOp[q])
    BY <1>5 DEF ConfigReads, OpInv, Operation, PatchBody, LlmBody, NotifyBody
  <2>2. "next" \notin DOMAIN Named(psOp[q]) /\ "cron" \notin DOMAIN Named(psOp[q])
    BY <2>1, NamesOfConfig
  <2>3. WriteOK(Named(psOp[q]), Named(psOp[q]))
    BY <2>2 DEF WriteOK
  <2>4. psAt' = [psAt EXCEPT ![q] = "write"] /\ UNCHANGED psOp
          /\ psWrite' = [psWrite EXCEPT ![q] = Named(psOp[q])]
    BY <1>5 DEF ConfigReads
  <2>5. QED
    BY <2>3, <2>4
<1>6. ASSUME NEW q \in PRequest, PatchWrites(q) PROVE WriteInv'
  BY <1>6 DEF PatchWrites, Update
<1>7. ASSUME NEW q \in PRequest, ConfigWrites(q) PROVE WriteInv'
  BY <1>7 DEF ConfigWrites, Update, AnswerWith
<1>8. ASSUME NEW q \in PRequest, GetReads(q) PROVE WriteInv'
  BY <1>8 DEF GetReads
<1>9. ASSUME NEW q \in PRequest, NEW piece \in Part, LookUpPart(q, piece) PROVE WriteInv'
  BY <1>9 DEF LookUpPart
<1>10. CASE TickReadsRow
  BY <1>10 DEF TickReadsRow, reqVars
<1>11. CASE TickClaimsRow
  BY <1>11 DEF TickClaimsRow, reqVars
<1>12. CASE UNCHANGED psVars
  BY <1>12 DEF psVars
<1>13. QED
  BY <1>1, <1>2, <1>3, <1>4, <1>5, <1>6, <1>7, <1>8, <1>9, <1>10, <1>11, <1>12 DEF PSNext

\* An edit is of a request that has arrived.
LEMMA EditStep ==
  ASSUME PlacesInv, EditInv, [PSNext]_psVars
  PROVE  EditInv'
<1> USE DEF EditInv, PlacesInv
<1>1. ASSUME NEW q \in PRequest, NEW op \in Operation, Arrive(q, op) PROVE EditInv'
  BY <1>1 DEF Arrive, AnswerWith
<1>2. ASSUME NEW q \in PRequest,
   NotFound(q) \/ PatchRereads(q) \/ History(q) \/ DeleteRow(q) PROVE EditInv'
  BY <1>2 DEF NotFound, PatchRereads, History, DeleteRow, AnswerWith
<1>3. ASSUME NEW q \in PRequest, Compose(q) PROVE EditInv'
  BY <1>3 DEF Compose, AnswerWith
<1>4. ASSUME NEW q \in PRequest, PatchReads(q) PROVE EditInv'
  BY <1>4 DEF PatchReads
<1>5. ASSUME NEW q \in PRequest, ConfigReads(q) PROVE EditInv'
  BY <1>5 DEF ConfigReads
<1>6. ASSUME NEW q \in PRequest, PatchWrites(q) PROVE EditInv'
  BY <1>6 DEF PatchWrites, Update
<1>7. ASSUME NEW q \in PRequest, ConfigWrites(q) PROVE EditInv'
  BY <1>7 DEF ConfigWrites, Update, AnswerWith
<1>8. ASSUME NEW q \in PRequest, GetReads(q) PROVE EditInv'
  BY <1>8 DEF GetReads
<1>9. ASSUME NEW q \in PRequest, NEW piece \in Part, LookUpPart(q, piece) PROVE EditInv'
  BY <1>9 DEF LookUpPart
<1>10. CASE TickReadsRow
  BY <1>10 DEF TickReadsRow, reqVars
<1>11. CASE TickClaimsRow
  BY <1>11 DEF TickClaimsRow, reqVars
<1>12. CASE UNCHANGED psVars
  BY <1>12 DEF psVars
<1>13. QED
  BY <1>1, <1>2, <1>3, <1>4, <1>5, <1>6, <1>7, <1>8, <1>9, <1>10, <1>11, <1>12 DEF PSNext

\* Who writes, writes the columns of the request and no others.
LEMMA NoEditLostStep ==
  ASSUME PlacesInv, RowInv, WriteInv, EditInv, NoEditLost, [PSNext]_psVars
  PROVE  NoEditLost'
<1> USE DEF NoEditLost, EditInv, PlacesInv
<1>1. ASSUME NEW q \in PRequest, NEW op \in Operation, Arrive(q, op) PROVE NoEditLost'
  BY <1>1 DEF Arrive, AnswerWith
<1>2. ASSUME NEW q \in PRequest,
   NotFound(q) \/ PatchRereads(q) \/ History(q) \/ DeleteRow(q) PROVE NoEditLost'
  BY <1>2 DEF NotFound, PatchRereads, History, DeleteRow, AnswerWith, NoRow
<1>3. ASSUME NEW q \in PRequest, Compose(q) PROVE NoEditLost'
  BY <1>3 DEF Compose, AnswerWith
<1>4. ASSUME NEW q \in PRequest, PatchReads(q) PROVE NoEditLost'
  BY <1>4 DEF PatchReads
<1>5. ASSUME NEW q \in PRequest, ConfigReads(q) PROVE NoEditLost'
  BY <1>5 DEF ConfigReads
<1>6. ASSUME NEW q \in PRequest, PatchWrites(q) PROVE NoEditLost'
  <2>1. CASE ~psRow.exists
    BY <1>6, <2>1 DEF PatchWrites, Update
  <2>2. CASE psRow.exists
    <3>1. /\ psAt[q] = "write" /\ UNCHANGED psOp /\ psRow' = SetColumns(psRow, psWrite[q])
          /\ psLast' = [c \in Column |-> IF c \in DOMAIN Named(psOp[q]) THEN q ELSE psLast[c]]
      BY <1>6, <2>2 DEF PatchWrites, Update
    <3>2. WriteOK(Named(psOp[q]), psWrite[q]) /\ DOMAIN psRow = Column \cup {"exists", "next"}
      BY <2>2, <3>1 DEF WriteInv, RowInv, RowOK
    <3>3. \A c \in Column : psRow'[c] = IF c \in DOMAIN Named(psOp[q])
                                       THEN Named(psOp[q])[c] ELSE psRow[c]
      BY <3>1, <3>2, SetNamed DEF WriteOK, Column
    <3>4. QED
      BY <2>2, <3>1, <3>3
  <2>3. QED
    BY <2>1, <2>2
<1>7. ASSUME NEW q \in PRequest, ConfigWrites(q) PROVE NoEditLost'
  <2>1. CASE ~psRow.exists
    BY <1>7, <2>1 DEF ConfigWrites, Update
  <2>2. CASE psRow.exists
    <3>1. /\ psAt[q] = "write" /\ UNCHANGED psOp /\ psRow' = SetColumns(psRow, psWrite[q])
          /\ psLast' = [c \in Column |-> IF c \in DOMAIN Named(psOp[q]) THEN q ELSE psLast[c]]
      BY <1>7, <2>2 DEF ConfigWrites, Update
    <3>2. WriteOK(Named(psOp[q]), psWrite[q]) /\ DOMAIN psRow = Column \cup {"exists", "next"}
      BY <2>2, <3>1 DEF WriteInv, RowInv, RowOK
    <3>3. \A c \in Column : psRow'[c] = IF c \in DOMAIN Named(psOp[q])
                                       THEN Named(psOp[q])[c] ELSE psRow[c]
      BY <3>1, <3>2, SetNamed DEF WriteOK, Column
    <3>4. QED
      BY <2>2, <3>1, <3>3
  <2>3. QED
    BY <2>1, <2>2
<1>8. ASSUME NEW q \in PRequest, GetReads(q) PROVE NoEditLost'
  BY <1>8 DEF GetReads
<1>9. ASSUME NEW q \in PRequest, NEW piece \in Part, LookUpPart(q, piece) PROVE NoEditLost'
  BY <1>9 DEF LookUpPart
<1>10. CASE TickReadsRow
  BY <1>10 DEF TickReadsRow, reqVars
<1>11. CASE TickClaimsRow
  <2>1. CASE psRow' = psRow
    BY <1>11, <2>1 DEF TickClaimsRow, reqVars
  <2>2. ASSUME psRow.exists, NEW i \in Instant,
                psRow' = SetColumns(psRow, [next |-> [of |-> psTick.cron, at |-> i]])
         PROVE  NoEditLost'
    <3>1. DOMAIN [next |-> [of |-> psTick.cron, at |-> i]] = {"next"}
      OBVIOUS
    <3>2. \A c \in Column : psRow'[c] = psRow[c]
      BY <2>2, <3>1, SetNamed DEF RowInv, RowOK, Column
    <3>3. QED
      BY <1>11, <2>2, <3>2 DEF TickClaimsRow, reqVars
  <2>3. QED
    BY <1>11, <2>1, <2>2 DEF TickClaimsRow
<1>12. CASE UNCHANGED psVars
  BY <1>12 DEF psVars
<1>13. QED
  BY <1>1, <1>2, <1>3, <1>4, <1>5, <1>6, <1>7, <1>8, <1>9, <1>10, <1>11, <1>12 DEF PSNext

\* Who is about to write an instant has the schedule of the row, or the change is noted.
LEMMA InstantStep ==
  ASSUME PlacesInv, OpInv, RowInv, WriteInv, InstantInv, [PSNext]_psVars
  PROVE  InstantInv'
<1> USE DEF InstantInv, PlacesInv
<1>1. ASSUME NEW q \in PRequest, NEW op \in Operation, Arrive(q, op) PROVE InstantInv'
  BY <1>1 DEF Arrive, AnswerWith, WithInstant
<1>2. ASSUME NEW q \in PRequest,
   NotFound(q) \/ PatchRereads(q) \/ History(q) \/ DeleteRow(q) PROVE InstantInv'
  BY <1>2 DEF NotFound, PatchRereads, History, DeleteRow, AnswerWith, WithInstant, NoRow
<1>3. ASSUME NEW q \in PRequest, Compose(q) PROVE InstantInv'
  BY <1>3 DEF Compose, AnswerWith, WithInstant
<1>4. ASSUME NEW q \in PRequest, PatchReads(q) PROVE InstantInv'
  <2>1. psOp[q] \in PatchBody /\ Valid(psOp[q]) /\ psRow.exists
    BY <1>4 DEF PatchReads, OpInv, Operation, LlmBody, NotifyBody
  <2>2. PICK w \in Columns(q, psRow) : psWrite' = [psWrite EXCEPT ![q] = w]
    BY <1>4 DEF PatchReads
  <2>3. "next" \in DOMAIN w /\ "cron" \notin DOMAIN w => w["next"].of = psRow.cron
    BY <2>1, <2>2, ColumnsOK
  <2>4. psAt' = [psAt EXCEPT ![q] = "write"] /\ UNCHANGED <<psRow, psStale>>
    BY <1>4 DEF PatchReads
  <2>5. QED
    BY <2>2, <2>3, <2>4 DEF WithInstant
<1>5. ASSUME NEW q \in PRequest, ConfigReads(q) PROVE InstantInv'
  <2>1. psOp[q] \in LlmBody \cup NotifyBody /\ Valid(psOp[q])
    BY <1>5 DEF ConfigReads, OpInv, Operation, PatchBody, LlmBody, NotifyBody
  <2>2. "next" \notin DOMAIN Named(psOp[q])
    BY <2>1, NamesOfConfig
  <2>3. psAt' = [psAt EXCEPT ![q] = "write"] /\ UNCHANGED <<psRow, psStale>>
          /\ psWrite' = [psWrite EXCEPT ![q] = Named(psOp[q])]
    BY <1>5 DEF ConfigReads
  <2>4. QED
    BY <2>2, <2>3 DEF WithInstant
<1>6. ASSUME NEW q \in PRequest, PatchWrites(q) PROVE InstantInv'
  <2>1. psAt[q] = "write" /\ psAt'[q] # "write" /\ UNCHANGED psWrite
          /\ \A r \in PRequest : r # q => psAt'[r] = psAt[r]
    BY <1>6 DEF PatchWrites
  <2>2. WithInstant' \subseteq WithInstant
    BY <2>1 DEF WithInstant
  <2>3. CASE ~psRow.exists
    BY <1>6, <2>2, <2>3 DEF PatchWrites, Update
  <2>4. CASE psRow.exists
    <3>1. psRow' = SetColumns(psRow, psWrite[q]) /\ RowOK(psRow)
          /\ psStale' = (psStale \/ /\ psRow'.cron # psRow.cron
                                    /\ WithInstant # {} \/ psTick.exists)
      BY <1>6, <2>4 DEF PatchWrites, Update, RowInv
    <3>2. \A r \in WithInstant' : psWrite'[r].next.of = psRow'.cron \/ psStale'
      BY <2>1, <2>2, <2>4, <3>1
    <3>3. QED
      BY <3>2
  <2>5. QED
    BY <2>3, <2>4
<1>7. ASSUME NEW q \in PRequest, ConfigWrites(q) PROVE InstantInv'
  <2>1. psAt[q] = "write" /\ psAt'[q] # "write" /\ UNCHANGED psWrite
          /\ \A r \in PRequest : r # q => psAt'[r] = psAt[r]
    BY <1>7 DEF ConfigWrites, AnswerWith
  <2>2. WithInstant' \subseteq WithInstant
    BY <2>1 DEF WithInstant
  <2>3. CASE ~psRow.exists
    BY <1>7, <2>2, <2>3 DEF ConfigWrites, Update
  <2>4. CASE psRow.exists
    <3>1. psRow' = SetColumns(psRow, psWrite[q]) /\ RowOK(psRow)
          /\ psStale' = (psStale \/ /\ psRow'.cron # psRow.cron
                                    /\ WithInstant # {} \/ psTick.exists)
      BY <1>7, <2>4 DEF ConfigWrites, Update, RowInv
    <3>2. \A r \in WithInstant' : psWrite'[r].next.of = psRow'.cron \/ psStale'
      BY <2>1, <2>2, <2>4, <3>1
    <3>3. QED
      BY <3>2
  <2>5. QED
    BY <2>3, <2>4
<1>8. ASSUME NEW q \in PRequest, GetReads(q) PROVE InstantInv'
  BY <1>8 DEF GetReads, WithInstant
<1>9. ASSUME NEW q \in PRequest, NEW piece \in Part, LookUpPart(q, piece) PROVE InstantInv'
  BY <1>9 DEF LookUpPart, WithInstant
<1>10. CASE TickReadsRow
  BY <1>10 DEF TickReadsRow, reqVars, WithInstant
<1>11. CASE TickClaimsRow
  <2>1. psRow'.exists = psRow.exists /\ (psRow.exists => psRow'.cron = psRow.cron)
    <3>1. CASE psRow' = psRow
      BY <3>1
    <3>2. ASSUME psRow.exists, NEW i \in Instant,
                  psRow' = SetColumns(psRow, [next |-> [of |-> psTick.cron, at |-> i]])
           PROVE  psRow'.exists = psRow.exists /\ psRow'.cron = psRow.cron
      <4>1. DOMAIN [next |-> [of |-> psTick.cron, at |-> i]] = {"next"}
        OBVIOUS
      <4>2. psRow'["exists"] = psRow["exists"] /\ psRow'["cron"] = psRow["cron"]
        BY <3>2, <4>1, SetNamed DEF RowInv, RowOK, Column
      <4>3. QED
        BY <4>2
    <3>3. QED
      BY <1>11, <3>1, <3>2 DEF TickClaimsRow
  <2>2. WithInstant' = WithInstant /\ UNCHANGED <<psWrite, psStale>>
    BY <1>11 DEF TickClaimsRow, reqVars, WithInstant
  <2>3. QED
    BY <2>1, <2>2
<1>12. CASE UNCHANGED psVars
  BY <1>12 DEF psVars, WithInstant
<1>13. QED
  BY <1>1, <1>2, <1>3, <1>4, <1>5, <1>6, <1>7, <1>8, <1>9, <1>10, <1>11, <1>12 DEF PSNext

\* Who writes an instant writes one of the schedule that the row then has, or the change is noted.
LEMMA ScheduleStep ==
  ASSUME PlacesInv, RowInv, WriteInv, InstantInv, TickInv, FiresBySchedule, [PSNext]_psVars
  PROVE  FiresBySchedule'
<1> USE DEF FiresBySchedule
<1>1. ASSUME NEW q \in PRequest, NEW op \in Operation, Arrive(q, op) PROVE FiresBySchedule'
  BY <1>1 DEF Arrive, AnswerWith
<1>2. ASSUME NEW q \in PRequest,
   NotFound(q) \/ PatchRereads(q) \/ History(q) \/ DeleteRow(q) PROVE FiresBySchedule'
  BY <1>2 DEF NotFound, PatchRereads, History, DeleteRow, AnswerWith, NoRow
<1>3. ASSUME NEW q \in PRequest, Compose(q) PROVE FiresBySchedule'
  BY <1>3 DEF Compose, AnswerWith
<1>4. ASSUME NEW q \in PRequest, PatchReads(q) PROVE FiresBySchedule'
  BY <1>4 DEF PatchReads
<1>5. ASSUME NEW q \in PRequest, ConfigReads(q) PROVE FiresBySchedule'
  BY <1>5 DEF ConfigReads
<1>6. ASSUME NEW q \in PRequest, PatchWrites(q) PROVE FiresBySchedule'
  <2>1. CASE ~psRow.exists
    BY <1>6, <2>1 DEF PatchWrites, Update
  <2>2. CASE psRow.exists
    <3>1. /\ psAt[q] = "write" /\ psRow' = SetColumns(psRow, psWrite[q])
          /\ psStale => psStale'
      BY <1>6, <2>2 DEF PatchWrites, Update
    <3>2. WriteOK(Named(psOp[q]), psWrite[q]) /\ DOMAIN psRow = Column \cup {"exists", "next"}
      BY <2>2, <3>1 DEF WriteInv, RowInv, RowOK
    <3>3. /\ psRow'["cron"] = IF "cron" \in DOMAIN psWrite[q] THEN psWrite[q]["cron"]
                                                              ELSE psRow["cron"]
          /\ psRow'["next"] = IF "next" \in DOMAIN psWrite[q] THEN psWrite[q]["next"]
                                                              ELSE psRow["next"]
      BY <3>1, <3>2, SetNamed DEF Column
    <3>4. "next" \in DOMAIN psWrite[q] /\ "cron" \notin DOMAIN psWrite[q]
             => psWrite[q].next.of = psRow.cron \/ psStale
      BY <2>2, <3>1 DEF InstantInv, WithInstant
    <3>5. QED
      BY <2>2, <3>1, <3>2, <3>3, <3>4 DEF WriteOK
  <2>3. QED
    BY <2>1, <2>2
<1>7. ASSUME NEW q \in PRequest, ConfigWrites(q) PROVE FiresBySchedule'
  <2>1. CASE ~psRow.exists
    BY <1>7, <2>1 DEF ConfigWrites, Update
  <2>2. CASE psRow.exists
    <3>1. /\ psAt[q] = "write" /\ psRow' = SetColumns(psRow, psWrite[q])
          /\ psStale => psStale'
      BY <1>7, <2>2 DEF ConfigWrites, Update
    <3>2. WriteOK(Named(psOp[q]), psWrite[q]) /\ DOMAIN psRow = Column \cup {"exists", "next"}
      BY <2>2, <3>1 DEF WriteInv, RowInv, RowOK
    <3>3. /\ psRow'["cron"] = IF "cron" \in DOMAIN psWrite[q] THEN psWrite[q]["cron"]
                                                              ELSE psRow["cron"]
          /\ psRow'["next"] = IF "next" \in DOMAIN psWrite[q] THEN psWrite[q]["next"]
                                                              ELSE psRow["next"]
      BY <3>1, <3>2, SetNamed DEF Column
    <3>4. "next" \in DOMAIN psWrite[q] /\ "cron" \notin DOMAIN psWrite[q]
             => psWrite[q].next.of = psRow.cron \/ psStale
      BY <2>2, <3>1 DEF InstantInv, WithInstant
    <3>5. QED
      BY <2>2, <3>1, <3>2, <3>3, <3>4 DEF WriteOK
  <2>3. QED
    BY <2>1, <2>2
<1>8. ASSUME NEW q \in PRequest, GetReads(q) PROVE FiresBySchedule'
  BY <1>8 DEF GetReads
<1>9. ASSUME NEW q \in PRequest, NEW piece \in Part, LookUpPart(q, piece) PROVE FiresBySchedule'
  BY <1>9 DEF LookUpPart
<1>10. CASE TickReadsRow
  BY <1>10 DEF TickReadsRow, reqVars
<1>11. CASE TickClaimsRow
  <2>1. CASE psRow' = psRow
    BY <1>11, <2>1 DEF TickClaimsRow
  <2>2. ASSUME psRow.exists, NEW i \in Instant,
                psRow' = SetColumns(psRow, [next |-> [of |-> psTick.cron, at |-> i]])
         PROVE  FiresBySchedule'
    <3>1. DOMAIN [next |-> [of |-> psTick.cron, at |-> i]] = {"next"}
      OBVIOUS
    <3>2. psRow'["cron"] = psRow["cron"] /\ psRow'["next"] = [of |-> psTick.cron, at |-> i]
      BY <2>2, <3>1, SetNamed DEF RowInv, RowOK, Column
    <3>3. psTick.cron = psRow.cron \/ psStale
      BY <1>11, <2>2 DEF TickClaimsRow, TickInv
    <3>4. QED
      BY <1>11, <3>2, <3>3 DEF TickClaimsRow
  <2>3. QED
    BY <1>11, <2>1, <2>2 DEF TickClaimsRow
<1>12. CASE UNCHANGED psVars
  BY <1>12 DEF psVars
<1>13. QED
  BY <1>1, <1>2, <1>3, <1>4, <1>5, <1>6, <1>7, <1>8, <1>9, <1>10, <1>11, <1>12 DEF PSNext

\* What holds at first.
LEMMA SettingsInit ==
  ASSUME PSInit
  PROVE  PSInv /\ NoEditLost /\ FiresBySchedule
<1>1. PICK c \in Cron, b \in BOOLEAN, i \in Instant : psRow = Created(c, b, i)
  BY DEF PSInit
<1>2. RowOK(psRow) /\ psRow.next.of = psRow.cron
  BY <1>1, PipelineSettingsAssumption DEF Created, RowOK, Column, WholePair, NoPair
<1>3. RowInv /\ FiresBySchedule
  BY <1>1, <1>2 DEF RowInv, FiresBySchedule, Created
<1>4. LookedInv
  BY DEF PSInit, LookedInv, LookedOK, Part
<1>5. PlacesInv /\ OpInv /\ WriteInv /\ AnswerInv /\ InstantInv
  BY DEF PSInit, PlacesInv, Stage, OpInv, WriteInv, AnswerInv, InstantInv, WithInstant, NoAnswer
<1>6. RunsInv
  BY PipelineSettingsAssumption DEF PSInit, RunsInv
<1>7. TickInv
  BY DEF PSInit, TickInv, NoRow
<1>8. EditInv /\ NoEditLost
  BY DEF PSInit, EditInv, NoEditLost, PlacesInv
<1>9. QED
  BY <1>3, <1>4, <1>5, <1>6, <1>7, <1>8 DEF PSInv

\* All of it is kept by every step.
LEMMA SettingsInvariant == PSSpec => [](PSInv /\ NoEditLost /\ FiresBySchedule)
<1>1. PSInv /\ NoEditLost /\ FiresBySchedule /\ [PSNext]_psVars
        => (PSInv /\ NoEditLost /\ FiresBySchedule)'
  BY PlacesStep, OpStep, RowStep, RunsStep, WriteStep, LookedStep, AnswerStep, EditStep,
     TickStep, InstantStep, NoEditLostStep, ScheduleStep DEF PSInv
<1>2. QED
  BY <1>1, SettingsInit, PTL DEF PSSpec

\* Type correctness: requests, the row and what is shown of it keep their shapes, a
\* provider stays with its model and a channel with its target.
THEOREM SettingsTypeCorrect == PSSpec => []PSTypeOK
<1>1. PSInv => PSTypeOK
  BY DEF PSInv, PlacesInv, Stage, RowInv, RowOK, RunsInv, AnswerInv, PSTypeOK, PairsAreWhole
<1>2. QED
  BY <1>1, SettingsInvariant, PTL

\* Of the edits of one pipeline's settings none is lost to an edit of another setting.
THEOREM EditsKept == PSSpec => []NoEditLost
BY SettingsInvariant, PTL

\* The next fire is an instant of the schedule in the row, unless that was changed
\* between the read and the write of a resume or of a claim.
THEOREM FiresCorrect == PSSpec => []FiresBySchedule
BY SettingsInvariant, PTL

-----------------------------------------------------------------------------
(* What follows a fire                                                     *)

FireStage == {"new", "record", "read", "lookup", "send", "done", "stopped"}
FireEnd == {"none", "completed", "failed", "awaiting_approval", "approved"}

\* What is kept for each fire.
FiresInv ==
  /\ fAt \in [PFire -> FireStage] /\ ended \in [PFire -> FireEnd]
  /\ kpi \in [PFire -> Kpi \cup {0}]
  /\ told \in [PFire -> {"none", "alert", "digest"}]
  /\ base \in [PFire -> PFire \cup {NoFire}]
  /\ crossed \subseteq PFire /\ raced \subseteq PFire

FlagsInv == exists \in BOOLEAN /\ active \in BOOLEAN

\* The counter of the row is the number of failures since the last completed fire.
CounterInv == counter \in Nat /\ streak = counter

\* A delivery has a channel left to try.
TriedInv ==
  /\ tried \in [PFire -> 0..Len(Channel)] /\ malformed \in [PFire -> Channels \cup {"none"}]
  /\ \A f \in PFire :
       /\ fAt[f] \in {"new", "record", "read", "lookup"} => tried[f] = 0
       /\ fAt[f] = "send" => tried[f] < Len(Channel)

\* No two rows have the same timestamp, and none a later one than the latest.
StampsInv ==
  /\ stamp \in Nat /\ saved \in [PFire -> 0..stamp]
  /\ \A f, g \in PFire : saved[f] = saved[g] => f = g \/ saved[f] = 0

\* How a run ended is known where its fire is.
EndedInv ==
  \A f \in PFire :
    /\ fAt[f] = "new" <=> ended[f] = "none"
    /\ fAt[f] = "new" => saved[f] = 0
    /\ fAt[f] = "record" => ended[f] \in {"completed", "failed"}
    /\ fAt[f] = "read" => ended[f] = "failed"
    /\ fAt[f] = "lookup" => ended[f] = "completed"
    /\ ended[f] \in {"awaiting_approval", "approved"} => fAt[f] = "done"
    /\ f \in crossed => fAt[f] \notin {"new", "record"}
    /\ base[f] # NoFire => ended[base[f]] # "none"

\* Who is about to read the counter reads what its own failure has made of it.
ReadInv ==
  \A f \in PFire \ raced :
    fAt[f] = "read" => (f \in crossed <=> exists /\ counter = AlertAt)

\* A run is the newest of some, or there is none.
IsNewest(g, runs) ==
  \/ runs = {} /\ g = NoFire
  \/ g \in runs /\ \A h \in runs : saved[h] <= saved[g]

NewestInv == \E g \in PFire \cup {NoFire} : IsNewest(g, Completed)

\* Who is about to compare finds the run that was the newest when its own row was written.
LookInv ==
  \A f \in PFire \ raced :
    ended[f] = "completed" /\ fAt[f] \in {"record", "lookup"}
      => exists /\ IsNewest(base[f], Completed \ {f})

PHInv ==
  /\ FiresInv /\ FlagsInv /\ CounterInv /\ TriedInv /\ StampsInv /\ EndedInv
  /\ ReadInv /\ NewestInv /\ LookInv

\* There is a channel to try.
LEMMA ChannelLeft == Len(Channel) \in Nat \ {0}
BY PipelineHealthAssumption

\* The newest run is a run.
LEMMA NewestTyped ==
  ASSUME NEW runs \in SUBSET PFire, NEW g \in PFire \cup {NoFire}, IsNewest(g, runs)
  PROVE  IsNewest(Newest(runs), runs) /\ Newest(runs) \in runs \cup {NoFire}
BY DEF IsNewest, Newest

\* Only one run is the newest.
LEMMA NewestIs ==
  ASSUME StampsInv, NEW runs \in SUBSET {h \in PFire : saved[h] > 0}, NEW g, IsNewest(g, runs)
  PROVE  Newest(runs) = g
<1>1. \A h, i \in runs : saved[h] <= saved[i] /\ saved[i] <= saved[h] => h = i
  BY DEF StampsInv
<1>2. QED
  BY <1>1 DEF IsNewest, Newest

\* What leaves the rows alone leaves alone who compares.
LEMMA LookSame ==
  ASSUME LookInv, UNCHANGED <<saved, ended, exists, base>>, raced \subseteq raced',
         \A f \in PFire : ended[f] = "completed" /\ fAt'[f] \in {"record", "lookup"}
                          => fAt[f] \in {"record", "lookup"}
  PROVE  LookInv'
BY DEF LookInv, IsNewest, Completed

\* The newest completed run is a completed run, or there is none.
LEMMA NewestCompleted ==
  ASSUME NewestInv
  PROVE  IsNewest(Newest(Completed), Completed) /\ Newest(Completed) \in Completed \cup {NoFire}
BY NewestTyped DEF NewestInv, Completed

\* Fires are where they can be.
LEMMA FiresStep ==
  ASSUME FiresInv, NewestInv, [PHNext]_phVars
  PROVE  FiresInv'
<1> USE DEF FiresInv, FireStage, FireEnd, fireVars, runRows, pipelineRow, phHistory
<1>1. ASSUME NEW f \in PFire, FireEnds(f) PROVE FiresInv'
  <2>1. Newest(Completed) \in PFire \cup {NoFire}
    BY NewestCompleted DEF Completed
  <2>2. /\ fAt' \in [PFire -> FireStage] /\ ended' \in [PFire -> FireEnd]
        /\ kpi' \in [PFire -> Kpi \cup {0}]
    BY <1>1 DEF FireEnds, FireGoto
  <2>3. base' \in [PFire -> PFire \cup {NoFire}] /\ raced' \subseteq PFire
    BY <1>1, <2>1 DEF FireEnds, Comparers
  <2>4. UNCHANGED <<told, crossed>>
    BY <1>1 DEF FireEnds
  <2>5. QED
    BY <2>2, <2>3, <2>4
<1>2. ASSUME NEW f \in PFire, Approved(f) PROVE FiresInv'
  BY <1>2 DEF Approved, SaveRow, Comparers
<1>3. ASSUME NEW f \in PFire, Record(f) PROVE FiresInv'
  BY <1>3 DEF Record, FireGoto, Readers
<1>4. ASSUME NEW f \in PFire, RecordNothing(f) PROVE FiresInv'
  BY <1>4 DEF RecordNothing, FireGoto
<1>5. ASSUME NEW f \in PFire, Read(f) PROVE FiresInv'
  BY <1>5 DEF Read, Override
<1>6. ASSUME NEW f \in PFire, LookUpPrevious(f) PROVE FiresInv'
  BY <1>6 DEF LookUpPrevious, Override
<1>7. ASSUME NEW f \in PFire, Send(f) PROVE FiresInv'
  BY <1>7 DEF Send
<1>8. ASSUME NEW f \in PFire, Abandon(f) PROVE FiresInv'
  BY <1>8 DEF Abandon
<1>9. CASE SetActive
  BY <1>9 DEF SetActive
<1>10. CASE DeletePipeline
  BY <1>10 DEF DeletePipeline, Readers, Comparers
<1>11. CASE UNCHANGED phVars
  BY <1>11 DEF phVars
<1>12. QED
  BY <1>1, <1>2, <1>3, <1>4, <1>5, <1>6, <1>7, <1>8, <1>9, <1>10, <1>11 DEF PHNext

\* The pipeline exists or not.
LEMMA FlagsStep ==
  ASSUME FlagsInv, [PHNext]_phVars
  PROVE  FlagsInv'
<1> USE DEF FlagsInv, fireVars, runRows, pipelineRow, phHistory
<1>1. ASSUME NEW f \in PFire, FireEnds(f) PROVE FlagsInv'
  BY <1>1 DEF FireEnds, FireGoto, SaveRow
<1>2. ASSUME NEW f \in PFire, Approved(f) PROVE FlagsInv'
  BY <1>2 DEF Approved, SaveRow
<1>3. ASSUME NEW f \in PFire, Record(f) PROVE FlagsInv'
  BY <1>3 DEF Record, FireGoto
<1>4. ASSUME NEW f \in PFire, RecordNothing(f) PROVE FlagsInv'
  BY <1>4 DEF RecordNothing, FireGoto
<1>5. ASSUME NEW f \in PFire, Read(f) PROVE FlagsInv'
  BY <1>5 DEF Read, Override
<1>6. ASSUME NEW f \in PFire, LookUpPrevious(f) PROVE FlagsInv'
  BY <1>6 DEF LookUpPrevious, Override
<1>7. ASSUME NEW f \in PFire, Send(f) PROVE FlagsInv'
  BY <1>7 DEF Send
<1>8. ASSUME NEW f \in PFire, Abandon(f) PROVE FlagsInv'
  BY <1>8 DEF Abandon
<1>9. CASE SetActive
  BY <1>9 DEF SetActive
<1>10. CASE DeletePipeline
  BY <1>10 DEF DeletePipeline
<1>11. CASE UNCHANGED phVars
  BY <1>11 DEF phVars
<1>12. QED
  BY <1>1, <1>2, <1>3, <1>4, <1>5, <1>6, <1>7, <1>8, <1>9, <1>10, <1>11 DEF PHNext

\* What is counted is counted once.
LEMMA CounterStep ==
  ASSUME CounterInv, [PHNext]_phVars
  PROVE  CounterInv'
<1> USE DEF CounterInv, fireVars, runRows, pipelineRow, phHistory
<1>1. ASSUME NEW f \in PFire, FireEnds(f) PROVE CounterInv'
  BY <1>1 DEF FireEnds, FireGoto, SaveRow
<1>2. ASSUME NEW f \in PFire, Approved(f) PROVE CounterInv'
  BY <1>2 DEF Approved, SaveRow
<1>3. ASSUME NEW f \in PFire, Record(f) PROVE CounterInv'
  BY <1>3 DEF Record, FireGoto
<1>4. ASSUME NEW f \in PFire, RecordNothing(f) PROVE CounterInv'
  BY <1>4 DEF RecordNothing, FireGoto
<1>5. ASSUME NEW f \in PFire, Read(f) PROVE CounterInv'
  BY <1>5 DEF Read, Override
<1>6. ASSUME NEW f \in PFire, LookUpPrevious(f) PROVE CounterInv'
  BY <1>6 DEF LookUpPrevious, Override
<1>7. ASSUME NEW f \in PFire, Send(f) PROVE CounterInv'
  BY <1>7 DEF Send
<1>8. ASSUME NEW f \in PFire, Abandon(f) PROVE CounterInv'
  BY <1>8 DEF Abandon
<1>9. CASE SetActive
  BY <1>9 DEF SetActive
<1>10. CASE DeletePipeline
  BY <1>10 DEF DeletePipeline
<1>11. CASE UNCHANGED phVars
  BY <1>11 DEF phVars
<1>12. QED
  BY <1>1, <1>2, <1>3, <1>4, <1>5, <1>6, <1>7, <1>8, <1>9, <1>10, <1>11 DEF PHNext

\* A delivery tries channel after channel.
LEMMA TriedStep ==
  ASSUME FiresInv, TriedInv, [PHNext]_phVars
  PROVE  TriedInv'
<1> USE DEF TriedInv, FiresInv, FireStage, fireVars, runRows, pipelineRow, phHistory
<1>1. ASSUME NEW f \in PFire, FireEnds(f) PROVE TriedInv'
  BY <1>1 DEF FireEnds, FireGoto, SaveRow
<1>2. ASSUME NEW f \in PFire, Approved(f) PROVE TriedInv'
  BY <1>2 DEF Approved, SaveRow
<1>3. ASSUME NEW f \in PFire, Record(f) PROVE TriedInv'
  BY <1>3 DEF Record, FireGoto
<1>4. ASSUME NEW f \in PFire, RecordNothing(f) PROVE TriedInv'
  BY <1>4 DEF RecordNothing, FireGoto
<1>5. ASSUME NEW f \in PFire, Read(f) PROVE TriedInv'
  BY <1>5, ChannelLeft, SMTT(20) DEF Read, Override
<1>6. ASSUME NEW f \in PFire, LookUpPrevious(f) PROVE TriedInv'
  <2>1. PICK drift \in BOOLEAN :
          /\ fAt[f] = "lookup" /\ UNCHANGED tried
          /\ fAt' = [fAt EXCEPT ![f] = IF drift THEN "send" ELSE "done"]
    BY <1>6 DEF LookUpPrevious
  <2>2. malformed' \in [PFire -> Channels \cup {"none"}]
    BY <1>6 DEF LookUpPrevious, Override
  <2>3. tried[f] = 0 /\ 0 < Len(Channel)
    BY <2>1, ChannelLeft
  <2>4. \A g \in PFire : g # f => fAt'[g] = fAt[g]
    BY <2>1
  <2>5. fAt'[f] \in {"send", "done"}
    BY <2>1
  <2>6. \A g \in PFire : /\ fAt'[g] \in {"new", "record", "read", "lookup"} => tried[g] = 0
                         /\ fAt'[g] = "send" => tried[g] < Len(Channel)
    BY <2>3, <2>4, <2>5
  <2>7. QED
    BY <2>1, <2>2, <2>6
<1>7. ASSUME NEW f \in PFire, Send(f) PROVE TriedInv'
  BY <1>7, ChannelLeft DEF Send
<1>8. ASSUME NEW f \in PFire, Abandon(f) PROVE TriedInv'
  BY <1>8 DEF Abandon
<1>9. CASE SetActive
  BY <1>9 DEF SetActive
<1>10. CASE DeletePipeline
  BY <1>10 DEF DeletePipeline
<1>11. CASE UNCHANGED phVars
  BY <1>11 DEF phVars
<1>12. QED
  BY <1>1, <1>2, <1>3, <1>4, <1>5, <1>6, <1>7, <1>8, <1>9, <1>10, <1>11 DEF PHNext

\* A new timestamp is later than all.
LEMMA StampsStep ==
  ASSUME StampsInv, [PHNext]_phVars
  PROVE  StampsInv'
<1> USE DEF StampsInv, fireVars, runRows, pipelineRow, phHistory
<1>1. ASSUME NEW f \in PFire, FireEnds(f) PROVE StampsInv'
  BY <1>1 DEF FireEnds, FireGoto, SaveRow
<1>2. ASSUME NEW f \in PFire, Approved(f) PROVE StampsInv'
  BY <1>2 DEF Approved, SaveRow
<1>3. ASSUME NEW f \in PFire, Record(f) PROVE StampsInv'
  BY <1>3 DEF Record, FireGoto
<1>4. ASSUME NEW f \in PFire, RecordNothing(f) PROVE StampsInv'
  BY <1>4 DEF RecordNothing, FireGoto
<1>5. ASSUME NEW f \in PFire, Read(f) PROVE StampsInv'
  BY <1>5 DEF Read, Override
<1>6. ASSUME NEW f \in PFire, LookUpPrevious(f) PROVE StampsInv'
  BY <1>6 DEF LookUpPrevious, Override
<1>7. ASSUME NEW f \in PFire, Send(f) PROVE StampsInv'
  BY <1>7 DEF Send
<1>8. ASSUME NEW f \in PFire, Abandon(f) PROVE StampsInv'
  BY <1>8 DEF Abandon
<1>9. CASE SetActive
  BY <1>9 DEF SetActive
<1>10. CASE DeletePipeline
  BY <1>10 DEF DeletePipeline
<1>11. CASE UNCHANGED phVars
  BY <1>11 DEF phVars
<1>12. QED
  BY <1>1, <1>2, <1>3, <1>4, <1>5, <1>6, <1>7, <1>8, <1>9, <1>10, <1>11 DEF PHNext

\* How a run ended is known.
LEMMA EndedStep ==
  ASSUME FiresInv, CounterInv, StampsInv, NewestInv, EndedInv, [PHNext]_phVars
  PROVE  EndedInv'
<1> USE DEF EndedInv, FiresInv, FireStage, FireEnd, fireVars, runRows, pipelineRow, phHistory
<1>1. ASSUME NEW f \in PFire, FireEnds(f) PROVE EndedInv'
  <2>1. Newest(Completed) # NoFire
           => Newest(Completed) \in PFire /\ ended[Newest(Completed)] \in {"completed",
              "approved"}
    BY NewestCompleted DEF Completed
  <2>2. PICK status \in {"completed", "failed", "awaiting_approval"} :
          /\ fAt[f] = "new" /\ ended' = [ended EXCEPT ![f] = status]
          /\ fAt' = [fAt EXCEPT ![f] = IF status = "awaiting_approval" THEN "done" ELSE "record"]
    BY <1>1 DEF FireEnds, FireGoto
  <2>3. /\ base' = [base EXCEPT ![f] = Newest(Completed)] /\ UNCHANGED crossed
        /\ \A g \in PFire \ {f} : saved'[g] = saved[g]
    BY <1>1 DEF FireEnds, SaveRow, StampsInv
  <2>4. \A g \in PFire : base'[g] # NoFire => ended'[base'[g]] # "none"
    BY <2>1, <2>2, <2>3
  <2>5. QED
    BY <2>2, <2>3, <2>4
<1>2. ASSUME NEW f \in PFire, Approved(f) PROVE EndedInv'
  BY <1>2 DEF Approved, SaveRow
<1>3. ASSUME NEW f \in PFire, Record(f) PROVE EndedInv'
  BY <1>3, PipelineHealthAssumption DEF Record, FireGoto, CounterInv
<1>4. ASSUME NEW f \in PFire, RecordNothing(f) PROVE EndedInv'
  BY <1>4 DEF RecordNothing, FireGoto
<1>5. ASSUME NEW f \in PFire, Read(f) PROVE EndedInv'
  BY <1>5 DEF Read, Override
<1>6. ASSUME NEW f \in PFire, LookUpPrevious(f) PROVE EndedInv'
  BY <1>6 DEF LookUpPrevious, Override
<1>7. ASSUME NEW f \in PFire, Send(f) PROVE EndedInv'
  BY <1>7 DEF Send
<1>8. ASSUME NEW f \in PFire, Abandon(f) PROVE EndedInv'
  BY <1>8 DEF Abandon
<1>9. CASE SetActive
  BY <1>9 DEF SetActive
<1>10. CASE DeletePipeline
  BY <1>10 DEF DeletePipeline
<1>11. CASE UNCHANGED phVars
  BY <1>11 DEF phVars
<1>12. QED
  BY <1>1, <1>2, <1>3, <1>4, <1>5, <1>6, <1>7, <1>8, <1>9, <1>10, <1>11 DEF PHNext

\* A reader finds its own count.
LEMMA ReadStep ==
  ASSUME FiresInv, FlagsInv, CounterInv, EndedInv, ReadInv, [PHNext]_phVars
  PROVE  ReadInv'
<1> USE DEF ReadInv, FiresInv, EndedInv, fireVars, runRows, pipelineRow, phHistory
<1>1. ASSUME NEW f \in PFire, FireEnds(f) PROVE ReadInv'
  BY <1>1 DEF FireEnds, FireGoto, SaveRow
<1>2. ASSUME NEW f \in PFire, Approved(f) PROVE ReadInv'
  BY <1>2 DEF Approved, SaveRow
<1>3. ASSUME NEW f \in PFire, Record(f) PROVE ReadInv'
  BY <1>3, PipelineHealthAssumption DEF Record, FireGoto, CounterInv, Readers
<1>4. ASSUME NEW f \in PFire, RecordNothing(f) PROVE ReadInv'
  BY <1>4 DEF RecordNothing, FireGoto
<1>5. ASSUME NEW f \in PFire, Read(f) PROVE ReadInv'
  BY <1>5 DEF Read, Override
<1>6. ASSUME NEW f \in PFire, LookUpPrevious(f) PROVE ReadInv'
  BY <1>6 DEF LookUpPrevious, Override
<1>7. ASSUME NEW f \in PFire, Send(f) PROVE ReadInv'
  BY <1>7 DEF Send
<1>8. ASSUME NEW f \in PFire, Abandon(f) PROVE ReadInv'
  BY <1>8 DEF Abandon
<1>9. CASE SetActive
  BY <1>9 DEF SetActive
<1>10. CASE DeletePipeline
  BY <1>10 DEF DeletePipeline, Readers, NoFire, PFire
<1>11. CASE UNCHANGED phVars
  BY <1>11 DEF phVars
<1>12. QED
  BY <1>1, <1>2, <1>3, <1>4, <1>5, <1>6, <1>7, <1>8, <1>9, <1>10, <1>11 DEF PHNext

\* A failure alerts on the crossing alone.
LEMMA AlertStep ==
  ASSUME FiresInv, EndedInv, ReadInv, AlertOnCrossing, [PHNext]_phVars
  PROVE  AlertOnCrossing'
<1> USE DEF AlertOnCrossing, ReadInv, FiresInv, EndedInv, FireStage, FireEnd, fireVars, runRows,
   pipelineRow, phHistory
<1>1. ASSUME NEW f \in PFire, FireEnds(f) PROVE AlertOnCrossing'
  BY <1>1 DEF FireEnds, FireGoto, SaveRow
<1>2. ASSUME NEW f \in PFire, Approved(f) PROVE AlertOnCrossing'
  BY <1>2 DEF Approved, SaveRow
<1>3. ASSUME NEW f \in PFire, Record(f) PROVE AlertOnCrossing'
  BY <1>3 DEF Record, FireGoto
<1>4. ASSUME NEW f \in PFire, RecordNothing(f) PROVE AlertOnCrossing'
  BY <1>4 DEF RecordNothing, FireGoto
<1>5. ASSUME NEW f \in PFire, Read(f) PROVE AlertOnCrossing'
  BY <1>5 DEF Read, Override
<1>6. ASSUME NEW f \in PFire, LookUpPrevious(f) PROVE AlertOnCrossing'
  BY <1>6 DEF LookUpPrevious, Override
<1>7. ASSUME NEW f \in PFire, Send(f) PROVE AlertOnCrossing'
  BY <1>7 DEF Send
<1>8. ASSUME NEW f \in PFire, Abandon(f) PROVE AlertOnCrossing'
  BY <1>8 DEF Abandon
<1>9. CASE SetActive
  BY <1>9 DEF SetActive
<1>10. CASE DeletePipeline
  BY <1>10 DEF DeletePipeline
<1>11. CASE UNCHANGED phVars
  BY <1>11 DEF phVars
<1>12. QED
  BY <1>1, <1>2, <1>3, <1>4, <1>5, <1>6, <1>7, <1>8, <1>9, <1>10, <1>11 DEF PHNext

\* Of the completed runs one is the newest.
LEMMA NewestStep ==
  ASSUME FiresInv, StampsInv, EndedInv, NewestInv, [PHNext]_phVars
  PROVE  NewestInv'
<1> USE DEF NewestInv, StampsInv, IsNewest, Completed, fireVars, runRows, pipelineRow, phHistory
<1>1. ASSUME NEW f \in PFire, FireEnds(f) PROVE NewestInv'
  <2>1. PICK status \in {"completed", "failed", "awaiting_approval"} :
          /\ saved[f] = 0 /\ ended' = [ended EXCEPT ![f] = status]
          /\ saved' = [saved EXCEPT ![f] = stamp + 1]
    BY <1>1 DEF FireEnds, FireGoto, SaveRow, EndedInv
  <2>2. \A g \in PFire \ {f} : saved'[g] = saved[g] /\ ended'[g] = ended[g]
    BY <2>1 DEF FiresInv
  <2>3. \A g \in PFire : saved[g] <= stamp /\ saved[g] \in Nat
    OBVIOUS
  <2>4. CASE status = "completed"
    <3>1. saved'[f] = stamp + 1 /\ ended'[f] = "completed"
      BY <2>1, <2>4 DEF FiresInv
    <3>2. f \in Completed' /\ \A h \in Completed' : saved'[h] <= saved'[f]
      BY <2>2, <2>3, <3>1
    <3>3. QED
      BY <3>2
  <2>5. CASE status # "completed"
    <3>1. ended'[f] \notin {"completed", "approved"}
      BY <2>1, <2>5 DEF FiresInv
    <3>2. Completed' = Completed /\ \A h \in Completed : saved'[h] = saved[h]
      BY <2>1, <2>2, <3>1
    <3>3. QED
      BY <3>2
  <2>6. QED
    BY <2>4, <2>5
<1>2. ASSUME NEW f \in PFire, Approved(f) PROVE NewestInv'
  BY <1>2, SMTT(20) DEF Approved, SaveRow, FiresInv, EndedInv, NoFire, PFire
<1>3. ASSUME NEW f \in PFire, Record(f) PROVE NewestInv'
  BY <1>3 DEF Record, FireGoto
<1>4. ASSUME NEW f \in PFire, RecordNothing(f) PROVE NewestInv'
  BY <1>4 DEF RecordNothing, FireGoto
<1>5. ASSUME NEW f \in PFire, Read(f) PROVE NewestInv'
  BY <1>5 DEF Read, Override
<1>6. ASSUME NEW f \in PFire, LookUpPrevious(f) PROVE NewestInv'
  BY <1>6 DEF LookUpPrevious, Override
<1>7. ASSUME NEW f \in PFire, Send(f) PROVE NewestInv'
  BY <1>7 DEF Send
<1>8. ASSUME NEW f \in PFire, Abandon(f) PROVE NewestInv'
  BY <1>8 DEF Abandon
<1>9. CASE SetActive
  BY <1>9 DEF SetActive
<1>10. CASE DeletePipeline
  BY <1>10 DEF DeletePipeline
<1>11. CASE UNCHANGED phVars
  BY <1>11 DEF phVars
<1>12. QED
  BY <1>1, <1>2, <1>3, <1>4, <1>5, <1>6, <1>7, <1>8, <1>9, <1>10, <1>11 DEF PHNext

\* Who compares has the run that was the newest.
LEMMA LookStep ==
  ASSUME FiresInv, StampsInv, EndedInv, NewestInv, LookInv, [PHNext]_phVars
  PROVE  LookInv'
<1> USE DEF LookInv, fireVars, runRows, pipelineRow, phHistory
<1>1. ASSUME NEW f \in PFire, FireEnds(f) PROVE LookInv'
  <2>1. PICK status \in {"completed", "failed", "awaiting_approval"} :
          /\ saved[f] = 0 /\ ended' = [ended EXCEPT ![f] = status] /\ exists
          /\ saved' = [saved EXCEPT ![f] = stamp + 1] /\ UNCHANGED exists
          /\ raced' = IF status = "completed" THEN raced \cup Comparers(f) ELSE raced
          /\ base' = [base EXCEPT ![f] = Newest(Completed)]
    BY <1>1 DEF FireEnds, FireGoto, SaveRow, EndedInv
  <2>2. /\ \A g \in PFire \ {f} : saved'[g] = saved[g] /\ ended'[g] = ended[g]
                               /\ base'[g] = base[g] /\ fAt'[g] = fAt[g]
        /\ base'[f] = Newest(Completed) /\ ended'[f] = status
    BY <1>1, <2>1 DEF FireEnds, FireGoto, FiresInv, StampsInv
  <2>3. f \notin Completed
    BY <2>1 DEF Completed
  <2>4. IsNewest(Newest(Completed), Completed)
    BY NewestCompleted
  <2>5. Completed' \ {f} = Completed
    BY <2>1, <2>2, <2>3 DEF Completed
  <2>6. IsNewest(base[f], Completed \ {f})'
    BY <2>2, <2>3, <2>4, <2>5 DEF IsNewest, Completed
  <2>7. ASSUME NEW g \in PFire \ raced', g # f, ended'[g] = "completed",
                fAt'[g] \in {"record", "lookup"}
         PROVE  exists' /\ IsNewest(base[g], Completed \ {g})'
    <3>1. g \in Comparers(f) /\ g \notin raced
      BY <2>1, <2>2, <2>7 DEF Comparers
    <3>2. status # "completed" /\ exists /\ IsNewest(base[g], Completed \ {g})
      BY <2>1, <2>2, <2>7, <3>1
    <3>3. Completed' = Completed
      BY <2>2, <2>3, <2>5, <3>2 DEF Completed
    <3>4. QED
      BY <2>1, <2>2, <2>3, <2>7, <3>2, <3>3 DEF IsNewest, Completed
  <2>8. QED
    BY <2>1, <2>6, <2>7
<1>2. ASSUME NEW f \in PFire, Approved(f) PROVE LookInv'
  <2>1. \A g \in PFire \ raced' :
          ~(ended'[g] = "completed" /\ fAt'[g] \in {"record", "lookup"})
    BY <1>2 DEF Approved, Comparers, FiresInv
  <2>2. QED
    BY <2>1
<1>3. ASSUME NEW f \in PFire, Record(f) PROVE LookInv'
  BY <1>3, LookSame DEF Record, FireGoto, FiresInv
<1>4. ASSUME NEW f \in PFire, RecordNothing(f) PROVE LookInv'
  BY <1>4, LookSame DEF RecordNothing, FireGoto, FiresInv
<1>5. ASSUME NEW f \in PFire, Read(f) PROVE LookInv'
  BY <1>5, LookSame DEF Read, Override, FiresInv, EndedInv
<1>6. ASSUME NEW f \in PFire, LookUpPrevious(f) PROVE LookInv'
  BY <1>6, LookSame DEF LookUpPrevious, Override, FiresInv, EndedInv
<1>7. ASSUME NEW f \in PFire, Send(f) PROVE LookInv'
  BY <1>7, LookSame DEF Send, FiresInv
<1>8. ASSUME NEW f \in PFire, Abandon(f) PROVE LookInv'
  BY <1>8, LookSame DEF Abandon, FiresInv
<1>9. CASE SetActive
  BY <1>9, LookSame DEF SetActive
<1>10. CASE DeletePipeline
  <2>1. \A g \in PFire \ raced' :
          ~(ended'[g] = "completed" /\ fAt'[g] \in {"record", "lookup"})
    BY <1>10 DEF DeletePipeline, Comparers, NoFire, PFire
  <2>2. QED
    BY <2>1
<1>11. CASE UNCHANGED phVars
  BY <1>11, LookSame DEF phVars
<1>12. QED
  BY <1>1, <1>2, <1>3, <1>4, <1>5, <1>6, <1>7, <1>8, <1>9, <1>10, <1>11 DEF PHNext

\* A completed fire delivers a digest of a drift.
LEMMA DigestStep ==
  ASSUME FiresInv, FlagsInv, StampsInv, EndedInv, LookInv, DigestOnDrift, [PHNext]_phVars
  PROVE  DigestOnDrift'
<1> USE DEF DigestOnDrift, FiresInv, EndedInv, fireVars, runRows, pipelineRow, phHistory
<1>1. ASSUME NEW f \in PFire, FireEnds(f) PROVE DigestOnDrift'
  BY <1>1 DEF FireEnds, FireGoto, SaveRow
<1>2. ASSUME NEW f \in PFire, Approved(f) PROVE DigestOnDrift'
  BY <1>2 DEF Approved, SaveRow
<1>3. ASSUME NEW f \in PFire, Record(f) PROVE DigestOnDrift'
  BY <1>3 DEF Record, FireGoto
<1>4. ASSUME NEW f \in PFire, RecordNothing(f) PROVE DigestOnDrift'
  BY <1>4 DEF RecordNothing, FireGoto
<1>5. ASSUME NEW f \in PFire, Read(f) PROVE DigestOnDrift'
  BY <1>5 DEF Read, Override
<1>6. ASSUME NEW f \in PFire, LookUpPrevious(f) PROVE DigestOnDrift'
  <2>1. PICK drift \in BOOLEAN :
          /\ exists /\ active => (drift <=> /\ Newest(Completed \ {f}) # NoFire
                                           /\ Triggered(kpi[Newest(Completed \ {f})], kpi[f]))
          /\ fAt[f] = "lookup"
          /\ fAt' = [fAt EXCEPT ![f] = IF drift THEN "send" ELSE "done"]
          /\ told' = [told EXCEPT ![f] = IF drift THEN "digest" ELSE "none"]
          /\ UNCHANGED <<ended, kpi, base, active, raced>>
    BY <1>6, Zenon DEF LookUpPrevious, pipelineRow
  <2>2. \A g \in PFire \ {f} : fAt'[g] = fAt[g] /\ told'[g] = told[g]
    BY <2>1
  <2>3. ASSUME f \notin raced, active, base[f] # NoFire
         PROVE  told'[f] = "digest" <=> Triggered(kpi[base[f]], kpi[f])
    <3>1. exists /\ IsNewest(base[f], Completed \ {f})
      BY <2>1, <2>3 DEF LookInv
    <3>2. Newest(Completed \ {f}) = base[f]
      BY <3>1, NewestIs DEF Completed
    <3>3. drift <=> Triggered(kpi[base[f]], kpi[f])
      BY <2>1, <2>3, <3>1, <3>2, Zenon
    <3>4. QED
      BY <2>1, <3>3
  <2>4. QED
    BY <2>1, <2>2, <2>3
<1>7. ASSUME NEW f \in PFire, Send(f) PROVE DigestOnDrift'
  BY <1>7 DEF Send
<1>8. ASSUME NEW f \in PFire, Abandon(f) PROVE DigestOnDrift'
  BY <1>8 DEF Abandon
<1>9. CASE SetActive
  BY <1>9 DEF SetActive
<1>10. CASE DeletePipeline
  BY <1>10 DEF DeletePipeline
<1>11. CASE UNCHANGED phVars
  BY <1>11 DEF phVars
<1>12. QED
  BY <1>1, <1>2, <1>3, <1>4, <1>5, <1>6, <1>7, <1>8, <1>9, <1>10, <1>11 DEF PHNext
\* Initially no run has ended, and nothing follows.
LEMMA HealthInit == ASSUME PHInit PROVE PHInv /\ AlertOnCrossing /\ DigestOnDrift
<1> USE DEF PHInit
<1>1. FiresInv /\ FlagsInv /\ CounterInv
  BY DEF FiresInv, FireStage, FireEnd, FlagsInv, CounterInv
<1>2. TriedInv
  BY ChannelLeft DEF TriedInv
<1>3. StampsInv /\ EndedInv
  BY DEF StampsInv, EndedInv
<1>4. Completed = {}
  BY DEF Completed
<1>5. NewestInv
  BY <1>4 DEF NewestInv, IsNewest
<1>6. ReadInv /\ LookInv /\ AlertOnCrossing /\ DigestOnDrift
  BY DEF ReadInv, LookInv, AlertOnCrossing, DigestOnDrift
<1>7. QED
  BY <1>1, <1>2, <1>3, <1>5, <1>6 DEF PHInv

\* The invariant of what follows the fires of a pipeline, with what the fires
\* deliver.
LEMMA HealthInvariant == PHSpec => [](PHInv /\ AlertOnCrossing /\ DigestOnDrift)
<1>1. ASSUME PHInv, AlertOnCrossing, DigestOnDrift, [PHNext]_phVars
      PROVE  PHInv' /\ AlertOnCrossing' /\ DigestOnDrift'
  <2>1. FiresInv' /\ FlagsInv' /\ CounterInv' /\ TriedInv'
    BY <1>1, FiresStep, FlagsStep, CounterStep, TriedStep DEF PHInv
  <2>2. StampsInv' /\ EndedInv' /\ ReadInv' /\ NewestInv' /\ LookInv'
    BY <1>1, StampsStep, EndedStep, ReadStep, NewestStep, LookStep DEF PHInv
  <2>3. AlertOnCrossing' /\ DigestOnDrift'
    BY <1>1, AlertStep, DigestStep DEF PHInv
  <2>4. QED
    BY <2>1, <2>2, <2>3 DEF PHInv
<1>2. QED
  BY HealthInit, <1>1, PTL DEF PHSpec

\* Every variable of the health checks has its type: no counter, timestamp or
\* number of tried channels leaves its range.
THEOREM HealthTypeCorrect == PHSpec => []PHTypeOK
<1>1. PHInv => PHTypeOK
  BY DEF PHInv, FiresInv, FlagsInv, CounterInv, TriedInv, StampsInv, FireStage, FireEnd, PHTypeOK
<1>2. QED
  BY HealthInvariant, <1>1, PTL

\* A fire alerts if and only if its own failure makes the streak as long as the
\* threshold, for every number of fires, channel list and threshold: what the
\* separate UPDATE and SELECT of record_pipeline_health leave of "on the crossing".
THEOREM AlertsCorrect == PHSpec => []AlertOnCrossing
  BY HealthInvariant, PTL

\* A completed fire delivers a digest if and only if its KPI has drifted from that
\* of the newest completed run when its own row was saved.
THEOREM DigestsCorrect == PHSpec => []DigestOnDrift
  BY HealthInvariant, PTL

-----------------------------------------------------------------------------
(* The parts of a tenant side by side                                      *)

\* Whichever part a behaviour of MCTenant is of, every part behaves as its own
\* specification says.
THEOREM TenantParts == TenantSpec => Spec /\ PHSpec /\ PSSpec /\ TDSpec
<1>1. TenantInit => Init /\ PHInit /\ PSInit /\ TDInit
  BY DEF TenantInit
<1>2. [TenantNext]_tenantVars
        => [Next]_vars /\ [PHNext]_phVars /\ [PSNext]_psVars /\ [TDNext]_tdVars
  BY DEF TenantNext, tenantVars
<1>3. QED
  BY <1>1, <1>2, PTL DEF TenantSpec, Spec, PHSpec, PSSpec, TDSpec

\* Every part keeps to its types: what the code finds in its database, its store and its
\* broker is never of a shape that it does not expect, for any number of calls, fires,
\* requests, runs and deletions.
THEOREM TenantPartsTypeCorrect == TenantSpec => []TenantTypeOK
<1> DEFINE KnownPart == part \in {"queue", "health", "settings", "data"}
<1>1. TenantInit => KnownPart
  BY DEF TenantInit
<1>2. KnownPart /\ [TenantNext]_tenantVars => KnownPart'
  BY DEF TenantNext, tenantVars
<1>3. TenantSpec => []KnownPart
  BY <1>1, <1>2, PTL DEF TenantSpec
<1>4. /\ KnownPart
      /\ TypeOK /\ PHTypeOK /\ PSTypeOK /\ TDTypeOK
      => TenantTypeOK
  BY DEF TenantTypeOK
<1>5. QED
  BY <1>3, <1>4, TenantParts, TypeCorrect, HealthTypeCorrect, SettingsTypeCorrect,
     TenantTypeCorrect, PTL

\* What the run of MCTenant checks of the safety of its parts, for every number of calls,
\* fires, requests, runs and deletions.
THEOREM TenantCorrect ==
  TenantSpec => [](/\ InFlightUnlessDisturbed /\ NoLeakedLock /\ AdmittedPerWindow
                   /\ AlertOnCrossing /\ DigestOnDrift
                   /\ NoEditLost /\ FiresBySchedule
                   /\ ErasureIsComplete /\ SweepKeepsFresh /\ ExportIsConsistent)
BY TenantParts, InFlightCorrect, NoLeakCorrect, RateLimitCorrect, AlertsCorrect, DigestsCorrect,
   EditsKept, FiresCorrect, ErasureCorrect, SweepCorrect, ExportCorrect, PTL
=============================================================================
