----------------------------- MODULE TenantData -----------------------------
(***************************************************************************)
(* The data of one tenant over its life: a run's artifacts in the storage  *)
(* backend and its rows in the database, written by a worker and written   *)
(* again when a gated write is resolved, the erasure of the account        *)
(* (DELETE /tenant), the retention sweep of old artifacts, and the export  *)
(* (GET /tenant/export).                                                   *)
(*                                                                         *)
(* An artifact is a pair of a run and a part: "run" stands for the keys    *)
(* save_run writes, "analysis" for those of save_analysis; the row of a    *)
(* part is the one in runs or in analysis_runs.  Storage has no            *)
(* transactions: every listing, look and removal is a step of its own.     *)
(***************************************************************************)
EXTENDS Integers, FiniteSets

CONSTANTS
  TRun,      \* runs of the tenant
  Erasure,   \* DELETE /tenant requests
  SweepJob,     \* ticks of the retention task that reach this tenant
  MaxOperations \* bound: how many erasures, sweeps and exports start in a behaviour

ASSUME TenantDataAssumption == Erasure \cap SweepJob = {} /\ MaxOperations \in Nat

Deleter == Erasure \cup SweepJob
Key == TRun \X {"run", "analysis"}

VARIABLES
  user,       \* whether the users row exists
  retention,  \* whether its retention_days is set
  age,        \* age of each part's row, against the window: "none" without a row
  store,      \* artifacts in the storage backend
  wAt,        \* where each run's worker, or the request that resolves it, is
  dAt,        \* where each erasure and sweep is
  todo,       \* candidate keys a deleter has still to look up one by one
  found,      \* keys it has seen to exist and not deleted yet
  counted,      \* storage_keys_deleted
  errors,     \* whether it has recorded a storage error
  log,        \* status in tenant_deletion_log or retention_cleanup_log
  xAt,        \* where the export is
  xKeys,      \* candidate keys it read, then the artifacts among them
  xRuns,      \* runs of the rows it exported
  written,       \* history: keys written since the deleter read its candidates
  rowless,    \* history: keys stored without a row when it read them
  removed,    \* history: keys it took out of the store
  overlapped,  \* history: deleters at work at the same time as another
  committed,  \* history: erasures whose transaction committed
  inside,     \* history: keys a sweep removed while their row was fresh
  resolved,   \* history: runs whose gated write was resolved
  xErased     \* history: an erasure committed after the export's user check

dataVars == <<user, retention, age, store>>
deleterVars == <<dAt, todo, found, counted, errors, log>>
exportVars == <<xAt, xKeys, xRuns>>
deleterHistory == <<written, rowless, removed, overlapped, committed>>
tdVars == <<dataVars, wAt, deleterVars, exportVars, deleterHistory, inside, resolved, xErased>>

HasRow(k) == age[k] # "none"
Busy(d) == dAt[d] \notin {"new", "done"}

\* The bound on operations.
OperationsLeft ==
  Cardinality({d \in Deleter : dAt[d] # "new"}) + (IF xAt = "new" THEN 0 ELSE 1) < MaxOperations

\* tenant_run_storage_candidates: a run is a candidate for its row in either
\* table; the keys of the analysis only for a row in analysis_runs.
Candidates(rows) == rows \cup {<<k[1], "run">> : k \in rows}

TDInit ==
  /\ user = TRUE /\ retention = FALSE
  /\ age = [k \in Key |-> "none"] /\ store = {}
  /\ wAt = [r \in TRun |-> "new"]
  /\ dAt = [d \in Deleter |-> "new"]
  /\ todo = [d \in Deleter |-> {}] /\ found = [d \in Deleter |-> {}]
  /\ counted = [d \in Deleter |-> 0] /\ errors = [d \in Deleter |-> FALSE]
  /\ log = [d \in Deleter |-> "none"]
  /\ xAt = "new" /\ xKeys = {} /\ xRuns = {}
  /\ written = [d \in Deleter |-> {}] /\ rowless = [d \in Deleter |-> {}]
  /\ removed = [d \in Deleter |-> {}]
  /\ overlapped = {} /\ committed = {} /\ inside = {} /\ resolved = {} /\ xErased = FALSE

-----------------------------------------------------------------------------
(* The tenant's requests, and time                                         *)

\* Every authenticated request upserts the users row (get_current_auth_context).
Visit ==
  /\ user' = TRUE
  /\ UNCHANGED <<retention, age, store, wAt, deleterVars, exportVars, deleterHistory,
                 inside, resolved, xErased>>

\* PATCH /tenant/retention.
SetRetention ==
  /\ user' = TRUE
  /\ \E days \in BOOLEAN : retention' = days
  /\ UNCHANGED <<age, store, wAt, deleterVars, exportVars, deleterHistory,
                 inside, resolved, xErased>>

\* The window passes over every row there is.
Pass ==
  /\ age' = [k \in Key |-> IF HasRow(k) THEN "old" ELSE "none"]
  /\ UNCHANGED <<user, retention, store, wAt, deleterVars, exportVars, deleterHistory,
                 inside, resolved, xErased>>

-----------------------------------------------------------------------------
(* The worker of a run, and the request that resolves its gated write       *)

WorkerGoto(r, from, to) == wAt[r] = from /\ wAt' = [wAt EXCEPT ![r] = to]

\* The run is submitted by a request.
Submit(r) ==
  /\ WorkerGoto(r, "new", "run")
  /\ user' = TRUE
  /\ UNCHANGED <<retention, age, store, deleterVars, exportVars, deleterHistory,
                 inside, resolved, xErased>>

\* save_run and save_analysis write the artifacts before the row.
WriteArtifacts(r) ==
  \E step \in {<<"run", "run_row", "run">>, <<"analysis", "analysis_row", "analysis">>,
               <<"again", "again_row", "run">>} :
    /\ WorkerGoto(r, step[1], step[2])
    /\ store' = store \cup {<<r, step[3]>>}
    /\ written' = [d \in Deleter |->
                  IF dAt[d] \in {"new", "rows", "done"} THEN written[d]
                  ELSE written[d] \cup {<<r, step[3]>>}]
    /\ UNCHANGED <<user, retention, age, deleterVars, exportVars,
                   rowless, removed, overlapped, committed, inside, resolved, xErased>>

\* The upsert of the row stamps it with the present time.  Its foreign key needs
\* the users row: without it the worker raises and stops.
WriteRow(r) ==
  \E step \in {<<"run_row", "analysis", "run">>, <<"analysis_row", "done", "analysis">>,
               <<"again_row", "done", "run">>} :
    /\ user
    /\ WorkerGoto(r, step[1], step[2])
    /\ age' = [age EXCEPT ![<<r, step[3]>>] = "fresh"]
    /\ UNCHANGED <<user, retention, store, deleterVars, exportVars, deleterHistory,
                   inside, resolved, xErased>>

\* The worker dies, a call raises, or the run has no analysis.
WorkerStops(r) ==
  /\ wAt[r] \notin {"new", "done"}
  /\ wAt' = [wAt EXCEPT ![r] = "done"]
  /\ UNCHANGED <<dataVars, deleterVars, exportVars, deleterHistory, inside, resolved, xErased>>

\* POST /runs/{run_id}/approve or /reject: the run is reloaded and saved again.
Resolve(r) ==
  /\ r \notin resolved
  /\ HasRow(<<r, "run">>) /\ <<r, "run">> \in store
  /\ WorkerGoto(r, "done", "again")
  /\ user' = TRUE
  /\ resolved' = resolved \cup {r}
  /\ UNCHANGED <<retention, age, store, deleterVars, exportVars, deleterHistory, inside, xErased>>

-----------------------------------------------------------------------------
(* delete_tenant_data and cleanup_expired_retention_for_tenant             *)

DeleterGoto(d, from, to) == dAt[d] = from /\ dAt' = [dAt EXCEPT ![d] = to]

\* What a deleter's history is for ends with it.
Forget(d) == written' = [written EXCEPT ![d] = {}] /\ rowless' = [rowless EXCEPT ![d] = {}]

Overlap(d) == IF \E o \in Deleter \ {d} : Busy(o)
              THEN overlapped \cup {d} \cup {o \in Deleter : Busy(o)} ELSE overlapped

\* DELETE /tenant: the request's own upsert, then the check of the users row.
BeginErasure(d) ==
  /\ OperationsLeft
  /\ DeleterGoto(d, "new", "rows")
  /\ user' = TRUE
  /\ overlapped' = Overlap(d)
  /\ UNCHANGED <<retention, age, store, wAt, todo, found, counted, errors, log, exportVars,
                 written, rowless, removed, committed, inside, resolved, xErased>>

\* The sweep lists the tenants with a window.
BeginSweep(d) ==
  /\ OperationsLeft
  /\ user /\ retention
  /\ DeleterGoto(d, "new", "rows")
  /\ overlapped' = Overlap(d)
  /\ UNCHANGED <<dataVars, wAt, todo, found, counted, errors, log, exportVars,
                 written, rowless, removed, committed, inside, resolved, xErased>>

\* A mistake: the erasure takes the candidates of a sweep.
ReadOldRows(d, to) ==
  LET rows == {k \in Key : age[k] = "old"}
  IN /\ DeleterGoto(d, "rows", to)
     /\ todo' = [todo EXCEPT ![d] = Candidates(rows)]
     /\ rowless' = [rowless EXCEPT ![d] = {k \in store : ~HasRow(k)}]
     /\ UNCHANGED <<dataVars, wAt, found, counted, errors, log, exportVars,
                    written, removed, overlapped, committed, inside, resolved, xErased>>

\* A mistake: the sweep does not compare the analysis row with its window.
ReadRowsOfAnyAge(d, to) ==
  LET rows == {k \in Key : HasRow(k) /\ (d \in SweepJob => \E j \in Key : j[1] = k[1] /\ age[j] = "old")}
  IN /\ DeleterGoto(d, "rows", to)
     /\ todo' = [todo EXCEPT ![d] = Candidates(rows)]
     /\ rowless' = [rowless EXCEPT ![d] = {k \in store : ~HasRow(k)}]
     /\ UNCHANGED <<dataVars, wAt, found, counted, errors, log, exportVars,
                    written, removed, overlapped, committed, inside, resolved, xErased>>

\* The candidate keys: all of the tenant's rows, or those older than the window.
ReadRows(d, to) ==
  LET rows == {k \in Key : IF d \in SweepJob THEN age[k] = "old" ELSE HasRow(k)}
  IN /\ DeleterGoto(d, "rows", to)
     /\ todo' = [todo EXCEPT ![d] = Candidates(rows)]
     /\ rowless' = [rowless EXCEPT ![d] = {k \in store : ~HasRow(k)}]
     /\ UNCHANGED <<dataVars, wAt, found, counted, errors, log, exportVars,
                    written, removed, overlapped, committed, inside, resolved, xErased>>

\* The erasure lists the store once.
ListStore(d) ==
  /\ DeleterGoto(d, "list", "delete")
  /\ found' = [found EXCEPT ![d] = todo[d] \cap store]
  /\ todo' = [todo EXCEPT ![d] = {}]
  /\ UNCHANGED <<dataVars, wAt, counted, errors, log, exportVars, deleterHistory,
                 inside, resolved, xErased>>

\* The listing raises: the keys are looked up one by one.
ListFails(d) ==
  /\ DeleterGoto(d, "list", "delete")
  /\ errors' = [errors EXCEPT ![d] = TRUE]
  /\ UNCHANGED <<dataVars, wAt, todo, found, counted, log, exportVars, deleterHistory,
                 inside, resolved, xErased>>

\* storage.exists of the next candidate.
LookUp(d) ==
  /\ dAt[d] = "delete" /\ found[d] = {}
  /\ \E k \in todo[d] :
       /\ todo' = [todo EXCEPT ![d] = @ \ {k}]
       /\ found' = [found EXCEPT ![d] = {k} \cap store]
  /\ UNCHANGED <<dataVars, wAt, dAt, counted, errors, log, exportVars, deleterHistory,
                 inside, resolved, xErased>>

\* storage.exists or delete_bytes raises: the key is recorded and left.  A
\* removal whose answer is lost raises too.
StorageFails(d) ==
  /\ dAt[d] = "delete"
  /\ \E k \in todo[d] \cup found[d], lost \in BOOLEAN :
       /\ found[d] = {} \/ k \in found[d]
       /\ lost => k \in found[d] \cap store
       /\ todo' = [todo EXCEPT ![d] = @ \ {k}]
       /\ found' = [found EXCEPT ![d] = @ \ {k}]
       /\ store' = IF lost THEN store \ {k} ELSE store
       /\ removed' = IF lost THEN [removed EXCEPT ![d] = @ \cup {k}] ELSE removed
       /\ inside' = IF lost /\ d \in SweepJob /\ age[k] = "fresh" THEN inside \cup {k} ELSE inside
  /\ errors' = [errors EXCEPT ![d] = TRUE]
  /\ UNCHANGED <<user, retention, age, wAt, dAt, counted, log, exportVars,
                 written, rowless, overlapped, committed, resolved, xErased>>

\* delete_bytes: nothing happens to a key that is gone, and it is counted.
RemoveArtifact(d) ==
  /\ dAt[d] = "delete"
  /\ \E k \in found[d] :
       /\ found' = [found EXCEPT ![d] = @ \ {k}]
       /\ store' = store \ {k}
       /\ removed' = [removed EXCEPT ![d] = @ \cup ({k} \cap store)]
       /\ inside' = IF d \in SweepJob /\ k \in store /\ age[k] = "fresh" THEN inside \cup {k} ELSE inside
  /\ counted' = [counted EXCEPT ![d] = @ + 1]
  /\ UNCHANGED <<user, retention, age, wAt, dAt, todo, errors, log, exportVars,
                 written, rowless, overlapped, committed, resolved, xErased>>

Deleted(d, to) ==
  /\ todo[d] = {} /\ found[d] = {}
  /\ DeleterGoto(d, "delete", to)
  /\ UNCHANGED <<dataVars, wAt, todo, found, counted, errors, log, exportVars, deleterHistory,
                 inside, resolved, xErased>>

\* The erasure's transaction: every row of the tenant, and the users row.
Commit(d) ==
  /\ DeleterGoto(d, "commit", "log")
  /\ age' = [k \in Key |-> "none"]
  /\ user' = FALSE /\ retention' = FALSE
  /\ committed' = committed \cup {d}
  /\ xErased' = (xErased \/ xAt # "new")
  /\ UNCHANGED <<store, wAt, todo, found, counted, errors, log, exportVars,
                 written, rowless, removed, overlapped, inside, resolved>>

\* The transaction raises, for one because a worker's row arrived between two of
\* its statements: "failed" is logged and the exception raised again.
RollBack(d) ==
  /\ DeleterGoto(d, "commit", "done")
  /\ log' = [log EXCEPT ![d] = "failed"]
  /\ Forget(d)
  /\ UNCHANGED <<dataVars, wAt, todo, found, counted, errors, exportVars,
                 removed, overlapped, committed, inside, resolved, xErased>>

WriteLog(d) ==
  /\ DeleterGoto(d, "log", "done")
  /\ log' = [log EXCEPT ![d] = "completed"]
  /\ Forget(d)
  /\ UNCHANGED <<dataVars, wAt, todo, found, counted, errors, exportVars,
                 removed, overlapped, committed, inside, resolved, xErased>>

\* The process dies, or a database call outside the transaction raises.
DeleterStops(d) ==
  /\ Busy(d)
  /\ dAt' = [dAt EXCEPT ![d] = "done"]
  /\ Forget(d)
  /\ UNCHANGED <<dataVars, wAt, todo, found, counted, errors, log, exportVars,
                 removed, overlapped, committed, inside, resolved, xErased>>

-----------------------------------------------------------------------------
(* export_tenant_data: every read has a connection of its own              *)

ExportGoto(from, to) == xAt = from /\ xAt' = to

BeginExport ==
  /\ OperationsLeft
  /\ ExportGoto("new", "candidates")
  /\ user' = TRUE
  /\ UNCHANGED <<retention, age, store, wAt, deleterVars, xKeys, xRuns, deleterHistory,
                 inside, resolved, xErased>>

ExportCandidates(from, to) ==
  /\ ExportGoto(from, to)
  /\ xKeys' = Candidates({k \in Key : HasRow(k)})
  /\ UNCHANGED <<dataVars, wAt, deleterVars, xRuns, deleterHistory, inside, resolved, xErased>>

ExportArtifacts(from, to) ==
  /\ ExportGoto(from, to)
  /\ xKeys' = xKeys \cap store
  /\ UNCHANGED <<dataVars, wAt, deleterVars, xRuns, deleterHistory, inside, resolved, xErased>>

\* The rows of runs and of analysis_runs.
ExportRows(from, to) ==
  /\ ExportGoto(from, to)
  /\ xRuns' = {k[1] : k \in {j \in Key : HasRow(j)}}
  /\ UNCHANGED <<dataVars, wAt, deleterVars, xKeys, deleterHistory, inside, resolved, xErased>>

\* A mistake: the rows are read before the candidates.
ExportRowsFirst ==
  \/ ExportRows("candidates", "late_candidates")
  \/ ExportCandidates("late_candidates", "artifacts")
  \/ ExportArtifacts("artifacts", "done")

Export ==
  \/ ExportCandidates("candidates", "artifacts")
  \/ ExportArtifacts("artifacts", "rows")
  \/ ExportRows("rows", "done")

\* A read raises: the request is answered with an error.
ExportFails ==
  /\ xAt \notin {"new", "done", "failed"}
  /\ xAt' = "failed"
  /\ UNCHANGED <<dataVars, wAt, deleterVars, xKeys, xRuns, deleterHistory,
                 inside, resolved, xErased>>

-----------------------------------------------------------------------------
RunStep(r) == Submit(r) \/ WriteArtifacts(r) \/ WriteRow(r) \/ WorkerStops(r) \/ Resolve(r)

Erase(d) ==
  \/ BeginErasure(d) \/ ReadRows(d, "list") \/ ListStore(d) \/ ListFails(d)
  \/ Deleted(d, "commit") \/ Commit(d) \/ RollBack(d)

SweepTenant(d) == BeginSweep(d) \/ ReadRows(d, "delete") \/ Deleted(d, "log")

DeleteStep(d) == LookUp(d) \/ StorageFails(d) \/ RemoveArtifact(d) \/ WriteLog(d) \/ DeleterStops(d)

TDNext ==
  \/ Visit \/ SetRetention \/ Pass
  \/ \E r \in TRun : RunStep(r)
  \/ \E d \in Erasure : Erase(d)
  \/ \E d \in SweepJob : SweepTenant(d)
  \/ \E d \in Deleter : DeleteStep(d)
  \/ BeginExport \/ Export \/ ExportFails

TDSpec == TDInit /\ [][TDNext]_tdVars

-----------------------------------------------------------------------------
TDTypeOK ==
  /\ user \in BOOLEAN /\ retention \in BOOLEAN
  /\ age \in [Key -> {"none", "fresh", "old"}] /\ store \in SUBSET Key
  /\ wAt \in [TRun -> {"new", "run", "run_row", "analysis", "analysis_row",
                       "again", "again_row", "done"}]
  /\ dAt \in [Deleter -> {"new", "rows", "list", "delete", "commit", "log", "done"}]
  /\ todo \in [Deleter -> SUBSET Key] /\ found \in [Deleter -> SUBSET Key]
  /\ counted \in [Deleter -> Nat] /\ errors \in [Deleter -> BOOLEAN]
  /\ log \in [Deleter -> {"none", "completed", "failed"}]
  /\ xAt \in {"new", "candidates", "artifacts", "rows", "done", "failed"}
  /\ xKeys \in SUBSET Key /\ xRuns \in SUBSET TRun
  /\ written \in [Deleter -> SUBSET Key] /\ rowless \in [Deleter -> SUBSET Key]
  /\ removed \in [Deleter -> SUBSET Key]
  /\ overlapped \in SUBSET Deleter /\ committed \in SUBSET Erasure
  /\ inside \in SUBSET Key /\ resolved \in SUBSET TRun /\ xErased \in BOOLEAN

\* An erasure that is about to be logged as completed without an error has left
\* nothing of the tenant in the store that it could know of: what remains was
\* written after it read its candidates, or had no row then.
ErasureIsComplete ==
  \A d \in Erasure :
    dAt[d] = "log" /\ ~errors[d] => store \subseteq written[d] \cup rowless[d]

\* The number of deleted keys in the erasure's and the sweep's log, the evidence
\* kept for compliance, is never above what was deleted, unless two deleters
\* worked on the tenant at the same time; without errors it is exact.
CountIsNotInflated ==
  \A d \in Deleter \ overlapped :
    /\ counted[d] <= Cardinality(removed[d])
    /\ ~errors[d] => counted[d] = Cardinality(removed[d])

\* A sweep removes no artifact whose own row is inside the window, unless the
\* run's gated write was resolved: the resolution saves the run again.
SweepKeepsFresh == \A k \in inside : k[1] \in resolved

\* The log of an erasure says what the database did: "completed" only after the
\* rows were erased, "failed" only if they were not.
LogTellsTheTruth ==
  \A d \in Erasure : /\ log[d] = "completed" => d \in committed
                     /\ log[d] = "failed" => d \notin committed

\* Every artifact an export lists belongs to a run the export also contains,
\* unless the tenant was erased while it was read.
ExportIsConsistent ==
  xAt = "done" /\ ~xErased => {k[1] : k \in xKeys} \subseteq xRuns

\* What the documentation says of the sweep: it touches no artifact that is
\* still inside its window.
SweepInsideWindow == inside = {}
=============================================================================
