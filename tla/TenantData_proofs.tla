-------------------------- MODULE TenantData_proofs --------------------------
(***************************************************************************)
(* Proofs about TenantData, for any number of runs, erasures and sweeps    *)
(* and any bound on the operations.                                        *)
(***************************************************************************)
EXTENDS TenantData, FiniteSetTheorems, TLAPS

\* The parts of the type invariant.
DataOK ==
  /\ user \in BOOLEAN /\ retention \in BOOLEAN
  /\ age \in [Key -> {"none", "fresh", "old"}] /\ store \in SUBSET Key
WorkerOK ==
  wAt \in [TRun -> {"new", "run", "run_row", "analysis", "analysis_row", "again", "again_row", "done"}]
DeleterOK ==
  /\ dAt \in [Deleter -> {"new", "rows", "list", "delete", "commit", "log", "done"}]
  /\ todo \in [Deleter -> SUBSET Key] /\ found \in [Deleter -> SUBSET Key]
ReportOK ==
  /\ counted \in [Deleter -> Nat] /\ errors \in [Deleter -> BOOLEAN]
  /\ log \in [Deleter -> {"none", "completed", "failed"}]
ExportOK ==
  /\ xAt \in {"new", "candidates", "artifacts", "rows", "done", "failed"}
  /\ xKeys \in SUBSET Key /\ xRuns \in SUBSET TRun
WrittenOK ==
  /\ written \in [Deleter -> SUBSET Key] /\ rowless \in [Deleter -> SUBSET Key]
  /\ removed \in [Deleter -> SUBSET Key]
HistoryOK ==
  /\ overlapped \in SUBSET Deleter /\ committed \in SUBSET Erasure
  /\ inside \in SUBSET Key /\ resolved \in SUBSET TRun /\ xErased \in BOOLEAN

\* What an erasure without errors has still to look at or to delete is every
\* artifact that was stored, with a row, when it read its candidates.
Complete(d) ==
  ~errors[d] =>
    /\ dAt[d] = "list" => store \subseteq todo[d] \cup written[d] \cup rowless[d]
    /\ dAt[d] = "delete" => store \subseteq todo[d] \cup found[d] \cup written[d] \cup rowless[d]
    /\ dAt[d] \in {"commit", "log"} => store \subseteq written[d] \cup rowless[d]
ErasureInv == \A d \in Erasure : Complete(d)

\* A worker that has not yet written a row has none, unless its run was resolved;
\* the run's row is written first, so it is never the younger of the two.
RowsInv ==
  /\ \A r \in TRun : wAt[r] \in {"again", "again_row"} => r \in resolved
  /\ \A r \in TRun \ resolved :
       /\ wAt[r] \in {"new", "run", "run_row"} => ~HasRow(<<r, "run">>) /\ ~HasRow(<<r, "analysis">>)
       /\ wAt[r] \in {"analysis", "analysis_row"} => ~HasRow(<<r, "analysis">>)
       /\ age[<<r, "run">>] = "fresh" => age[<<r, "analysis">>] # "old"

\* The row of a key that a sweep has in hand is not inside the window, and the
\* worker will not write it any more.
Harmless(k) ==
  k[1] \notin resolved =>
    /\ age[k] # "fresh"
    /\ wAt[k[1]] \notin {"new", "run", "run_row"}
    /\ k[2] = "analysis" => wAt[k[1]] \notin {"analysis", "analysis_row"}
SweepInv == \A d \in SweepJob : \A k \in todo[d] \cup found[d] : Harmless(k)

\* Until the tenant is erased, a key that the export has read belongs to a run
\* with a row.
ExportInv ==
  ~xErased =>
    /\ xAt \in {"artifacts", "rows"} =>
         \A k \in xKeys : HasRow(<<k[1], "run">>) \/ HasRow(<<k[1], "analysis">>)
    /\ xAt = "done" => {k[1] : k \in xKeys} \subseteq xRuns

\* An erasure's status is written once, and after its transaction has ended.
StatusInv ==
  \A d \in Erasure :
    /\ dAt[d] # "done" => log[d] = "none"
    /\ dAt[d] = "log" => d \in committed
    /\ dAt[d] \notin {"log", "done"} => d \notin committed

\* Two deleters at work know of each other; one that works alone deletes what is
\* there, and every key once.
Alone(d) == Busy(d) => \A o \in Deleter \ {d} : Busy(o) => d \in overlapped
Hand(d) ==
  /\ dAt[d] \in {"new", "rows"} => removed[d] = {}
  /\ dAt[d] \in {"new", "rows", "list"} => found[d] = {}
  /\ todo[d] \cap found[d] = {} /\ removed[d] \cap (todo[d] \cup found[d]) = {}
  /\ IsFiniteSet(removed[d])
  /\ Busy(d) /\ d \notin overlapped => found[d] \subseteq store
CountInv == \A d \in Deleter : Alone(d) /\ Hand(d)

-----------------------------------------------------------------------------
\* The type invariant, in the parts by which its preservation is proved.
LEMMA TypeParts ==
  TDTypeOK <=> DataOK /\ WorkerOK /\ DeleterOK /\ ReportOK /\ ExportOK /\ WrittenOK /\ HistoryOK
BY DEF TDTypeOK, DataOK, WorkerOK, DeleterOK, ReportOK, ExportOK, WrittenOK, HistoryOK

\* The candidates are keys of runs with a row of theirs.
LEMMA CandidateKeys ==
  ASSUME NEW rows \in SUBSET Key
  PROVE  /\ Candidates(rows) \in SUBSET Key
         /\ rows \subseteq Candidates(rows)
         /\ \A k \in Candidates(rows) :
              k \in rows \/ (k = <<k[1], "run">> /\ <<k[1], "analysis">> \in rows)
BY DEF Candidates, Key

\* Every step keeps the types of the store and of the rows.
LEMMA DataType ==
  ASSUME TDTypeOK, TDNext
  PROVE  DataOK'
<1> USE TypeParts DEF DataOK
<1>1. ASSUME NEW r \in TRun, RunStep(r) PROVE DataOK'
  <2>1. <<r, "run">> \in Key /\ <<r, "analysis">> \in Key
    BY DEF Key
  <2>2. CASE WriteArtifacts(r)
    BY <2>1, <2>2 DEF WriteArtifacts
  <2>3. CASE WriteRow(r)
    BY <2>1, <2>3 DEF WriteRow
  <2>4. CASE Submit(r) \/ WorkerStops(r) \/ Resolve(r)
    BY <2>4 DEF Submit, WorkerStops, Resolve, dataVars
  <2> QED BY <1>1, <2>2, <2>3, <2>4 DEF RunStep
<1>2. ASSUME NEW d \in Erasure, Erase(d) PROVE DataOK'
  BY <1>2 DEF Erase, BeginErasure, ReadRows, ListStore, ListFails, Deleted, Commit, RollBack, dataVars
<1>3. ASSUME NEW d \in SweepJob, SweepTenant(d) PROVE DataOK'
  BY <1>3 DEF SweepTenant, BeginSweep, ReadRows, Deleted, dataVars
<1>4. ASSUME NEW d \in Deleter, DeleteStep(d) PROVE DataOK'
  BY <1>4 DEF DeleteStep, LookUp, StorageFails, RemoveArtifact, WriteLog, DeleterStops, dataVars
<1>5. CASE Visit \/ SetRetention \/ Pass
  BY <1>5 DEF Visit, SetRetention, Pass
<1>6. CASE BeginExport \/ Export \/ ExportFails
  BY <1>6 DEF BeginExport, Export, ExportCandidates, ExportArtifacts, ExportRows, ExportFails, dataVars
<1> QED BY <1>1, <1>2, <1>3, <1>4, <1>5, <1>6 DEF TDNext

\* Every step keeps the types of the workers.
LEMMA WorkerType ==
  ASSUME TDTypeOK, TDNext
  PROVE  WorkerOK'
<1> USE TypeParts DEF WorkerOK
<1>1. ASSUME NEW r \in TRun, RunStep(r) PROVE WorkerOK'
  BY <1>1 DEF RunStep, Submit, WriteArtifacts, WriteRow, WorkerStops, Resolve, WorkerGoto
<1>2. ASSUME NEW d \in Erasure, Erase(d) PROVE WorkerOK'
  BY <1>2 DEF Erase, BeginErasure, ReadRows, ListStore, ListFails, Deleted, Commit, RollBack
<1>3. ASSUME NEW d \in SweepJob, SweepTenant(d) PROVE WorkerOK'
  BY <1>3 DEF SweepTenant, BeginSweep, ReadRows, Deleted
<1>4. ASSUME NEW d \in Deleter, DeleteStep(d) PROVE WorkerOK'
  BY <1>4 DEF DeleteStep, LookUp, StorageFails, RemoveArtifact, WriteLog, DeleterStops
<1>5. CASE Visit \/ SetRetention \/ Pass
  BY <1>5 DEF Visit, SetRetention, Pass
<1>6. CASE BeginExport \/ Export \/ ExportFails
  BY <1>6 DEF BeginExport, Export, ExportCandidates, ExportArtifacts, ExportRows, ExportFails
<1> QED BY <1>1, <1>2, <1>3, <1>4, <1>5, <1>6 DEF TDNext

\* Every step keeps the types of the erasures and sweeps.
LEMMA DeleterType ==
  ASSUME TDTypeOK, TDNext
  PROVE  DeleterOK'
<1> USE TypeParts DEF DeleterOK
<1>1. ASSUME NEW r \in TRun, RunStep(r) PROVE DeleterOK'
  BY <1>1 DEF RunStep, Submit, WriteArtifacts, WriteRow, WorkerStops, Resolve, deleterVars
<1>2. ASSUME NEW d \in Deleter, NEW to \in {"list", "delete"}, ReadRows(d, to) PROVE DeleterOK'
  <2> DEFINE rows == {k \in Key : IF d \in SweepJob THEN age[k] = "old" ELSE HasRow(k)}
  <2>1. Candidates(rows) \in SUBSET Key
    BY CandidateKeys
  <2> QED BY <1>2, <2>1 DEF ReadRows, DeleterGoto
<1>3. ASSUME NEW d \in Deleter, BeginErasure(d) \/ BeginSweep(d) PROVE DeleterOK'
  BY <1>3 DEF BeginErasure, BeginSweep, DeleterGoto
<1>4. ASSUME NEW d \in Deleter, ListStore(d) \/ ListFails(d) PROVE DeleterOK'
  BY <1>4 DEF ListStore, ListFails, DeleterGoto
<1>5. ASSUME NEW d \in Deleter, NEW to \in {"commit", "log"}, Deleted(d, to) PROVE DeleterOK'
  BY <1>5 DEF Deleted, DeleterGoto
<1>6. ASSUME NEW d \in Deleter, Commit(d) \/ RollBack(d) \/ WriteLog(d) \/ DeleterStops(d) PROVE DeleterOK'
  BY <1>6 DEF Commit, RollBack, WriteLog, DeleterStops, DeleterGoto
<1>7. ASSUME NEW d \in Deleter, LookUp(d) PROVE DeleterOK'
  BY <1>7 DEF LookUp
<1>8. ASSUME NEW d \in Deleter, StorageFails(d) PROVE DeleterOK'
  BY <1>8 DEF StorageFails
<1>9. ASSUME NEW d \in Deleter, RemoveArtifact(d) PROVE DeleterOK'
  BY <1>9 DEF RemoveArtifact
<1>10. CASE Visit \/ SetRetention \/ Pass \/ BeginExport \/ Export \/ ExportFails
  BY <1>10 DEF Visit, SetRetention, Pass, BeginExport, Export, ExportCandidates, ExportArtifacts,
    ExportRows, ExportFails, deleterVars
<1>11. ASSUME NEW d \in Erasure, Erase(d) PROVE DeleterOK'
  BY <1>2, <1>3, <1>4, <1>5, <1>6, <1>11 DEF Erase, Deleter
<1>12. ASSUME NEW d \in SweepJob, SweepTenant(d) PROVE DeleterOK'
  BY <1>2, <1>3, <1>5, <1>12 DEF SweepTenant, Deleter
<1>13. ASSUME NEW d \in Deleter, DeleteStep(d) PROVE DeleterOK'
  BY <1>6, <1>7, <1>8, <1>9, <1>13 DEF DeleteStep
<1> QED BY <1>1, <1>10, <1>11, <1>12, <1>13 DEF TDNext
\* Every step keeps the types of what the deleters report and log.
LEMMA ReportType ==
  ASSUME TDTypeOK, TDNext
  PROVE  ReportOK'
<1> USE TypeParts DEF ReportOK
<1>1. ASSUME NEW r \in TRun, RunStep(r) PROVE ReportOK'
  BY <1>1 DEF RunStep, Submit, WriteArtifacts, WriteRow, WorkerStops, Resolve, deleterVars
<1>2. ASSUME NEW d \in Erasure, Erase(d) PROVE ReportOK'
  BY <1>2 DEF Erase, BeginErasure, ReadRows, ListStore, ListFails, Deleted, Commit, RollBack
<1>3. ASSUME NEW d \in SweepJob, SweepTenant(d) PROVE ReportOK'
  BY <1>3 DEF SweepTenant, BeginSweep, ReadRows, Deleted
<1>4. ASSUME NEW d \in Deleter, DeleteStep(d) PROVE ReportOK'
  <2>1. CASE RemoveArtifact(d)
    <3>1. counted[d] \in Nat /\ counted' = [counted EXCEPT ![d] = counted[d] + 1]
      BY <2>1 DEF RemoveArtifact
    <3>2. counted' \in [Deleter -> Nat]
      BY <3>1
    <3> QED BY <2>1, <3>2 DEF RemoveArtifact
  <2>2. CASE LookUp(d) \/ StorageFails(d) \/ WriteLog(d) \/ DeleterStops(d)
    BY <2>2 DEF LookUp, StorageFails, WriteLog, DeleterStops
  <2> QED BY <1>4, <2>1, <2>2 DEF DeleteStep
<1>5. CASE Visit \/ SetRetention \/ Pass
  BY <1>5 DEF Visit, SetRetention, Pass, deleterVars
<1>6. CASE BeginExport \/ Export \/ ExportFails
  BY <1>6 DEF BeginExport, Export, ExportCandidates, ExportArtifacts, ExportRows, ExportFails, deleterVars
<1> QED BY <1>1, <1>2, <1>3, <1>4, <1>5, <1>6 DEF TDNext

\* Every step keeps the types of the export.
LEMMA ExportType ==
  ASSUME TDTypeOK, TDNext
  PROVE  ExportOK'
<1> USE TypeParts DEF ExportOK
<1>1. ASSUME NEW r \in TRun, RunStep(r) PROVE ExportOK'
  BY <1>1 DEF RunStep, Submit, WriteArtifacts, WriteRow, WorkerStops, Resolve, exportVars
<1>2. ASSUME NEW d \in Erasure, Erase(d) PROVE ExportOK'
  BY <1>2 DEF Erase, BeginErasure, ReadRows, ListStore, ListFails, Deleted, Commit, RollBack, exportVars
<1>3. ASSUME NEW d \in SweepJob, SweepTenant(d) PROVE ExportOK'
  BY <1>3 DEF SweepTenant, BeginSweep, ReadRows, Deleted, exportVars
<1>4. ASSUME NEW d \in Deleter, DeleteStep(d) PROVE ExportOK'
  BY <1>4 DEF DeleteStep, LookUp, StorageFails, RemoveArtifact, WriteLog, DeleterStops, exportVars
<1>5. CASE Visit \/ SetRetention \/ Pass \/ BeginExport \/ ExportFails
  BY <1>5 DEF Visit, SetRetention, Pass, BeginExport, ExportGoto, ExportFails, exportVars
<1>6. CASE Export
  <2>1. CASE ExportCandidates("candidates", "artifacts")
    <3>1. Candidates({k \in Key : HasRow(k)}) \in SUBSET Key
      BY CandidateKeys
    <3> QED BY <2>1, <3>1 DEF ExportCandidates, ExportGoto
  <2>2. CASE ExportArtifacts("artifacts", "rows")
    BY <2>2 DEF ExportArtifacts, ExportGoto
  <2>3. CASE ExportRows("rows", "done")
    BY <2>3 DEF ExportRows, ExportGoto, Key
  <2> QED BY <1>6, <2>1, <2>2, <2>3 DEF Export
<1> QED BY <1>1, <1>2, <1>3, <1>4, <1>5, <1>6 DEF TDNext

\* Every step keeps the types of what was written, found without a row, or removed since a read.
LEMMA WrittenType ==
  ASSUME TDTypeOK, TDNext
  PROVE  WrittenOK'
<1> USE TypeParts DEF WrittenOK
<1>1. ASSUME NEW r \in TRun, WriteArtifacts(r) PROVE WrittenOK'
  <2>1. <<r, "run">> \in Key /\ <<r, "analysis">> \in Key
    BY DEF Key
  <2> QED BY <1>1, <2>1 DEF WriteArtifacts
<1>2. ASSUME NEW r \in TRun, Submit(r) \/ WriteRow(r) \/ WorkerStops(r) \/ Resolve(r) PROVE WrittenOK'
  BY <1>2 DEF Submit, WriteRow, WorkerStops, Resolve, deleterHistory
<1>3. ASSUME NEW d \in Deleter, NEW to \in {"list", "delete"}, ReadRows(d, to) PROVE WrittenOK'
  BY <1>3 DEF ReadRows, DataOK
<1>4. ASSUME NEW d \in Erasure, Erase(d) PROVE WrittenOK'
  <2>1. CASE ReadRows(d, "list")
    BY <1>3, <2>1 DEF Deleter
  <2>2. CASE BeginErasure(d) \/ ListStore(d) \/ ListFails(d) \/ Deleted(d, "commit") \/ Commit(d) \/ RollBack(d)
    BY <2>2 DEF BeginErasure, ListStore, ListFails, Deleted, Commit, RollBack, Forget, deleterHistory
  <2> QED BY <1>4, <2>1, <2>2 DEF Erase
<1>5. ASSUME NEW d \in SweepJob, SweepTenant(d) PROVE WrittenOK'
  <2>1. CASE ReadRows(d, "delete")
    BY <1>3, <2>1 DEF Deleter
  <2>2. CASE BeginSweep(d) \/ Deleted(d, "log")
    BY <2>2 DEF BeginSweep, Deleted, deleterHistory
  <2> QED BY <1>5, <2>1, <2>2 DEF SweepTenant
<1>6. ASSUME NEW d \in Deleter, StorageFails(d) PROVE WrittenOK'
  BY <1>6 DEF StorageFails, DeleterOK
<1>7. ASSUME NEW d \in Deleter, RemoveArtifact(d) PROVE WrittenOK'
  BY <1>7 DEF RemoveArtifact, DeleterOK
<1>8. ASSUME NEW d \in Deleter, LookUp(d) \/ WriteLog(d) \/ DeleterStops(d) PROVE WrittenOK'
  BY <1>8 DEF LookUp, WriteLog, DeleterStops, Forget, deleterHistory
<1>9. CASE Visit \/ SetRetention \/ Pass \/ BeginExport \/ Export \/ ExportFails
  BY <1>9 DEF Visit, SetRetention, Pass, BeginExport, Export, ExportCandidates, ExportArtifacts,
    ExportRows, ExportFails, deleterHistory
<1> QED BY <1>1, <1>2, <1>4, <1>5, <1>6, <1>7, <1>8, <1>9 DEF TDNext, RunStep, DeleteStep

\* Every step keeps the types of the history.
LEMMA HistoryType ==
  ASSUME TDTypeOK, TDNext
  PROVE  HistoryOK'
<1> USE TypeParts DEF HistoryOK
<1>1. ASSUME NEW r \in TRun, RunStep(r) PROVE HistoryOK'
  BY <1>1 DEF RunStep, Submit, WriteArtifacts, WriteRow, WorkerStops, Resolve, deleterHistory
<1>2. ASSUME NEW d \in Erasure, Erase(d) PROVE HistoryOK'
  <2>1. d \in Deleter
    BY DEF Deleter
  <2> QED BY <1>2, <2>1 DEF Erase, BeginErasure, ReadRows, ListStore, ListFails, Deleted, Commit,
        RollBack, Overlap, deleterHistory
<1>3. ASSUME NEW d \in SweepJob, SweepTenant(d) PROVE HistoryOK'
  <2>1. d \in Deleter
    BY DEF Deleter
  <2> QED BY <1>3, <2>1 DEF SweepTenant, BeginSweep, ReadRows, Deleted, Overlap, deleterHistory
<1>4. ASSUME NEW d \in Deleter, DeleteStep(d) PROVE HistoryOK'
  BY <1>4 DEF DeleteStep, LookUp, StorageFails, RemoveArtifact, WriteLog, DeleterStops,
    DeleterOK, deleterHistory
<1>5. CASE Visit \/ SetRetention \/ Pass
  BY <1>5 DEF Visit, SetRetention, Pass, deleterHistory
<1>6. CASE BeginExport \/ Export \/ ExportFails
  BY <1>6 DEF BeginExport, Export, ExportCandidates, ExportArtifacts, ExportRows, ExportFails, deleterHistory
<1> QED BY <1>1, <1>2, <1>3, <1>4, <1>5, <1>6 DEF TDNext

\* Type correctness: the rows, the store and what every worker, erasure, sweep and
\* the export hold have the types of the code's values.
THEOREM TenantTypeCorrect == TDSpec => []TDTypeOK
<1>1. TDInit => TDTypeOK
  <2> SUFFICES ASSUME TDInit PROVE TDTypeOK
    OBVIOUS
  <2>1. DataOK /\ WorkerOK /\ ExportOK /\ HistoryOK
    BY DEF TDInit, DataOK, WorkerOK, ExportOK, HistoryOK
  <2>2. DeleterOK /\ WrittenOK
    BY DEF TDInit, DeleterOK, WrittenOK
  <2>3. ReportOK
    BY DEF TDInit, ReportOK
  <2> QED BY <2>1, <2>2, <2>3, TypeParts
<1>2. TDTypeOK /\ [TDNext]_tdVars => TDTypeOK'
  <2> SUFFICES ASSUME TDTypeOK, [TDNext]_tdVars PROVE TDTypeOK'
    OBVIOUS
  <2>1. CASE TDNext
    BY <2>1, TypeParts, DataType, WorkerType, DeleterType, ReportType, ExportType, WrittenType, HistoryType
      DEF TDTypeOK, DataOK, WorkerOK, DeleterOK, ReportOK, ExportOK, WrittenOK, HistoryOK
  <2>2. CASE UNCHANGED tdVars
    BY <2>2 DEF TDTypeOK, tdVars, dataVars, deleterVars, exportVars, deleterHistory
  <2> QED BY <2>1, <2>2
<1> QED BY <1>1, <1>2, PTL DEF TDSpec
-----------------------------------------------------------------------------
(* The erasure is complete                                                 *)

\* A deleter takes nothing from another but artifacts.
LEMMA OtherDeleter ==
  ASSUME TDTypeOK, NEW d \in Deleter, NEW o \in Deleter, o # d,
         Erase(o) \/ SweepTenant(o) \/ DeleteStep(o)
  PROVE  /\ dAt'[d] = dAt[d] /\ todo'[d] = todo[d] /\ found'[d] = found[d]
         /\ written'[d] = written[d] /\ rowless'[d] = rowless[d] /\ errors'[d] = errors[d]
         /\ store' \subseteq store
<1> USE TypeParts DEF DeleterOK, WrittenOK, ReportOK
<1>1. CASE Erase(o)
  BY <1>1 DEF Erase, BeginErasure, ReadRows, ListStore, ListFails, Deleted, Commit, RollBack, Forget,
    DeleterGoto, dataVars, deleterHistory
<1>2. CASE SweepTenant(o)
  BY <1>2 DEF SweepTenant, BeginSweep, ReadRows, Deleted, DeleterGoto, dataVars, deleterHistory
<1>3. CASE DeleteStep(o)
  BY <1>3 DEF DeleteStep, LookUp, StorageFails, RemoveArtifact, WriteLog, DeleterStops, Forget,
    DeleterGoto, dataVars, deleterHistory
<1> QED BY <1>1, <1>2, <1>3

\* A step of the erasure itself.
LEMMA ErasureStep ==
  ASSUME TDTypeOK, NEW d \in Erasure, Complete(d), Erase(d) \/ DeleteStep(d)
  PROVE  Complete(d)'
<1>d. d \in Deleter /\ d \notin SweepJob
  BY TenantDataAssumption DEF Deleter
<1> USE <1>d, TypeParts DEF DeleterOK, WrittenOK, ReportOK, Complete
<1>1. CASE ReadRows(d, "list")
  <2> DEFINE rows == {k \in Key : HasRow(k)}
  <2>1. rows \subseteq Candidates(rows)
    BY CandidateKeys
  <2>2. todo'[d] = Candidates(rows) /\ rowless'[d] = {k \in store : ~HasRow(k)}
    BY <1>1 DEF ReadRows
  <2>3. store' = store /\ dAt'[d] = "list" /\ store \subseteq Key
    BY <1>1 DEF ReadRows, DeleterGoto, dataVars, DataOK
  <2>4. store \subseteq todo'[d] \cup rowless'[d]
    BY <2>1, <2>2, <2>3
  <2> QED BY <2>3, <2>4
<1>2. CASE BeginErasure(d)
  BY <1>2 DEF BeginErasure, DeleterGoto
<1>3. CASE ListStore(d)
  BY <1>3 DEF ListStore, DeleterGoto, dataVars, deleterHistory
<1>4. CASE ListFails(d)
  BY <1>4 DEF ListFails
<1>5. CASE Deleted(d, "commit")
  BY <1>5 DEF Deleted, DeleterGoto, dataVars, deleterHistory
<1>6. CASE Commit(d)
  BY <1>6 DEF Commit, DeleterGoto
<1>7. CASE RollBack(d) \/ WriteLog(d) \/ DeleterStops(d)
  BY <1>7 DEF RollBack, WriteLog, DeleterStops, DeleterGoto
<1>8. CASE LookUp(d)
  BY <1>8 DEF LookUp, dataVars, deleterHistory
<1>9. CASE StorageFails(d)
  BY <1>9 DEF StorageFails
<1>10. CASE RemoveArtifact(d)
  BY <1>10 DEF RemoveArtifact
<1> QED BY <1>1, <1>2, <1>3, <1>4, <1>5, <1>6, <1>7, <1>8, <1>9, <1>10 DEF Erase, DeleteStep

\* An erasure that is about to be logged as completed without an error has left
\* nothing in the store but what was written after it read its candidates or had no
\* row then, however many erasures and sweeps work at the same time.
THEOREM ErasureCorrect == TDSpec => []ErasureIsComplete
<1>1. TDInit => ErasureInv
  BY DEF TDInit, ErasureInv, Complete, Deleter
<1>2. TDTypeOK /\ ErasureInv /\ [TDNext]_tdVars => ErasureInv'
  <2> SUFFICES ASSUME TDTypeOK, ErasureInv, [TDNext]_tdVars, NEW d \in Erasure PROVE Complete(d)'
    BY DEF ErasureInv
  <2>d. Complete(d) /\ d \in Deleter
    BY DEF ErasureInv, Deleter
  <2>1. CASE Erase(d) \/ DeleteStep(d)
    BY <2>1, <2>d, ErasureStep
  <2>2. ASSUME NEW o \in Deleter, o # d, Erase(o) \/ SweepTenant(o) \/ DeleteStep(o) PROVE Complete(d)'
    <3>1. /\ dAt'[d] = dAt[d] /\ todo'[d] = todo[d] /\ found'[d] = found[d]
          /\ written'[d] = written[d] /\ rowless'[d] = rowless[d] /\ errors'[d] = errors[d]
          /\ store' \subseteq store
      BY <2>2, <2>d, OtherDeleter
    <3> QED BY <3>1, <2>d DEF Complete
  <2>3. ASSUME NEW r \in TRun, WriteArtifacts(r) PROVE Complete(d)'
    <3>1. PICK k : /\ store' = store \cup {k}
                   /\ written' = [o \in Deleter |-> IF dAt[o] \in {"new", "rows", "done"}
                                                    THEN written[o] ELSE written[o] \cup {k}]
      BY <2>3 DEF WriteArtifacts
    <3>2. dAt[d] \notin {"new", "rows", "done"} => written'[d] = written[d] \cup {k}
      BY <3>1, <2>d
    <3>3. UNCHANGED <<dAt, todo, found, rowless, errors>>
      BY <2>3 DEF WriteArtifacts, deleterVars
    <3> QED BY <3>1, <3>2, <3>3, <2>d DEF Complete
  <2>4. ASSUME NEW r \in TRun, RunStep(r), ~WriteArtifacts(r) PROVE Complete(d)'
    BY <2>4, <2>d DEF RunStep, Submit, WriteRow, WorkerStops, Resolve, Complete,
      dataVars, deleterVars, deleterHistory
  <2>5. CASE Visit \/ SetRetention \/ Pass \/ BeginExport \/ Export \/ ExportFails \/ UNCHANGED tdVars
    BY <2>5, <2>d DEF Visit, SetRetention, Pass, BeginExport, Export, ExportCandidates, ExportArtifacts,
      ExportRows, ExportFails, Complete, tdVars, dataVars, deleterVars, deleterHistory
  <2>6. Erasure \subseteq Deleter /\ SweepJob \subseteq Deleter /\ d \notin SweepJob
    BY TenantDataAssumption DEF Deleter
  <2> QED BY <2>1, <2>2, <2>3, <2>4, <2>5, <2>6 DEF TDNext
<1>3. ErasureInv => ErasureIsComplete
  BY DEF ErasureInv, Complete, ErasureIsComplete
<1> QED BY <1>1, <1>2, <1>3, TenantTypeCorrect, PTL DEF TDSpec
-----------------------------------------------------------------------------
(* The sweep keeps what is inside the window                               *)

LEMMA TwoKeys ==
  /\ \A r \in TRun : <<r, "run">> \in Key /\ <<r, "analysis">> \in Key
  /\ \A k \in Key : /\ k[1] \in TRun
                    /\ k = <<k[1], "run">> \/ k = <<k[1], "analysis">>
                    /\ k[2] \in {"run", "analysis"}
BY DEF Key

\* A step that changes no row and no worker and resolves nothing.
LEMMA RowsUnchanged ==
  ASSUME RowsInv, UNCHANGED <<age, wAt, resolved>>
  PROVE  RowsInv'
BY DEF RowsInv, HasRow

\* Of a deleter's steps only its one transaction touches the rows.
LEMMA DeletersKeepRows ==
  ASSUME NEW d \in Deleter, Erase(d) \/ SweepTenant(d) \/ DeleteStep(d)
  PROVE  UNCHANGED <<age, wAt, resolved>> \/ Commit(d)
BY DEF Erase, BeginErasure, ReadRows, ListStore, ListFails, Deleted, RollBack, SweepTenant, BeginSweep,
  DeleteStep, LookUp, StorageFails, RemoveArtifact, WriteLog, DeleterStops, dataVars

\* The rows of a run after a step of its worker.
LEMMA RowsStep ==
  ASSUME TDTypeOK, RowsInv, TDNext
  PROVE  RowsInv'
<1> USE TypeParts, TwoKeys DEF DataOK, WorkerOK, HistoryOK
<1>1. ASSUME NEW r \in TRun, Submit(r) PROVE RowsInv'
  BY <1>1 DEF Submit, WorkerGoto, RowsInv, HasRow
<1>2. ASSUME NEW r \in TRun, WriteArtifacts(r) PROVE RowsInv'
  BY <1>2 DEF WriteArtifacts, WorkerGoto, RowsInv, HasRow
<1>3. ASSUME NEW r \in TRun, WriteRow(r) PROVE RowsInv'
  BY <1>3 DEF WriteRow, WorkerGoto, RowsInv, HasRow
<1>4. ASSUME NEW r \in TRun, WorkerStops(r) PROVE RowsInv'
  BY <1>4 DEF WorkerStops, RowsInv, HasRow, dataVars
<1>5. ASSUME NEW r \in TRun, Resolve(r) PROVE RowsInv'
  BY <1>5 DEF Resolve, WorkerGoto, RowsInv, HasRow
<1>6. ASSUME NEW d \in Deleter, Commit(d) PROVE RowsInv'
  BY <1>6 DEF Commit, RowsInv, HasRow
<1>7. ASSUME NEW d \in Deleter, Erase(d) \/ SweepTenant(d) \/ DeleteStep(d) PROVE RowsInv'
  BY <1>6, <1>7, DeletersKeepRows, RowsUnchanged
<1>8. CASE Pass
  BY <1>8 DEF Pass, RowsInv, HasRow
<1>9. CASE Visit \/ SetRetention \/ BeginExport \/ Export \/ ExportFails
  BY <1>9, RowsUnchanged DEF Visit, SetRetention, BeginExport, Export, ExportCandidates, ExportArtifacts,
    ExportRows, ExportFails, dataVars
<1>10. Erasure \subseteq Deleter /\ SweepJob \subseteq Deleter
  BY DEF Deleter
<1> QED BY <1>1, <1>2, <1>3, <1>4, <1>5, <1>7, <1>8, <1>9, <1>10 DEF TDNext, RunStep

\* No step makes such a key harmful.
LEMMA HarmlessStep ==
  ASSUME TDTypeOK, RowsInv, TDNext, NEW k \in Key, Harmless(k)
  PROVE  Harmless(k)'
<1> USE TypeParts, TwoKeys DEF DataOK, WorkerOK, HistoryOK, Harmless
<1>1. ASSUME NEW r \in TRun, Submit(r) PROVE Harmless(k)'
  BY <1>1 DEF Submit, WorkerGoto
<1>2. ASSUME NEW r \in TRun, WriteArtifacts(r) PROVE Harmless(k)'
  BY <1>2 DEF WriteArtifacts, WorkerGoto
<1>3. ASSUME NEW r \in TRun, WriteRow(r) PROVE Harmless(k)'
  BY <1>3 DEF WriteRow, WorkerGoto, RowsInv
<1>4. ASSUME NEW r \in TRun, WorkerStops(r) PROVE Harmless(k)'
  BY <1>4 DEF WorkerStops, dataVars
<1>5. ASSUME NEW r \in TRun, Resolve(r) PROVE Harmless(k)'
  BY <1>5 DEF Resolve, WorkerGoto
<1>6. ASSUME NEW d \in Deleter, Erase(d) \/ SweepTenant(d) \/ DeleteStep(d) PROVE Harmless(k)'
  <2>1. CASE Commit(d)
    BY <2>1 DEF Commit
  <2>2. CASE UNCHANGED <<age, wAt, resolved>>
    BY <2>2
  <2> QED BY <1>6, <2>1, <2>2, DeletersKeepRows
<1>7. CASE Pass
  BY <1>7 DEF Pass, HasRow
<1>8. CASE Visit \/ SetRetention \/ BeginExport \/ Export \/ ExportFails
  BY <1>8 DEF Visit, SetRetention, BeginExport, Export, ExportCandidates, ExportArtifacts,
    ExportRows, ExportFails, dataVars
<1>9. Erasure \subseteq Deleter /\ SweepJob \subseteq Deleter
  BY DEF Deleter
<1> QED BY <1>1, <1>2, <1>3, <1>4, <1>5, <1>6, <1>7, <1>8, <1>9 DEF TDNext, RunStep

\* What a sweep takes in hand is harmless.
LEMMA SweepReads ==
  ASSUME TDTypeOK, RowsInv, NEW d \in SweepJob, ReadRows(d, "delete"), NEW k \in todo'[d]
  PROVE  k \in Key /\ Harmless(k)
<1> USE TypeParts DEF DataOK, WorkerOK, DeleterOK
<1> DEFINE rows == {j \in Key : age[j] = "old"}
<1>1. d \in Deleter
  BY DEF Deleter
<1>2. k \in Candidates(rows)
  BY <1>1 DEF ReadRows
<1>3. k \in Key /\ (k \in rows \/ (k = <<k[1], "run">> /\ <<k[1], "analysis">> \in rows))
  BY <1>2, CandidateKeys
<1>4. k[1] \in TRun /\ (k = <<k[1], "run">> \/ k = <<k[1], "analysis">>)
  BY <1>3, TwoKeys
<1>5. CASE k[1] \in resolved
  BY <1>3, <1>5 DEF Harmless
<1>6. CASE k[1] \notin resolved
  <2>1. /\ wAt[k[1]] \in {"new", "run", "run_row"} =>
             age[<<k[1], "run">>] = "none" /\ age[<<k[1], "analysis">>] = "none"
        /\ wAt[k[1]] \in {"analysis", "analysis_row"} => age[<<k[1], "analysis">>] = "none"
        /\ age[<<k[1], "run">>] = "fresh" => age[<<k[1], "analysis">>] # "old"
    BY <1>4, <1>6 DEF RowsInv, HasRow
  <2>2. CASE k = <<k[1], "run">>
    <3>1. k[2] = "run"
      BY <2>2
    <3>2. age[<<k[1], "run">>] = "old" \/ age[<<k[1], "analysis">>] = "old"
      BY <1>3, <2>2
    <3> QED BY <1>3, <2>1, <2>2, <3>1, <3>2 DEF Harmless
  <2>3. CASE k = <<k[1], "analysis">>
    <3>1. age[<<k[1], "analysis">>] = "old"
      BY <1>3, <2>3
    <3> QED BY <1>3, <2>1, <2>3, <3>1 DEF Harmless
  <2> QED BY <1>4, <2>2, <2>3
<1> QED BY <1>5, <1>6

\* Every key in hand after a step was in hand before it, or has been taken by this step.
LEMMA InHandStep ==
  ASSUME TDTypeOK, TDNext, NEW d \in SweepJob
  PROVE  \/ ReadRows(d, "delete") /\ found'[d] = found[d]
         \/ todo'[d] \cup found'[d] \subseteq todo[d] \cup found[d]
<1> USE TypeParts DEF DeleterOK
<1>d. Erasure \subseteq Deleter /\ SweepJob \subseteq Deleter /\ d \in Deleter /\ d \notin Erasure
  BY TenantDataAssumption DEF Deleter
<1>1. ASSUME NEW o \in Deleter, o # d, Erase(o) \/ SweepTenant(o) \/ DeleteStep(o)
      PROVE todo'[d] \cup found'[d] \subseteq todo[d] \cup found[d]
  BY <1>1, <1>d, OtherDeleter
<1>2. ASSUME SweepTenant(d), ~ReadRows(d, "delete")
      PROVE todo'[d] \cup found'[d] \subseteq todo[d] \cup found[d]
  BY <1>2 DEF SweepTenant, BeginSweep, Deleted
<1>3. CASE ReadRows(d, "delete")
  BY <1>3 DEF ReadRows
<1>4. ASSUME DeleteStep(d) PROVE todo'[d] \cup found'[d] \subseteq todo[d] \cup found[d]
  BY <1>4, <1>d DEF DeleteStep, LookUp, StorageFails, RemoveArtifact, WriteLog, DeleterStops
<1>5. CASE UNCHANGED <<todo, found>>
  BY <1>5
<1>6. ASSUME NEW r \in TRun, RunStep(r) PROVE UNCHANGED <<todo, found>>
  BY <1>6 DEF RunStep, Submit, WriteArtifacts, WriteRow, WorkerStops, Resolve, deleterVars
<1>7. CASE Visit \/ SetRetention \/ Pass \/ BeginExport \/ Export \/ ExportFails
  BY <1>7 DEF Visit, SetRetention, Pass, BeginExport, Export, ExportCandidates, ExportArtifacts,
    ExportRows, ExportFails, deleterVars
<1> QED BY <1>d, <1>1, <1>2, <1>3, <1>4, <1>5, <1>6, <1>7 DEF TDNext

\* An artifact whose row is fresh is removed by a sweep only if it was in hand.
LEMMA InsideStep ==
  ASSUME TDTypeOK, SweepInv, SweepKeepsFresh, TDNext
  PROVE  SweepKeepsFresh'
<1> USE TypeParts DEF DeleterOK, HistoryOK
<1>1. ASSUME NEW d \in Deleter, StorageFails(d) \/ RemoveArtifact(d) PROVE SweepKeepsFresh'
  <2>1. \A k \in inside' : k \in inside \/ (d \in SweepJob /\ k \in todo[d] \cup found[d] /\ age[k] = "fresh")
    BY <1>1 DEF StorageFails, RemoveArtifact
  <2>2. \A k \in inside' : k[1] \in resolved
    BY <2>1 DEF SweepInv, Harmless, SweepKeepsFresh
  <2>3. resolved' = resolved
    BY <1>1 DEF StorageFails, RemoveArtifact
  <2> QED BY <2>2, <2>3 DEF SweepKeepsFresh
<1>2. CASE inside' = inside /\ resolved \subseteq resolved'
  BY <1>2 DEF SweepKeepsFresh
<1>3. ASSUME NEW r \in TRun, RunStep(r) PROVE inside' = inside /\ resolved \subseteq resolved'
  BY <1>3 DEF RunStep, Submit, WriteArtifacts, WriteRow, WorkerStops, Resolve
<1>4. ASSUME NEW d \in Deleter, Erase(d) \/ SweepTenant(d) \/ LookUp(d) \/ WriteLog(d) \/ DeleterStops(d)
      PROVE inside' = inside /\ resolved \subseteq resolved'
  BY <1>4 DEF Erase, BeginErasure, ReadRows, ListStore, ListFails, Deleted, Commit, RollBack,
    SweepTenant, BeginSweep, LookUp, WriteLog, DeleterStops
<1>5. CASE Visit \/ SetRetention \/ Pass \/ BeginExport \/ Export \/ ExportFails
  BY <1>5, <1>2 DEF Visit, SetRetention, Pass, BeginExport, Export, ExportCandidates, ExportArtifacts,
    ExportRows, ExportFails
<1>6. Erasure \subseteq Deleter /\ SweepJob \subseteq Deleter
  BY DEF Deleter
<1> QED BY <1>1, <1>2, <1>3, <1>4, <1>5, <1>6 DEF TDNext, DeleteStep

\* A sweep removes no artifact whose own row is inside the window, unless the run's
\* gated write was resolved and the run saved again, whatever else runs beside it.
THEOREM SweepCorrect == TDSpec => []SweepKeepsFresh
<1> DEFINE Inv == RowsInv /\ SweepInv /\ SweepKeepsFresh
<1>1. TDInit => Inv
  <2> SUFFICES ASSUME TDInit PROVE Inv
    OBVIOUS
  <2>1. RowsInv
    BY TwoKeys DEF TDInit, RowsInv, HasRow
  <2>2. SweepInv /\ SweepKeepsFresh
    BY DEF TDInit, SweepInv, SweepKeepsFresh, Deleter
  <2> QED BY <2>1, <2>2
<1>2. TDTypeOK /\ Inv /\ [TDNext]_tdVars => Inv'
  <2> SUFFICES ASSUME TDTypeOK, Inv, [TDNext]_tdVars PROVE Inv'
    OBVIOUS
  <2>1. CASE TDNext
    <3>1. RowsInv' /\ SweepKeepsFresh'
      BY <2>1, RowsStep, InsideStep
    <3>2. ASSUME NEW d \in SweepJob, NEW k \in todo'[d] \cup found'[d] PROVE Harmless(k)'
      <4>1. k \in Key /\ Harmless(k)
        <5>1. \A j \in todo[d] \cup found[d] : j \in Key /\ Harmless(j)
          BY TypeParts DEF SweepInv, DeleterOK, Deleter
        <5>2. CASE ReadRows(d, "delete") /\ found'[d] = found[d]
          BY <3>2, <5>1, <5>2, SweepReads
        <5>3. CASE todo'[d] \cup found'[d] \subseteq todo[d] \cup found[d]
          BY <3>2, <5>1, <5>3
        <5> QED BY <2>1, <5>2, <5>3, InHandStep
      <4> QED BY <2>1, <4>1, HarmlessStep
    <3> QED BY <3>1, <3>2 DEF SweepInv
  <2>2. CASE UNCHANGED tdVars
    <3>1. RowsInv'
      BY <2>2, RowsUnchanged DEF tdVars, dataVars
    <3>2. SweepInv' /\ SweepKeepsFresh'
      BY <2>2 DEF SweepInv, Harmless, SweepKeepsFresh, tdVars, dataVars, deleterVars
    <3> QED BY <3>1, <3>2
  <2> QED BY <2>1, <2>2
<1>3. Inv => SweepKeepsFresh
  OBVIOUS
<1> QED BY <1>1, <1>2, <1>3, TenantTypeCorrect, PTL DEF TDSpec
-----------------------------------------------------------------------------
(* The export is consistent                                                *)

\* The rows of the tenant go only with its erasure.
LEMMA ExportStep ==
  ASSUME TDTypeOK, ExportInv, TDNext
  PROVE  ExportInv'
<1> USE TypeParts, TwoKeys DEF DataOK, ExportOK, ExportInv, HasRow
<1>1. ASSUME NEW r \in TRun, WriteRow(r) PROVE ExportInv'
  BY <1>1 DEF WriteRow, exportVars
<1>2. ASSUME NEW r \in TRun, Submit(r) \/ WriteArtifacts(r) \/ WorkerStops(r) \/ Resolve(r) PROVE ExportInv'
  BY <1>2 DEF Submit, WriteArtifacts, WorkerStops, Resolve, exportVars, dataVars
<1>3. ASSUME NEW d \in Deleter, Erase(d) \/ SweepTenant(d) \/ DeleteStep(d) PROVE ExportInv'
  <2>1. CASE Commit(d)
    BY <2>1 DEF Commit, exportVars
  <2>2. CASE ~Commit(d)
    BY <1>3, <2>2 DEF Erase, BeginErasure, ReadRows, ListStore, ListFails, Deleted, RollBack, SweepTenant,
      BeginSweep, DeleteStep, LookUp, StorageFails, RemoveArtifact, WriteLog, DeleterStops, dataVars, exportVars
  <2> QED BY <2>1, <2>2
<1>4. CASE Pass
  BY <1>4 DEF Pass, exportVars
<1>5. CASE Visit \/ SetRetention \/ BeginExport \/ ExportFails
  BY <1>5 DEF Visit, SetRetention, BeginExport, ExportGoto, ExportFails, exportVars, dataVars
<1>6. CASE ExportCandidates("candidates", "artifacts")
  <2> DEFINE rows == {k \in Key : HasRow(k)}
  <2>1. \A k \in Candidates(rows) : k \in Key /\ (k \in rows \/ <<k[1], "analysis">> \in rows)
    BY CandidateKeys
  <2>2. xKeys' = Candidates(rows) /\ xAt' = "artifacts" /\ age' = age
    BY <1>6 DEF ExportCandidates, ExportGoto, dataVars
  <2>3. \A k \in Candidates(rows) : HasRow(<<k[1], "run">>) \/ HasRow(<<k[1], "analysis">>)
    BY <2>1
  <2> QED BY <2>2, <2>3
<1>7. CASE ExportArtifacts("artifacts", "rows")
  BY <1>7 DEF ExportArtifacts, ExportGoto, dataVars
<1>8. CASE ExportRows("rows", "done")
  <2>1. xAt = "rows" /\ xAt' = "done" /\ xKeys' = xKeys /\ xErased' = xErased
    BY <1>8 DEF ExportRows, ExportGoto
  <2>2. xRuns' = {k[1] : k \in {j \in Key : HasRow(j)}}
    BY <1>8 DEF ExportRows
  <2>3. ASSUME ~xErased, NEW k \in xKeys PROVE k[1] \in xRuns'
    <3>1. k[1] \in TRun /\ (HasRow(<<k[1], "run">>) \/ HasRow(<<k[1], "analysis">>))
      BY <2>1, <2>3
    <3>2. PICK j \in Key : HasRow(j) /\ j[1] = k[1]
      BY <3>1
    <3> QED BY <2>2, <3>2
  <2> QED BY <2>1, <2>3
<1>9. Erasure \subseteq Deleter /\ SweepJob \subseteq Deleter
  BY DEF Deleter
<1> QED BY <1>1, <1>2, <1>3, <1>4, <1>5, <1>6, <1>7, <1>8, <1>9 DEF TDNext, RunStep, Export

\* Every artifact an export lists belongs to a run it also contains, unless the tenant
\* was erased while it was read: what workers, sweeps and failing erasures do between
\* its reads does not matter.
THEOREM ExportCorrect == TDSpec => []ExportIsConsistent
<1>1. TDInit => ExportInv
  BY DEF TDInit, ExportInv
<1>2. TDTypeOK /\ ExportInv /\ [TDNext]_tdVars => ExportInv'
  <2> SUFFICES ASSUME TDTypeOK, ExportInv, [TDNext]_tdVars PROVE ExportInv'
    OBVIOUS
  <2>1. CASE UNCHANGED tdVars
    BY <2>1 DEF ExportInv, HasRow, tdVars, dataVars, exportVars
  <2> QED BY <2>1, ExportStep
<1>3. ExportInv => ExportIsConsistent
  BY DEF ExportInv, ExportIsConsistent
<1> QED BY <1>1, <1>2, <1>3, TenantTypeCorrect, PTL DEF TDSpec
-----------------------------------------------------------------------------
(* The logs of the erasure and the sweep                                   *)

\* What an erasure's log says and whether it has committed changes by its own step.
LEMMA StatusStep ==
  ASSUME TDTypeOK, StatusInv, LogTellsTheTruth, TDNext
  PROVE  StatusInv' /\ LogTellsTheTruth'
<1> USE TypeParts DEF DeleterOK, ReportOK, HistoryOK, StatusInv, LogTellsTheTruth
<1>d. Erasure \subseteq Deleter /\ SweepJob \subseteq Deleter /\ Erasure \cap SweepJob = {}
  BY TenantDataAssumption DEF Deleter
<1>1. ASSUME NEW d \in Erasure, Erase(d) PROVE StatusInv' /\ LogTellsTheTruth'
  <2>1. CASE Commit(d)
    BY <2>1, <1>d DEF Commit, DeleterGoto
  <2>2. CASE RollBack(d)
    BY <2>2, <1>d DEF RollBack, DeleterGoto
  <2>3. CASE BeginErasure(d) \/ ReadRows(d, "list") \/ ListStore(d) \/ ListFails(d) \/ Deleted(d, "commit")
    BY <2>3, <1>d DEF BeginErasure, ReadRows, ListStore, ListFails, Deleted, DeleterGoto, deleterHistory
  <2> QED BY <1>1, <2>1, <2>2, <2>3 DEF Erase
<1>2. ASSUME NEW d \in SweepJob, SweepTenant(d) PROVE StatusInv' /\ LogTellsTheTruth'
  BY <1>2, <1>d DEF SweepTenant, BeginSweep, ReadRows, Deleted, DeleterGoto, deleterHistory
<1>3. ASSUME NEW d \in Deleter, DeleteStep(d) PROVE StatusInv' /\ LogTellsTheTruth'
  <2>1. CASE WriteLog(d)
    BY <2>1, <1>d DEF WriteLog, DeleterGoto
  <2>2. CASE DeleterStops(d)
    BY <2>2, <1>d DEF DeleterStops
  <2>3. CASE LookUp(d) \/ StorageFails(d) \/ RemoveArtifact(d)
    BY <2>3, <1>d DEF LookUp, StorageFails, RemoveArtifact, deleterHistory
  <2> QED BY <1>3, <2>1, <2>2, <2>3 DEF DeleteStep
<1>4. CASE UNCHANGED <<dAt, log, committed>>
  BY <1>4
<1>5. ASSUME NEW r \in TRun, RunStep(r) PROVE UNCHANGED <<dAt, log, committed>>
  BY <1>5 DEF RunStep, Submit, WriteArtifacts, WriteRow, WorkerStops, Resolve, deleterVars, deleterHistory
<1>6. CASE Visit \/ SetRetention \/ Pass \/ BeginExport \/ Export \/ ExportFails
  BY <1>6, <1>4 DEF Visit, SetRetention, Pass, BeginExport, Export, ExportCandidates, ExportArtifacts,
    ExportRows, ExportFails, deleterVars, deleterHistory
<1> QED BY <1>1, <1>2, <1>3, <1>4, <1>5, <1>6 DEF TDNext

\* tenant_deletion_log: "completed" only of an erasure that committed, "failed" only of one
\* that did not, although the status is written in a transaction of its own.
THEOREM StatusCorrect == TDSpec => []LogTellsTheTruth
<1>1. TDInit => StatusInv /\ LogTellsTheTruth
  BY DEF TDInit, StatusInv, LogTellsTheTruth, Deleter
<1>2. TDTypeOK /\ StatusInv /\ LogTellsTheTruth /\ [TDNext]_tdVars => StatusInv' /\ LogTellsTheTruth'
  BY StatusStep DEF StatusInv, LogTellsTheTruth, tdVars, deleterVars, deleterHistory
<1> QED BY <1>1, <1>2, TenantTypeCorrect, PTL DEF TDSpec

\* A finite set with one more element has one more.
LEMMA OneMore ==
  ASSUME NEW S, NEW k, IsFiniteSet(S), k \notin S
  PROVE  IsFiniteSet(S \cup {k}) /\ Cardinality(S \cup {k}) = Cardinality(S) + 1 /\ Cardinality(S) \in Nat
BY FS_AddElement, FS_CardinalityType

\* The count of a deleter and what it counts.
Exact(d) ==
  /\ counted[d] <= Cardinality(removed[d])
  /\ ~errors[d] => counted[d] = Cardinality(removed[d])

\* A removal: a deleter that works alone counts one key, which was there.
LEMMA RemovalCounts ==
  ASSUME TDTypeOK, CountInv, NEW d \in Deleter, d \notin overlapped, Exact(d), RemoveArtifact(d)
  PROVE  Exact(d)'
<1> USE TypeParts DEF DeleterOK, WrittenOK, ReportOK
<1>1. PICK k \in found[d] : removed'[d] = removed[d] \cup ({k} \cap store)
  BY DEF RemoveArtifact
<1>2. k \in store /\ k \notin removed[d] /\ IsFiniteSet(removed[d])
  BY DEF CountInv, Hand, RemoveArtifact, Busy
<1>3. counted'[d] = counted[d] + 1 /\ errors'[d] = errors[d] /\ counted[d] \in Nat
  BY DEF RemoveArtifact
<1>4. removed'[d] = removed[d] \cup {k}
  BY <1>1, <1>2
<1>5. Cardinality(removed'[d]) = Cardinality(removed[d]) + 1 /\ Cardinality(removed[d]) \in Nat
  BY <1>2, <1>4, OneMore
<1> QED BY <1>3, <1>5 DEF Exact

\* A removal whose answer is lost: the key is not counted, and the error is recorded.
LEMMA LostRemovalCounts ==
  ASSUME TDTypeOK, CountInv, NEW d \in Deleter, Exact(d), StorageFails(d)
  PROVE  Exact(d)'
<1> USE TypeParts DEF DeleterOK, WrittenOK, ReportOK
<1>1. counted'[d] = counted[d] /\ errors'[d] = TRUE /\ counted[d] \in Nat
  BY DEF StorageFails
<1>2. PICK k \in todo[d] \cup found[d] : removed'[d] \in {removed[d], removed[d] \cup {k}}
  BY DEF StorageFails
<1>3. k \notin removed[d] /\ IsFiniteSet(removed[d])
  BY DEF CountInv, Hand
<1>4. Cardinality(removed[d] \cup {k}) = Cardinality(removed[d]) + 1 /\ Cardinality(removed[d]) \in Nat
  BY <1>3, OneMore
<1>5. Cardinality(removed'[d]) >= Cardinality(removed[d])
  <2>1. CASE removed'[d] = removed[d]
    BY <2>1, <1>4
  <2>2. CASE removed'[d] = removed[d] \cup {k}
    BY <2>2, <1>4
  <2> QED BY <1>2, <2>1, <2>2
<1>6. counted[d] <= Cardinality(removed[d]) /\ Cardinality(removed'[d]) \in Nat
  <2>1. IsFiniteSet(removed[d] \cup {k})
    BY <1>3, OneMore
  <2>2. IsFiniteSet(removed'[d])
    BY <1>2, <1>3, <2>1
  <2> QED BY <2>2, FS_CardinalityType DEF Exact
<1>7. counted'[d] <= Cardinality(removed'[d])
  BY <1>1, <1>4, <1>5, <1>6
<1> QED BY <1>1, <1>7 DEF Exact

\* A deleter that has met another has met it for good.
LEMMA OverlappedGrows ==
  ASSUME TDNext
  PROVE  overlapped \subseteq overlapped'
<1>1. ASSUME NEW o \in Deleter, Erase(o) \/ SweepTenant(o) \/ DeleteStep(o) PROVE overlapped \subseteq overlapped'
  BY <1>1 DEF Erase, BeginErasure, ReadRows, ListStore, ListFails, Deleted, Commit, RollBack, SweepTenant,
    BeginSweep, DeleteStep, LookUp, StorageFails, RemoveArtifact, WriteLog, DeleterStops, Overlap, deleterHistory
<1>2. ASSUME NEW r \in TRun, RunStep(r) PROVE overlapped' = overlapped
  BY <1>2 DEF RunStep, Submit, WriteArtifacts, WriteRow, WorkerStops, Resolve, deleterHistory
<1>3. CASE Visit \/ SetRetention \/ Pass \/ BeginExport \/ Export \/ ExportFails
  BY <1>3 DEF Visit, SetRetention, Pass, BeginExport, Export, ExportCandidates, ExportArtifacts,
    ExportRows, ExportFails, deleterHistory
<1>4. Erasure \subseteq Deleter /\ SweepJob \subseteq Deleter
  BY DEF Deleter
<1> QED BY <1>1, <1>2, <1>3, <1>4 DEF TDNext

\* Every step of a deleter but these leaves its own count alone.
LEMMA ExactStep ==
  ASSUME TDTypeOK, CountInv, CountIsNotInflated, TDNext, NEW d \in Deleter, d \notin overlapped'
  PROVE  Exact(d)'
<1> USE TypeParts DEF DeleterOK, WrittenOK, ReportOK, HistoryOK
<1>d. Erasure \subseteq Deleter /\ SweepJob \subseteq Deleter
  BY DEF Deleter
<1>e. Exact(d) /\ d \notin overlapped
  BY OverlappedGrows DEF CountIsNotInflated, Exact
<1>1. CASE RemoveArtifact(d)
  BY <1>1, <1>e, RemovalCounts
<1>2. CASE StorageFails(d)
  BY <1>2, <1>e, LostRemovalCounts
<1>3. CASE counted'[d] = counted[d] /\ removed'[d] = removed[d] /\ (errors[d] => errors'[d])
  BY <1>3, <1>e DEF Exact
<1>4. ASSUME NEW o \in Deleter, Erase(o) \/ SweepTenant(o) \/ LookUp(o) \/ WriteLog(o) \/ DeleterStops(o)
      PROVE counted'[d] = counted[d] /\ removed'[d] = removed[d] /\ (errors[d] => errors'[d])
  BY <1>4 DEF Erase, BeginErasure, ReadRows, ListStore, ListFails, Deleted, Commit, RollBack, SweepTenant,
    BeginSweep, LookUp, WriteLog, DeleterStops, deleterHistory
<1>5. ASSUME NEW o \in Deleter, o # d, StorageFails(o) \/ RemoveArtifact(o)
      PROVE counted'[d] = counted[d] /\ removed'[d] = removed[d] /\ (errors[d] => errors'[d])
  BY <1>5 DEF StorageFails, RemoveArtifact
<1>6. ASSUME NEW r \in TRun, RunStep(r)
      PROVE counted' = counted /\ removed' = removed /\ errors' = errors
  BY <1>6 DEF RunStep, Submit, WriteArtifacts, WriteRow, WorkerStops, Resolve, deleterVars, deleterHistory
<1>7. CASE Visit \/ SetRetention \/ Pass \/ BeginExport \/ Export \/ ExportFails
  BY <1>7, <1>3 DEF Visit, SetRetention, Pass, BeginExport, Export, ExportCandidates, ExportArtifacts,
    ExportRows, ExportFails, deleterVars, deleterHistory
<1> QED BY <1>d, <1>1, <1>2, <1>3, <1>4, <1>5, <1>6, <1>7 DEF TDNext, DeleteStep
\* A deleter begins: whoever is at work meets it.
LEMMA BeginMeets ==
  ASSUME TDTypeOK, CountInv, NEW o \in Deleter, BeginErasure(o) \/ BeginSweep(o), NEW d \in Deleter
  PROVE  Alone(d)'
<1> USE TypeParts DEF DeleterOK, HistoryOK
<1>1. dAt[o] = "new" /\ dAt' = [dAt EXCEPT ![o] = "rows"] /\ overlapped' = Overlap(o)
  BY DEF BeginErasure, BeginSweep, DeleterGoto
<1>2. ~Busy(o) /\ \A p \in Deleter \ {o} : dAt'[p] = dAt[p]
  BY <1>1 DEF Busy
<1>3. \A p \in Deleter \ {o} : Busy(p) => p \in overlapped' /\ o \in overlapped'
  BY <1>1, <1>2 DEF Overlap
<1> QED BY <1>2, <1>3 DEF Alone, Busy

\* No other step makes a deleter busy.
LEMMA AloneStep ==
  ASSUME TDTypeOK, CountInv, TDNext, NEW d \in Deleter
  PROVE  Alone(d)'
<1> USE TypeParts DEF DeleterOK
<1>d. Erasure \subseteq Deleter /\ SweepJob \subseteq Deleter
  BY DEF Deleter
<1>1. CASE \A p \in Deleter : Busy(p)' => Busy(p)
  BY <1>1, OverlappedGrows DEF CountInv, Alone
<1>2. ASSUME NEW o \in Deleter, Erase(o) \/ SweepTenant(o) \/ DeleteStep(o), ~BeginErasure(o), ~BeginSweep(o)
      PROVE \A p \in Deleter : Busy(p)' => Busy(p)
  BY <1>2 DEF Busy, Erase, ReadRows, ListStore, ListFails, Deleted, Commit, RollBack, SweepTenant,
    DeleteStep, LookUp, StorageFails, RemoveArtifact, WriteLog, DeleterStops, DeleterGoto
<1>3. ASSUME NEW r \in TRun, RunStep(r) PROVE dAt' = dAt
  BY <1>3 DEF RunStep, Submit, WriteArtifacts, WriteRow, WorkerStops, Resolve, deleterVars
<1>4. CASE Visit \/ SetRetention \/ Pass \/ BeginExport \/ Export \/ ExportFails
  BY <1>4, <1>1 DEF Visit, SetRetention, Pass, BeginExport, Export, ExportCandidates, ExportArtifacts,
    ExportRows, ExportFails, deleterVars, Busy
<1>5. ASSUME dAt' = dAt PROVE \A p \in Deleter : Busy(p)' => Busy(p)
  BY <1>5 DEF Busy
<1> QED BY <1>d, <1>1, <1>2, <1>3, <1>4, <1>5, BeginMeets DEF TDNext

\* A deleter's own step.
LEMMA HandStep ==
  ASSUME TDTypeOK, CountInv, NEW d \in Deleter, Erase(d) \/ SweepTenant(d) \/ DeleteStep(d),
         overlapped \subseteq overlapped'
  PROVE  Hand(d)'
<1> USE TypeParts DEF DeleterOK, WrittenOK
<1>h. Hand(d)
  BY DEF CountInv
<1>1. ASSUME NEW to \in {"list", "delete"}, ReadRows(d, to) PROVE Hand(d)'
  BY <1>1, <1>h DEF Hand, ReadRows, DeleterGoto, dataVars
<1>2. CASE BeginErasure(d) \/ BeginSweep(d)
  BY <1>2, <1>h DEF Hand, BeginErasure, BeginSweep, DeleterGoto, dataVars
<1>3. CASE ListStore(d)
  BY <1>3, <1>h DEF Hand, ListStore, DeleterGoto, dataVars, deleterHistory
<1>4. CASE ListFails(d)
  BY <1>4, <1>h DEF Hand, ListFails, DeleterGoto, dataVars, deleterHistory, Busy
<1>5. ASSUME NEW to \in {"commit", "log"}, Deleted(d, to) PROVE Hand(d)'
  BY <1>5, <1>h DEF Hand, Deleted, DeleterGoto, dataVars, deleterHistory, Busy
<1>6. CASE Commit(d)
  BY <1>6, <1>h DEF Hand, Commit, DeleterGoto, Busy
<1>7. CASE RollBack(d) \/ WriteLog(d) \/ DeleterStops(d)
  BY <1>7, <1>h DEF Hand, RollBack, WriteLog, DeleterStops, DeleterGoto, dataVars, Busy
<1>8. CASE LookUp(d)
  BY <1>8, <1>h DEF Hand, LookUp, dataVars, deleterHistory, Busy
<1>9. CASE StorageFails(d)
  <2>1. PICK k \in todo[d] \cup found[d], lost \in BOOLEAN :
          /\ todo'[d] = todo[d] \ {k} /\ found'[d] = found[d] \ {k}
          /\ store' = IF lost THEN store \ {k} ELSE store
          /\ removed'[d] = IF lost THEN removed[d] \cup {k} ELSE removed[d]
    BY <1>9 DEF StorageFails
  <2>2. IsFiniteSet(removed'[d])
    BY <1>h, <2>1, FS_AddElement DEF Hand
  <2>3. dAt[d] = "delete" /\ dAt' = dAt /\ overlapped' = overlapped
    BY <1>9 DEF StorageFails
  <2> QED BY <1>h, <2>1, <2>2, <2>3 DEF Hand, Busy
<1>10. CASE RemoveArtifact(d)
  <2>1. PICK k \in found[d] :
          /\ todo'[d] = todo[d] /\ found'[d] = found[d] \ {k}
          /\ store' = store \ {k}
          /\ removed'[d] = removed[d] \cup ({k} \cap store)
    BY <1>10 DEF RemoveArtifact
  <2>2. IsFiniteSet(removed'[d])
    <3>1. removed'[d] = removed[d] \/ removed'[d] = removed[d] \cup {k}
      BY <2>1
    <3> QED BY <1>h, <3>1, FS_AddElement DEF Hand
  <2>3. dAt[d] = "delete" /\ dAt' = dAt /\ overlapped' = overlapped
    BY <1>10 DEF RemoveArtifact
  <2> QED BY <1>h, <2>1, <2>2, <2>3 DEF Hand, Busy
<1> QED BY <1>1, <1>2, <1>3, <1>4, <1>5, <1>6, <1>7, <1>8, <1>9, <1>10 DEF Erase, SweepTenant, DeleteStep

\* A step of another deleter: it takes artifacts only while it is at work itself.
LEMMA OtherHandStep ==
  ASSUME TDTypeOK, CountInv, TDNext, NEW d \in Deleter, NEW o \in Deleter, o # d,
         Erase(o) \/ SweepTenant(o) \/ DeleteStep(o)
  PROVE  Hand(d)'
<1> USE TypeParts DEF DeleterOK, WrittenOK
<1>1. dAt'[d] = dAt[d] /\ todo'[d] = todo[d] /\ found'[d] = found[d]
  BY OtherDeleter
<1>2. removed'[d] = removed[d]
  BY DEF Erase, BeginErasure, ReadRows, ListStore, ListFails, Deleted, Commit, RollBack, SweepTenant,
    BeginSweep, DeleteStep, LookUp, StorageFails, RemoveArtifact, WriteLog, DeleterStops, deleterHistory
<1>3. store' = store \/ Busy(o)
  BY DEF Erase, BeginErasure, ReadRows, ListStore, ListFails, Deleted, Commit, RollBack, SweepTenant, Busy,
    BeginSweep, DeleteStep, LookUp, StorageFails, RemoveArtifact, WriteLog, DeleterStops, dataVars
<1>4. Busy(d) /\ Busy(o) => d \in overlapped
  BY DEF CountInv, Alone
<1>5. overlapped \subseteq overlapped'
  BY OverlappedGrows
<1>6. Busy(d)' <=> Busy(d)
  BY <1>1 DEF Busy
<1>7. Hand(d)
  BY DEF CountInv
<1> QED BY <1>1, <1>2, <1>3, <1>4, <1>5, <1>6, <1>7 DEF Hand

\* A deleter that works alone counts what it deletes, and every key once.
LEMMA CountStep ==
  ASSUME TDTypeOK, CountInv, TDNext
  PROVE  CountInv'
<1> SUFFICES ASSUME NEW d \in Deleter PROVE Hand(d)'
  BY AloneStep DEF CountInv
<1>d. Hand(d) /\ overlapped \subseteq overlapped' /\ Erasure \subseteq Deleter /\ SweepJob \subseteq Deleter
  BY OverlappedGrows DEF CountInv, Deleter
<1>1. ASSUME NEW o \in Deleter, Erase(o) \/ SweepTenant(o) \/ DeleteStep(o) PROVE Hand(d)'
  BY <1>1, <1>d, HandStep, OtherHandStep
<1>2. CASE UNCHANGED <<dAt, todo, found, removed, overlapped>> /\ store \subseteq store'
  BY <1>2, <1>d DEF Hand, Busy
<1>3. ASSUME NEW r \in TRun, RunStep(r) PROVE UNCHANGED <<dAt, todo, found, removed, overlapped>> /\ store \subseteq store'
  BY <1>3 DEF RunStep, Submit, WriteArtifacts, WriteRow, WorkerStops, Resolve, dataVars, deleterVars, deleterHistory
<1>4. CASE Visit \/ SetRetention \/ Pass \/ BeginExport \/ Export \/ ExportFails
  BY <1>4, <1>2 DEF Visit, SetRetention, Pass, BeginExport, Export, ExportCandidates, ExportArtifacts,
    ExportRows, ExportFails, dataVars, deleterVars, deleterHistory
<1> QED BY <1>d, <1>1, <1>2, <1>3, <1>4 DEF TDNext

\* The storage_keys_deleted of a deletion or cleanup log is never above what was deleted,
\* and without errors exact, unless two deleters were at work on the tenant at once.
THEOREM CountCorrect == TDSpec => []CountIsNotInflated
<1> DEFINE Inv == CountInv /\ CountIsNotInflated
<1>1. TDInit => Inv
  <2> SUFFICES ASSUME TDInit, NEW d \in Deleter PROVE Alone(d) /\ Hand(d) /\ Exact(d)
    BY DEF CountInv, CountIsNotInflated, Exact
  <2> QED BY FS_EmptySet DEF TDInit, Alone, Hand, Exact, Busy
<1>2. TDTypeOK /\ Inv /\ [TDNext]_tdVars => Inv'
  <2> SUFFICES ASSUME TDTypeOK, Inv, [TDNext]_tdVars PROVE Inv'
    OBVIOUS
  <2>1. CASE TDNext
    BY <2>1, CountStep, ExactStep DEF CountIsNotInflated, Exact
  <2>2. CASE UNCHANGED tdVars
    BY <2>2 DEF CountInv, Alone, Hand, Busy, CountIsNotInflated, tdVars, dataVars, deleterVars, deleterHistory
  <2> QED BY <2>1, <2>2
<1>3. Inv => CountIsNotInflated
  OBVIOUS
<1> QED BY <1>1, <1>2, <1>3, TenantTypeCorrect, PTL DEF TDSpec
=============================================================================
