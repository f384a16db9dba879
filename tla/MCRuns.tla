------------------------------- MODULE MCRuns -------------------------------
(***************************************************************************)
(* What surrounds single runs, a part at a time: the approval of their     *)
(* gated writes; the files they load; the connections they make; the       *)
(* checks of what they produce; and the routes of an administrator, who    *)
(* may start one.  The initial state chooses a part, and only that one     *)
(* takes steps.  The runs and the requests of the first part, and the      *)
(* requests of the last, are interchangeable.                              *)
(***************************************************************************)
EXTENDS Approval, CsvSource, Connections, OutputChecks, Access, TLC

CONSTANTS x1, x2, n1 \* two runs of the connections, and the tenant of the first

VARIABLE part \* the part that runs

dataVars == <<csVars, cnVars, ocVars, acVars>>
runsVars == <<part, vars, dataVars>>

RunsInit ==
  /\ part \in {"approval", "file", "connections", "checks", "admin"}
  /\ Init /\ CSInit /\ CNInit /\ OCInit /\ ACInit
  /\ part # "approval" => pipeline.threshold

RunsNext ==
  /\ UNCHANGED part
  /\ \/ part = "approval" /\ Next /\ UNCHANGED dataVars
     \/ /\ UNCHANGED vars
        /\ \/ part = "file" /\ CSNext /\ UNCHANGED <<cnVars, ocVars, acVars>>
           \/ part = "connections" /\ CNNext /\ UNCHANGED <<csVars, ocVars, acVars>>
           \/ part = "checks" /\ OCNext /\ UNCHANGED <<csVars, cnVars, acVars>>
           \/ part = "admin" /\ ACNext /\ UNCHANGED <<csVars, cnVars, ocVars>>

RunsSpec == RunsInit /\ [][RunsNext]_runsVars

\* Every part keeps to its types: what one step of the code leaves in a table, a file or
\* a thread is of a shape that every later step expects.
RunsTypeOK ==
  CASE part = "approval" -> TypeOK
    [] part = "file" -> CSTypeOK
    [] part = "connections" -> CNTypeOK
    [] part = "checks" -> OCTypeOK
    [] part = "admin" -> ACTypeOK

Symmetry == Permutations(Run) \cup Permutations(Request) \cup Permutations(ARequest)

At(places) == {q \in Request : reqAt[q] \in places}

\* States are told apart by what a later step or a property can still read: not by
\* what a run or a request has read, or computed, for the last time.
RunsView ==
  <<part, pipelineVars, at, storeVars, reqAt, historyVars, dataVars,
    [r \in {r \in Run : at[r] = "running"} \cup unattended |-> policy[r]],
    [r \in {r \in Run : at[r] # "done" \/ row[r] = "awaiting_approval"} \cup unattended |-> size[r]],
    [r \in {r \in Run : at[r] # "done"} |-> outcome[r]],
    [q \in Request \ At({"refused"}) |-> target[q]],
    [q \in Request \ At({"refused", "died"}) |-> <<kind[q], answer[q]>>],
    [q \in At({"reload", "act", "save_json", "save_row"}) |-> linked[q]],
    [q \in At({"act"}) |-> reloaded[q]]>>

MCTenantOf == x1 :> n1 @@ x2 :> Nobody

MCCell == {-1, 0, 2}
MCForecast == -3..30

\* A plain file, with one thing or two that are not as usual.
Plain == [type |-> "csv", text |-> "utf8", sep |-> ",", sniffed |-> TRUE, large |-> FALSE,
          flaw |-> "none", flawAt |-> "sample", field |-> 0, fieldAt |-> "sample",
          decimals |-> "none"]
MCFile ==
  {[Plain EXCEPT !.text = t] : t \in {"utf8", "legacy", "garbled"}}
  \cup {[Plain EXCEPT !.sep = ";", !.sniffed = b, !.decimals = d] :
          b \in BOOLEAN, d \in {"none", "some", "all"}}
  \cup {[Plain EXCEPT !.flaw = f, !.flawAt = where, !.large = b] :
          f \in {"short", "extra", "quote"}, where \in {"sample", "rest"}, b \in BOOLEAN}
  \cup {[Plain EXCEPT !.field = n, !.fieldAt = where] : n \in 1..3, where \in {"sample", "rest"}}
  \cup {[type |-> "xlsx", sheets |-> n, named |-> FALSE, rows |-> rows, header |-> 2] :
          n \in {1, 2}, rows \in {<<"partial", "text", "mixed">>, <<"text", "text", "mixed">>,
                                  <<"partial", "text", "text">>,
                                  <<"mixed", "mixed">>}}
  \cup {[type |-> "json", shape |-> shape] :
          shape \in {"records", "nested", "values", "columns", "scalars"}}
=============================================================================
