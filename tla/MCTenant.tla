------------------------------ MODULE MCTenant ------------------------------
(***************************************************************************)
(* Four parts of what the workers and requests of one tenant do: its       *)
(* execution queue; what follows the fires of one of its saved pipelines;  *)
(* the settings of that pipeline; and erasure, retention and export of its *)
(* data.  The initial state chooses a part, and only that one takes steps. *)
(***************************************************************************)
EXTENDS ExecutionQueue, PipelineHealth, PipelineSettings, TenantData

VARIABLE part \* the part that runs

tenantVars == <<part, vars, phVars, psVars, tdVars>>

TenantInit ==
  /\ part \in {"queue", "health", "settings", "data"}
  /\ Init /\ PHInit /\ PSInit /\ TDInit
  /\ part # "queue" => cap = DefaultCap
  /\ psRow.cron = (CHOOSE c \in Cron : TRUE) \* the schedules are alike
  /\ part # "settings" => psRow.active
  /\ psRow.next.at = 1 \* every later instant is chosen freely

TenantNext ==
  /\ UNCHANGED part
  /\ \/ part = "queue" /\ Next /\ UNCHANGED <<phVars, psVars, tdVars>>
     \/ part = "health" /\ PHNext /\ UNCHANGED <<vars, psVars, tdVars>>
     \/ part = "settings" /\ PSNext /\ UNCHANGED <<vars, phVars, tdVars>>
     \/ part = "data" /\ TDNext /\ UNCHANGED <<vars, phVars, psVars>>

TenantSpec == TenantInit /\ [][TenantNext]_tenantVars

\* Every part keeps to its types: what the code finds in its database, its store and
\* its broker is never of a shape it does not expect.
TenantTypeOK ==
  CASE part = "queue" -> TypeOK
    [] part = "health" -> PHTypeOK
    [] part = "settings" -> PSTypeOK
    [] part = "data" -> TDTypeOK

\* The calls that still run, or whose task does.
Unfinished == {c \in Call : req[c] \in {"read_spend", "acquire", "rate", "publish", "undo"}
                            \/ InFlight(c) \/ task[c] = "decide"}

\* States are told apart by what a later step or a property can still read.  Left
\* out are histories that no property of this run names, what a call, a request or
\* a GET has read and will not read again, and how far the spend is past a cap.
TenantView ==
  <<part, phVars, lock, count, cap, spent > 0, {v \in CapChoices \ {NoCap} : spent >= v},
    req, [c \in Unfinished |-> <<seenCap[c], retries[c]>>], task, outcome,
    admitted, stranded, disturbed,
    psRow, psRuns, psAt, psOp, [q \in {r \in PRequest : psAt[r] = "write"} |-> psWrite[q]],
    [q \in {r \in PRequest : psAt[r] = "lookup"} |-> psLooked[q]], psAnswer, psTick, psLast, psStale,
    dataVars, wAt, dAt, todo, found, errors, exportVars, written, rowless, inside, resolved, xErased>>

\* The channels in the order in which they are tried.
MCChannel == <<"email", "slack">>

MCPair == {[provider |-> "google", model |-> "gemini-2.5-pro"]}
=============================================================================
