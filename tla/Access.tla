-------------------------------- MODULE Access --------------------------------
(***************************************************************************)
(* Who may do what (services/auth_service.py, api/deps.py), and the routes *)
(* under /admin (api/routers/admin.py) with the log they write             *)
(* (audit/admin_log.py).  A handler authenticates, reads or acts, logs     *)
(* with a transaction of its own, and answers.  Each of these may raise,   *)
(* the ones that change something also after they took effect, and the     *)
(* process may die between any two of them.                                *)
(*                                                                         *)
(* Of the tenant's own routes there is one: deleting the saved pipeline    *)
(* that an administrator may be retrying meanwhile.                        *)
(***************************************************************************)
EXTENDS Integers, Sequences, FiniteSets

CONSTANTS
  ARequest,       \* the requests
  User, Org,      \* Clerk users and organizations
  PlatformAdmins, \* AI_ETL_PLATFORM_ADMINS
  Owner,          \* the tenant that has the saved pipeline
  Target,         \* the tenants an administrator may name
  LogLimits,      \* the limits a caller of GET /admin/audit-log may ask for
  LogTime,        \* the values of created_at
  NoOrg, Unnamed  \* no active organization; no filter, or no tenant

ASSUME AccessAssumption ==
  /\ PlatformAdmins \subseteq User /\ NoOrg \notin Org
  /\ Owner \in User \cup Org /\ Unnamed \notin Target \cup User
  /\ LogLimits \subseteq Nat /\ LogTime \subseteq Nat

VARIABLES
  acAt,       \* where each request is
  acOp,       \* the route it calls
  acAsk,      \* the tenant it is about; for the log, its filters and its limit
  acAuth,     \* its AuthContext, once it may go on
  acAnswer,   \* the HTTP status it answers with
  acPipeline, \* whether the saved pipeline is there
  acTasks,    \* the requests that have put a run into the queue
  acLog,      \* admin_action_log, in the order of the commits
  acSeen      \* the places in acLog of what each reading of the log has found

acVars == <<acAt, acOp, acAsk, acAuth, acAnswer, acPipeline, acTasks, acLog, acSeen>>

Reading == {"list_tenants", "list_tenant_runs", "view_tenant_budget"}
Route == Reading \cup {"view_admin_audit_log", "retry", "delete_pipeline"}

\* What a Clerk token says, and whether its signature, issuer and expiry can be verified.
Token == {token \in [valid : BOOLEAN, user : User, org : Org \cup {NoOrg},
                     orgRole : {"admin", "member", "none"}] :
            token.org = NoOrg <=> token.orgRole = "none"}

NoAsk == [tenant |-> Unnamed, actor |-> Unnamed, limit |-> 0]

\* What may be asked of a route.  (A negative limit raises in the database.)
Asks(op) ==
  CASE op = "view_admin_audit_log" ->
         [tenant : Target \cup {Unnamed}, actor : User \cup {Unnamed}, limit : LogLimits]
    [] op \in {"list_tenant_runs", "view_tenant_budget", "retry"} ->
         {[NoAsk EXCEPT !.tenant = t] : t \in Target}
    [] OTHER -> {NoAsk}

ACInit ==
  /\ acAt = [q \in ARequest |-> "new"] /\ acOp = [q \in ARequest |-> "none"]
  /\ acAsk = [q \in ARequest |-> NoAsk]
  /\ acAuth = [q \in ARequest |-> [role |-> "none"]]
  /\ acAnswer = [q \in ARequest |-> 0]
  /\ acPipeline = TRUE /\ acTasks = {} /\ acLog = <<>>
  /\ acSeen = [q \in ARequest |-> {}]

-----------------------------------------------------------------------------
(* Authentication and roles                                                *)

Rank(role) == CASE role = "viewer" -> 0 [] role = "editor" -> 1 [] role = "admin" -> 2

\* _resolve_role: the allowlist first, then the organization.
ResolveRole(token) ==
  CASE token.user \in PlatformAdmins -> "admin"
    [] token.user \notin PlatformAdmins /\ (token.org = NoOrg \/ token.orgRole = "admin") -> "editor"
    [] OTHER -> "viewer"

\* get_current_auth_context: the active organization is the tenant, else the user.
AuthContext(token) ==
  [role |-> ResolveRole(token), user |-> token.user,
   tenant |-> IF token.org # NoOrg THEN token.org ELSE token.user]

MinRole(op) == IF op = "delete_pipeline" THEN "editor" ELSE "admin"

Answer(q, status) ==
  /\ acAnswer' = [acAnswer EXCEPT ![q] = status]
  /\ acAt' = [acAt EXCEPT ![q] = "answered"]
StepTo(q, at) == acAt' = [acAt EXCEPT ![q] = at] /\ UNCHANGED acAnswer

Refuse(q, status) == Answer(q, status) /\ UNCHANGED <<acAsk, acAuth>>

\* verify_session_token refuses whatever it cannot verify, also because the keys are
\* out of reach; require_role and require_admin then compare the ranks; and a request
\* under /admin that states no reason goes no further.
Authenticate(q, op, token, stated) ==
  /\ acAt[q] = "new"
  /\ acOp' = [acOp EXCEPT ![q] = op]
  /\ IF ~token.valid THEN Refuse(q, 401)
     ELSE IF Rank(ResolveRole(token)) < Rank(MinRole(op)) THEN Refuse(q, 403)
     ELSE IF op # "delete_pipeline" /\ ~stated THEN Refuse(q, 422)
     ELSE /\ StepTo(q, "handle")
          /\ acAuth' = [acAuth EXCEPT ![q] = AuthContext(token)]
          /\ \E ask \in Asks(op) : acAsk' = [acAsk EXCEPT ![q] = ask]
  /\ UNCHANGED <<acPipeline, acTasks, acLog, acSeen>>

-----------------------------------------------------------------------------
(* Handlers                                                                *)

\* Its tenant deletes the pipeline; another tenant has none of that id.
DeleteOwnPipeline(q) ==
  /\ acAt[q] = "handle" /\ acOp[q] = "delete_pipeline"
  /\ IF acAuth[q].tenant = Owner /\ acPipeline
     THEN acPipeline' = FALSE /\ Answer(q, 204)
     ELSE UNCHANGED acPipeline /\ Answer(q, 404)
  /\ UNCHANGED <<acOp, acAsk, acAuth, acTasks, acLog, acSeen>>

ReadTenants(q) ==
  /\ acAt[q] = "handle" /\ acOp[q] \in Reading
  /\ StepTo(q, acOp[q])
  /\ UNCHANGED <<acOp, acAsk, acAuth, acPipeline, acTasks, acLog, acSeen>>

\* Of the first n entries, those that the filters leave.
Matching(log, n, ask) ==
  {i \in 1..n : /\ ask.actor \in {Unnamed, log[i].actor}
                /\ ask.tenant \in {Unnamed, log[i].tenant}}

\* list_admin_actions: the newest of them by created_at, up to the limit.
IsPage(page, log, n, ask) ==
  LET rows == Matching(log, n, ask)
  IN /\ page \subseteq rows
     /\ Cardinality(page) = IF Cardinality(rows) < ask.limit THEN Cardinality(rows)
                            ELSE ask.limit
     /\ \A i \in page, j \in rows \ page : log[i].created >= log[j].created

ListActions(q) ==
  /\ acAt[q] = "handle" /\ acOp[q] = "view_admin_audit_log"
  /\ \E page \in SUBSET (1..Len(acLog)) :
       /\ IsPage(page, acLog, Len(acLog), acAsk[q])
       /\ acSeen' = [acSeen EXCEPT ![q] = page]
  /\ StepTo(q, acOp[q])
  /\ UNCHANGED <<acOp, acAsk, acAuth, acPipeline, acTasks, acLog>>

\* admin_retry_tenant_pipeline: the pipeline is read, and enqueued as it was read.
RetryReads(q) ==
  /\ acAt[q] = "handle" /\ acOp[q] = "retry"
  /\ StepTo(q, IF acPipeline /\ acAsk[q].tenant = Owner THEN "enqueue"
                ELSE "retry_pipeline_not_found")
  /\ UNCHANGED <<acOp, acAsk, acAuth, acPipeline, acTasks, acLog, acSeen>>

RetryEnqueues(q) ==
  /\ acAt[q] = "enqueue"
  /\ acTasks' = acTasks \cup {q}
  /\ StepTo(q, "retry_pipeline")
  /\ UNCHANGED <<acOp, acAsk, acAuth, acPipeline, acLog, acSeen>>

\* The gates of enqueue_analysis: too many runs, or over the budget.
RetryRejected(q) ==
  /\ acAt[q] = "enqueue"
  /\ StepTo(q, "retry_pipeline_rejected")
  /\ UNCHANGED <<acOp, acAsk, acAuth, acPipeline, acTasks, acLog, acSeen>>

\* enqueue_analysis raises anything else: the broker may have the run all the same.
RetryRaises(q) ==
  /\ acAt[q] = "enqueue"
  /\ acTasks' \in {acTasks, acTasks \cup {q}}
  /\ Answer(q, 500)
  /\ UNCHANGED <<acOp, acAsk, acAuth, acPipeline, acLog, acSeen>>

\* Any other exception leaves the route at once: of ensure_user, of a read, or of the
\* log, which then has no entry.
HandlerRaises(q) ==
  /\ acAt[q] \notin {"enqueue", "answered", "dead"}
  /\ Answer(q, 500)
  /\ UNCHANGED <<acOp, acAsk, acAuth, acPipeline, acTasks, acLog, acSeen>>

ProcessDies(q) ==
  /\ acAt[q] \notin {"new", "answered", "dead"}
  /\ StepTo(q, "dead")
  /\ UNCHANGED <<acOp, acAsk, acAuth, acPipeline, acTasks, acLog, acSeen>>

Logged == Reading \cup {"view_admin_audit_log", "retry_pipeline_not_found", "retry_pipeline",
                     "retry_pipeline_rejected"}

\* The insert of log_admin_action.  created_at is taken before its transaction, by the
\* clock of the process, so the order of the commits can be another.
Insert(q) ==
  \E time \in LogTime :
    acLog' = Append(acLog, [request |-> q, action |-> acAt[q], actor |-> acAuth[q].user,
                            tenant |-> acAsk[q].tenant, created |-> time])

\* What a handler answers once it has logged.
LoggedStatuses(q) ==
  CASE acAt[q] = "retry_pipeline_not_found" -> {404}
    [] acAt[q] = "retry_pipeline_rejected" -> {402, 429}
    [] OTHER -> {200}

\* A mistake: a rejected retry is not logged.
LogSuccesses(q) ==
  /\ acAt[q] \in Logged
  /\ IF acAt[q] = "retry_pipeline_rejected" THEN UNCHANGED acLog ELSE Insert(q)
  /\ \E status \in LoggedStatuses(q) : Answer(q, status)
  /\ UNCHANGED <<acOp, acAsk, acAuth, acPipeline, acTasks, acSeen>>

\* log_admin_action, and the answer.
LogAction(q) ==
  /\ acAt[q] \in Logged
  /\ Insert(q)
  /\ \E status \in LoggedStatuses(q) : Answer(q, status)
  /\ UNCHANGED <<acOp, acAsk, acAuth, acPipeline, acTasks, acSeen>>

\* The entry is committed, but the commit raises, or the process dies before it answers.
LogUnanswered(q) ==
  /\ acAt[q] \in Logged
  /\ Insert(q)
  /\ Answer(q, 500) \/ StepTo(q, "dead")
  /\ UNCHANGED <<acOp, acAsk, acAuth, acPipeline, acTasks, acSeen>>

ACNext ==
  \E q \in ARequest :
    \/ \E op \in Route, token \in Token, stated \in BOOLEAN :
         Authenticate(q, op, token, stated)
    \/ DeleteOwnPipeline(q) \/ ReadTenants(q) \/ ListActions(q)
    \/ RetryReads(q) \/ RetryEnqueues(q) \/ RetryRejected(q) \/ RetryRaises(q)
    \/ HandlerRaises(q) \/ ProcessDies(q) \/ LogAction(q) \/ LogUnanswered(q)

ACSpec == ACInit /\ [][ACNext]_acVars

-----------------------------------------------------------------------------
ACTypeOK ==
  /\ acAt \in [ARequest -> {"new", "handle", "enqueue", "answered", "dead"} \cup Logged]
  /\ acAnswer \in [ARequest -> {0, 200, 204, 401, 402, 403, 404, 422, 429, 500}]
  /\ acTasks \subseteq ARequest /\ acPipeline \in BOOLEAN
  /\ \A i \in 1..Len(acLog) : acLog[i].actor \in User /\ acLog[i].created \in LogTime

Entries(q) == {i \in 1..Len(acLog) : acLog[i].request = q}

\* What the log can be relied on for (admin.py claims one entry for every request,
\* "success or not").  No request under /admin has two entries; one that its handler
\* answered has one; one that was refused, for its token, its role or the missing
\* reason, has none and has started nothing.  A run that an administrator started and
\* that the log does not tell of is one whose request was answered by 500, died, or is
\* about to log.  The log names only administrators of the platform, says of a retry
\* that it was enqueued exactly when it was, and what a reading of it found is the
\* newest page of a moment before the reading's own entry.
LoggedOnce ==
  /\ \A q \in ARequest :
       /\ Cardinality(Entries(q)) <= 1
       /\ acAnswer[q] \in {200, 402, 404, 429} /\ acOp[q] # "delete_pipeline" =>
            Entries(q) # {}
       /\ acAnswer[q] \in {401, 403, 422} => Entries(q) = {} /\ q \notin acTasks
       /\ q \in acTasks /\ Entries(q) = {} =>
            acAnswer[q] = 500 \/ acAt[q] \in {"dead", "retry_pipeline"}
  /\ \A i \in 1..Len(acLog) :
       /\ acLog[i].actor \in PlatformAdmins
       /\ acLog[i].action = "retry_pipeline" <=> acLog[i].request \in acTasks
       /\ acLog[i].action = "view_admin_audit_log" =>
            \E n \in 0..(i - 1) :
              IsPage(acSeen[acLog[i].request], acLog, n, acAsk[acLog[i].request])
=============================================================================
