----------------------------- MODULE Connections -----------------------------
(***************************************************************************)
(* Which database, and which credential, a run talks to.  A tenant keeps   *)
(* secrets, encrypted (services/secrets_service.py).  A stretch of a run - *)
(* its graph, and again the load that an operator approves - looks up the  *)
(* tenant's connection strings, one after the other, and makes them        *)
(* visible to the connectors it calls in its thread                        *)
(* (core/tenant_context.py).  Threads are reused, and secrets change       *)
(* while runs are under way.  A REST source looks its secret up when it is *)
(* called (sources/rest_source.py).                                        *)
(***************************************************************************)
EXTENDS Integers, FiniteSets

CONSTANTS
  CRun,        \* the runs; each has two stretches
  TenantOf,    \* the tenant of each run; Nobody for a run without one
  PoolThread,      \* threads
  CTenant,
  Database,    \* the connectors with a connection string: postgres, mysql, mongodb
  Shared,      \* the databases whose variable of the environment is set
  Api,         \* the secret that a plan names for its REST source
  MaxEdits,    \* bound: changes of secrets and of the encryption key
  Nobody, NoValue

ASSUME ConnectionsAssumption ==
  /\ Shared \subseteq Database /\ Api \notin Database
  /\ MaxEdits \in Nat
  /\ Nobody \notin CTenant /\ TenantOf \in [CRun -> CTenant \cup {Nobody}] /\ NoValue \notin Nat

VARIABLES
  cnSecret,  \* tenant_secrets: the value of each secret, and the key it is encrypted with
  cnKey,     \* AI_ETL_SECRETS_ENCRYPTION_KEY, numbered
  cnEdits,   \* how many changes there have been so far
  cnContext, \* the ContextVars of each thread
  cnAt,      \* where each stretch is
  cnThread,  \* the thread of each stretch
  cnLooked,  \* the databases whose secret each stretch has looked up
  cnFound,   \* the overrides it has found
  cnUsed,    \* what its connectors have talked to
  cnWhen,    \* history: cnEdits at each look-up
  cnFailed   \* history: look-ups that failed

cnVars == <<cnSecret, cnKey, cnEdits, cnContext, cnAt, cnThread, cnLooked, cnFound,
            cnUsed, cnWhen, cnFailed>>
secretVars == <<cnSecret, cnKey, cnEdits>>
lookupVars == <<cnWhen, cnFailed>>

Secret == Database \cup {Api}
Stretch == CRun \X {"graph", "load"}
RunOf(s) == s[1]
LookUpOf(s, n) == <<s, n>> \* a look-up: of a stretch and a secret

Empty == [overrides |-> [d \in Database |-> NoValue], tenant |-> Nobody]

\* What a connection is made with: the tenant's own secret, or the environment's.
Own(t, value) == [owner |-> t, value |-> value]
FromEnvironment == [owner |-> Nobody, value |-> NoValue]

CNInit ==
  /\ cnSecret = [t \in CTenant |-> [n \in Secret |-> [value |-> 0, key |-> 0]]]
  /\ cnKey = 0 /\ cnEdits = 0
  /\ cnContext = [w \in PoolThread |-> Empty]
  /\ cnAt = [s \in Stretch |-> IF s[2] = "graph" THEN "new" ELSE "not_yet"]
  /\ cnThread = [s \in Stretch |-> Nobody]
  /\ cnLooked = [s \in Stretch |-> {}]
  /\ cnFound = [s \in Stretch |-> Empty.overrides]
  /\ cnUsed = [s \in Stretch |-> {}]
  /\ cnWhen = [l \in Stretch \X Database |-> 0] /\ cnFailed = {}

-----------------------------------------------------------------------------
(* The secrets of a tenant                                                 *)

Edit ==
  /\ cnEdits < MaxEdits /\ cnEdits' = cnEdits + 1
  /\ UNCHANGED <<cnContext, cnAt, cnThread, cnLooked, cnFound, cnUsed,
                 lookupVars>>

\* set_secret: an upsert, which is also how a secret is rotated.
SetSecret(t, n) ==
  /\ Edit
  /\ cnSecret' = [cnSecret EXCEPT ![t][n] = [value |-> cnEdits + 1, key |-> cnKey]]
  /\ UNCHANGED cnKey

DeleteSecret(t, n) ==
  /\ cnSecret[t][n].value # NoValue
  /\ Edit
  /\ cnSecret' = [cnSecret EXCEPT ![t][n].value = NoValue]
  /\ UNCHANGED cnKey

\* Under another key what was stored before is unreadable.
ChangeKey == Edit /\ cnKey' = cnKey + 1 /\ UNCHANGED cnSecret

\* get_secret: NoValue for SecretNotFoundError, whichever its cause.
GetSecret(t, n) ==
  IF cnSecret[t][n].key = cnKey THEN cnSecret[t][n].value ELSE NoValue

-----------------------------------------------------------------------------
(* A stretch of a run                                                      *)

Begin(s, w) ==
  /\ cnAt[s] = "new" /\ \A r \in Stretch : cnThread[r] # w
  /\ cnThread' = [cnThread EXCEPT ![s] = w]
  /\ cnAt' = [cnAt EXCEPT ![s] = "resolve"]
  /\ UNCHANGED <<secretVars, cnContext, cnLooked, cnFound, cnUsed,
                 lookupVars>>

\* resolve_tenant_overrides: a look-up that fails counts as a secret that is not there.
ResolveOverride(s, d, fails) ==
  LET t == TenantOf[RunOf(s)] IN
  /\ cnAt[s] = "resolve" /\ t # Nobody /\ d \notin cnLooked[s]
  /\ cnLooked' = [cnLooked EXCEPT ![s] = @ \cup {d}]
  /\ cnFound' = IF fails THEN cnFound ELSE [cnFound EXCEPT ![s][d] = GetSecret(t, d)]
  /\ cnWhen' = [cnWhen EXCEPT ![LookUpOf(s, d)] = cnEdits]
  /\ cnFailed' = IF fails THEN cnFailed \cup {LookUpOf(s, d)} ELSE cnFailed
  /\ UNCHANGED <<secretVars, cnContext, cnAt, cnThread, cnUsed>>

\* A mistake: the context is one of the process, not of the thread.
EnterProcess(s) ==
  /\ cnAt[s] = "resolve"
  /\ TenantOf[RunOf(s)] # Nobody => cnLooked[s] = Database
  /\ cnContext' = [w \in PoolThread |-> [overrides |-> cnFound[s], tenant |-> TenantOf[RunOf(s)]]]
  /\ cnAt' = [cnAt EXCEPT ![s] = "inside"]
  /\ UNCHANGED <<secretVars, cnThread, cnLooked, cnFound, cnUsed,
                 lookupVars>>

\* tenant_connections
Enter(s) ==
  /\ cnAt[s] = "resolve"
  /\ TenantOf[RunOf(s)] # Nobody => cnLooked[s] = Database
  /\ cnContext' = [cnContext EXCEPT ![cnThread[s]] =
                     [overrides |-> cnFound[s], tenant |-> TenantOf[RunOf(s)]]]
  /\ cnAt' = [cnAt EXCEPT ![s] = "inside"]
  /\ UNCHANGED <<secretVars, cnThread, cnLooked, cnFound, cnUsed,
                 lookupVars>>

Use(s, what, with) == cnUsed' = [cnUsed EXCEPT ![s] = @ \cup {[what |-> what, with |-> with]}]

\* get_connection_override, else the variable of the environment; without either, and
\* if the database refuses, the connector raises.
Connect(s, d) ==
  LET context == cnContext[cnThread[s]] IN
  /\ cnAt[s] = "inside"
  /\ context.overrides[d] # NoValue \/ d \in Shared
  /\ Use(s, d, IF context.overrides[d] # NoValue
               THEN Own(context.tenant, context.overrides[d]) ELSE FromEnvironment)
  /\ UNCHANGED <<secretVars, cnContext, cnAt, cnThread, cnLooked, cnFound, lookupVars>>

\* get_rest_secret, else the environment.  The request, tried again when it gets no
\* answer at all, changes nothing here.
Authorize(s, fails) ==
  LET t == cnContext[cnThread[s]].tenant
      own == t # Nobody /\ ~fails /\ GetSecret(t, Api) # NoValue
  IN
  /\ cnAt[s] = "inside" /\ s[2] = "graph"
  /\ Use(s, Api, IF own THEN Own(t, GetSecret(t, Api)) ELSE FromEnvironment)
  /\ UNCHANGED <<secretVars, cnContext, cnAt, cnThread, cnLooked, cnFound, lookupVars>>

\* The end of the with statement, also by an exception.  The graph may have ended at
\* the approval gate: then there is a load to come.
LeaveContext(s, gated) ==
  /\ cnAt[s] = "inside"
  /\ gated => s[2] = "graph"
  /\ cnContext' = [cnContext EXCEPT ![cnThread[s]] = Empty]
  /\ cnThread' = [cnThread EXCEPT ![s] = Nobody]
  /\ cnAt' = [r \in Stretch |-> CASE r = s -> "ended"
                                  [] r # s /\ gated /\ RunOf(r) = RunOf(s) -> "new"
                                  [] OTHER -> cnAt[r]]
  /\ UNCHANGED <<secretVars, cnLooked, cnFound, cnUsed, lookupVars>>

CNNext ==
  \/ \E t \in CTenant, n \in Secret : SetSecret(t, n) \/ DeleteSecret(t, n)
  \/ ChangeKey
  \/ \E s \in Stretch :
       \/ \E w \in PoolThread : Begin(s, w)
       \/ \E d \in Database : Connect(s, d) \/ \E fails \in BOOLEAN : ResolveOverride(s, d, fails)
       \/ Enter(s)
       \/ \E fails \in BOOLEAN : Authorize(s, fails)
       \/ \E gated \in BOOLEAN : LeaveContext(s, gated)

CNSpec == CNInit /\ [][CNNext]_cnVars

-----------------------------------------------------------------------------
CNTypeOK ==
  /\ cnAt \in [Stretch -> {"not_yet", "new", "resolve", "inside", "ended"}]
  /\ cnThread \in [Stretch -> PoolThread \cup {Nobody}]
  /\ cnEdits \in 0..MaxEdits /\ cnKey \in 0..MaxEdits

\* Whatever secrets change, and whichever threads are reused, a run connects with its own
\* tenant's secrets or the environment's, and to one database of a kind in a stretch: what
\* it reads and what it previews are of the same one.  The load that an operator approves
\* goes there too, unless a secret has changed or a look-up has failed meanwhile.
ConnectsToItsOwn ==
  \A r \in Stretch, s \in Stretch :
    \A u \in cnUsed[r], v \in cnUsed[s] :
      /\ u.with.owner \in {TenantOf[RunOf(r)], Nobody}
      /\ /\ RunOf(r) = RunOf(s) /\ u.what = v.what /\ u.what \in Database
         /\ r = s \/ /\ cnWhen[LookUpOf(r, u.what)] = cnWhen[LookUpOf(s, u.what)]
                     /\ {LookUpOf(r, u.what), LookUpOf(s, u.what)} \cap cnFailed = {}
         => u.with = v.with
=============================================================================
