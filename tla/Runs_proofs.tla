----------------------------- MODULE Runs_proofs -----------------------------
(***************************************************************************)
(* Proofs about what surrounds single runs, whatever the number of runs,   *)
(* threads, files and requests: the connections they make (Connections),   *)
(* the files they load (CsvSource), the checks of what they produce        *)
(* (OutputChecks) and the routes of an administrator (Access).  The last   *)
(* part is about MCRuns, which has these and Approval side by side.        *)
(***************************************************************************)
EXTENDS MCRuns, Approval_proofs, FiniteSetTheorems, SequenceTheorems, WellFoundedInduction

-----------------------------------------------------------------------------
(* The connections                                                         *)

\* A secret's value, as it is stored or found.
SecretValue == Nat \cup {NoValue}
Overrides == [Database -> SecretValue]

StretchOK ==
  /\ cnAt \in [Stretch -> {"not_yet", "new", "resolve", "inside", "ended"}]
  /\ cnThread \in [Stretch -> PoolThread \cup {Nobody}]
  /\ DOMAIN cnUsed = Stretch
EditsOK == cnEdits \in 0..MaxEdits /\ cnKey \in 0..cnEdits
SecretOK == cnSecret \in [CTenant -> [Secret -> [value : SecretValue, key : Nat]]]
ContextOK ==
  cnContext \in [PoolThread -> [overrides : Overrides, tenant : CTenant \cup {Nobody}]]
FoundOK == cnLooked \in [Stretch -> SUBSET Database] /\ cnFound \in [Stretch -> Overrides]
WhenOK ==
  /\ cnWhen \in [Stretch \X Database -> Nat]
  /\ \A l \in Stretch \X Database : cnWhen[l] <= cnEdits

TypeInv == StretchOK /\ EditsOK /\ SecretOK /\ ContextOK /\ FoundOK /\ WhenOK

\* A run's load is not under way before its graph has ended.
OrderInv ==
  \A s \in Stretch :
    s[2] = "load" /\ cnAt[s] # "not_yet" => cnAt[<<RunOf(s), "graph">>] = "ended"

\* No two stretches have one thread, and inside a stretch its thread's context is its own.
ContextInv ==
  /\ \A s \in Stretch : cnAt[s] \in {"resolve", "inside"} => cnThread[s] \in PoolThread
  /\ \A r, s \in Stretch :
       r # s /\ cnAt[r] \in {"resolve", "inside"} /\ cnAt[s] \in {"resolve", "inside"}
         => cnThread[r] # cnThread[s]
  /\ \A s \in Stretch :
       cnAt[s] = "inside" =>
         cnContext[cnThread[s]] = [overrides |-> cnFound[s], tenant |-> TenantOf[RunOf(s)]]

\* Look-ups of a secret with no edit between them find the same, and what has been found
\* since the last edit is the secret there is.
LookUpInv ==
  /\ \A s \in Stretch : cnAt[s] \in {"not_yet", "new"} => cnLooked[s] = {}
  /\ \A s \in Stretch :
       cnAt[s] \in {"inside", "ended"} /\ TenantOf[RunOf(s)] # Nobody => cnLooked[s] = Database
  /\ \A s \in Stretch, d \in Database : d \notin cnLooked[s] => cnFound[s][d] = NoValue
  /\ \A s \in Stretch : TenantOf[RunOf(s)] = Nobody => cnLooked[s] = {}
  /\ \A s \in Stretch, d \in Database :
       d \in cnLooked[s] /\ LookUpOf(s, d) \notin cnFailed /\ cnWhen[LookUpOf(s, d)] = cnEdits
         => cnFound[s][d] = GetSecret(TenantOf[RunOf(s)], d)
  /\ \A r, s \in Stretch, d \in Database :
       /\ RunOf(r) = RunOf(s)
       /\ d \in cnLooked[r] \cap cnLooked[s]
       /\ cnWhen[LookUpOf(r, d)] = cnWhen[LookUpOf(s, d)]
       /\ {LookUpOf(r, d), LookUpOf(s, d)} \cap cnFailed = {}
       => cnFound[r][d] = cnFound[s][d]

\* Where a stretch connects to.
OwnTarget(s, d) ==
  IF cnFound[s][d] # NoValue THEN Own(TenantOf[RunOf(s)], cnFound[s][d]) ELSE FromEnvironment

UsedInv ==
  \A s \in Stretch : \A u \in cnUsed[s] :
    /\ cnAt[s] \in {"inside", "ended"}
    /\ u.with.owner \in {TenantOf[RunOf(s)], Nobody}
    /\ u.what \in Database => u.with = OwnTarget(s, u.what)

ConnectionsInv == TypeInv /\ OrderInv /\ ContextInv /\ LookUpInv /\ UsedInv

-----------------------------------------------------------------------------
\* The stretches of a run are its graph and its load.
LEMMA OtherStretch ==
  ASSUME NEW r \in Stretch, NEW s \in Stretch, r # s, RunOf(r) = RunOf(s), s[2] = "graph"
  PROVE  r[2] = "load"
BY DEF Stretch, RunOf

\* What is found is a value.
LEMMA GetSecretType ==
  ASSUME SecretOK, NEW t \in CTenant, NEW n \in Secret
  PROVE  GetSecret(t, n) \in SecretValue
<1>1. cnSecret[t][n].value \in SecretValue
  BY DEF SecretOK
<1> QED BY <1>1 DEF GetSecret, SecretValue

\* A stretch is of a run, and that of a tenant or of nobody.
LEMMA TenantType ==
  ASSUME NEW s \in Stretch
  PROVE  RunOf(s) \in CRun /\ TenantOf[RunOf(s)] \in CTenant \cup {Nobody}
BY ConnectionsAssumption DEF Stretch, RunOf

\* A context without overrides is one.
LEMMA EmptyType == Empty \in [overrides : Overrides, tenant : CTenant \cup {Nobody}]
BY DEF Empty, Overrides, SecretValue

\* An edit comes after every look-up so far.
LEMMA EditStep ==
  ASSUME EditsOK, WhenOK, Edit
  PROVE  /\ cnEdits' = cnEdits + 1 /\ cnEdits' \in 0..MaxEdits
         /\ WhenOK'
         /\ \A l \in Stretch \X Database : cnWhen'[l] # cnEdits'
<1>1. cnEdits' = cnEdits + 1 /\ cnEdits' \in 0..MaxEdits /\ cnEdits \in Nat
  BY ConnectionsAssumption DEF Edit, EditsOK
<1>2. cnWhen' = cnWhen
  BY DEF Edit, lookupVars
<1>3. \A l \in Stretch \X Database : cnWhen'[l] \in Nat /\ cnWhen'[l] <= cnEdits
  BY <1>2 DEF WhenOK
<1>4. \A l \in Stretch \X Database : cnWhen'[l] <= cnEdits' /\ cnWhen'[l] # cnEdits'
  BY <1>1, <1>3
<1> QED BY <1>1, <1>2, <1>4 DEF WhenOK

\* The three kinds of edits.
LEMMA SecretStep ==
  ASSUME EditsOK, SecretOK, Edit,
         \/ \E t \in CTenant, n \in Secret : SetSecret(t, n) \/ DeleteSecret(t, n)
         \/ ChangeKey
  PROVE  EditsOK' /\ SecretOK'
<1>1. /\ cnEdits' = cnEdits + 1 /\ cnEdits' \in 0..MaxEdits
      /\ cnEdits \in Nat /\ cnKey \in 0..cnEdits
  BY ConnectionsAssumption DEF Edit, EditsOK
<1>2. ASSUME NEW t \in CTenant, NEW n \in Secret, SetSecret(t, n)
      PROVE  EditsOK' /\ SecretOK'
  <2>1. [value |-> cnEdits + 1, key |-> cnKey] \in [value : SecretValue, key : Nat]
    BY <1>1 DEF SecretValue
  <2>2. SecretOK'
    BY <1>2, <2>1 DEF SetSecret, SecretOK
  <2>3. cnKey' = cnKey
    BY <1>2 DEF SetSecret
  <2> QED BY <1>1, <2>2, <2>3 DEF EditsOK
<1>3. ASSUME NEW t \in CTenant, NEW n \in Secret, DeleteSecret(t, n)
      PROVE  EditsOK' /\ SecretOK'
  <2> DEFINE emptied == [cnSecret[t][n] EXCEPT !.value = NoValue]
  <2>1. emptied \in [value : SecretValue, key : Nat]
    BY DEF SecretOK, SecretValue
  <2>2. [cnSecret[t] EXCEPT ![n] = emptied] \in [Secret -> [value : SecretValue, key : Nat]]
    BY <2>1 DEF SecretOK
  <2>5. cnSecret' = [cnSecret EXCEPT ![t] = [cnSecret[t] EXCEPT ![n] = emptied]]
    BY <1>3 DEF DeleteSecret
  <2>3. SecretOK'
    BY <2>2, <2>5 DEF SecretOK
  <2>4. cnKey' = cnKey
    BY <1>3 DEF DeleteSecret
  <2> QED BY <1>1, <2>3, <2>4 DEF EditsOK
<1>4. CASE ChangeKey
  <2>1. SecretOK' /\ cnKey' = cnKey + 1
    BY <1>4 DEF ChangeKey, SecretOK
  <2> QED BY <1>1, <2>1 DEF EditsOK
<1> QED BY <1>2, <1>3, <1>4

\* Every step keeps the types.
LEMMA ConnectionsTypeStep ==
  ASSUME TypeInv, ContextInv, [CNNext]_cnVars
  PROVE  TypeInv'
<1>0. StretchOK /\ EditsOK /\ SecretOK /\ ContextOK /\ FoundOK /\ WhenOK
  BY DEF TypeInv
<1>1. CASE \/ \E t \in CTenant, n \in Secret : SetSecret(t, n) \/ DeleteSecret(t, n)
           \/ ChangeKey
  <2>1. Edit
    BY <1>1 DEF SetSecret, DeleteSecret, ChangeKey
  <2>2. EditsOK' /\ SecretOK' /\ WhenOK'
    BY <1>0, <1>1, <2>1, EditStep, SecretStep
  <2>3. StretchOK' /\ ContextOK' /\ FoundOK'
    BY <1>0, <2>1 DEF Edit, StretchOK, ContextOK, FoundOK
  <2> QED BY <2>2, <2>3 DEF TypeInv
<1>2. ASSUME NEW s \in Stretch, NEW w \in PoolThread, Begin(s, w)
      PROVE  TypeInv'
  <2>1. StretchOK'
    BY <1>0, <1>2 DEF Begin, StretchOK
  <2> QED BY <1>0, <1>2, <2>1
          DEF Begin, TypeInv, EditsOK, SecretOK, ContextOK, FoundOK, WhenOK, secretVars, lookupVars
<1>3. ASSUME NEW s \in Stretch, NEW d \in Database, NEW fails \in BOOLEAN,
             ResolveOverride(s, d, fails)
      PROVE  TypeInv'
  <2>1. GetSecret(TenantOf[RunOf(s)], d) \in SecretValue
    BY <1>0, <1>3, TenantType, GetSecretType DEF ResolveOverride, Secret
  <2>2. FoundOK'
    BY <1>0, <1>3, <2>1 DEF ResolveOverride, FoundOK, Overrides
  <2>3. cnWhen' = [cnWhen EXCEPT ![<<s, d>>] = cnEdits] /\ cnEdits' = cnEdits /\ cnEdits \in Nat
    BY <1>0, <1>3 DEF ResolveOverride, secretVars, LookUpOf, EditsOK
  <2>4. WhenOK'
    BY <1>0, <2>3 DEF WhenOK
  <2> QED BY <1>0, <1>3, <2>2, <2>4
          DEF ResolveOverride, TypeInv, StretchOK, EditsOK, SecretOK, ContextOK, secretVars
<1>4. ASSUME NEW s \in Stretch, Enter(s)
      PROVE  TypeInv'
  <2>1. cnThread[s] \in PoolThread
    BY <1>4 DEF Enter, ContextInv
  <2>2. [overrides |-> cnFound[s], tenant |-> TenantOf[RunOf(s)]]
          \in [overrides : Overrides, tenant : CTenant \cup {Nobody}]
    BY <1>0, TenantType DEF FoundOK
  <2>3. ContextOK'
    BY <1>0, <1>4, <2>1, <2>2 DEF Enter, ContextOK
  <2>4. StretchOK'
    BY <1>0, <1>4 DEF Enter, StretchOK
  <2> QED BY <1>0, <1>4, <2>3, <2>4
          DEF Enter, TypeInv, EditsOK, SecretOK, FoundOK, WhenOK, secretVars, lookupVars
<1>5. ASSUME NEW s \in Stretch, NEW gated \in BOOLEAN, LeaveContext(s, gated)
      PROVE  TypeInv'
  <2>1. ContextOK'
    BY <1>0, <1>5, EmptyType DEF LeaveContext, ContextOK
  <2>2. StretchOK'
    BY <1>0, <1>5 DEF LeaveContext, StretchOK
  <2> QED BY <1>0, <1>5, <2>1, <2>2
          DEF LeaveContext, TypeInv, EditsOK, SecretOK, FoundOK, WhenOK, secretVars, lookupVars
<1>6. ASSUME UNCHANGED <<secretVars, cnContext, cnAt, cnThread, cnLooked, cnFound, lookupVars>>,
             DOMAIN cnUsed' = DOMAIN cnUsed
      PROVE  TypeInv'
  BY <1>0, <1>6 DEF TypeInv, StretchOK, EditsOK, SecretOK, ContextOK, FoundOK, WhenOK, secretVars,
     lookupVars
<1>7. ASSUME NEW s \in Stretch,
             \/ \E d \in Database : Connect(s, d)
             \/ \E fails \in BOOLEAN : Authorize(s, fails)
      PROVE  TypeInv'
  <2>1. UNCHANGED <<secretVars, cnContext, cnAt, cnThread, cnLooked, cnFound, lookupVars>>
    BY <1>7 DEF Connect, Authorize
  <2>2. DOMAIN cnUsed' = DOMAIN cnUsed
    BY <1>7 DEF Connect, Authorize, Use
  <2> QED BY <1>6, <2>1, <2>2
<1>8. CASE UNCHANGED cnVars
  BY <1>6, <1>8 DEF cnVars, secretVars, lookupVars
<1> QED BY <1>1, <1>2, <1>3, <1>4, <1>5, <1>7, <1>8 DEF CNNext

\* Nothing is done before its turn.
LEMMA OrderStep ==
  ASSUME TypeInv, OrderInv, [CNNext]_cnVars
  PROVE  OrderInv'
<1> SUFFICES ASSUME NEW r \in Stretch, r[2] = "load", cnAt'[r] # "not_yet"
             PROVE  cnAt'[<<RunOf(r), "graph">>] = "ended"
  BY DEF OrderInv
<1> DEFINE g == <<RunOf(r), "graph">>
<1>0. g \in Stretch /\ g[2] = "graph" /\ RunOf(g) = RunOf(r) /\ g # r
  BY DEF Stretch, RunOf
<1>1. cnAt[r] # "not_yet" => cnAt[g] = "ended"
  BY DEF OrderInv
<1>2. ASSUME NEW s \in Stretch, NEW w \in PoolThread, Begin(s, w)
      PROVE  cnAt'[g] = "ended"
  BY <1>0, <1>1, <1>2 DEF Begin, TypeInv, StretchOK
<1>3. ASSUME NEW s \in Stretch, Enter(s)
      PROVE  cnAt'[g] = "ended"
  BY <1>0, <1>1, <1>3 DEF Enter, TypeInv, StretchOK
<1>4. ASSUME NEW s \in Stretch, NEW gated \in BOOLEAN, LeaveContext(s, gated)
      PROVE  cnAt'[g] = "ended"
  <2>1. CASE s = g
    BY <1>0, <1>4, <2>1 DEF LeaveContext
  <2>2. CASE s # g
    <3>1. s[2] = "graph" => RunOf(s) # RunOf(r)
      BY <2>2 DEF Stretch, RunOf
    <3>2. cnAt[r] # "not_yet"
      BY <1>4, <3>1 DEF LeaveContext
    <3>3. cnAt[g] = "ended" /\ cnAt'[g] \in {"ended", "new"}
      BY <1>0, <1>1, <1>4, <2>2, <3>2 DEF LeaveContext
    <3>4. ~(gated /\ RunOf(g) = RunOf(s))
      BY <1>0, <1>4, <3>1 DEF LeaveContext
    <3> QED BY <1>0, <1>4, <2>2, <3>3, <3>4 DEF LeaveContext
  <2> QED BY <2>1, <2>2
<1>5. ASSUME UNCHANGED cnAt
      PROVE  cnAt'[g] = "ended"
  BY <1>1, <1>5
<1> QED BY <1>2, <1>3, <1>4, <1>5
    DEF CNNext, SetSecret, DeleteSecret, ChangeKey, Edit, Connect, ResolveOverride, Authorize,
        cnVars

\* What ends a stretch leaves every other one that is under way as it is.
LEMMA LeaveOthers ==
  ASSUME TypeInv, OrderInv, NEW s \in Stretch, NEW gated \in BOOLEAN, LeaveContext(s, gated),
         NEW r \in Stretch, r # s
  PROVE  /\ cnAt[r] # "not_yet" => cnAt'[r] = cnAt[r]
         /\ cnAt'[r] \in {cnAt[r], "new"}
<1>1. CASE gated /\ RunOf(r) = RunOf(s)
  <2>1. s[2] = "graph" /\ cnAt[s] = "inside"
    BY <1>1 DEF LeaveContext
  <2>2. r[2] = "load" /\ s = <<RunOf(r), "graph">>
    BY <1>1, <2>1, OtherStretch DEF Stretch, RunOf
  <2>3. cnAt[r] = "not_yet"
    BY <2>1, <2>2 DEF OrderInv
  <2> QED BY <2>3, <1>1 DEF LeaveContext
<1>2. CASE ~(gated /\ RunOf(r) = RunOf(s))
  BY <1>2 DEF LeaveContext, TypeInv, StretchOK
<1> QED BY <1>1, <1>2

\* A thread keeps its context until it sets another.
LEMMA ContextStep ==
  ASSUME TypeInv, OrderInv, ContextInv, [CNNext]_cnVars
  PROVE  ContextInv'
<1> USE DEF ContextInv, secretVars, lookupVars
<1>1. ASSUME NEW s \in Stretch, NEW w \in PoolThread, Begin(s, w)
      PROVE  ContextInv'
  BY <1>1 DEF Begin, TypeInv, StretchOK
<1>2. ASSUME NEW s \in Stretch, NEW d \in Database, NEW fails \in BOOLEAN,
             ResolveOverride(s, d, fails)
      PROVE  ContextInv'
  BY <1>2 DEF ResolveOverride
<1>3. ASSUME NEW s \in Stretch, Enter(s)
      PROVE  ContextInv'
  <2>1. cnAt[s] = "resolve" /\ cnThread[s] \in PoolThread
    BY <1>3 DEF Enter
  <2>2. /\ cnAt' = [cnAt EXCEPT ![s] = "inside"] /\ cnThread' = cnThread /\ cnFound' = cnFound
        /\ cnContext'[cnThread[s]] = [overrides |-> cnFound[s], tenant |-> TenantOf[RunOf(s)]]
        /\ \A w \in PoolThread : w # cnThread[s] => cnContext'[w] = cnContext[w]
    BY <1>3, <2>1 DEF Enter, TypeInv, ContextOK
  <2>3. \A r \in Stretch : r # s => cnAt'[r] = cnAt[r]
    BY <2>2 DEF TypeInv, StretchOK
  <2>4. cnAt'[s] = "inside"
    BY <2>2 DEF TypeInv, StretchOK
  <2> QED BY <2>1, <2>2, <2>3, <2>4
<1>4. ASSUME NEW s \in Stretch, NEW gated \in BOOLEAN, LeaveContext(s, gated)
      PROVE  ContextInv'
  <2>1. cnAt[s] = "inside" /\ cnAt'[s] = "ended"
    BY <1>4 DEF LeaveContext
  <2>2. ASSUME NEW r \in Stretch, cnAt'[r] \in {"resolve", "inside"}
        PROVE  /\ r # s /\ cnAt[r] = cnAt'[r] /\ cnThread'[r] = cnThread[r]
               /\ cnThread[r] # cnThread[s] /\ cnThread[r] \in PoolThread
               /\ cnContext'[cnThread[r]] = cnContext[cnThread[r]]
    <3>1. r # s
      BY <2>1, <2>2
    <3>2. cnAt[r] = cnAt'[r]
      BY <1>4, <2>2, <3>1, LeaveOthers
    <3>3. cnThread'[r] = cnThread[r]
      BY <1>4, <3>1 DEF LeaveContext
    <3>4. cnThread[r] # cnThread[s] /\ cnThread[r] \in PoolThread
      BY <2>1, <2>2, <3>1, <3>2
    <3> QED BY <1>4, <3>1, <3>2, <3>3, <3>4 DEF LeaveContext
  <2>3. cnFound' = cnFound
    BY <1>4 DEF LeaveContext
  <2> QED BY <2>2, <2>3
<1>5. ASSUME UNCHANGED <<cnContext, cnAt, cnThread, cnFound>>
      PROVE  ContextInv'
  BY <1>5
<1> QED BY <1>1, <1>2, <1>3, <1>4, <1>5
    DEF CNNext, SetSecret, DeleteSecret, ChangeKey, Edit, Connect, Authorize, cnVars

\* What was found is what was there.
LEMMA LookUpStep ==
  ASSUME TypeInv, OrderInv, LookUpInv, [CNNext]_cnVars
  PROVE  LookUpInv'
<1> USE DEF LookUpInv, secretVars, lookupVars
<1>1. ASSUME Edit
      PROVE  LookUpInv'
  <2>1. UNCHANGED <<cnAt, cnLooked, cnFound, cnWhen, cnFailed>>
    BY <1>1 DEF Edit
  <2>2. \A s \in Stretch, d \in Database : cnWhen'[LookUpOf(s, d)] # cnEdits'
    BY <1>1, EditStep DEF TypeInv, LookUpOf
  <2> QED BY <2>1, <2>2
<1>2. ASSUME NEW s \in Stretch, NEW w \in PoolThread, Begin(s, w)
      PROVE  LookUpInv'
  BY <1>2 DEF Begin, TypeInv, GetSecret
<1>3. ASSUME NEW s \in Stretch, NEW d \in Database, NEW fails \in BOOLEAN,
             ResolveOverride(s, d, fails)
      PROVE  LookUpInv'
  <2> DEFINE t == TenantOf[RunOf(s)]
  <2>0. /\ cnAt[s] = "resolve" /\ t # Nobody /\ d \notin cnLooked[s]
        /\ cnLooked' = [cnLooked EXCEPT ![s] = @ \cup {d}]
        /\ cnFound' = IF fails THEN cnFound ELSE [cnFound EXCEPT ![s][d] = GetSecret(t, d)]
        /\ cnWhen' = [cnWhen EXCEPT ![LookUpOf(s, d)] = cnEdits]
        /\ cnFailed' = IF fails THEN cnFailed \cup {LookUpOf(s, d)} ELSE cnFailed
        /\ UNCHANGED <<cnSecret, cnKey, cnEdits, cnAt>>
    BY <1>3 DEF ResolveOverride
  <2>1. cnWhen'[LookUpOf(s, d)] = cnEdits /\ (~fails => cnFound'[s][d] = GetSecret(t, d))
    BY <2>0 DEF TypeInv, FoundOK, WhenOK, Overrides, LookUpOf
  <2>2. ASSUME NEW r \in Stretch, NEW e \in Database, r # s \/ e # d
        PROVE  /\ cnWhen'[LookUpOf(r, e)] = cnWhen[LookUpOf(r, e)]
               /\ cnFound'[r][e] = cnFound[r][e]
               /\ e \in cnLooked'[r] <=> e \in cnLooked[r]
               /\ LookUpOf(r, e) \in cnFailed' <=> LookUpOf(r, e) \in cnFailed
    <3>1. LookUpOf(r, e) # LookUpOf(s, d)
      BY <2>2 DEF LookUpOf
    <3>2. LookUpOf(r, e) \in Stretch \X Database
      BY DEF LookUpOf
    <3> QED BY <2>0, <2>2, <3>1, <3>2 DEF TypeInv, FoundOK, WhenOK, Overrides
  <2>3. \A n : GetSecret(t, n)' = GetSecret(t, n)
    BY <2>0 DEF GetSecret
  <2>4. \A r \in Stretch : cnAt'[r] \in {"not_yet", "new"} => cnLooked'[r] = {}
    BY <2>0 DEF TypeInv, StretchOK, FoundOK
  <2>5. \A r \in Stretch :
          cnAt'[r] \in {"inside", "ended"} /\ TenantOf[RunOf(r)] # Nobody
            => cnLooked'[r] = Database
    BY <2>0 DEF TypeInv, StretchOK, FoundOK
  <2>6. \A r \in Stretch, e \in Database : e \notin cnLooked'[r] => cnFound'[r][e] = NoValue
    BY <2>0, <2>2 DEF TypeInv, FoundOK
  <2>7. \A r \in Stretch : TenantOf[RunOf(r)] = Nobody => cnLooked'[r] = {}
    BY <2>0 DEF TypeInv, StretchOK, FoundOK
  <2>8. ASSUME NEW r \in Stretch, NEW e \in Database, e \in cnLooked'[r],
               LookUpOf(r, e) \notin cnFailed', cnWhen'[LookUpOf(r, e)] = cnEdits'
        PROVE  cnFound'[r][e] = GetSecret(TenantOf[RunOf(r)], e)'
    <3>1. GetSecret(TenantOf[RunOf(r)], e)' = GetSecret(TenantOf[RunOf(r)], e)
      BY <2>0 DEF GetSecret
    <3>2. CASE r = s /\ e = d
      BY <2>0, <2>1, <2>8, <3>1, <3>2
    <3>3. CASE r # s \/ e # d
      BY <2>0, <2>2, <2>8, <3>1, <3>3
    <3> QED BY <3>2, <3>3
  <2>9. ASSUME NEW p \in Stretch, NEW r \in Stretch, NEW e \in Database,
               RunOf(p) = RunOf(r), e \in cnLooked'[p] \cap cnLooked'[r],
               cnWhen'[LookUpOf(p, e)] = cnWhen'[LookUpOf(r, e)],
               {LookUpOf(p, e), LookUpOf(r, e)} \cap cnFailed' = {}
        PROVE  cnFound'[p][e] = cnFound'[r][e]
    <3>1. CASE e = d /\ (p = s \/ r = s)
      <4>1. cnWhen'[LookUpOf(p, e)] = cnEdits' /\ cnWhen'[LookUpOf(r, e)] = cnEdits'
        BY <2>0, <2>1, <2>9, <3>1
      <4> QED BY <2>8, <2>9, <4>1
    <3>2. CASE ~(e = d /\ (p = s \/ r = s))
      BY <2>2, <2>9, <3>2
    <3> QED BY <3>1, <3>2
  <2> QED BY <2>4, <2>5, <2>6, <2>7, <2>8, <2>9
<1>4. ASSUME NEW s \in Stretch, Enter(s)
      PROVE  LookUpInv'
  BY <1>4 DEF Enter, TypeInv, GetSecret
<1>5. ASSUME NEW s \in Stretch, NEW gated \in BOOLEAN, LeaveContext(s, gated)
      PROVE  LookUpInv'
  <2>1. UNCHANGED <<cnSecret, cnKey, cnEdits, cnLooked, cnFound, cnWhen, cnFailed>>
    BY <1>5 DEF LeaveContext
  <2>2. cnAt[s] = "inside" /\ cnAt'[s] = "ended"
    BY <1>5 DEF LeaveContext
  <2>3. \A r \in Stretch : cnAt'[r] \in {"not_yet", "new"} => cnLooked[r] = {}
    BY <1>5, <2>2, LeaveOthers DEF TypeInv
  <2>4. \A r \in Stretch : cnAt'[r] \in {"inside", "ended"} => cnAt[r] \in {"inside", "ended"}
    BY <1>5, <2>2, LeaveOthers
  <2> QED BY <2>1, <2>3, <2>4 DEF GetSecret
<1>6. ASSUME UNCHANGED <<secretVars, cnAt, cnLooked, cnFound, lookupVars>>
      PROVE  LookUpInv'
  BY <1>6 DEF GetSecret
<1> QED BY <1>1, <1>2, <1>3, <1>4, <1>5, <1>6
    DEF CNNext, SetSecret, DeleteSecret, ChangeKey, Connect, Authorize, cnVars

\* What is connected to is what was found.
LEMMA UsedStep ==
  ASSUME TypeInv, OrderInv, ContextInv, LookUpInv, UsedInv, [CNNext]_cnVars
  PROVE  UsedInv'
<1> USE DEF UsedInv, secretVars, lookupVars
<1>1. ASSUME NEW s \in Stretch, NEW w \in PoolThread, Begin(s, w)
      PROVE  UsedInv'
  BY <1>1 DEF Begin, TypeInv, OwnTarget
<1>2. ASSUME NEW s \in Stretch, NEW d \in Database, NEW fails \in BOOLEAN,
             ResolveOverride(s, d, fails)
      PROVE  UsedInv'
  <2>1. cnAt[s] = "resolve" /\ UNCHANGED <<cnAt, cnUsed>>
    BY <1>2 DEF ResolveOverride
  <2>2. \A r \in Stretch \ {s} : cnFound'[r] = cnFound[r]
    BY <1>2 DEF ResolveOverride, TypeInv
  <2> QED BY <2>1, <2>2 DEF OwnTarget
<1>3. ASSUME NEW s \in Stretch, Enter(s)
      PROVE  UsedInv'
  BY <1>3 DEF Enter, TypeInv, OwnTarget
<1>4. ASSUME NEW s \in Stretch, NEW d \in Database, Connect(s, d)
      PROVE  UsedInv'
  <2>1. cnContext[cnThread[s]] = [overrides |-> cnFound[s], tenant |-> TenantOf[RunOf(s)]]
    BY <1>4 DEF Connect, ContextInv
  <2>2. cnUsed' = [cnUsed EXCEPT ![s] = @ \cup {[what |-> d, with |-> OwnTarget(s, d)]}]
    BY <1>4, <2>1 DEF Connect, Use, OwnTarget
  <2>3. OwnTarget(s, d).owner \in {TenantOf[RunOf(s)], Nobody}
    BY DEF OwnTarget, Own, FromEnvironment
  <2>4. UNCHANGED <<cnAt, cnFound>> /\ cnAt[s] = "inside"
    BY <1>4 DEF Connect
  <2> QED BY <2>2, <2>3, <2>4 DEF TypeInv, OwnTarget
<1>5. ASSUME NEW s \in Stretch, NEW fails \in BOOLEAN, Authorize(s, fails)
      PROVE  UsedInv'
  <2>1. cnContext[cnThread[s]].tenant = TenantOf[RunOf(s)]
    <3>1. cnAt[s] = "inside"
      BY <1>5 DEF Authorize
    <3>2. cnContext[cnThread[s]] = [overrides |-> cnFound[s], tenant |-> TenantOf[RunOf(s)]]
      BY <3>1 DEF ContextInv
    <3> QED BY <3>2
  <2>2. PICK with : /\ cnUsed' = [cnUsed EXCEPT ![s] = @ \cup {[what |-> Api, with |-> with]}]
                    /\ with.owner \in {TenantOf[RunOf(s)], Nobody}
    <3>1. Own(TenantOf[RunOf(s)], GetSecret(TenantOf[RunOf(s)], Api)).owner = TenantOf[RunOf(s)]
      BY DEF Own
    <3>2. FromEnvironment.owner = Nobody
      BY DEF FromEnvironment
    <3> QED BY <1>5, <2>1, <3>1, <3>2 DEF Authorize, Use
  <2>3. UNCHANGED <<cnAt, cnFound>> /\ cnAt[s] = "inside" /\ Api \notin Database
    BY <1>5, ConnectionsAssumption DEF Authorize
  <2> QED BY <2>2, <2>3 DEF TypeInv, OwnTarget
<1>6. ASSUME NEW s \in Stretch, NEW gated \in BOOLEAN, LeaveContext(s, gated)
      PROVE  UsedInv'
  <2>1. cnAt'[s] = "ended" /\ UNCHANGED <<cnFound, cnUsed>>
    BY <1>6 DEF LeaveContext
  <2>2. \A r \in Stretch : cnAt[r] \in {"inside", "ended"} => cnAt'[r] \in {"inside", "ended"}
    BY <1>6, <2>1, LeaveOthers
  <2> QED BY <2>1, <2>2 DEF OwnTarget
<1>7. ASSUME UNCHANGED <<cnAt, cnFound, cnUsed>>
      PROVE  UsedInv'
  BY <1>7 DEF OwnTarget
<1> QED BY <1>1, <1>2, <1>3, <1>4, <1>5, <1>6, <1>7
    DEF CNNext, SetSecret, DeleteSecret, ChangeKey, Edit, cnVars

-----------------------------------------------------------------------------
\* Initially nothing has been looked up.
LEMMA ConnectionsInit ==
  ASSUME CNInit
  PROVE  ConnectionsInv
<1>1. TypeInv
  <2>1. 0 \in 0..MaxEdits /\ 0 \in 0..0 /\ 0 \in SecretValue
    BY ConnectionsAssumption DEF SecretValue
  <2>2. Empty \in [overrides : Overrides, tenant : CTenant \cup {Nobody}]
    BY EmptyType DEF Empty
  <2>3. StretchOK
    BY DEF CNInit, StretchOK
  <2>4. EditsOK /\ SecretOK
    BY <2>1 DEF CNInit, EditsOK, SecretOK
  <2>5. ContextOK /\ FoundOK
    BY <2>2 DEF CNInit, ContextOK, FoundOK
  <2>6. WhenOK
    BY DEF CNInit, WhenOK
  <2> QED BY <2>3, <2>4, <2>5, <2>6 DEF TypeInv
<1>2. OrderInv /\ ContextInv
  BY DEF CNInit, OrderInv, ContextInv, Stretch, RunOf
<1>3. LookUpInv
  BY DEF CNInit, LookUpInv, Empty
<1>4. UsedInv
  BY DEF CNInit, UsedInv
<1> QED BY <1>1, <1>2, <1>3, <1>4 DEF ConnectionsInv

\* The invariant of the connections.
LEMMA ConnectionsInvariant == CNSpec => []ConnectionsInv
<1>1. CNInit => ConnectionsInv
  BY ConnectionsInit
<1>2. ConnectionsInv /\ [CNNext]_cnVars => ConnectionsInv'
  BY ConnectionsTypeStep, OrderStep, ContextStep, LookUpStep, UsedStep DEF ConnectionsInv
<1> QED BY <1>1, <1>2, PTL DEF CNSpec

\* The contexts of the threads, the secrets and the look-ups stay within their types.
THEOREM ConnectionsTypeCorrect == CNSpec => []CNTypeOK
<1>1. TypeInv => CNTypeOK
  BY ConnectionsAssumption DEF TypeInv, StretchOK, EditsOK, CNTypeOK
<1> QED BY <1>1, ConnectionsInvariant, PTL DEF ConnectionsInv

\* A run connects with its own tenant's secrets or the environment's, and to one
\* database of a kind (tenant_connections and resolve_tenant_overrides).
THEOREM ConnectsCorrect == CNSpec => []ConnectsToItsOwn
<1>1. ConnectionsInv => ConnectsToItsOwn
  <2> SUFFICES ASSUME ConnectionsInv, NEW r \in Stretch, NEW s \in Stretch,
                      NEW u \in cnUsed[r], NEW v \in cnUsed[s]
               PROVE  /\ u.with.owner \in {TenantOf[RunOf(r)], Nobody}
                      /\ /\ RunOf(r) = RunOf(s) /\ u.what = v.what /\ u.what \in Database
                         /\ r = s \/ /\ cnWhen[LookUpOf(r, u.what)] = cnWhen[LookUpOf(s, u.what)]
                                     /\ {LookUpOf(r, u.what), LookUpOf(s, u.what)}
                                          \cap cnFailed = {}
                         => u.with = v.with
    BY DEF ConnectsToItsOwn
  <2>1. u.with.owner \in {TenantOf[RunOf(r)], Nobody}
    BY DEF ConnectionsInv, UsedInv
  <2>2. ASSUME RunOf(r) = RunOf(s), u.what = v.what, u.what \in Database,
               r = s \/ /\ cnWhen[LookUpOf(r, u.what)] = cnWhen[LookUpOf(s, u.what)]
                        /\ {LookUpOf(r, u.what), LookUpOf(s, u.what)} \cap cnFailed = {}
        PROVE  u.with = v.with
    <3>1. /\ u.with = OwnTarget(r, u.what) /\ v.with = OwnTarget(s, u.what)
          /\ cnAt[r] \in {"inside", "ended"} /\ cnAt[s] \in {"inside", "ended"}
      BY <2>2 DEF ConnectionsInv, UsedInv
    <3>2. CASE r = s
      BY <3>1, <3>2
    <3>3. CASE r # s /\ TenantOf[RunOf(r)] = Nobody
      BY <2>2, <3>1, <3>3 DEF ConnectionsInv, LookUpInv, OwnTarget
    <3>4. CASE r # s /\ TenantOf[RunOf(r)] # Nobody
      <4>1. u.what \in cnLooked[r] \cap cnLooked[s]
        BY <2>2, <3>1, <3>4 DEF ConnectionsInv, LookUpInv
      <4>2. cnFound[r][u.what] = cnFound[s][u.what]
        BY <2>2, <3>4, <4>1 DEF ConnectionsInv, LookUpInv
      <4> QED BY <2>2, <3>1, <4>2 DEF OwnTarget
    <3> QED BY <3>2, <3>3, <3>4
  <2> QED BY <2>1, <2>2
<1> QED BY <1>1, ConnectionsInvariant, PTL

-----------------------------------------------------------------------------
(* The files                                                               *)

LoadStage == {"new", "read", "raise", "sample", "rest", "restore", "parse", "ended"}

LoadsOK ==
  /\ csAt \in [Loader -> LoadStage] /\ csEnd \in [Loader -> Tables \cup Errors \cup {"none"}]
  /\ csShared \subseteq Loader /\ DOMAIN csFile = Loader

LimitsOK == csLimit \in Nat /\ csSaved \in [Loader -> Nat]

\* A file that is read row by row is one with delimiters.
FileInv ==
  \A l \in Loader :
    /\ csAt[l] # "new" => csFile[l] \in File
    /\ csAt[l] \notin {"new", "ended"} => csFile[l] \in DelimitedFile

\* Two loads that check their rows at the same time both know it in the end, and
\* who is alone has the limit it has set.
SharedInv ==
  /\ \A l, m \in Checking : l = m \/ (l \in csShared /\ m \in csShared)
  /\ \A l \in Loader \ csShared :
       csAt[l] \in {"sample", "rest"} => csLimit = csSaved[l] + 1

\* What has been walked is even, unless the walk has ended with a refusal.
WalkedInv ==
  \A l \in Loader :
    /\ csAt[l] \in {"new", "read", "raise", "sample", "rest", "parse"} => csEnd[l] = "none"
    /\ csAt[l] = "restore" => csEnd[l] \in {"none", "malformed", "too large"}
    /\ csAt[l] \in {"rest", "restore", "parse"} /\ csEnd[l] = "none"
         => ~Uneven(csFile[l], "sample")
    /\ csAt[l] \in {"restore", "parse"} /\ csEnd[l] = "none"
         => csFile[l].large \/ ~Uneven(csFile[l], "rest")

CSInv == LoadsOK /\ LimitsOK /\ FileInv /\ SharedInv /\ WalkedInv /\ LoadsWhatIsThere

\* The first row of text among those scanned is the header that comes first.
LEMMA FirstHeader ==
  ASSUME NEW f \in Workbook, HeaderFirst(f), DetectHeaderRow(f.rows) # 0
  PROVE  DetectHeaderRow(f.rows) = f.header
<1> DEFINE S == {i \in 1..Len(f.rows) : i <= MaxHeaderScan /\ f.rows[i] = "text"}
<1>1. f.header \in Nat /\ Len(f.rows) \in Nat /\ MaxHeaderScan \in Nat
  BY CsvSourceAssumption DEF Workbook
<1>2. PICK i \in S : TRUE
  BY DEF DetectHeaderRow
<1>3. \A j \in S : f.header <= j
  BY <1>1 DEF HeaderFirst
<1>4. f.header \in S
  BY <1>1, <1>2, <1>3 DEF HeaderFirst
<1>5. Min(S) = f.header
  BY <1>1, <1>3, <1>4 DEF Min
<1>6. QED
  BY <1>4, <1>5 DEF DetectHeaderRow
\* A field over the limit of who walks alone is over ten times the default.
LEMMA OverLimit ==
  ASSUME LoadsOK, LimitsOK, FileInv, SharedInv, NEW l \in Loader,
         csAt[l] \in {"sample", "rest"}, csFile[l].field > csLimit
  PROVE  csFile[l].field > 1 \/ l \in csShared
<1>1. csFile[l] \in DelimitedFile
  BY DEF FileInv
<1>2. csFile[l].field \in Nat
  <2>1. csFile[l].field \in FieldClass
    BY <1>1, Zenon DEF DelimitedFile
  <2>2. QED
    BY <2>1 DEF FieldClass
<1>3. l \notin csShared => csLimit = csSaved[l] + 1
  BY DEF SharedInv
<1>4. csLimit \in Nat /\ csSaved[l] \in Nat
  BY DEF LimitsOK
<1>5. QED
  BY <1>2, <1>3, <1>4

\* A load is somewhere, and ends with a table or a reason.
LEMMA LoadsStep ==
  ASSUME LoadsOK, [CSNext]_csVars
  PROVE  LoadsOK'
<1> USE DEF LoadsOK, LoadStage, Tables, Errors
<1>1. ASSUME NEW l \in Loader, NEW f \in File, LoadFile(l, f) PROVE LoadsOK'
  BY <1>1 DEF LoadFile, End, LoadExcel, LoadJson
<1>2. ASSUME NEW l \in Loader, ReadLimit(l) PROVE LoadsOK'
  BY <1>2 DEF ReadLimit, Checking
<1>3. ASSUME NEW l \in Loader, RaiseLimit(l) PROVE LoadsOK'
  BY <1>3 DEF RaiseLimit
<1>4. ASSUME NEW l \in Loader, WalkSample(l) PROVE LoadsOK'
  BY <1>4 DEF WalkSample, Walk
<1>5. ASSUME NEW l \in Loader, WalkRest(l) PROVE LoadsOK'
  BY <1>5 DEF WalkRest, Walk
<1>6. ASSUME NEW l \in Loader, RestoreLimit(l) PROVE LoadsOK'
  BY <1>6 DEF RestoreLimit
<1>7. ASSUME NEW l \in Loader, Parse(l) PROVE LoadsOK'
  BY <1>7 DEF Parse, End
<1>8. CASE UNCHANGED csVars
  BY <1>8 DEF csVars
<1>9. QED
  BY <1>1, <1>2, <1>3, <1>4, <1>5, <1>6, <1>7, <1>8 DEF CSNext

\* The limit is a number.
LEMMA LimitsStep ==
  ASSUME LimitsOK, [CSNext]_csVars
  PROVE  LimitsOK'
<1> USE DEF LimitsOK
<1>1. ASSUME NEW l \in Loader, NEW f \in File, LoadFile(l, f) PROVE LimitsOK'
  BY <1>1 DEF LoadFile, End
<1>2. ASSUME NEW l \in Loader, ReadLimit(l) PROVE LimitsOK'
  BY <1>2 DEF ReadLimit, Checking
<1>3. ASSUME NEW l \in Loader, RaiseLimit(l) PROVE LimitsOK'
  BY <1>3 DEF RaiseLimit
<1>4. ASSUME NEW l \in Loader, WalkSample(l) PROVE LimitsOK'
  BY <1>4 DEF WalkSample, Walk
<1>5. ASSUME NEW l \in Loader, WalkRest(l) PROVE LimitsOK'
  BY <1>5 DEF WalkRest, Walk
<1>6. ASSUME NEW l \in Loader, RestoreLimit(l) PROVE LimitsOK'
  BY <1>6 DEF RestoreLimit
<1>7. ASSUME NEW l \in Loader, Parse(l) PROVE LimitsOK'
  BY <1>7 DEF Parse, End
<1>8. CASE UNCHANGED csVars
  BY <1>8 DEF csVars
<1>9. QED
  BY <1>1, <1>2, <1>3, <1>4, <1>5, <1>6, <1>7, <1>8 DEF CSNext

\* The file of a load is one of those there are.
LEMMA FileStep ==
  ASSUME FileInv, LoadsOK, [CSNext]_csVars
  PROVE  FileInv'
<1> USE DEF FileInv, LoadsOK, LoadStage
<1>1. ASSUME NEW l \in Loader, NEW f \in File, LoadFile(l, f) PROVE FileInv'
  <2>1. f \in DelimitedFile \/ f.type # "csv"
    BY CsvSourceAssumption DEF DelimitedFile, Workbook, Json
  <2>2. f.type \in {"csv", "xlsx", "json"}
    BY CsvSourceAssumption DEF DelimitedFile, Workbook, Json
  <2>3. QED
    BY <1>1, <2>1, <2>2 DEF LoadFile, End
<1>2. ASSUME NEW l \in Loader, ReadLimit(l) PROVE FileInv'
  BY <1>2 DEF ReadLimit, Checking
<1>3. ASSUME NEW l \in Loader, RaiseLimit(l) PROVE FileInv'
  BY <1>3 DEF RaiseLimit
<1>4. ASSUME NEW l \in Loader, WalkSample(l) PROVE FileInv'
  BY <1>4 DEF WalkSample, Walk
<1>5. ASSUME NEW l \in Loader, WalkRest(l) PROVE FileInv'
  BY <1>5 DEF WalkRest, Walk
<1>6. ASSUME NEW l \in Loader, RestoreLimit(l) PROVE FileInv'
  BY <1>6 DEF RestoreLimit
<1>7. ASSUME NEW l \in Loader, Parse(l) PROVE FileInv'
  BY <1>7 DEF Parse, End
<1>8. CASE UNCHANGED csVars
  BY <1>8 DEF csVars
<1>9. QED
  BY <1>1, <1>2, <1>3, <1>4, <1>5, <1>6, <1>7, <1>8 DEF CSNext

\* Whoever checks together knows it.
LEMMA SharedStep ==
  ASSUME SharedInv, LoadsOK, LimitsOK, [CSNext]_csVars
  PROVE  SharedInv'
<1> USE DEF SharedInv, LoadsOK, LimitsOK, LoadStage, Checking
<1>1. ASSUME NEW l \in Loader, NEW f \in File, LoadFile(l, f) PROVE SharedInv'
  BY <1>1 DEF LoadFile, End
<1>2. ASSUME NEW l \in Loader, ReadLimit(l) PROVE SharedInv'
  BY <1>2 DEF ReadLimit, Checking
<1>3. ASSUME NEW l \in Loader, RaiseLimit(l) PROVE SharedInv'
  BY <1>3 DEF RaiseLimit
<1>4. ASSUME NEW l \in Loader, WalkSample(l) PROVE SharedInv'
  <2>1. csAt[l] = "sample" /\ csAt'[l] \in {"rest", "restore"}
    BY <1>4 DEF WalkSample, Walk
  <2>2. /\ UNCHANGED <<csLimit, csSaved, csShared>> /\ DOMAIN csAt' = Loader
        /\ \A m \in Loader \ {l} : csAt'[m] = csAt[m]
    BY <1>4 DEF WalkSample, Walk
  <2>3. QED
    BY <2>1, <2>2
<1>5. ASSUME NEW l \in Loader, WalkRest(l) PROVE SharedInv'
  <2>1. csAt[l] = "rest" /\ csAt'[l] = "restore"
    BY <1>5 DEF WalkRest, Walk
  <2>2. /\ UNCHANGED <<csLimit, csSaved, csShared>> /\ DOMAIN csAt' = Loader
        /\ \A m \in Loader \ {l} : csAt'[m] = csAt[m]
    BY <1>5 DEF WalkRest, Walk
  <2>3. QED
    BY <2>1, <2>2
<1>6. ASSUME NEW l \in Loader, RestoreLimit(l) PROVE SharedInv'
  BY <1>6 DEF RestoreLimit
<1>7. ASSUME NEW l \in Loader, Parse(l) PROVE SharedInv'
  <2>1. csAt[l] = "parse" /\ csAt' = [csAt EXCEPT ![l] = "ended"]
    BY <1>7 DEF Parse, End
  <2>2. UNCHANGED <<csLimit, csSaved, csShared>>
    BY <1>7 DEF Parse
  <2>3. QED
    BY <2>1, <2>2
<1>8. CASE UNCHANGED csVars
  BY <1>8 DEF csVars
<1>9. QED
  BY <1>1, <1>2, <1>3, <1>4, <1>5, <1>6, <1>7, <1>8 DEF CSNext

\* What is walked past is even.
LEMMA WalkedStep ==
  ASSUME WalkedInv, LoadsOK, [CSNext]_csVars
  PROVE  WalkedInv'
<1> USE DEF WalkedInv, LoadsOK, LoadStage
<1>1. ASSUME NEW l \in Loader, NEW f \in File, LoadFile(l, f) PROVE WalkedInv'
  <2>1. csAt'[l] \in {"read", "ended"} /\ (csAt'[l] = "read" => csEnd'[l] = csEnd[l])
    BY <1>1 DEF LoadFile, End
  <2>2. /\ csAt[l] = "new"
        /\ \A m \in Loader \ {l} :
             csAt'[m] = csAt[m] /\ csEnd'[m] = csEnd[m] /\ csFile'[m] = csFile[m]
    BY <1>1 DEF LoadFile, End
  <2>3. QED
    BY <2>1, <2>2
<1>2. ASSUME NEW l \in Loader, ReadLimit(l) PROVE WalkedInv'
  BY <1>2 DEF ReadLimit, Checking
<1>3. ASSUME NEW l \in Loader, RaiseLimit(l) PROVE WalkedInv'
  BY <1>3 DEF RaiseLimit
<1>4. ASSUME NEW l \in Loader, WalkSample(l) PROVE WalkedInv'
  BY <1>4, ZenonT(60) DEF WalkSample, Walk
<1>5. ASSUME NEW l \in Loader, WalkRest(l) PROVE WalkedInv'
  BY <1>5, ZenonT(60) DEF WalkRest, Walk
<1>6. ASSUME NEW l \in Loader, RestoreLimit(l) PROVE WalkedInv'
  BY <1>6 DEF RestoreLimit
<1>7. ASSUME NEW l \in Loader, Parse(l) PROVE WalkedInv'
  BY <1>7 DEF Parse, End
<1>8. CASE UNCHANGED csVars
  BY <1>8 DEF csVars
<1>9. QED
  BY <1>1, <1>2, <1>3, <1>4, <1>5, <1>6, <1>7, <1>8 DEF CSNext

\* What a load ends with is what its file is like.
LEMMA LoadsWhatIsThereStep ==
  ASSUME LoadsWhatIsThere, LoadsOK, LimitsOK, FileInv, SharedInv, WalkedInv, [CSNext]_csVars
  PROVE  LoadsWhatIsThere'
<1> USE DEF LoadsWhatIsThere, LoadsOK, LoadStage
<1>1. ASSUME NEW l \in Loader, NEW f \in File, LoadFile(l, f) PROVE LoadsWhatIsThere'
  <2>1. csEnd'[l] # "shifted" /\ csEnd'[l] # "too large"
    BY <1>1 DEF LoadFile, End, LoadExcel, LoadJson, WalkedInv
  <2>2. ASSUME csEnd'[l] = "wrong header" PROVE ~HeaderFirst(f)
    <3>1. f.type = "xlsx" /\ LoadExcel(f) = "wrong header"
      BY <1>1, <2>2 DEF LoadFile, End, LoadJson, WalkedInv
    <3>2. f \in Workbook
      BY <3>1, CsvSourceAssumption DEF DelimitedFile, Json
    <3>3. DetectHeaderRow(f.rows) # 0 /\ DetectHeaderRow(f.rows) # f.header
      BY <3>1 DEF LoadExcel
    <3>4. QED
      BY <3>2, <3>3, FirstHeader
  <2>3. csFile'[l] = f /\ UNCHANGED csShared
    BY <1>1 DEF LoadFile
  <2>4. \A m \in Loader \ {l} : csFile'[m] = csFile[m] /\ csEnd'[m] = csEnd[m]
    BY <1>1 DEF LoadFile, End
  <2>5. QED
    BY <2>1, <2>2, <2>3, <2>4
<1>2. ASSUME NEW l \in Loader, ReadLimit(l) PROVE LoadsWhatIsThere'
  BY <1>2 DEF ReadLimit, Checking
<1>3. ASSUME NEW l \in Loader, RaiseLimit(l) PROVE LoadsWhatIsThere'
  BY <1>3 DEF RaiseLimit
<1>4. ASSUME NEW l \in Loader, WalkSample(l) PROVE LoadsWhatIsThere'
  <2>1. csAt[l] \in {"sample", "rest"} /\ csEnd'[l] \in {"none", "malformed", "too large"}
    BY <1>4 DEF WalkSample, Walk, WalkedInv
  <2>2. csEnd'[l] = "too large" => csFile[l].field > csLimit
    BY <1>4 DEF WalkSample, Walk, WalkedInv
  <2>3. csEnd'[l] = "too large" => csFile[l].field > 1 \/ l \in csShared
    BY <2>1, <2>2, OverLimit
  <2>4. /\ UNCHANGED <<csFile, csShared>>
        /\ \A m \in Loader \ {l} : csEnd'[m] = csEnd[m]
    BY <1>4 DEF WalkSample, Walk
  <2>5. QED
    BY <2>1, <2>3, <2>4
<1>5. ASSUME NEW l \in Loader, WalkRest(l) PROVE LoadsWhatIsThere'
  <2>1. csAt[l] \in {"sample", "rest"} /\ csEnd'[l] \in {"none", "malformed", "too large"}
    BY <1>5 DEF WalkRest, Walk, WalkedInv
  <2>2. csEnd'[l] = "too large" => csFile[l].field > csLimit
    BY <1>5 DEF WalkRest, Walk, WalkedInv
  <2>3. csEnd'[l] = "too large" => csFile[l].field > 1 \/ l \in csShared
    BY <2>1, <2>2, OverLimit
  <2>4. /\ UNCHANGED <<csFile, csShared>>
        /\ \A m \in Loader \ {l} : csEnd'[m] = csEnd[m]
    BY <1>5 DEF WalkRest, Walk
  <2>5. QED
    BY <2>1, <2>3, <2>4
<1>6. ASSUME NEW l \in Loader, RestoreLimit(l) PROVE LoadsWhatIsThere'
  BY <1>6 DEF RestoreLimit
<1>7. ASSUME NEW l \in Loader, Parse(l) PROVE LoadsWhatIsThere'
  <2>1. csFile[l] \in DelimitedFile /\ csFile[l].flawAt \in {"sample", "rest"}
    BY <1>7 DEF Parse, FileInv, DelimitedFile
  <2>2. /\ ~Uneven(csFile[l], "sample")
        /\ csFile[l].large \/ ~Uneven(csFile[l], "rest")
    BY <1>7 DEF Parse, WalkedInv
  <2>3. csEnd'[l] = "shifted" => csFile[l].flaw # "none"
    BY <1>7 DEF Parse, End
  <2>4. csEnd'[l] = "shifted" => csFile[l].large /\ csFile[l].flawAt = "rest"
    BY <2>1, <2>2, <2>3 DEF Uneven
  <2>5. csEnd'[l] \notin {"wrong header", "too large"}
    BY <1>7 DEF Parse, End
  <2>6. \A m \in Loader \ {l} : csEnd'[m] = csEnd[m]
    BY <1>7 DEF Parse, End
  <2>7. UNCHANGED <<csFile, csShared>>
    BY <1>7 DEF Parse
  <2>8. QED
    BY <2>4, <2>5, <2>6, <2>7
<1>8. CASE UNCHANGED csVars
  BY <1>8 DEF csVars
<1>9. QED
  BY <1>1, <1>2, <1>3, <1>4, <1>5, <1>6, <1>7, <1>8 DEF CSNext

\* Initially nothing has been loaded.
LEMMA FilesInit == ASSUME CSInit PROVE CSInv
BY DEF CSInit, CSInv, LoadsOK, LoadStage, LimitsOK, FileInv, SharedInv, Checking, WalkedInv,
       LoadsWhatIsThere

\* The invariant of the file connector.
LEMMA FilesInvariant == CSSpec => []CSInv
<1>1. CSInv /\ [CSNext]_csVars => CSInv'
  BY LoadsStep, LimitsStep, FileStep, SharedStep, WalkedStep, LoadsWhatIsThereStep DEF CSInv
<1>2. QED
  BY FilesInit, <1>1, PTL DEF CSSpec

\* Every variable of the file connector has its type: a load ends with one of the
\* tables or one of the reasons, whatever other loads do to the limit meanwhile.
THEOREM FilesTypeCorrect == CSSpec => []CSTypeOK
<1>1. CSInv => CSTypeOK
  BY DEF CSInv, LoadsOK, LoadStage, LimitsOK, FileInv, CSTypeOK
<1>2. QED
  BY FilesInvariant, <1>1, PTL

\* What a load hands on or refuses is what the file is like, for any number of
\* loads in one process, any files and any number of rows scanned for a header: a
\* load that is alone is never refused by the limit of another.
THEOREM LoadsCorrect == CSSpec => []LoadsWhatIsThere
<1>1. CSInv => LoadsWhatIsThere
  BY DEF CSInv
<1>2. QED
  BY FilesInvariant, <1>1, PTL

-----------------------------------------------------------------------------
(* Who may do what                                                         *)

RequestStage == {"new", "handle", "enqueue", "answered", "dead"} \cup Logged
Status == {0, 200, 204, 401, 402, 403, 404, 422, 429, 500}
Refused == {401, 403, 422}
Entry == [request : ARequest, action : Logged, actor : User, tenant : Target \cup {Unnamed},
          created : LogTime]

RequestsOK ==
  /\ acAt \in [ARequest -> RequestStage] /\ acAnswer \in [ARequest -> Status]
  /\ DOMAIN acOp = ARequest /\ DOMAIN acAuth = ARequest /\ DOMAIN acSeen = ARequest
  /\ DOMAIN acAsk = ARequest
  /\ acTasks \subseteq ARequest /\ acPipeline \in BOOLEAN

AskOK == \A q \in ARequest : acAsk[q].tenant \in Target \cup {Unnamed}

LogOK == acLog \in Seq(Entry)

\* Where a request is tells which route it calls.
RouteInv ==
  \A q \in ARequest :
    /\ acAt[q] \in Reading \cup {"view_admin_audit_log"} => acOp[q] = acAt[q]
    /\ acAt[q] \in {"enqueue", "retry_pipeline", "retry_pipeline_not_found",
                    "retry_pipeline_rejected"} => acOp[q] = "retry"

\* Only an administrator of the platform gets past the check of an admin route.
AdminInv ==
  \A q \in ARequest :
    acAt[q] \notin {"new", "answered", "dead"} /\ acOp[q] # "delete_pipeline"
      => acAuth[q].user \in PlatformAdmins

\* A run is enqueued before the retry says so, and by nothing else.
TaskInv ==
  \A q \in ARequest :
    /\ q \in acTasks => /\ acAt[q] \in {"retry_pipeline", "answered", "dead"}
                        /\ acOp[q] = "retry" /\ acAnswer[q] \in {0, 200, 500}
    /\ acAt[q] = "retry_pipeline" => q \in acTasks
    /\ acAt[q] = "answered" <=> acAnswer[q] # 0

\* Who has read the log has read its first entries, however many there are by now.
SeenInv ==
  \A q \in ARequest :
    acAt[q] = "view_admin_audit_log"
      => \E n \in 0..Len(acLog) : IsPage(acSeen[q], acLog, n, acAsk[q])

\* Only who has come to an end is in the log, with one entry: with none if refused, and
\* with one for sure if answered by the handler.
OneEntryInv ==
  \A q \in ARequest :
    /\ Entries(q) = {} \/ \E i \in 1..Len(acLog) : Entries(q) = {i}
    /\ acAt[q] \notin {"answered", "dead"} => Entries(q) = {}
    /\ acAnswer[q] \in Refused => Entries(q) = {}
    /\ acAnswer[q] \in {200, 402, 404, 429} /\ acOp[q] # "delete_pipeline" => Entries(q) # {}

\* Each entry is of an administrator, and tells what was done or read.
EntryOK(i) ==
  /\ acLog[i].actor \in PlatformAdmins
  /\ acLog[i].action = "retry_pipeline" <=> acLog[i].request \in acTasks
  /\ acLog[i].action = "view_admin_audit_log" =>
       \E n \in 0..(i - 1) :
         IsPage(acSeen[acLog[i].request], acLog, n, acAsk[acLog[i].request])

EntriesInv == \A i \in 1..Len(acLog) : EntryOK(i)

ACInv ==
  /\ RequestsOK /\ AskOK /\ LogOK /\ RouteInv /\ AdminInv /\ TaskInv /\ SeenInv
  /\ OneEntryInv /\ EntriesInv

\* A later entry leaves what the pages of the first n are.
LEMMA PageAppend ==
  ASSUME NEW T, NEW s \in Seq(T), NEW e \in T, NEW n \in 0..Len(s), NEW page, NEW ask
  PROVE  IsPage(page, Append(s, e), n, ask) <=> IsPage(page, s, n, ask)
<1>1. Len(s) \in Nat /\ \A i \in 1..n : i \in 1..Len(s)
  BY LenProperties
<1>2. \A i \in 1..n : Append(s, e)[i] = s[i]
  BY <1>1, AppendProperties
<1>3. Matching(Append(s, e), n, ask) = Matching(s, n, ask)
  BY <1>2 DEF Matching
<1>4. \A i \in Matching(s, n, ask) : i \in 1..n
  BY DEF Matching
<1>5. QED
  BY <1>2, <1>3, <1>4 DEF IsPage

\* Who is about to log is an administrator of the platform.
LEMMA LoggedRoute ==
  ASSUME RequestsOK, RouteInv, AdminInv, NEW q \in ARequest, acAt[q] \in Logged
  PROVE  acAuth[q].user \in PlatformAdmins
<1>1. acOp[q] # "delete_pipeline"
  BY DEF RouteInv, Logged, Reading
<1>2. QED
  BY <1>1 DEF AdminInv, Logged, Reading

\* What is inserted is an entry.
LEMMA LoggedEntry ==
  ASSUME RequestsOK, AskOK, RouteInv, AdminInv, NEW q \in ARequest, acAt[q] \in Logged,
         Insert(q)
  PROVE  \E e \in Entry :
           /\ acLog' = Append(acLog, e)
           /\ e.request = q /\ e.action = acAt[q] /\ e.actor \in PlatformAdmins
<1>1. acAuth[q].user \in User /\ acAuth[q].user \in PlatformAdmins
  BY LoggedRoute, AccessAssumption
<1>2. acAsk[q].tenant \in Target \cup {Unnamed}
  BY DEF AskOK
<1>3. PICK time \in LogTime :
        acLog' = Append(acLog, [request |-> q, action |-> acAt[q], actor |-> acAuth[q].user,
                                tenant |-> acAsk[q].tenant, created |-> time])
  BY DEF Insert
<1> DEFINE e == [request |-> q, action |-> acAt[q], actor |-> acAuth[q].user,
                 tenant |-> acAsk[q].tenant, created |-> time]
<1>4. e \in Entry
  BY <1>1, <1>2 DEF Entry
<1>5. e.request = q /\ e.action = acAt[q] /\ e.actor = acAuth[q].user
  OBVIOUS
<1>6. QED
  BY <1>1, <1>3, <1>4, <1>5

\* Who has not come to an end is in no entry.
LEMMA NotYetLogged ==
  ASSUME LogOK, OneEntryInv, NEW q \in ARequest, acAt[q] \notin {"answered", "dead"}
  PROVE  \A i \in 1..Len(acLog) : acLog[i].request \in ARequest \ {q}
<1>1. \A i \in 1..Len(acLog) : acLog[i] \in Entry
  BY ElementOfSeq DEF LogOK
<1>2. QED
  BY <1>1 DEF OneEntryInv, Entries, Entry

\* A request is somewhere, and answered with a status.
LEMMA RequestsStep ==
  ASSUME RequestsOK, [ACNext]_acVars
  PROVE  RequestsOK'
<1> USE DEF RequestsOK, RequestStage, Logged, Reading, Status
<1>1. ASSUME NEW q \in ARequest, NEW op \in Route, NEW token \in Token,
             NEW stated \in BOOLEAN, Authenticate(q, op, token, stated)
      PROVE  RequestsOK'
  BY <1>1 DEF Authenticate, Refuse, Answer, StepTo
<1>2. ASSUME NEW q \in ARequest, DeleteOwnPipeline(q) PROVE RequestsOK'
  <2>1. PICK status \in {204, 404} : Answer(q, status)
    BY <1>2 DEF DeleteOwnPipeline
  <2>2. acPipeline' \in BOOLEAN
    BY <1>2, ZenonT(60) DEF DeleteOwnPipeline
  <2>3. UNCHANGED <<acOp, acAsk, acAuth, acTasks, acSeen>>
    BY <1>2 DEF DeleteOwnPipeline
  <2>4. QED
    BY <2>1, <2>2, <2>3 DEF Answer
<1>3. ASSUME NEW q \in ARequest, ReadTenants(q) PROVE RequestsOK'
  BY <1>3 DEF ReadTenants, StepTo
<1>4. ASSUME NEW q \in ARequest, ListActions(q) PROVE RequestsOK'
  BY <1>4 DEF ListActions, StepTo
<1>5. ASSUME NEW q \in ARequest, RetryReads(q) PROVE RequestsOK'
  BY <1>5 DEF RetryReads, StepTo
<1>6. ASSUME NEW q \in ARequest, RetryEnqueues(q) PROVE RequestsOK'
  BY <1>6 DEF RetryEnqueues, StepTo
<1>7. ASSUME NEW q \in ARequest, RetryRejected(q) PROVE RequestsOK'
  BY <1>7 DEF RetryRejected, StepTo
<1>8. ASSUME NEW q \in ARequest, HandlerRaises(q) PROVE RequestsOK'
  BY <1>8 DEF HandlerRaises, Answer
<1>9. ASSUME NEW q \in ARequest, ProcessDies(q) PROVE RequestsOK'
  BY <1>9 DEF ProcessDies, StepTo
<1>10. ASSUME NEW q \in ARequest, LogAction(q) PROVE RequestsOK'
  <2>1. PICK status \in {200, 402, 404, 429} : Answer(q, status)
    BY <1>10 DEF LogAction, LoggedStatuses
  <2>2. QED
    BY <1>10, <2>1 DEF LogAction, Answer
<1>11. ASSUME NEW q \in ARequest, RetryRaises(q) PROVE RequestsOK'
  BY <1>11 DEF RetryRaises, Answer
<1>12. ASSUME NEW q \in ARequest, LogUnanswered(q) PROVE RequestsOK'
  BY <1>12 DEF LogUnanswered, Answer, StepTo
<1>13. CASE UNCHANGED acVars
  BY <1>13 DEF acVars
<1>14. QED
  BY <1>1, <1>2, <1>3, <1>4, <1>5, <1>6, <1>7, <1>8, <1>9, <1>10, <1>11, <1>12,
     <1>13 DEF ACNext

\* What a request asks for is fixed when it is let in.
LEMMA AskStep ==
  ASSUME RequestsOK, AskOK, [ACNext]_acVars
  PROVE  AskOK'
<1>1. ASSUME NEW q \in ARequest, NEW op \in Route, NEW token \in Token,
             NEW stated \in BOOLEAN, Authenticate(q, op, token, stated)
      PROVE  AskOK'
  <2>1. CASE UNCHANGED acAsk
    BY <2>1 DEF AskOK
  <2>2. CASE acAsk' # acAsk
    <3>1. PICK ask \in Asks(op) : acAsk' = [acAsk EXCEPT ![q] = ask]
      BY <1>1, <2>2 DEF Authenticate, Refuse
    <3>2. ask.tenant \in Target \cup {Unnamed}
      BY <3>1 DEF Asks, NoAsk
    <3>3. QED
      BY <3>1, <3>2 DEF AskOK, RequestsOK
  <2>3. QED
    BY <2>1, <2>2
<1>2. CASE UNCHANGED acAsk
  BY <1>2 DEF AskOK
<1>3. QED
  BY <1>1, <1>2 DEF ACNext, acVars, DeleteOwnPipeline, ReadTenants, ListActions, RetryReads,
     RetryEnqueues, RetryRejected, RetryRaises, HandlerRaises, ProcessDies, LogAction,
     LogUnanswered

\* Entries are appended.
LEMMA LogStep ==
  ASSUME RequestsOK, AskOK, LogOK, AdminInv, RouteInv, [ACNext]_acVars
  PROVE  LogOK'
<1> USE DEF LogOK
<1>1. ASSUME NEW q \in ARequest, NEW op \in Route, NEW token \in Token,
             NEW stated \in BOOLEAN, Authenticate(q, op, token, stated)
      PROVE  LogOK'
  BY <1>1 DEF Authenticate, Refuse, Answer, StepTo
<1>2. ASSUME NEW q \in ARequest, DeleteOwnPipeline(q) PROVE LogOK'
  BY <1>2 DEF DeleteOwnPipeline, Answer
<1>3. ASSUME NEW q \in ARequest, ReadTenants(q) PROVE LogOK'
  BY <1>3 DEF ReadTenants, StepTo
<1>4. ASSUME NEW q \in ARequest, ListActions(q) PROVE LogOK'
  BY <1>4 DEF ListActions, StepTo
<1>5. ASSUME NEW q \in ARequest, RetryReads(q) PROVE LogOK'
  BY <1>5 DEF RetryReads, StepTo
<1>6. ASSUME NEW q \in ARequest, RetryEnqueues(q) PROVE LogOK'
  BY <1>6 DEF RetryEnqueues, StepTo
<1>7. ASSUME NEW q \in ARequest, RetryRejected(q) PROVE LogOK'
  BY <1>7 DEF RetryRejected, StepTo
<1>8. ASSUME NEW q \in ARequest, HandlerRaises(q) PROVE LogOK'
  BY <1>8 DEF HandlerRaises, Answer
<1>9. ASSUME NEW q \in ARequest, ProcessDies(q) PROVE LogOK'
  BY <1>9 DEF ProcessDies, StepTo
<1>10. ASSUME NEW q \in ARequest, LogAction(q) PROVE LogOK'
  <2>1. PICK e \in Entry : acLog' = Append(acLog, e)
    BY <1>10, LoggedEntry DEF LogAction
  <2>2. QED
    BY <2>1, AppendProperties
<1>11. ASSUME NEW q \in ARequest, RetryRaises(q) PROVE LogOK'
  BY <1>11 DEF RetryRaises, Answer
<1>12. ASSUME NEW q \in ARequest, LogUnanswered(q) PROVE LogOK'
  <2>1. PICK e \in Entry : acLog' = Append(acLog, e)
    BY <1>12, LoggedEntry DEF LogUnanswered
  <2>2. QED
    BY <2>1, AppendProperties
<1>13. CASE UNCHANGED acVars
  BY <1>13 DEF acVars
<1>14. QED
  BY <1>1, <1>2, <1>3, <1>4, <1>5, <1>6, <1>7, <1>8, <1>9, <1>10, <1>11, <1>12,
     <1>13 DEF ACNext

\* The place of a request tells its route.
LEMMA RouteStep ==
  ASSUME RequestsOK, RouteInv, [ACNext]_acVars
  PROVE  RouteInv'
<1> USE DEF RequestsOK, RequestStage, Logged, Reading, RouteInv
<1>1. ASSUME NEW q \in ARequest, NEW op \in Route, NEW token \in Token,
             NEW stated \in BOOLEAN, Authenticate(q, op, token, stated)
      PROVE  RouteInv'
  BY <1>1 DEF Authenticate, Refuse, Answer, StepTo, Route
<1>2. ASSUME NEW q \in ARequest, DeleteOwnPipeline(q) PROVE RouteInv'
  BY <1>2 DEF DeleteOwnPipeline, Answer
<1>3. ASSUME NEW q \in ARequest, ReadTenants(q) PROVE RouteInv'
  BY <1>3 DEF ReadTenants, StepTo
<1>4. ASSUME NEW q \in ARequest, ListActions(q) PROVE RouteInv'
  BY <1>4 DEF ListActions, StepTo
<1>5. ASSUME NEW q \in ARequest, RetryReads(q) PROVE RouteInv'
  BY <1>5 DEF RetryReads, StepTo
<1>6. ASSUME NEW q \in ARequest, RetryEnqueues(q) PROVE RouteInv'
  BY <1>6 DEF RetryEnqueues, StepTo
<1>7. ASSUME NEW q \in ARequest, RetryRejected(q) PROVE RouteInv'
  BY <1>7 DEF RetryRejected, StepTo
<1>8. ASSUME NEW q \in ARequest, HandlerRaises(q) PROVE RouteInv'
  BY <1>8 DEF HandlerRaises, Answer
<1>9. ASSUME NEW q \in ARequest, ProcessDies(q) PROVE RouteInv'
  BY <1>9 DEF ProcessDies, StepTo
<1>10. ASSUME NEW q \in ARequest, LogAction(q) PROVE RouteInv'
  BY <1>10 DEF LogAction, Answer
<1>11. ASSUME NEW q \in ARequest, RetryRaises(q) PROVE RouteInv'
  BY <1>11 DEF RetryRaises, Answer
<1>12. ASSUME NEW q \in ARequest, LogUnanswered(q) PROVE RouteInv'
  BY <1>12 DEF LogUnanswered, Answer, StepTo
<1>13. CASE UNCHANGED acVars
  BY <1>13 DEF acVars
<1>14. QED
  BY <1>1, <1>2, <1>3, <1>4, <1>5, <1>6, <1>7, <1>8, <1>9, <1>10, <1>11, <1>12,
     <1>13 DEF ACNext

\* An administrator stays one.
LEMMA AdminStep ==
  ASSUME RequestsOK, AdminInv, [ACNext]_acVars
  PROVE  AdminInv'
<1> USE DEF RequestsOK, RequestStage, Logged, Reading, AdminInv
<1>1. ASSUME NEW q \in ARequest, NEW op \in Route, NEW token \in Token,
             NEW stated \in BOOLEAN, Authenticate(q, op, token, stated)
      PROVE  AdminInv'
  <2>1. CASE acAt'[q] = "answered"
    <3>1. \A r \in ARequest \ {q} :
            acAt'[r] = acAt[r] /\ acOp'[r] = acOp[r] /\ acAuth'[r] = acAuth[r]
      BY <1>1 DEF Authenticate, Refuse, Answer, StepTo
    <3>2. QED
      BY <2>1, <3>1
  <2>2. CASE acAt'[q] # "answered"
    <3>1. ~(Rank(ResolveRole(token)) < Rank(MinRole(op)))
      BY <1>1, <2>2 DEF Authenticate, Refuse, Answer
    <3>2. op # "delete_pipeline" => token.user \in PlatformAdmins
      BY <3>1 DEF MinRole, Rank, ResolveRole
    <3>3. acAuth'[q].user = token.user /\ acOp'[q] = op
      BY <1>1, <2>2 DEF Authenticate, Refuse, Answer, AuthContext
    <3>4. \A r \in ARequest \ {q} :
            acAt'[r] = acAt[r] /\ acOp'[r] = acOp[r] /\ acAuth'[r] = acAuth[r]
      BY <1>1 DEF Authenticate, Refuse, Answer, StepTo
    <3>5. QED
      BY <3>2, <3>3, <3>4
  <2>3. QED
    BY <2>1, <2>2
<1>2. ASSUME NEW q \in ARequest, DeleteOwnPipeline(q) PROVE AdminInv'
  BY <1>2 DEF DeleteOwnPipeline, Answer
<1>3. ASSUME NEW q \in ARequest, ReadTenants(q) PROVE AdminInv'
  BY <1>3 DEF ReadTenants, StepTo
<1>4. ASSUME NEW q \in ARequest, ListActions(q) PROVE AdminInv'
  BY <1>4 DEF ListActions, StepTo
<1>5. ASSUME NEW q \in ARequest, RetryReads(q) PROVE AdminInv'
  BY <1>5 DEF RetryReads, StepTo
<1>6. ASSUME NEW q \in ARequest, RetryEnqueues(q) PROVE AdminInv'
  BY <1>6 DEF RetryEnqueues, StepTo
<1>7. ASSUME NEW q \in ARequest, RetryRejected(q) PROVE AdminInv'
  BY <1>7 DEF RetryRejected, StepTo
<1>8. ASSUME NEW q \in ARequest, HandlerRaises(q) PROVE AdminInv'
  BY <1>8 DEF HandlerRaises, Answer
<1>9. ASSUME NEW q \in ARequest, ProcessDies(q) PROVE AdminInv'
  BY <1>9 DEF ProcessDies, StepTo
<1>10. ASSUME NEW q \in ARequest, LogAction(q) PROVE AdminInv'
  BY <1>10 DEF LogAction, Answer
<1>11. ASSUME NEW q \in ARequest, RetryRaises(q) PROVE AdminInv'
  BY <1>11 DEF RetryRaises, Answer
<1>12. ASSUME NEW q \in ARequest, LogUnanswered(q) PROVE AdminInv'
  BY <1>12 DEF LogUnanswered, Answer, StepTo
<1>13. CASE UNCHANGED acVars
  BY <1>13 DEF acVars
<1>14. QED
  BY <1>1, <1>2, <1>3, <1>4, <1>5, <1>6, <1>7, <1>8, <1>9, <1>10, <1>11, <1>12,
     <1>13 DEF ACNext

\* What is enqueued is known.
LEMMA TaskStep ==
  ASSUME RequestsOK, RouteInv, TaskInv, [ACNext]_acVars
  PROVE  TaskInv'
<1> USE DEF RequestsOK, RequestStage, Logged, Reading, TaskInv
<1>1. ASSUME NEW q \in ARequest, NEW op \in Route, NEW token \in Token,
             NEW stated \in BOOLEAN, Authenticate(q, op, token, stated)
      PROVE  TaskInv'
  BY <1>1 DEF Authenticate, Refuse, Answer, StepTo
<1>2. ASSUME NEW q \in ARequest, DeleteOwnPipeline(q) PROVE TaskInv'
  BY <1>2 DEF DeleteOwnPipeline, Answer
<1>3. ASSUME NEW q \in ARequest, ReadTenants(q) PROVE TaskInv'
  BY <1>3 DEF ReadTenants, StepTo
<1>4. ASSUME NEW q \in ARequest, ListActions(q) PROVE TaskInv'
  BY <1>4 DEF ListActions, StepTo
<1>5. ASSUME NEW q \in ARequest, RetryReads(q) PROVE TaskInv'
  BY <1>5 DEF RetryReads, StepTo
<1>6. ASSUME NEW q \in ARequest, RetryEnqueues(q) PROVE TaskInv'
  BY <1>6 DEF RetryEnqueues, StepTo, RouteInv
<1>7. ASSUME NEW q \in ARequest, RetryRejected(q) PROVE TaskInv'
  BY <1>7 DEF RetryRejected, StepTo
<1>8. ASSUME NEW q \in ARequest, HandlerRaises(q) PROVE TaskInv'
  BY <1>8 DEF HandlerRaises, Answer
<1>9. ASSUME NEW q \in ARequest, ProcessDies(q) PROVE TaskInv'
  BY <1>9 DEF ProcessDies, StepTo
<1>10. ASSUME NEW q \in ARequest, LogAction(q) PROVE TaskInv'
  <2>1. PICK status \in LoggedStatuses(q) : Answer(q, status)
    BY <1>10 DEF LogAction
  <2>2. status \in {200, 402, 404, 429} /\ (q \in acTasks => status = 200)
    BY <1>10, <2>1 DEF LogAction, LoggedStatuses
  <2>3. QED
    BY <1>10, <2>1, <2>2 DEF LogAction, Answer
<1>11. ASSUME NEW q \in ARequest, RetryRaises(q) PROVE TaskInv'
  BY <1>11 DEF RetryRaises, Answer, RouteInv
<1>12. ASSUME NEW q \in ARequest, LogUnanswered(q) PROVE TaskInv'
  BY <1>12 DEF LogUnanswered, Answer, StepTo
<1>13. CASE UNCHANGED acVars
  BY <1>13 DEF acVars
<1>14. QED
  BY <1>1, <1>2, <1>3, <1>4, <1>5, <1>6, <1>7, <1>8, <1>9, <1>10, <1>11, <1>12,
     <1>13 DEF ACNext

\* A reading stays a reading of the log.
LEMMA SeenStep ==
  ASSUME RequestsOK, AskOK, LogOK, RouteInv, AdminInv, SeenInv, [ACNext]_acVars
  PROVE  SeenInv'
<1> USE DEF RequestsOK, RequestStage, Logged, Reading
<1> DEFINE Same(r) == /\ acAt'[r] = "view_admin_audit_log" => acAt[r] = acAt'[r]
                      /\ acSeen'[r] = acSeen[r] /\ acAsk'[r] = acAsk[r]
<1>0. ASSUME UNCHANGED acLog,
             \A r \in ARequest : acAt'[r] # "view_admin_audit_log" \/ Same(r)
      PROVE  SeenInv'
  <2>1. ASSUME NEW r \in ARequest, acAt'[r] = "view_admin_audit_log"
        PROVE  \E n \in 0..Len(acLog) : IsPage(acSeen'[r], acLog, n, acAsk'[r])
    BY <1>0, <2>1 DEF SeenInv
  <2>2. QED
    BY <1>0, <2>1 DEF SeenInv
<1>1. ASSUME NEW q \in ARequest, NEW op \in Route, NEW token \in Token,
             NEW stated \in BOOLEAN, Authenticate(q, op, token, stated)
      PROVE  SeenInv'
  BY <1>1, <1>0 DEF Authenticate, Refuse, Answer, StepTo
<1>2. ASSUME NEW q \in ARequest, DeleteOwnPipeline(q) PROVE SeenInv'
  BY <1>2, <1>0 DEF DeleteOwnPipeline, Answer
<1>3. ASSUME NEW q \in ARequest, ReadTenants(q) PROVE SeenInv'
  BY <1>3, <1>0 DEF ReadTenants, StepTo
<1>4. ASSUME NEW q \in ARequest, ListActions(q) PROVE SeenInv'
  <2>1. Len(acLog) \in 0..Len(acLog) /\ UNCHANGED <<acLog, acAsk>>
    BY <1>4, LenProperties DEF LogOK, ListActions
  <2>2. IsPage(acSeen'[q], acLog, Len(acLog), acAsk[q])
    BY <1>4 DEF ListActions
  <2>3. \A r \in ARequest \ {q} : acAt'[r] = acAt[r] /\ acSeen'[r] = acSeen[r]
    BY <1>4 DEF ListActions, StepTo
  <2>4. ASSUME NEW r \in ARequest, acAt'[r] = "view_admin_audit_log"
        PROVE  \E n \in 0..Len(acLog) : IsPage(acSeen'[r], acLog, n, acAsk[r])
    BY <2>1, <2>2, <2>3, <2>4 DEF SeenInv
  <2>5. QED
    BY <2>1, <2>4 DEF SeenInv
<1>5. ASSUME NEW q \in ARequest, RetryReads(q) PROVE SeenInv'
  BY <1>5, <1>0 DEF RetryReads, StepTo
<1>6. ASSUME NEW q \in ARequest, RetryEnqueues(q) PROVE SeenInv'
  BY <1>6, <1>0 DEF RetryEnqueues, StepTo
<1>7. ASSUME NEW q \in ARequest, RetryRejected(q) PROVE SeenInv'
  BY <1>7, <1>0 DEF RetryRejected, StepTo
<1>8. ASSUME NEW q \in ARequest, HandlerRaises(q) PROVE SeenInv'
  BY <1>8, <1>0 DEF HandlerRaises, Answer
<1>9. ASSUME NEW q \in ARequest, ProcessDies(q) PROVE SeenInv'
  BY <1>9, <1>0 DEF ProcessDies, StepTo
<1>10. ASSUME NEW q \in ARequest, LogAction(q) \/ LogUnanswered(q) PROVE SeenInv'
  <2>1. PICK e \in Entry : acLog' = Append(acLog, e)
    BY <1>10, LoggedEntry DEF LogAction, LogUnanswered
  <2>2. Len(acLog) \in Nat /\ Len(acLog') = Len(acLog) + 1
    BY <2>1, AppendProperties, LenProperties DEF LogOK
  <2>3. ASSUME NEW r \in ARequest, acAt'[r] = "view_admin_audit_log"
        PROVE  \E n \in 0..Len(acLog') : IsPage(acSeen'[r], acLog', n, acAsk'[r])
    <3>1. /\ acAt[r] = "view_admin_audit_log"
          /\ acSeen'[r] = acSeen[r] /\ acAsk'[r] = acAsk[r]
      BY <1>10, <2>3 DEF LogAction, LogUnanswered, Answer, StepTo
    <3>2. PICK n \in 0..Len(acLog) : IsPage(acSeen[r], acLog, n, acAsk[r])
      BY <3>1 DEF SeenInv
    <3>3. IsPage(acSeen[r], acLog', n, acAsk[r])
      BY <2>1, <3>2, PageAppend DEF LogOK
    <3>4. n \in 0..Len(acLog')
      BY <2>2
    <3>5. QED
      BY <3>1, <3>3, <3>4
  <2>4. QED
    BY <2>3 DEF SeenInv
<1>11. ASSUME NEW q \in ARequest, RetryRaises(q) PROVE SeenInv'
  BY <1>11, <1>0 DEF RetryRaises, Answer
<1>13. CASE UNCHANGED acVars
  BY <1>13, <1>0 DEF acVars
<1>14. QED
  BY <1>1, <1>2, <1>3, <1>4, <1>5, <1>6, <1>7, <1>8, <1>9, <1>10, <1>11,
     <1>13 DEF ACNext

\* One request, one entry.
LEMMA OneEntryStep ==
  ASSUME RequestsOK, AskOK, LogOK, RouteInv, AdminInv, TaskInv, OneEntryInv, [ACNext]_acVars
  PROVE  OneEntryInv'
<1> USE DEF RequestsOK, RequestStage, Logged, Reading, OneEntryInv, Refused, TaskInv
<1>1. ASSUME NEW q \in ARequest, NEW op \in Route, NEW token \in Token,
             NEW stated \in BOOLEAN, Authenticate(q, op, token, stated)
      PROVE  OneEntryInv'
  BY <1>1 DEF Authenticate, Refuse, Answer, StepTo, Entries
<1>2. ASSUME NEW q \in ARequest, DeleteOwnPipeline(q) PROVE OneEntryInv'
  BY <1>2 DEF DeleteOwnPipeline, Answer, Entries
<1>3. ASSUME NEW q \in ARequest, ReadTenants(q) PROVE OneEntryInv'
  BY <1>3 DEF ReadTenants, StepTo, Entries
<1>4. ASSUME NEW q \in ARequest, ListActions(q) PROVE OneEntryInv'
  BY <1>4 DEF ListActions, StepTo, Entries
<1>5. ASSUME NEW q \in ARequest, RetryReads(q) PROVE OneEntryInv'
  BY <1>5 DEF RetryReads, StepTo, Entries
<1>6. ASSUME NEW q \in ARequest, RetryEnqueues(q) PROVE OneEntryInv'
  BY <1>6 DEF RetryEnqueues, StepTo, Entries
<1>7. ASSUME NEW q \in ARequest, RetryRejected(q) PROVE OneEntryInv'
  BY <1>7 DEF RetryRejected, StepTo, Entries
<1>8. ASSUME NEW q \in ARequest, HandlerRaises(q) PROVE OneEntryInv'
  BY <1>8 DEF HandlerRaises, Answer, Entries
<1>9. ASSUME NEW q \in ARequest, ProcessDies(q) PROVE OneEntryInv'
  BY <1>9 DEF ProcessDies, StepTo, Entries
<1>10. ASSUME NEW q \in ARequest, LogAction(q) \/ LogUnanswered(q) PROVE OneEntryInv'
  <2>1. PICK e \in Entry : acLog' = Append(acLog, e) /\ e.request = q
    BY <1>10, LoggedEntry DEF LogAction, LogUnanswered
  <2>2. /\ Len(acLog) \in Nat /\ Len(acLog') = Len(acLog) + 1
        /\ acLog'[Len(acLog) + 1] = e
        /\ \A i \in 1..Len(acLog) : acLog'[i] = acLog[i]
    BY <2>1, AppendProperties, LenProperties DEF LogOK
  <2>3. \A r \in ARequest \ {q} : Entries(r)' = Entries(r)
    BY <2>1, <2>2 DEF Entries
  <2>4. Entries(q) = {}
    BY <1>10 DEF LogAction, LogUnanswered
  <2>5. Entries(q)' = {Len(acLog) + 1}
    BY <2>1, <2>2, <2>4 DEF Entries
  <2>6. Len(acLog) + 1 \in 1..Len(acLog')
    BY <2>2
  <2>7. /\ acAt'[q] \in {"answered", "dead"}
        /\ acAnswer'[q] \in {200, 402, 404, 429, 500} \/ acAnswer'[q] = acAnswer[q]
    BY <1>10 DEF LogAction, LogUnanswered, LoggedStatuses, Answer, StepTo
  <2>8. \A r \in ARequest \ {q} : acAt'[r] = acAt[r] /\ acAnswer'[r] = acAnswer[r]
    BY <1>10 DEF LogAction, LogUnanswered, Answer, StepTo
  <2>9. UNCHANGED acOp /\ acAnswer[q] = 0
    BY <1>10 DEF LogAction, LogUnanswered, TaskInv
  <2>10. \A i : i \in 1..Len(acLog) => i \in 1..Len(acLog')
    BY <2>2
  <2>11. \A r \in ARequest : Entries(r)' = {} \/ \E i \in 1..Len(acLog') : Entries(r)' = {i}
    BY <2>3, <2>5, <2>6, <2>10
  <2>12. Entries(q)' # {} /\ acAnswer'[q] \notin Refused
    BY <2>5, <2>7, <2>9
  <2>13. QED
    BY <2>3, <2>7, <2>8, <2>9, <2>11, <2>12
<1>11. ASSUME NEW q \in ARequest, RetryRaises(q) PROVE OneEntryInv'
  BY <1>11 DEF RetryRaises, Answer, Entries
<1>13. CASE UNCHANGED acVars
  BY <1>13 DEF acVars, Entries
<1>14. QED
  BY <1>1, <1>2, <1>3, <1>4, <1>5, <1>6, <1>7, <1>8, <1>9, <1>10, <1>11,
     <1>13 DEF ACNext

\* An entry stays true.
LEMMA EntriesStep ==
  ASSUME RequestsOK, AskOK, LogOK, RouteInv, AdminInv, TaskInv, SeenInv, OneEntryInv, EntriesInv,
         [ACNext]_acVars
  PROVE  EntriesInv'
<1> USE DEF RequestsOK, RequestStage, Logged, Reading
<1>0. ASSUME NEW q \in ARequest, UNCHANGED acLog,
             \/ acAt[q] \notin {"answered", "dead"}
             \/ UNCHANGED <<acTasks, acSeen, acAsk>>,
             \A r \in ARequest \ {q} : /\ acSeen'[r] = acSeen[r] /\ acAsk'[r] = acAsk[r]
                                       /\ r \in acTasks' <=> r \in acTasks
      PROVE  EntriesInv'
  <2>1. CASE acAt[q] \notin {"answered", "dead"}
    <3>1. \A i \in 1..Len(acLog) : acLog[i].request \in ARequest \ {q}
      BY <2>1, NotYetLogged
    <3>2. QED
      BY <1>0, <3>1 DEF EntriesInv, EntryOK
  <2>2. CASE UNCHANGED <<acTasks, acSeen, acAsk>>
    BY <1>0, <2>2 DEF EntriesInv, EntryOK
  <2>3. QED
    BY <1>0, <2>1, <2>2
<1>1. ASSUME NEW q \in ARequest, NEW op \in Route, NEW token \in Token,
             NEW stated \in BOOLEAN, Authenticate(q, op, token, stated)
      PROVE  EntriesInv'
  BY <1>1, <1>0 DEF Authenticate, Refuse
<1>2. ASSUME NEW q \in ARequest, DeleteOwnPipeline(q) PROVE EntriesInv'
  BY <1>2, <1>0 DEF DeleteOwnPipeline
<1>3. ASSUME NEW q \in ARequest, ReadTenants(q) PROVE EntriesInv'
  BY <1>3, <1>0 DEF ReadTenants
<1>4. ASSUME NEW q \in ARequest, ListActions(q) PROVE EntriesInv'
  BY <1>4, <1>0 DEF ListActions
<1>5. ASSUME NEW q \in ARequest, RetryReads(q) PROVE EntriesInv'
  BY <1>5, <1>0 DEF RetryReads
<1>6. ASSUME NEW q \in ARequest, RetryEnqueues(q) PROVE EntriesInv'
  BY <1>6, <1>0 DEF RetryEnqueues
<1>7. ASSUME NEW q \in ARequest, RetryRejected(q) PROVE EntriesInv'
  BY <1>7, <1>0 DEF RetryRejected
<1>8. ASSUME NEW q \in ARequest, HandlerRaises(q) PROVE EntriesInv'
  BY <1>8, <1>0 DEF HandlerRaises
<1>9. ASSUME NEW q \in ARequest, ProcessDies(q) PROVE EntriesInv'
  BY <1>9, <1>0 DEF ProcessDies
<1>10. ASSUME NEW q \in ARequest, LogAction(q) \/ LogUnanswered(q) PROVE EntriesInv'
  <2>1. PICK e \in Entry :
          /\ acLog' = Append(acLog, e) /\ e.request = q /\ e.action = acAt[q]
          /\ e.actor \in PlatformAdmins
    BY <1>10, LoggedEntry DEF LogAction, LogUnanswered
  <2>2. /\ Len(acLog) \in Nat /\ Len(acLog') = Len(acLog) + 1
        /\ acLog'[Len(acLog) + 1] = e
        /\ \A i \in 1..Len(acLog) : acLog'[i] = acLog[i]
    BY <2>1, AppendProperties, LenProperties DEF LogOK
  <2>3. UNCHANGED <<acTasks, acSeen, acAsk>>
    BY <1>10 DEF LogAction, LogUnanswered
  <2>4. \A n \in 0..Len(acLog), r \in ARequest :
          IsPage(acSeen[r], acLog', n, acAsk[r]) <=> IsPage(acSeen[r], acLog, n, acAsk[r])
    BY <2>1, PageAppend DEF LogOK
  <2>5. ASSUME NEW i \in 1..Len(acLog) PROVE EntryOK(i)'
    <3>1. EntryOK(i) /\ acLog'[i] = acLog[i] /\ i - 1 \in 0..Len(acLog)
      BY <2>2 DEF EntriesInv
    <3>2. acLog[i].request \in ARequest
        <4>1. acLog[i] \in Entry
      BY ElementOfSeq DEF LogOK
      <4>2. QED
      BY <4>1 DEF Entry
    <3>3. \A n \in 0..(i - 1) : n \in 0..Len(acLog)
      BY <2>2
    <3>4. ASSUME acLog[i].action = "view_admin_audit_log"
          PROVE  \E n \in 0..(i - 1) :
                   IsPage(acSeen[acLog[i].request], acLog', n, acAsk[acLog[i].request])
      BY <3>1, <3>2, <3>3, <3>4, <2>4 DEF EntryOK
    <3>5. QED
      BY <2>3, <3>1, <3>4 DEF EntryOK
  <2>6. ASSUME NEW k, k = Len(acLog) + 1 PROVE EntryOK(k)'
    <3>1. acAt[q] = "retry_pipeline" <=> q \in acTasks
      BY <1>10 DEF LogAction, LogUnanswered, TaskInv
    <3>2. k - 1 = Len(acLog)
      BY <2>2, <2>6
    <3>3. /\ acLog'[k].request = q /\ acLog'[k].action = acAt[q]
          /\ acLog'[k].actor \in PlatformAdmins
      BY <2>1, <2>2, <2>6
    <3>4. ASSUME acAt[q] = "view_admin_audit_log"
          PROVE  \E n \in 0..(k - 1) : IsPage(acSeen[q], acLog', n, acAsk[q])
      BY <2>4, <3>2, <3>4 DEF SeenInv
    <3>5. QED
      BY <2>3, <3>1, <3>3, <3>4 DEF EntryOK
  <2>7. \A i \in 1..Len(acLog') : i \in 1..Len(acLog) \/ i = Len(acLog) + 1
    BY <2>2
  <2>8. QED
    BY <2>5, <2>6, <2>7 DEF EntriesInv
<1>11. ASSUME NEW q \in ARequest, RetryRaises(q) PROVE EntriesInv'
  BY <1>11, <1>0 DEF RetryRaises
<1>13. CASE UNCHANGED acVars
  BY <1>13 DEF acVars, EntriesInv, EntryOK
<1>14. QED
  BY <1>1, <1>2, <1>3, <1>4, <1>5, <1>6, <1>7, <1>8, <1>9, <1>10, <1>11,
     <1>13 DEF ACNext

\* Initially nobody has asked, and the log is empty.
LEMMA AccessInit == ASSUME ACInit PROVE ACInv
<1> USE DEF ACInit
<1>1. RequestsOK /\ AskOK /\ RouteInv /\ AdminInv /\ TaskInv /\ SeenInv
  <2>1. RequestsOK /\ RouteInv /\ AdminInv /\ TaskInv
    BY DEF RequestsOK, RequestStage, Status, RouteInv, Reading, AdminInv, TaskInv
  <2>2. AskOK /\ SeenInv
    BY DEF AskOK, NoAsk, SeenInv
  <2>3. QED
    BY <2>1, <2>2
<1>2. LogOK
  BY EmptySeq DEF LogOK
<1>3. Len(acLog) = 0
  OBVIOUS
<1>4. OneEntryInv /\ EntriesInv
  BY <1>3 DEF OneEntryInv, Entries, EntriesInv
<1>5. QED
  BY <1>1, <1>2, <1>4 DEF ACInv

\* The invariant of the routes and their log.
LEMMA AccessInvariant == ACSpec => []ACInv
<1>1. ACInv /\ [ACNext]_acVars => ACInv'
  BY RequestsStep, AskStep, LogStep, RouteStep, AdminStep, TaskStep, SeenStep, OneEntryStep,
     EntriesStep DEF ACInv
<1>2. QED
  BY AccessInit, <1>1, PTL DEF ACSpec

\* Every variable of the routes has its type: requests are answered with the
\* statuses of the code, and whoever is in the log is a user.
THEOREM AccessTypeCorrect == ACSpec => []ACTypeOK
<1>1. ASSUME ACInv PROVE ACTypeOK
  <2>1. \A i \in 1..Len(acLog) : acLog[i] \in Entry
    BY <1>1, ElementOfSeq DEF ACInv, LogOK
  <2>2. QED
    BY <1>1, <2>1 DEF ACInv, RequestsOK, RequestStage, Status, Entry, ACTypeOK
<1>2. QED
  BY AccessInvariant, <1>1, PTL

\* The log can be relied on as far as LoggedOnce says: no request has two entries, what a
\* handler has answered is in it, what was refused is neither in it nor done, a run it does
\* not tell of is of a request answered by 500 or dead, and what it does tell is true; for
\* any number of requests, users, organizations and administrators, and any limits.
THEOREM LogCorrect == ACSpec => []LoggedOnce
<1>1. ASSUME ACInv PROVE LoggedOnce
  <2>1. ASSUME NEW q \in ARequest
        PROVE  /\ Cardinality(Entries(q)) <= 1
               /\ acAnswer[q] \in {200, 402, 404, 429} /\ acOp[q] # "delete_pipeline" =>
                    Entries(q) # {}
               /\ acAnswer[q] \in {401, 403, 422} => Entries(q) = {} /\ q \notin acTasks
               /\ q \in acTasks /\ Entries(q) = {} =>
                    acAnswer[q] = 500 \/ acAt[q] \in {"dead", "retry_pipeline"}
    <3>1. Cardinality(Entries(q)) <= 1
      <4>1. CASE Entries(q) = {}
        <5>1. Cardinality(Entries(q)) = 0
          BY <4>1, FS_EmptySet
        <5>2. QED
          BY <5>1
      <4>2. ASSUME NEW i \in 1..Len(acLog), Entries(q) = {i} PROVE Cardinality(Entries(q)) <= 1
        <5>1. Cardinality(Entries(q)) = 1
          BY <4>2, FS_Singleton
        <5>2. QED
          BY <5>1
      <4>3. QED
        BY <1>1, <4>1, <4>2 DEF ACInv, OneEntryInv
    <3>2. acAnswer[q] \in {200, 402, 404, 429} /\ acOp[q] # "delete_pipeline" => Entries(q) # {}
      BY <1>1 DEF ACInv, OneEntryInv
    <3>3. acAnswer[q] \in {401, 403, 422} => Entries(q) = {} /\ q \notin acTasks
      BY <1>1 DEF ACInv, OneEntryInv, TaskInv, Refused
    <3>4. ASSUME q \in acTasks, Entries(q) = {}
          PROVE  acAnswer[q] = 500 \/ acAt[q] \in {"dead", "retry_pipeline"}
      BY <1>1, <3>4 DEF ACInv, OneEntryInv, TaskInv
    <3>5. QED
      BY <3>1, <3>2, <3>3, <3>4
  <2>2. \A i \in 1..Len(acLog) : EntryOK(i)
    BY <1>1 DEF ACInv, EntriesInv
  <2>3. QED
    BY <2>1, <2>2 DEF LoggedOnce, EntryOK
<1>2. QED
  BY AccessInvariant, <1>1, PTL

-----------------------------------------------------------------------------
(* Sums over finite sets: what MapThenSumSet computes, by induction        *)

\* A set of numbers that has one has a least one: induction, without the operator
\* that the library's induction rules take.
LEMMA LeastNumber ==
  ASSUME NEW T, T \subseteq Nat, T # {}
  PROVE  \E x \in T : \A y \in T : x <= y
<1> DEFINE R == {ss \in Nat \X Nat : ss[1] < ss[2]}
<1>1. OpToRel(<, Nat) = R
  BY Zenon DEF OpToRel
<1>2. IsWellFoundedOn(R, Nat)
  BY <1>1, NatLessThanWellFounded, Zenon
<1>3. \A i, j \in Nat : i < j => <<i, j>> \in R
  OBVIOUS
<1> HIDE DEF R
<1>4. PICK x \in T : \A y \in T : <<y, x>> \notin R
  BY <1>2, WFMin, Zenon
<1>5. \A y \in T : ~(y < x)
  BY <1>3, <1>4, Zenon
<1>6. x \in Nat /\ \A y \in T : x <= y
  BY <1>5
<1>7. QED
  BY <1>6

\* The element that a fold takes out next.
Taken(s) == CHOOSE x \in s : TRUE

\* A table of the sums of f over the subsets of S, or over those of at most n elements.
IsSum(g, f, S) ==
  g = [s \in SUBSET S |-> IF s = {} THEN 0 ELSE f[Taken(s)] + g[s \ {Taken(s)}]]
UpTo(S, n) == {s \in SUBSET S : Cardinality(s) <= n}
IsPartSum(g, f, S, n) ==
  g = [s \in UpTo(S, n) |-> IF s = {} THEN 0 ELSE f[Taken(s)] + g[s \ {Taken(s)}]]

\* Taking an element out leaves one less.
LEMMA TakenOut ==
  ASSUME NEW S, IsFiniteSet(S), NEW s \in SUBSET S, s # {}
  PROVE  /\ Taken(s) \in s /\ Taken(s) \in S /\ s \ {Taken(s)} \in SUBSET S
         /\ Cardinality(s) \in Nat /\ Cardinality(s \ {Taken(s)}) = Cardinality(s) - 1
<1>1. Taken(s) \in s
  BY DEF Taken
<1>2. IsFiniteSet(s)
  BY FS_Subset
<1>3. QED
  BY <1>1, <1>2, FS_RemoveElement, FS_CardinalityType

\* The table is there for every finite set.
LEMMA SumExists ==
  ASSUME NEW S, IsFiniteSet(S), NEW f
  PROVE  \E g : IsSum(g, f, S)
<1> DEFINE T == {n \in Nat : ~ \E g : IsPartSum(g, f, S, n)}
<1>1. 0 \notin T
  <2> DEFINE g == [s \in UpTo(S, 0) |-> 0]
  <2>1. \A s \in UpTo(S, 0) : s = {}
    BY FS_Subset, FS_EmptySet, FS_CardinalityType DEF UpTo
  <2>2. IsPartSum(g, f, S, 0)
    BY <2>1 DEF IsPartSum
  <2>3. QED
    BY <2>2
<1>2. ASSUME NEW n \in Nat, n \notin T PROVE n + 1 \notin T
  <2>1. PICK g : IsPartSum(g, f, S, n)
    BY <1>2
  <2> DEFINE h == [s \in UpTo(S, n + 1) |->
                     IF s = {} THEN 0 ELSE f[Taken(s)] + g[s \ {Taken(s)}]]
  <2>2. UpTo(S, n) \subseteq UpTo(S, n + 1)
    BY FS_Subset, FS_CardinalityType DEF UpTo
  <2>3. \A s \in UpTo(S, n) : g[s] = h[s]
    BY <2>1, <2>2 DEF IsPartSum
  <2>4. \A s \in UpTo(S, n + 1) : s # {} => s \ {Taken(s)} \in UpTo(S, n)
    BY TakenOut DEF UpTo
  <2>5. IsPartSum(h, f, S, n + 1)
    BY <2>3, <2>4 DEF IsPartSum
  <2>6. QED
    BY <2>5
<1> HIDE DEF T
<1>3. T = {}
  <2>1. ASSUME T # {} PROVE FALSE
    <3>1. T \subseteq Nat
      BY DEF T
    <3>2. PICK n \in T : \A m \in T : n <= m
      BY <2>1, <3>1, LeastNumber
    <3>3. n \in Nat /\ n - 1 \notin T
      BY <3>1, <3>2
    <3>4. n - 1 \in Nat
      BY <1>1, <3>2, <3>3
    <3>5. QED
      BY <1>2, <3>2, <3>3, <3>4
  <2>2. QED
    BY <2>1
<1>4. PICK g : IsPartSum(g, f, S, Cardinality(S))
  BY <1>3, FS_CardinalityType DEF T
<1>5. UpTo(S, Cardinality(S)) = SUBSET S
  BY FS_Subset DEF UpTo
<1>6. QED
  BY <1>4, <1>5 DEF IsPartSum, IsSum

\* Sums of smaller numbers are smaller, and sums of integers are integers.
LEMMA SumCompare ==
  ASSUME NEW S, IsFiniteSet(S), NEW e \in [S -> Int], NEW f \in [S -> Int],
         \A x \in S : e[x] <= f[x], NEW d, IsSum(d, e, S), NEW g, IsSum(g, f, S)
  PROVE  d[S] \in Int /\ g[S] \in Int /\ d[S] <= g[S]
<1> DEFINE Good(s) == d[s] \in Int /\ g[s] \in Int /\ d[s] <= g[s]
           T == {n \in Nat : \E s \in SUBSET S : Cardinality(s) = n /\ ~Good(s)}
<1>1. Good({})
  BY DEF IsSum
<1>2. ASSUME NEW s \in SUBSET S, s # {}, Good(s \ {Taken(s)}) PROVE Good(s)
  <2>1. Taken(s) \in S
    BY <1>2, TakenOut
  <2>2. /\ d[s] = e[Taken(s)] + d[s \ {Taken(s)}]
        /\ g[s] = f[Taken(s)] + g[s \ {Taken(s)}]
    BY <1>2 DEF IsSum
  <2>3. /\ e[Taken(s)] \in Int /\ f[Taken(s)] \in Int
        /\ e[Taken(s)] <= f[Taken(s)]
    BY <2>1
  <2>4. QED
    BY <1>2, <2>2, <2>3
<1> HIDE DEF Good
<1>3. T = {}
  <2>1. ASSUME T # {} PROVE FALSE
    <3>1. PICK n \in T : \A m \in T : n <= m
      BY <2>1, LeastNumber
    <3>2. PICK s \in SUBSET S : Cardinality(s) = n /\ ~Good(s)
      BY <3>1
    <3>3. s # {}
      BY <1>1, <3>2
    <3>4. /\ s \ {Taken(s)} \in SUBSET S
          /\ Cardinality(s) \in Nat /\ Cardinality(s \ {Taken(s)}) = n - 1
      BY <3>2, <3>3, TakenOut
    <3>5. n # 0
      BY <3>2, <3>3, FS_Subset, FS_EmptySet
    <3>6. n - 1 \in Nat /\ n - 1 \notin T
      BY <3>1, <3>2, <3>4, <3>5
    <3>7. Good(s \ {Taken(s)})
      BY <3>4, <3>6
    <3>8. QED
      BY <1>2, <3>2, <3>3, <3>7
  <2>2. QED
    BY <2>1
<1>4. S \in SUBSET S /\ Cardinality(S) \in Nat
  BY FS_CardinalityType
<1>5. Good(S)
  BY <1>3, <1>4
<1>6. QED
  BY <1>5 DEF Good

-----------------------------------------------------------------------------
(* The checks of what generated code has produced                          *)

\* The sum of f over S.
SumOf(f, S) == (CHOOSE g : IsSum(g, f, S))[S]

\* Sums of smaller numbers are smaller, and a sum of integers is one.
LEMMA SumOfCompare ==
  ASSUME NEW S, IsFiniteSet(S), NEW e \in [S -> Int], NEW f \in [S -> Int],
         \A x \in S : e[x] <= f[x]
  PROVE  SumOf(e, S) \in Int /\ SumOf(f, S) \in Int /\ SumOf(e, S) <= SumOf(f, S)
<1>1. IsSum(CHOOSE g : IsSum(g, e, S), e, S) /\ IsSum(CHOOSE g : IsSum(g, f, S), f, S)
  BY SumExists
<1>2. QED
  BY <1>1, SumCompare DEF SumOf

\* A sum of integers is an integer.
LEMMA SumOfInt ==
  ASSUME NEW S, IsFiniteSet(S), NEW f \in [S -> Int]
  PROVE  SumOf(f, S) \in Int
<1>1. \A x \in S : f[x] <= f[x]
  OBVIOUS
<1>2. QED
  BY <1>1, SumOfCompare

\* A sum of numbers of which none is negative is at least each of them.
LEMMA SumOfOne ==
  ASSUME NEW S, IsFiniteSet(S), NEW f \in [S -> Int], NEW x \in S,
         \A y \in S : 0 <= f[y]
  PROVE  f[x] <= SumOf(f, S)
<1> DEFINE e == [y \in S |-> IF y = x THEN f[x] ELSE 0]
           d == [s \in SUBSET S |-> IF x \in s THEN f[x] ELSE 0]
<1>1. e \in [S -> Int] /\ \A y \in S : e[y] <= f[y]
  OBVIOUS
<1>2. \A s \in SUBSET S : s # {} =>
        d[s] = e[Taken(s)] + d[s \ {Taken(s)}]
  <2>1. ASSUME NEW s \in SUBSET S, s # {} PROVE d[s] = e[Taken(s)] + d[s \ {Taken(s)}]
    <3>1. Taken(s) \in s /\ Taken(s) \in S /\ s \ {Taken(s)} \in SUBSET S
      BY <2>1, TakenOut
    <3>2. f[x] \in Int
      OBVIOUS
    <3>3. CASE Taken(s) = x
      BY <3>1, <3>2, <3>3
    <3>4. CASE Taken(s) # x
      <4>1. e[Taken(s)] = 0 /\ (x \in s \ {Taken(s)} <=> x \in s)
        BY <3>1, <3>4
      <4>2. d[s] = d[s \ {Taken(s)}] /\ d[s] \in Int
        BY <3>1, <3>2, <4>1
      <4>3. QED
        BY <4>1, <4>2
    <3>5. QED
      BY <3>3, <3>4
  <2>2. QED
    BY <2>1
<1>3. IsSum(d, e, S)
  BY <1>2, ZenonT(60) DEF IsSum
<1>4. IsSum(CHOOSE g : IsSum(g, f, S), f, S)
  BY SumExists
<1> HIDE DEF e
<1>5. d[S] <= SumOf(f, S)
  <2> HIDE DEF d
  <2>1. QED
    BY <1>1, <1>3, <1>4, SumCompare DEF SumOf
<1>6. QED
  BY <1>5

\* A sum of numbers of which none is negative is not negative, and one of which none is
\* positive is not positive.
LEMMA SumOfSign ==
  ASSUME NEW S, IsFiniteSet(S), NEW f \in [S -> Int]
  PROVE  /\ (\A x \in S : 0 <= f[x]) => 0 <= SumOf(f, S)
         /\ (\A x \in S : f[x] <= 0) => SumOf(f, S) <= 0
<1> DEFINE z == [x \in S |-> 0]
           d == [s \in SUBSET S |-> 0]
<1>1. z \in [S -> Int] /\ \A x \in S : z[x] = 0
  OBVIOUS
<1>2. IsSum(d, z, S)
  <2>1. \A s \in SUBSET S : s # {} => Taken(s) \in S /\ s \ {Taken(s)} \in SUBSET S
    BY TakenOut
  <2>2. \A s \in SUBSET S : (IF s = {} THEN 0 ELSE z[Taken(s)] + d[s \ {Taken(s)}]) = 0
    BY <2>1
  <2>3. d = [s \in SUBSET S |-> IF s = {} THEN 0 ELSE z[Taken(s)] + d[s \ {Taken(s)}]]
    BY <2>2
  <2>4. QED
    BY <2>3 DEF IsSum
<1>3. IsSum(CHOOSE g : IsSum(g, f, S), f, S)
  BY SumExists
<1>4. d[S] = 0
  OBVIOUS
<1> HIDE DEF z, d
<1>5. (\A x \in S : 0 <= f[x]) => d[S] <= SumOf(f, S)
  BY <1>1, <1>2, <1>3, SumCompare DEF SumOf
<1>6. (\A x \in S : f[x] <= 0) => SumOf(f, S) <= d[S]
  BY <1>1, <1>2, <1>3, SumCompare DEF SumOf
<1>7. QED
  BY <1>4, <1>5, <1>6

\* What a cell adds to the sum of its column.
Weight(column) == [x \in DOMAIN column |-> IF x = Null THEN 0 ELSE x * column[x]]

\* The rows of a column and the sum of its cells are sums over its values.
LEMMA ColumnSums ==
  ASSUME NEW column
  PROVE  /\ Rows(column) = SumOf(column, DOMAIN column)
         /\ Total(column) = SumOf(Weight(column), DOMAIN column)
<1>1. Rows(column) = SumOf(column, DOMAIN column)
  BY DEF Rows, MapThenSumSet, MapThenFoldSet, IsSum, SumOf, Taken
<1>2. Total(column) = SumOf(Weight(column), DOMAIN column)
  BY DEF Total, MapThenSumSet, MapThenFoldSet, IsSum, SumOf, Taken, Weight
<1>3. QED
  BY <1>1, <1>2

\* A column of no rows has no cells, and no column has fewer than none.
LEMMA RowsOfColumn ==
  ASSUME NEW values, IsFiniteSet(values), NEW c \in [values -> 0..MaxRows]
  PROVE  Rows(c) \in Nat /\ \A x \in values : c[x] <= Rows(c)
<1>1. c \in [values -> Int] /\ \A x \in values : 0 <= c[x] /\ c[x] <= c[x]
  BY OutputChecksAssumption
<1>2. DOMAIN c = values
  OBVIOUS
<1>3. SumOf(c, values) \in Int /\ 0 <= SumOf(c, values)
  BY <1>1, SumOfCompare, SumOfSign
<1>4. \A x \in values : c[x] <= SumOf(c, values)
  BY <1>1, SumOfOne
<1>5. QED
  BY <1>2, <1>3, <1>4, ColumnSums

\* A smaller number of rows of each number adds up to less, and with no negative
\* number there is no negative sum, and none at all without rows.
LEMMA SelectionSums ==
  ASSUME NEW b \in [Cell -> 0..MaxRows], NEW c \in [Cell -> 0..MaxRows],
         \A x \in Cell : x < 0 => c[x] = 0
  PROVE  /\ Total(b) \in Int /\ Total(c) \in Int /\ 0 <= Total(c)
         /\ (\A x \in Cell : b[x] <= c[x]) => Rows(b) <= Rows(c) /\ Total(b) <= Total(c)
         /\ Rows(b) = 0 => Total(b) = 0
<1> USE OutputChecksAssumption
<1>1. IsFiniteSet(Cell) /\ DOMAIN b = Cell /\ DOMAIN c = Cell
  OBVIOUS
<1>2. /\ b \in [Cell -> Int] /\ c \in [Cell -> Int]
      /\ Weight(b) \in [Cell -> Int] /\ Weight(c) \in [Cell -> Int]
  BY <1>1 DEF Weight
<1>3. \A x \in Cell : Weight(b)[x] = x * b[x] /\ Weight(c)[x] = x * c[x]
  BY <1>1 DEF Weight
<1>4. \A x \in Cell : 0 <= Weight(c)[x]
  <2>1. ASSUME NEW x \in Cell PROVE 0 <= x * c[x]
    <3>1. x \in Int /\ c[x] \in Int /\ 0 <= c[x] /\ (x < 0 => c[x] = 0)
      OBVIOUS
    <3>2. QED
      BY <3>1
  <2>2. QED
    BY <1>3, <2>1
<1>5. Total(b) \in Int /\ Total(c) \in Int /\ 0 <= Total(c)
  <2>1. SumOf(Weight(b), Cell) \in Int /\ SumOf(Weight(c), Cell) \in Int
    BY <1>1, <1>2, SumOfInt
  <2>2. 0 <= SumOf(Weight(c), Cell)
    BY <1>1, <1>2, <1>4, SumOfSign
  <2>3. Total(b) = SumOf(Weight(b), Cell) /\ Total(c) = SumOf(Weight(c), Cell)
    BY <1>1, ColumnSums
  <2>4. QED
    BY <2>1, <2>2, <2>3
<1>6. ASSUME \A x \in Cell : b[x] <= c[x] PROVE Rows(b) <= Rows(c) /\ Total(b) <= Total(c)
  <2>1. ASSUME NEW x \in Cell PROVE x * b[x] <= x * c[x]
    <3>1. /\ x \in Int /\ b[x] \in Int /\ c[x] \in Int /\ 0 <= b[x] /\ b[x] <= c[x]
          /\ x < 0 => c[x] = 0
      BY <1>6
    <3>2. CASE x < 0
      BY <3>1, <3>2
    <3>3. CASE ~(x < 0)
      <4>1. x * (c[x] - b[x]) >= 0
        BY <3>1, <3>3
      <4>2. x * c[x] - x * b[x] = x * (c[x] - b[x])
        BY <3>1
      <4>3. QED
        BY <3>1, <4>1, <4>2
    <3>4. QED
      BY <3>2, <3>3
  <2>2. \A x \in Cell : Weight(b)[x] <= Weight(c)[x]
    BY <1>3, <2>1
  <2>3. SumOf(b, Cell) <= SumOf(c, Cell)
    BY <1>1, <1>2, <1>6, SumOfCompare
  <2>4. SumOf(Weight(b), Cell) <= SumOf(Weight(c), Cell)
    BY <1>1, <1>2, <2>2, SumOfCompare
  <2>5. QED
    BY <1>1, <2>3, <2>4, ColumnSums
<1>7. ASSUME Rows(b) = 0 PROVE Total(b) = 0
  <2>1. \A x \in Cell : b[x] = 0
    <3>1. \A x \in Cell : b[x] <= Rows(b)
      BY <1>1, RowsOfColumn
    <3>2. QED
      BY <1>7, <3>1
  <2>2. \A x \in Cell : Weight(b)[x] = 0
    BY <1>3, <2>1
  <2>3. QED
    <3>1. SumOf(Weight(b), Cell) <= 0 /\ 0 <= SumOf(Weight(b), Cell)
      <4>1. \A x \in Cell : Weight(b)[x] <= 0 /\ 0 <= Weight(b)[x]
        BY <2>2
      <4>2. QED
        BY <1>1, <1>2, <4>1, SumOfSign
    <3>2. QED
      BY <1>1, <1>5, <3>1, ColumnSums
<1>8. QED
  BY <1>5, <1>6, <1>7

\* Of three numbers there is a greatest.
LEMMA MaxOfThree ==
  ASSUME NEW a \in Int, NEW b \in Int, NEW c \in Int
  PROVE  Max({a, b, c}) \in {a, b, c} /\ \A y \in {a, b, c} : y <= Max({a, b, c})
<1>1. \E x \in {a, b, c} : \A y \in {a, b, c} : x >= y
  OBVIOUS
<1>2. /\ Max({a, b, c}) \in {a, b, c}
      /\ \A y \in {a, b, c} : Max({a, b, c}) >= y
  BY <1>1 DEF Max
<1>3. QED
  BY <1>2

\* What is checked of a table.
LEMMA TableTyped ==
  ASSUME NEW t \in Table
  PROVE  /\ t.kind = "table" /\ t.column \in [Value -> 0..MaxRows] /\ t.rule \in Rule
         /\ t.number \in BOOLEAN /\ t.twice \in BOOLEAN
         /\ t.bronze \in Bronze \X Bronze
<1>1. NumbersOnly \in Bronze
  BY DEF NumbersOnly, Bronze
<1>2. \/ t \in [kind : {"table"}, column : ColumnsOf(Value), number : BOOLEAN,
                 twice : BOOLEAN, rule : Rule, bronze : {<<NumbersOnly, NumbersOnly>>}]
      \/ t \in [kind : {"table"}, column : ColumnsOf(Value), number : BOOLEAN,
                 twice : BOOLEAN, rule : {r \in Rule : NoRule(r)}, bronze : Bronze \X Bronze]
  BY Zenon DEF Table
<1>3. /\ t.kind \in {"table"} /\ t.column \in ColumnsOf(Value)
      /\ t.number \in BOOLEAN /\ t.twice \in BOOLEAN
      /\ t.rule \in Rule \cup {r \in Rule : NoRule(r)}
      /\ t.bronze \in {<<NumbersOnly, NumbersOnly>>} \cup (Bronze \X Bronze)
  BY <1>2, Zenon
<1>4. QED
  BY <1>1, <1>3 DEF ColumnsOf

\* The code evaluates the negation of what an operator means.
LEMMA ViolatesMeant ==
  ASSUME NEW op \in Operator, NEW x \in Int, NEW v \in Int, x # Null
  PROVE  Violates(op, x, v) <=> ~Meant(op, x, v)
<1>1. CASE op \in {"not_null", "eq", "ne"}
  BY <1>1 DEF Violates, Meant
<1>2. /\ op = "gte" => (Violates(op, x, v) <=> x < v) /\ (Meant(op, x, v) <=> x >= v)
      /\ op = "lte" => (Violates(op, x, v) <=> x > v) /\ (Meant(op, x, v) <=> x <= v)
  BY Zenon DEF Violates, Meant
<1>3. /\ op = "gt" => (Violates(op, x, v) <=> x <= v) /\ (Meant(op, x, v) <=> x > v)
      /\ op = "lt" => (Violates(op, x, v) <=> x >= v) /\ (Meant(op, x, v) <=> x < v)
  BY Zenon DEF Violates, Meant
<1>4. QED
  BY <1>1, <1>2, <1>3 DEF Operator

\* A rule is kept exactly if no value violates it.
LEMMA RuleKept ==
  ASSUME NEW t \in Table, ~Incomparable(t)
  PROVE  Violations(t) = {} <=> Kept(t)
<1>1. /\ t.column \in [Value -> 0..MaxRows] /\ t.number \in BOOLEAN
      /\ t.rule.operator \in Operator /\ t.rule.value \in Cell
  BY TableTyped DEF Rule
<1>2. Cell \subseteq Int /\ Null \notin Cell /\ MaxRows \in Nat
  BY OutputChecksAssumption
<1>3. \A x \in Value : t.column[x] \in Nat
  BY <1>1, <1>2
<1>4. CASE t.number
  <2>1. \A x \in Cell :
          Violates(t.rule.operator, x, t.rule.value) <=> ~Meant(t.rule.operator, x, t.rule.value)
    BY <1>1, <1>2, ViolatesMeant
  <2>2. Violates(t.rule.operator, Null, t.rule.value) <=> t.rule.operator \in {"eq", "not_null"}
    BY <1>1, <1>2 DEF Violates, Operator
  <2>3. Violations(t) = {} <=> \A x \in Value : t.column[x] > 0
                                 => ~Violates(t.rule.operator, x, t.rule.value)
    BY <1>4 DEF Violations
  <2>4. t.column[Null] \in Nat /\ Value = Cell \cup {Null}
    BY <1>3 DEF Value
  <2>5. QED
    BY <1>4, <2>1, <2>2, <2>3, <2>4 DEF Kept
<1>5. CASE ~t.number
  <2>1. t.rule.operator \in {"not_null", "eq", "ne"}
    BY <1>1, <1>5 DEF Incomparable, Operator
  <2>2. \A x : x \in Violations(t)
               <=> /\ x \in Value /\ t.column[x] > 0
                   /\ \/ t.rule.operator = "eq"
                      \/ t.rule.operator = "not_null" /\ x = Null
    BY <1>5, Zenon DEF Violations
  <2>3. t.column[Null] \in Nat /\ Null \in Value /\ Value = Cell \cup {Null}
    BY <1>3 DEF Value
  <2>4. Kept(t) <=> /\ t.rule.operator \in {"eq", "not_null"} => t.column[Null] = 0
                    /\ \A x \in Cell : t.column[x] > 0 => t.rule.operator \in {"ne", "not_null"}
    BY <1>5, Zenon DEF Kept
  <2>5. CASE t.rule.operator = "ne"
    BY <2>2, <2>4, <2>5
  <2>6. CASE t.rule.operator = "not_null"
    BY <2>2, <2>3, <2>4, <2>6
  <2>7. CASE t.rule.operator = "eq"
    <3>1. \A x \in Value : t.column[x] = 0 <=> ~(t.column[x] > 0)
      BY <1>3
    <3>2. QED
      BY <2>2, <2>3, <2>4, <2>7, <3>1
  <2>8. QED
    BY <2>1, <2>5, <2>6, <2>7
<1>6. QED
  BY <1>1, <1>4, <1>5

\* The quality gate stops what it is meant to stop, and nothing else.
LEMMA TableRight ==
  ASSUME NEW t \in Table, QualityNode(t)
  PROVE  TableIsRight(t)'
<1>1. /\ t.column \in [Value -> 0..MaxRows] /\ t.rule \in Rule /\ t.number \in BOOLEAN
      /\ t.twice \in BOOLEAN /\ t.bronze \in Bronze \X Bronze
  BY TableTyped
<1>2. Rows(t.column) \in Nat /\ t.column[Null] \in Nat
  <2>1. IsFiniteSet(Value)
    BY OutputChecksAssumption, FS_AddElement DEF Value
  <2>2. QED
    BY <1>1, <2>1, RowsOfColumn, OutputChecksAssumption DEF Value
<1>3. ocReport' = IF t.twice THEN {[check |-> "duplicate_columns", severity |-> "error"]}
                  ELSE CheckNulls(t) \cup CheckCoercedLoss(t) \cup CheckCustomRule(t)
  BY DEF QualityNode
<1>4. (\E r \in CheckNulls(t) : r.severity = "error")
        <=> Rows(t.column) > 0 /\ 100 * t.column[Null] >= 20 * Rows(t.column)
  <2> DEFINE n == Rows(t.column)
             m == t.column[Null]
             E == [check |-> "null", severity |-> "error"]
             W == [check |-> "null", severity |-> "warning"]
  <2>1. E.severity = "error" /\ W.severity = "warning"
    OBVIOUS
  <2>2. 100 * m >= 20 * n <=> m * 5 >= n
    BY <1>2
  <2>3. n > 0 /\ m * 5 >= n => CheckNulls(t) = {E}
    BY <1>2 DEF CheckNulls
  <2>4. ~(n > 0 /\ m * 5 >= n) => CheckNulls(t) \subseteq {W}
    BY <1>2 DEF CheckNulls
  <2> HIDE DEF n, m, E, W
  <2>5. QED
    BY <2>1, <2>2, <2>3, <2>4 DEF n, m
<1>5. ~ \E r \in CheckCoercedLoss(t) : r.severity = "error"
  BY DEF CheckCoercedLoss
<1>6. (\E r \in CheckCustomRule(t) : r.severity = "error")
        <=> \/ t.rule.severity = "error" /\ (~Incomparable(t) => ~Kept(t))
            \/ ~t.rule.present \/ Incomparable(t)
  <2> DEFINE E == [check |-> "custom_rule", severity |-> "error"]
             W == [check |-> "custom_rule", severity |-> t.rule.severity]
  <2>1. E.severity = "error" /\ W.severity = t.rule.severity
    OBVIOUS
  <2>2. ~t.rule.present \/ Incomparable(t) => CheckCustomRule(t) = {E}
    BY DEF CheckCustomRule
  <2>3. t.rule.present /\ ~Incomparable(t) =>
          CheckCustomRule(t) = IF Violations(t) # {} THEN {W} ELSE {}
    BY DEF CheckCustomRule
  <2> HIDE DEF E, W
  <2>4. CASE ~t.rule.present \/ Incomparable(t)
    BY <2>1, <2>2, <2>4
  <2>5. CASE t.rule.present /\ ~Incomparable(t)
    BY <2>1, <2>3, <2>5, RuleKept
  <2>6. QED
    BY <2>4, <2>5
<1>7. Blocked' <=> \/ t.twice
                   \/ Rows(t.column) > 0 /\ 100 * t.column[Null] >= 20 * Rows(t.column)
                   \/ t.rule.severity = "error" /\ (~Incomparable(t) => ~Kept(t))
                   \/ ~t.rule.present \/ Incomparable(t)
  BY <1>1, <1>3, <1>4, <1>5, <1>6 DEF Blocked
<1>8. ASSUME t.number, ~t.twice, t.bronze[1].text, t.bronze[1].unparsable = 1, Blanks(t) > 0
      PROVE  Flagged("coerced_numeric_loss")'
  <2>1. CheckCoercedLoss(t) = {[check |-> "coerced_numeric_loss", severity |-> "warning"]}
    BY <1>8 DEF CheckCoercedLoss, FirstText
  <2>2. [check |-> "coerced_numeric_loss", severity |-> "warning"] \in ocReport'
    BY <1>3, <1>8, <2>1
  <2>3. QED
    BY <2>2 DEF Flagged
<1>9. QED
  BY <1>7, <1>8 DEF TableIsRight

\* Which of the checks of a result have reported.
LEMMA GoldReport ==
  ASSUME NEW g, CheckGoldOutput(g)
  PROVE  /\ Flagged("sum_conservation")'
              <=> /\ Rows(g.silver) > 0 /\ Rows(g.gold) > 0 /\ Total(g.silver) >= 0
                  /\ Total(g.gold) * 200 > Total(g.silver) * 201
         /\ Flagged("row_count_bound")'
              <=> Rows(g.silver) > 0 /\ Rows(g.gold) > Rows(g.silver)
<1> DEFINE C == [check |-> "sum_conservation", severity |-> "warning"]
           B == [check |-> "row_count_bound", severity |-> "warning"]
           E == [check |-> "empty_result", severity |-> "warning"]
           more == /\ Rows(g.silver) > 0 /\ Rows(g.gold) > 0 /\ Total(g.silver) >= 0
                   /\ Total(g.gold) * 200 > Total(g.silver) * 201
           longer == Rows(g.silver) > 0 /\ Rows(g.gold) > Rows(g.silver)
           empty == Rows(g.gold) = 0 /\ g.cites
<1>1. C.check = "sum_conservation" /\ B.check = "row_count_bound" /\ E.check = "empty_result"
  OBVIOUS
<1>2. ocReport' = (IF more THEN {C} ELSE {}) \cup (IF longer THEN {B} ELSE {})
                  \cup (IF empty THEN {E} ELSE {})
  BY Zenon DEF CheckGoldOutput, Warning
<1>3. /\ Flagged("sum_conservation")' <=> more
      /\ Flagged("row_count_bound")' <=> longer
  <2> HIDE DEF C, B, E, more, longer, empty
  <2>1. \A r : r \in ocReport' <=> (more /\ r = C) \/ (longer /\ r = B) \/ (empty /\ r = E)
    BY <1>2, Zenon
  <2>2. "sum_conservation" # "row_count_bound" /\ "sum_conservation" # "empty_result"
        /\ "row_count_bound" # "empty_result"
    OBVIOUS
  <2>3. QED
    BY <1>1, <2>1, <2>2, Zenon DEF Flagged
<1>4. QED
  BY <1>3 DEF more, longer

\* A selection of rows is not suspected, and too much is.
LEMMA GoldRight ==
  ASSUME NEW g \in Gold, CheckGoldOutput(g)
  PROVE  GoldIsRight(g)'
<1>1. /\ g.silver \in [Cell -> 0..MaxRows] /\ g.gold \in [Cell -> 0..MaxRows]
  BY DEF Gold, ColumnsOf
<1>2. IsFiniteSet(Cell)
  BY OutputChecksAssumption
<1>3. Rows(g.silver) \in Nat /\ Rows(g.gold) \in Nat
  BY <1>1, <1>2, RowsOfColumn
<1>4. ASSUME \A x \in Cell : x < 0 => g.silver[x] = 0, Rows(g.silver) > 0
      PROVE  /\ (\A x \in Cell : g.gold[x] <= g.silver[x]) =>
                  ~Flagged("sum_conservation")' /\ ~Flagged("row_count_bound")'
             /\ Total(g.gold) > 2 * Total(g.silver) => Flagged("sum_conservation")'
  <2>1. /\ Total(g.gold) \in Int /\ Total(g.silver) \in Int /\ 0 <= Total(g.silver)
        /\ (\A x \in Cell : g.gold[x] <= g.silver[x])
             => Rows(g.gold) <= Rows(g.silver) /\ Total(g.gold) <= Total(g.silver)
        /\ Rows(g.gold) = 0 => Total(g.gold) = 0
    BY <1>1, <1>4, SelectionSums
  <2>2. Flagged("sum_conservation")'
          <=> /\ Rows(g.silver) > 0 /\ Rows(g.gold) > 0 /\ Total(g.silver) >= 0
              /\ Total(g.gold) * 200 > Total(g.silver) * 201
    BY GoldReport
  <2>3. Flagged("row_count_bound")' <=> Rows(g.silver) > 0 /\ Rows(g.gold) > Rows(g.silver)
    BY GoldReport
  <2>4. QED
    BY <1>3, <1>4, <2>1, <2>2, <2>3
<1>5. QED
  BY <1>4 DEF GoldIsRight

\* A prediction is suspected far from its history, and not inside of it.
LEMMA ScienceRight ==
  ASSUME NEW s \in Science, CheckScienceOutput(s)
  PROVE  ScienceIsRight(s)'
<1>1. s.low \in Int /\ s.high \in Int /\ s.predicted \in Int /\ s.low <= s.high
  BY OutputChecksAssumption DEF Science, CheckScienceOutput
<1>2. Abs(s.high) \in Int /\ (s.high >= 0 => Abs(s.high) = s.high)
  BY <1>1 DEF Abs
<1>3. /\ Span(s) \in {s.high - s.low, Abs(s.high), 1}
      /\ \A y \in {s.high - s.low, Abs(s.high), 1} : y <= Span(s)
  <2>1. s.high - s.low \in Int /\ 1 \in Int
    BY <1>1
  <2>2. QED
    BY <1>2, <2>1, MaxOfThree DEF Span
<1>4. Span(s) \in Int /\ Span(s) >= 1
  BY <1>1, <1>2, <1>3
<1>5. s.high >= 1 /\ s.low >= 0 => Span(s) = s.high
  BY <1>1, <1>2, <1>3, <1>4
<1>6. Flagged("prediction_range")' <=> \/ s.predicted < s.low - 3 * Span(s)
                                       \/ s.predicted > s.high + 3 * Span(s)
  BY DEF CheckScienceOutput, Warning, Flagged
<1>7. QED
  BY <1>1, <1>4, <1>5, <1>6 DEF ScienceIsRight

\* What the checks say once they have been made.
LEMMA ChecksStep ==
  ASSUME OCTypeOK, ChecksAreRight, [OCNext]_ocVars
  PROVE  OCTypeOK' /\ ChecksAreRight'
<1>1. ASSUME NEW t \in Table, QualityNode(t) PROVE OCTypeOK' /\ ChecksAreRight'
  <2>1. ocInput' = t /\ t.kind = "table" /\ TableIsRight(t)'
    BY <1>1, TableTyped, TableRight DEF QualityNode
  <2>2. ASSUME NEW r \in ocReport' PROVE r.severity \in {"warning", "error"}
    <3>1. t.rule.severity \in {"warning", "error"}
      BY TableTyped DEF Rule
    <3>2. QED
      BY <1>1, <2>2, <3>1 DEF QualityNode, CheckNulls, CheckCoercedLoss, CheckCustomRule
  <2>3. QED
    BY <2>1, <2>2 DEF OCTypeOK, ChecksAreRight
<1>2. ASSUME NEW g \in Gold, CheckGoldOutput(g) PROVE OCTypeOK' /\ ChecksAreRight'
  <2>1. ocInput' = g /\ g.kind = "gold" /\ GoldIsRight(g)'
    BY <1>2, GoldRight DEF CheckGoldOutput, Gold
  <2>2. \A r \in ocReport' : r.severity \in {"warning", "error"}
    BY <1>2 DEF CheckGoldOutput, Warning
  <2>3. QED
    BY <2>1, <2>2 DEF OCTypeOK, ChecksAreRight
<1>3. ASSUME NEW s \in Science, CheckScienceOutput(s) PROVE OCTypeOK' /\ ChecksAreRight'
  <2>1. ocInput' = s /\ s.kind = "science" /\ ScienceIsRight(s)'
    BY <1>3, ScienceRight DEF CheckScienceOutput, Science
  <2>2. \A r \in ocReport' : r.severity \in {"warning", "error"}
    BY <1>3 DEF CheckScienceOutput, Warning
  <2>3. QED
    BY <2>1, <2>2 DEF OCTypeOK, ChecksAreRight
<1>4. CASE UNCHANGED ocVars
  BY <1>4 DEF ocVars, OCTypeOK, ChecksAreRight, TableIsRight, GoldIsRight, ScienceIsRight,
              Blocked, Flagged
<1>5. QED
  BY <1>1, <1>2, <1>3, <1>4 DEF OCNext

\* The types and the meaning of the reports.
LEMMA ChecksInvariant == OCSpec => [](OCTypeOK /\ ChecksAreRight)
<1>1. OCInit => OCTypeOK /\ ChecksAreRight
  BY DEF OCInit, OCTypeOK, ChecksAreRight
<1>2. QED
  BY <1>1, ChecksStep, PTL DEF OCSpec

\* Whatever is checked, a report has errors and warnings.
THEOREM ChecksTypeCorrect == OCSpec => []OCTypeOK
BY ChecksInvariant, PTL

\* The checks stop, report and let through what they are meant to: for any finite set of
\* numbers, any number of rows and any forecasts.
THEOREM ChecksCorrect == OCSpec => []ChecksAreRight
BY ChecksInvariant, PTL

-----------------------------------------------------------------------------
(* The parts side by side                                                  *)

\* Whichever part a behaviour of MCRuns is of, every part behaves as its own
\* specification says.
THEOREM RunsParts == RunsSpec => Spec /\ CSSpec /\ CNSpec /\ OCSpec /\ ACSpec
<1>1. RunsInit => Init /\ CSInit /\ CNInit /\ OCInit /\ ACInit
  BY DEF RunsInit
<1>2. [RunsNext]_runsVars
        => [Next]_vars /\ [CSNext]_csVars /\ [CNNext]_cnVars /\ [OCNext]_ocVars /\ [ACNext]_acVars
  BY DEF RunsNext, runsVars, dataVars
<1>3. QED
  BY <1>1, <1>2, PTL DEF RunsSpec, Spec, CSSpec, CNSpec, OCSpec, ACSpec

\* Every part keeps to its types: what one step of the code leaves in a table, a file or a
\* thread is of a shape that every later step expects, for any number of runs,
\* requests, loads and connections.
THEOREM RunsTypeCorrect == RunsSpec => []RunsTypeOK
<1> DEFINE KnownPart == part \in {"approval", "file", "connections", "checks", "admin"}
<1>1. RunsInit => KnownPart
  BY DEF RunsInit
<1>2. KnownPart /\ [RunsNext]_runsVars => KnownPart'
  BY DEF RunsNext, runsVars
<1>3. RunsSpec => []KnownPart
  BY <1>1, <1>2, PTL DEF RunsSpec
<1>4. KnownPart /\ TypeOK /\ CSTypeOK /\ CNTypeOK /\ OCTypeOK /\ ACTypeOK => RunsTypeOK
  BY DEF RunsTypeOK
<1>5. QED
  BY <1>3, <1>4, RunsParts, TypeCorrect, FilesTypeCorrect, ConnectionsTypeCorrect,
     ChecksTypeCorrect, AccessTypeCorrect, PTL

\* What the run of MCRuns checks of the safety of its parts, for every number of runs,
\* requests, loads and threads, and every table.
THEOREM RunsCorrect ==
  RunsSpec => [](/\ GateHolds /\ PendingHasArtifacts /\ OneDecision
                 /\ LoadsWhatIsThere /\ ConnectsToItsOwn /\ ChecksAreRight /\ LoggedOnce)
BY RunsParts, GateCorrect, ArtifactsCorrect, DecisionCorrect, LoadsCorrect, ConnectsCorrect,
   ChecksCorrect, LogCorrect, PTL
=============================================================================
