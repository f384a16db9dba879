-------------------------- MODULE Scheduler_proofs --------------------------
(***************************************************************************)
(* Proofs about Scheduler, for any number of ticks and PATCH requests, any *)
(* cron expressions and any horizon.                                       *)
(***************************************************************************)
EXTENDS Scheduler, TLAPS

\* Cron expressions are sets of instants, and instants are numbers.
LEMMA Instants ==
  /\ Instant \subseteq Nat
  /\ \A cron \in Crons : cron \subseteq Instant
  /\ Keep \notin Instant
  BY CronAssumption, KeepAssumption DEF Instant

(***************************************************************************)
(* Type correctness                                                        *)
(***************************************************************************)

\* A step keeps every variable in its type; in particular a PATCH leaves the
\* columns it omits alone.
LEMMA TypeStep == TypeOK /\ [Next]_vars => TypeOK'
<1> SUFFICES ASSUME TypeOK, [Next]_vars PROVE TypeOK'
  OBVIOUS
<1> USE BoundAssumption DEF TypeOK, Places, tickVars, patchVars, historyVars
<1>1. ASSUME NEW t \in Tick, TickStep(t) PROVE TypeOK'
  <2>1. CASE TickLists(t)
    BY <2>1 DEF TickLists, TickGoto
  <2>2. CASE TickFindsNothing(t)
    BY <2>2 DEF TickFindsNothing, vars
  <2>3. CASE TickClaims(t)
    BY <2>3 DEF TickClaims, TickGoto
  <2>4. CASE TickLosesClaim(t)
    BY <2>4 DEF TickLosesClaim, TickGoto
  <2>5. CASE TickEnqueues(t)
    BY <2>5 DEF TickEnqueues, TickGoto
  <2>6. CASE TickEnqueueFails(t)
    BY <2>6 DEF TickEnqueueFails, TickGoto
  <2>7. CASE TickReleases(t)
    BY <2>7 DEF TickReleases, TickGoto
  <2>8. CASE TickRecords(t)
    BY <2>8 DEF TickRecords, TickGoto
  <2>9. CASE TickEnqueueUnanswered(t)
    BY <2>9 DEF TickEnqueueUnanswered, TickGoto
  <2> QED
    BY <1>1, <2>1, <2>2, <2>3, <2>4, <2>5, <2>6, <2>7, <2>8, <2>9 DEF TickStep
<1>2. ASSUME NEW t \in Tick, TickCrashes(t) PROVE TypeOK'
  BY <1>2 DEF TickCrashes
<1>3. ASSUME NEW p \in Patch, PatchStep(p) PROVE TypeOK'
  <2>1. ASSUME NEW active \in BOOLEAN \cup {Keep}, NEW cron \in Crons \cup {Keep},
               PatchReads(p, active, cron)
        PROVE TypeOK'
    BY <2>1 DEF PatchReads
  <2>2. CASE PatchWrites(p)
    <3>1. values[p] \in [active : BOOLEAN \cup {Keep}, cron : Crons \cup {Keep},
                         next : Instant \cup {Keep}]
      OBVIOUS
    <3>2. row' \in [exists : BOOLEAN, active : BOOLEAN, cron : Crons, next : Instant]
      BY <2>2, <3>1 DEF PatchWrites
    <3> QED
      BY <2>2, <3>2 DEF PatchWrites
  <2> QED
    BY <1>3, <2>1, <2>2 DEF PatchStep
<1>4. CASE Delete
  BY <1>4 DEF Delete
<1>5. CASE Advance
  BY <1>5 DEF Advance
<1>6. CASE UNCHANGED vars
  BY <1>6 DEF vars
<1> QED
  BY <1>1, <1>2, <1>3, <1>4, <1>5, <1>6 DEF Next

\* TypeOK holds in every reachable state.
THEOREM TypeCorrect == Spec => []TypeOK
<1>1. ASSUME Init PROVE TypeOK
  <2>1. row \in [exists : BOOLEAN, active : BOOLEAN, cron : Crons, next : Instant]
    BY <1>1 DEF Init
  <2>2. /\ expected \in [Tick -> Instant] /\ claimed \in [Tick -> Instant]
        /\ listedCron \in [Tick -> Crons]
    BY <1>1, <2>1 DEF Init
  <2>3. /\ at \in [Tick -> Places]
        /\ patch \in [Patch -> {"new", "computed", "done"}]
        /\ values \in [Patch -> [active : BOOLEAN \cup {Keep}, cron : Crons \cup {Keep},
                                 next : Instant \cup {Keep}]]
    BY <1>1 DEF Init, Places
  <2>4. /\ fired \in [Instant -> Nat] /\ unanswered \in [Instant -> Nat] /\ lost \in [Instant -> Nat]
        /\ overtaken \in [Instant -> Nat]
    BY <1>1 DEF Init
  <2>5. now \in 0..Horizon /\ lastTask \in Instant \cup {0} /\ crashes \in 0..MaxCrashes
    BY <1>1, BoundAssumption DEF Init
  <2>6. rewritten \in BOOLEAN
    BY <1>1 DEF Init
  <2> QED
    BY <2>1, <2>2, <2>3, <2>4, <2>5, <2>6 DEF TypeOK
<1> QED
  BY <1>1, TypeStep, PTL DEF Spec

(***************************************************************************)
(* Every instant is settled at most once                                   *)
(*                                                                         *)
(* A tick with a claim holds the interval [expected, claimed) of the time  *)
(* line.  While nobody else writes next_run_at, the intervals of two ticks *)
(* do not meet, all of them lie below next_run_at, and so do the instants  *)
(* already settled, outside of every interval.  A claim adds an interval   *)
(* at the top; a release that still matches the row gives back the topmost *)
(* one, which is why the guard of release_pipeline_claim carries the whole *)
(* argument.                                                               *)
(***************************************************************************)

Settled(i) == fired[i] + lost[i] + overtaken[i]

ClaimsAreIntervals ==
  \A t \in Tick : Pending(t) => expected[t] < claimed[t] /\ claimed[t] <= row.next

ClaimsAreDisjoint ==
  \A t, u \in Tick :
    Pending(t) /\ Pending(u) /\ t # u =>
      claimed[t] <= expected[u] \/ claimed[u] <= expected[t]

SettledIsOutside ==
  \A i \in Instant :
    Settled(i) > 0 =>
      /\ i < row.next
      /\ \A t \in Tick : Pending(t) => i < expected[t] \/ claimed[t] <= i

SettledOnce == \A i \in Instant : Settled(i) <= 1

ClaimInv ==
  ~rewritten =>
    ClaimsAreIntervals /\ ClaimsAreDisjoint /\ SettledIsOutside /\ SettledOnce

\* The numbers that ClaimInv compares.
LEMMA Numbers ==
  ASSUME TypeOK
  PROVE  /\ \A i \in Instant : i \in Nat /\ Settled(i) \in Nat
         /\ \A t \in Tick : /\ expected[t] \in Instant /\ expected[t] \in Nat
                            /\ claimed[t] \in Nat
         /\ row.next \in Nat
<1>1. /\ fired \in [Instant -> Nat] /\ lost \in [Instant -> Nat]
      /\ overtaken \in [Instant -> Nat]
  BY DEF TypeOK
<1>2. \A i \in Instant : Settled(i) \in Nat
  BY <1>1 DEF Settled
<1>3. /\ expected \in [Tick -> Instant] /\ claimed \in [Tick -> Instant]
      /\ row.next \in Instant
  BY DEF TypeOK
<1> QED
  BY <1>2, <1>3, Instants

\* Steps that write none of the variables ClaimInv speaks of, and leave every
\* tick pending that was and no other, keep it.
LEMMA ClaimFrame ==
  ASSUME ClaimInv, TypeOK,
         UNCHANGED <<fired, lost, overtaken, rewritten, claimed>>,
         row'.next = row.next,
         \A t \in Tick : Pending(t)' => Pending(t) /\ expected'[t] = expected[t]
  PROVE  ClaimInv'
  BY DEF ClaimInv, ClaimsAreIntervals, ClaimsAreDisjoint, SettledIsOutside,
         SettledOnce, Settled

\* A tick that ends its claim by settling the instant it holds keeps ClaimInv:
\* the instant lay in the tick's interval, so nothing had settled it before.
LEMMA ClaimSettles ==
  ASSUME ClaimInv, TypeOK, NEW t \in Tick, Pending(t), ~Pending(t)',
         UNCHANGED <<rewritten, claimed, expected>>,
         row'.next = row.next,
         \A u \in Tick \ {t} : Pending(u)' => Pending(u),
         Settled(expected[t])' = Settled(expected[t]) + 1,
         \A i \in Instant \ {expected[t]} : Settled(i)' = Settled(i)
  PROVE  ClaimInv'
<1> SUFFICES ASSUME ~rewritten
             PROVE  (ClaimsAreIntervals /\ ClaimsAreDisjoint /\ SettledIsOutside /\ SettledOnce)'
  BY DEF ClaimInv
<1>1. ClaimsAreIntervals /\ ClaimsAreDisjoint /\ SettledIsOutside /\ SettledOnce
  BY DEF ClaimInv
<1>2. /\ expected[t] \in Instant
      /\ \A i \in Instant : Settled(i) \in Nat /\ i \in Nat
      /\ \A u \in Tick : expected[u] \in Nat /\ claimed[u] \in Nat
      /\ row.next \in Nat
  BY Numbers
<1>3. \A u \in Tick : Pending(u)' => Pending(u) /\ u # t
  OBVIOUS
<1>4. ClaimsAreIntervals' /\ ClaimsAreDisjoint'
  BY <1>1, <1>3 DEF ClaimsAreIntervals, ClaimsAreDisjoint
<1>5. expected[t] < claimed[t] /\ claimed[t] <= row.next
  BY <1>1 DEF ClaimsAreIntervals
<1>6. Settled(expected[t]) = 0
  BY <1>1, <1>2, <1>5 DEF SettledIsOutside
<1>7. SettledOnce'
  BY <1>1, <1>2, <1>6 DEF SettledOnce
<1>8. SettledIsOutside'
  <2> SUFFICES ASSUME NEW i \in Instant, Settled(i)' > 0
               PROVE  /\ i < row'.next
                      /\ \A u \in Tick : Pending(u)' => i < expected'[u] \/ claimed'[u] <= i
    BY DEF SettledIsOutside
  <2>1. CASE i = expected[t]
    <3>1. i < row'.next
      BY <2>1, <1>2, <1>5
    <3>2. ASSUME NEW u \in Tick, Pending(u)' PROVE i < expected'[u] \/ claimed'[u] <= i
      <4>1. claimed[t] <= expected[u] \/ claimed[u] <= expected[t]
        BY <1>1, <1>3, <3>2 DEF ClaimsAreDisjoint
      <4> QED
        BY <4>1, <2>1, <1>2, <1>5
    <3> QED
      BY <3>1, <3>2
  <2>2. CASE i # expected[t]
    <3>1. Settled(i) > 0
      BY <2>2
    <3> QED
      BY <3>1, <1>1, <1>3 DEF SettledIsOutside
  <2> QED
    BY <2>1, <2>2
<1> QED
  BY <1>4, <1>7, <1>8

\* A claim takes an interval that no other holds, and a release or a record gives up only its own.
LEMMA ClaimStep == ClaimInv /\ TypeOK /\ TypeOK' /\ [Next]_vars => ClaimInv'
<1> SUFFICES ASSUME ClaimInv, TypeOK, TypeOK', [Next]_vars PROVE ClaimInv'
  OBVIOUS
<1> USE DEF tickVars, patchVars, historyVars
<1>1. ASSUME NEW t \in Tick, TickStep(t) PROVE ClaimInv'
  <2>1. CASE TickLists(t)
    BY <2>1, ClaimFrame DEF TickLists, TickGoto, TypeOK, Pending
  <2>2. CASE TickFindsNothing(t)
    BY <2>2, ClaimFrame DEF TickFindsNothing, vars, Pending
  <2>3. CASE TickClaims(t)
    <3> SUFFICES ASSUME ~rewritten
                 PROVE  (/\ ClaimsAreIntervals /\ ClaimsAreDisjoint
                         /\ SettledIsOutside /\ SettledOnce)'
      BY <2>3 DEF ClaimInv, TickClaims
    <3>1. ClaimsAreIntervals /\ ClaimsAreDisjoint /\ SettledIsOutside /\ SettledOnce
      BY <2>3 DEF ClaimInv, TickClaims
    <3>2. PICK i \in Instant : /\ IsNext(listedCron[t], expected[t], i)
                               /\ claimed' = [claimed EXCEPT ![t] = i]
                               /\ row' = [row EXCEPT !.next = i]
      BY <2>3 DEF TickClaims
    <3>3. /\ row.next = expected[t] /\ expected[t] < i
          /\ row'.next = i /\ claimed'[t] = i
          /\ \A u \in Tick \ {t} : claimed'[u] = claimed[u] /\ (Pending(u)' = Pending(u))
          /\ UNCHANGED <<expected, fired, lost, overtaken>>
          /\ ~Pending(t)
      BY <2>3, <3>2 DEF TickClaims, TickGoto, IsNext, TypeOK, Pending
    <3>4. /\ \A j \in Instant : j \in Nat
          /\ \A u \in Tick : expected[u] \in Nat /\ claimed[u] \in Nat
      BY Numbers
    <3>5. ClaimsAreIntervals'
      BY <3>1, <3>3, <3>4 DEF ClaimsAreIntervals
    <3>6. ClaimsAreDisjoint'
      BY <3>1, <3>3, <3>4 DEF ClaimsAreIntervals, ClaimsAreDisjoint
    <3>7. SettledIsOutside'
      BY <3>1, <3>3, <3>4 DEF SettledIsOutside, Settled
    <3>8. SettledOnce'
      BY <3>1, <3>3 DEF SettledOnce, Settled
    <3> QED
      BY <3>5, <3>6, <3>7, <3>8
  <2>4. CASE TickLosesClaim(t)
    BY <2>4, ClaimFrame DEF TickLosesClaim, TickGoto, TypeOK, Pending
  <2>5. CASE TickEnqueues(t)
    <3>1. /\ Pending(t) /\ ~Pending(t)'
          /\ \A u \in Tick \ {t} : Pending(u)' => Pending(u)
          /\ row' = row /\ UNCHANGED <<rewritten, claimed, expected>>
      BY <2>5 DEF TickEnqueues, TickGoto, TypeOK, Pending
    <3>2. /\ Settled(expected[t])' = Settled(expected[t]) + 1
          /\ \A i \in Instant \ {expected[t]} : Settled(i)' = Settled(i)
      BY <2>5 DEF TickEnqueues, TypeOK, Settled
    <3> QED
      BY <3>1, <3>2, ClaimSettles
  <2>6. CASE TickEnqueueFails(t)
    BY <2>6, ClaimFrame DEF TickEnqueueFails, TickGoto, TypeOK, Pending
  <2>7. CASE TickReleases(t)
    <3>1. /\ Pending(t) /\ ~Pending(t)'
          /\ \A u \in Tick \ {t} : Pending(u)' => Pending(u)
          /\ UNCHANGED <<rewritten, claimed, expected>>
      BY <2>7 DEF TickReleases, TickGoto, TypeOK, Pending
    <3>2. CASE row.exists /\ row.next = claimed[t]
      <4> SUFFICES ASSUME ~rewritten
                   PROVE  (/\ ClaimsAreIntervals /\ ClaimsAreDisjoint
                           /\ SettledIsOutside /\ SettledOnce)'
        BY <3>1 DEF ClaimInv
      <4>1. ClaimsAreIntervals /\ ClaimsAreDisjoint /\ SettledIsOutside /\ SettledOnce
        BY <3>1 DEF ClaimInv
      <4>2. row'.next = expected[t] /\ UNCHANGED <<fired, lost, overtaken>>
        BY <2>7, <3>2 DEF TickReleases, TypeOK
      <4>3. /\ \A i \in Instant : i \in Nat /\ Settled(i) \in Nat
            /\ \A u \in Tick : expected[u] \in Nat /\ claimed[u] \in Nat
        BY Numbers
      <4>4. ClaimsAreDisjoint' /\ SettledOnce'
        BY <4>1, <4>2, <3>1 DEF ClaimsAreDisjoint, SettledOnce, Settled
      <4>5. ClaimsAreIntervals'
        BY <4>1, <4>2, <4>3, <3>1, <3>2 DEF ClaimsAreIntervals, ClaimsAreDisjoint
      <4>6. SettledIsOutside'
        BY <4>1, <4>2, <4>3, <3>1, <3>2 DEF SettledIsOutside, Settled
      <4> QED
        BY <4>4, <4>5, <4>6
    <3>3. CASE ~(row.exists /\ row.next = claimed[t])
      <4>1. row' = row
        BY <2>7, <3>3 DEF TickReleases
      <4>2. /\ Settled(expected[t])' = Settled(expected[t]) + 1
            /\ \A i \in Instant \ {expected[t]} : Settled(i)' = Settled(i)
        BY <2>7, <3>3 DEF TickReleases, TypeOK, Settled
      <4> QED
        BY <3>1, <4>1, <4>2, ClaimSettles
    <3> QED
      BY <3>2, <3>3
  <2>8. CASE TickRecords(t)
    BY <2>8, ClaimFrame DEF TickRecords, TickGoto, TypeOK, Pending
  <2>9. CASE TickEnqueueUnanswered(t)
    BY <2>9, ClaimFrame DEF TickEnqueueUnanswered, TickGoto, TypeOK, Pending
  <2> QED
    BY <1>1, <2>1, <2>2, <2>3, <2>4, <2>5, <2>6, <2>7, <2>8, <2>9 DEF TickStep
<1>2. ASSUME NEW t \in Tick, TickCrashes(t) PROVE ClaimInv'
  <2>1. /\ ~Pending(t)' /\ \A u \in Tick \ {t} : Pending(u)' => Pending(u)
        /\ row' = row /\ UNCHANGED <<rewritten, claimed, expected>>
    BY <1>2 DEF TickCrashes, TypeOK, Pending
  <2>2. CASE Pending(t)
    <3>1. /\ Settled(expected[t])' = Settled(expected[t]) + 1
          /\ \A i \in Instant \ {expected[t]} : Settled(i)' = Settled(i)
      BY <1>2, <2>2 DEF TickCrashes, TypeOK, Settled
    <3> QED
      BY <2>1, <2>2, <3>1, ClaimSettles
  <2>3. CASE ~Pending(t)
    <3>1. UNCHANGED <<fired, lost, overtaken>>
      BY <1>2, <2>3 DEF TickCrashes
    <3> QED
      BY <2>1, <3>1, ClaimFrame
  <2> QED
    BY <2>2, <2>3
<1>3. ASSUME NEW p \in Patch, PatchStep(p) PROVE ClaimInv'
  <2>1. ASSUME NEW active \in BOOLEAN \cup {Keep}, NEW cron \in Crons \cup {Keep},
               PatchReads(p, active, cron)
        PROVE ClaimInv'
    BY <2>1, ClaimFrame DEF PatchReads, Pending
  <2>2. CASE PatchWrites(p)
    <3>1. CASE rewritten'
      BY <3>1 DEF ClaimInv
    <3>2. CASE ~rewritten'
      <4>1. ~rewritten /\ row'.next = row.next
        BY <2>2, <3>2 DEF PatchWrites, TypeOK
      <4> QED
        BY <2>2, <3>2, <4>1, ClaimFrame DEF PatchWrites, Pending, TypeOK
    <3> QED
      BY <3>1, <3>2
  <2> QED
    BY <1>3, <2>1, <2>2 DEF PatchStep
<1>4. CASE Delete
  BY <1>4, ClaimFrame DEF Delete, Pending, TypeOK
<1>5. CASE Advance
  BY <1>5, ClaimFrame DEF Advance, Pending
<1>6. CASE UNCHANGED vars
  BY <1>6, ClaimFrame DEF vars, Pending
<1> QED
  BY <1>1, <1>2, <1>3, <1>4, <1>5, <1>6 DEF Next

\* The inductive invariant holds in every reachable state.
THEOREM ClaimInvariant == Spec => []ClaimInv
<1>1. Init => ClaimInv
  BY DEF Init, ClaimInv, ClaimsAreIntervals, ClaimsAreDisjoint, SettledIsOutside,
         SettledOnce, Settled, Pending
<1> QED
  BY <1>1, TypeCorrect, ClaimStep, PTL DEF Spec

\* However many ticks overlap, fail, give their claims back and die, an instant
\* has at most one task besides those whose enqueue raised, unless a PATCH
\* recomputes next_run_at.
THEOREM AtMostOnceCorrect == Spec => []AtMostOnce
<1>1. ClaimInv /\ TypeOK => AtMostOnce
  BY DEF ClaimInv, SettledOnce, Settled, TypeOK, AtMostOnce, Tasks
<1> QED
  BY <1>1, TypeCorrect, ClaimInvariant, PTL

(***************************************************************************)
(* No instant is lost silently                                             *)
(***************************************************************************)

\* A PATCH that writes a cron expression writes next_run_at too.
CronComesWithNext == \A p \in Patch : values[p].cron # Keep => values[p].next # Keep

\* So, until next_run_at is rewritten, every listing holds the row's schedule.
ListedIsCurrent == ~rewritten => \A t \in Tick : at[t] = "listed" => listedCron[t] = row.cron

MissInv == CronComesWithNext /\ ListedIsCurrent /\ NoSilentMiss

\* What accounts for an instant that next_run_at has passed.
Accounted(i) ==
  \/ fired[i] > 0 \/ lost[i] > 0 \/ overtaken[i] > 0
  \/ \E t \in Tick : Pending(t) /\ expected[t] = i

\* Steps that leave the schedule alone, do not advance next_run_at, and account
\* for what was accounted for, keep MissInv.
LEMMA MissFrame ==
  ASSUME MissInv, UNCHANGED <<values, rewritten>>,
         row'.cron = row.cron,
         \A i \in row.cron : i < row'.next => i < row.next,
         \A i \in row.cron : i < row'.next /\ Accounted(i) => Accounted(i)',
         \A t \in Tick : at'[t] = "listed" => listedCron'[t] = row.cron \/
                           (at[t] = "listed" /\ listedCron'[t] = listedCron[t])
  PROVE  MissInv'
<1>1. CronComesWithNext' /\ ListedIsCurrent'
  BY DEF MissInv, CronComesWithNext, ListedIsCurrent
<1>2. NoSilentMiss'
  BY DEF MissInv, NoSilentMiss, Accounted
<1> QED
  BY <1>1, <1>2 DEF MissInv

\* next_run_at passes an instant only if a claim in hand or the history accounts for it.
LEMMA MissStep == MissInv /\ ClaimInv /\ TypeOK /\ TypeOK' /\ [Next]_vars => MissInv'
<1> SUFFICES ASSUME MissInv, ClaimInv, TypeOK, TypeOK', [Next]_vars PROVE MissInv'
  OBVIOUS
<1> USE DEF tickVars, patchVars, historyVars
<1>0. /\ \A i \in row.cron : i \in Instant /\ i \in Nat
      /\ row.next \in Nat
      /\ \A t \in Tick : expected[t] \in Instant /\ expected[t] \in Nat /\ claimed[t] \in Nat
  <2>1. row.cron \in Crons
    BY DEF TypeOK
  <2> QED
    BY <2>1, Instants, Numbers
<1>1. ASSUME NEW t \in Tick, TickStep(t) PROVE MissInv'
  <2>1. CASE TickLists(t)
    BY <2>1, MissFrame DEF TickLists, TickGoto, TypeOK, Pending, Accounted
  <2>2. CASE TickFindsNothing(t)
    BY <2>2, MissFrame DEF TickFindsNothing, vars, Pending, Accounted
  <2>3. CASE TickClaims(t)
    <3>1. PICK n \in Instant : /\ IsNext(listedCron[t], expected[t], n)
                               /\ row' = [row EXCEPT !.next = n]
      BY <2>3 DEF TickClaims
    <3>2. /\ row'.next = n /\ row'.cron = row.cron /\ row.next = expected[t]
          /\ UNCHANGED <<values, rewritten, fired, lost, overtaken, expected, listedCron>>
          /\ Pending(t)' /\ ~Pending(t) /\ at[t] = "listed"
          /\ \A u \in Tick \ {t} : at'[u] = at[u] /\ (Pending(u)' = Pending(u))
          /\ at'[t] # "listed"
      BY <2>3, <3>1 DEF TickClaims, TickGoto, TypeOK, Pending
    <3>3. CronComesWithNext' /\ ListedIsCurrent'
      BY <3>2 DEF MissInv, CronComesWithNext, ListedIsCurrent
    <3>4. ASSUME ~rewritten, NEW i \in row.cron, 0 < i, i < n PROVE Accounted(i)'
      <4>1. listedCron[t] = row.cron
        BY <3>2, <3>4 DEF MissInv, ListedIsCurrent
      <4>2. n \in Nat /\ (expected[t] < i => n <= i)
        BY <3>1, <4>1, Instants DEF IsNext
      <4>3. CASE i = expected[t]
        BY <4>3, <3>2 DEF Accounted
      <4>4. CASE i < row.next
        <5>1. Accounted(i)
          BY <4>4, <3>4 DEF MissInv, NoSilentMiss, Accounted
        <5> QED
          BY <5>1, <3>2 DEF Accounted
      <4> QED
        BY <4>2, <4>3, <4>4, <3>2, <3>4, <1>0
    <3>5. NoSilentMiss'
      BY <3>2, <3>4 DEF NoSilentMiss, Accounted
    <3> QED
      BY <3>3, <3>5 DEF MissInv
  <2>4. CASE TickLosesClaim(t)
    BY <2>4, MissFrame DEF TickLosesClaim, TickGoto, TypeOK, Pending, Accounted
  <2>5. CASE TickEnqueues(t)
    <3>1. /\ UNCHANGED <<row, values, rewritten, expected, listedCron, lost, overtaken>>
          /\ \A u \in Tick \ {t} : at'[u] = at[u] /\ (Pending(u)' = Pending(u))
          /\ at'[t] # "listed"
          /\ fired'[expected[t]] > 0
          /\ \A i \in Instant : fired[i] > 0 => fired'[i] > 0
      BY <2>5 DEF TickEnqueues, TickGoto, TypeOK, Pending
    <3>2. \A i \in row.cron : Accounted(i) => Accounted(i)'
      BY <3>1, <1>0 DEF Accounted
    <3> QED
      BY <3>1, <3>2, MissFrame
  <2>6. CASE TickEnqueueFails(t)
    BY <2>6, MissFrame DEF TickEnqueueFails, TickGoto, TypeOK, Pending, Accounted
  <2>7. CASE TickReleases(t)
    <3>1. /\ UNCHANGED <<values, rewritten, expected, listedCron, fired, lost>>
          /\ \A u \in Tick \ {t} : at'[u] = at[u] /\ (Pending(u)' = Pending(u))
          /\ at'[t] # "listed" /\ Pending(t)
      BY <2>7 DEF TickReleases, TickGoto, TypeOK, Pending
    <3>2. CASE row.exists /\ row.next = claimed[t]
      <4>1. row'.cron = row.cron /\ row'.next = expected[t] /\ overtaken' = overtaken
        BY <2>7, <3>2 DEF TickReleases, TypeOK
      <4>2. CASE rewritten
        BY <4>1, <4>2, <3>1 DEF MissInv, CronComesWithNext, ListedIsCurrent, NoSilentMiss
      <4>3. CASE ~rewritten
        <5>1. expected[t] < row.next
          BY <4>3, <3>1, <3>2 DEF ClaimInv, ClaimsAreIntervals
        <5>2. \A i \in row.cron : i < row'.next => i < row.next
          BY <4>1, <5>1, <1>0
        <5>3. \A i \in row.cron : i < row'.next /\ Accounted(i) => Accounted(i)'
          BY <3>1, <4>1, <1>0 DEF Accounted
        <5> QED
          BY <3>1, <4>1, <5>2, <5>3, MissFrame
      <4> QED
        BY <4>2, <4>3
    <3>3. CASE ~(row.exists /\ row.next = claimed[t])
      <4>1. /\ row' = row
            /\ overtaken'[expected[t]] > 0
            /\ \A i \in Instant : overtaken[i] > 0 => overtaken'[i] > 0
        BY <2>7, <3>3 DEF TickReleases, TypeOK
      <4>2. \A i \in row.cron : Accounted(i) => Accounted(i)'
        BY <3>1, <4>1, <1>0 DEF Accounted
      <4> QED
        BY <3>1, <4>1, <4>2, MissFrame
    <3> QED
      BY <3>2, <3>3
  <2>8. CASE TickRecords(t)
    BY <2>8, MissFrame DEF TickRecords, TickGoto, TypeOK, Pending, Accounted
  <2>9. CASE TickEnqueueUnanswered(t)
    BY <2>9, MissFrame DEF TickEnqueueUnanswered, TickGoto, TypeOK, Pending, Accounted
  <2> QED
    BY <1>1, <2>1, <2>2, <2>3, <2>4, <2>5, <2>6, <2>7, <2>8, <2>9 DEF TickStep
<1>2. ASSUME NEW t \in Tick, TickCrashes(t) PROVE MissInv'
  <2>1. /\ UNCHANGED <<row, values, rewritten, expected, listedCron, fired, overtaken>>
        /\ \A u \in Tick \ {t} : at'[u] = at[u] /\ (Pending(u)' = Pending(u))
        /\ at'[t] # "listed"
        /\ Pending(t) => lost'[expected[t]] > 0
        /\ \A i \in Instant : lost[i] > 0 => lost'[i] > 0
    BY <1>2 DEF TickCrashes, TypeOK, Pending
  <2>2. \A i \in row.cron : Accounted(i) => Accounted(i)'
    BY <2>1, <1>0 DEF Accounted
  <2> QED
    BY <2>1, <2>2, MissFrame
<1>3. ASSUME NEW p \in Patch, PatchStep(p) PROVE MissInv'
  <2>1. ASSUME NEW active \in BOOLEAN \cup {Keep}, NEW cron \in Crons \cup {Keep},
               PatchReads(p, active, cron)
        PROVE MissInv'
    <3>1. CronComesWithNext'
      BY <2>1 DEF PatchReads, MissInv, CronComesWithNext, TypeOK
    <3>2. ListedIsCurrent' /\ NoSilentMiss'
      BY <2>1 DEF PatchReads, MissInv, ListedIsCurrent, NoSilentMiss, Pending
    <3> QED
      BY <3>1, <3>2 DEF MissInv
  <2>2. CASE PatchWrites(p)
    <3>1. UNCHANGED <<values, at, listedCron, expected, fired, lost, overtaken>>
      BY <2>2 DEF PatchWrites
    <3>2. CronComesWithNext'
      BY <3>1 DEF MissInv, CronComesWithNext
    <3>3. CASE rewritten'
      BY <3>2, <3>3 DEF MissInv, ListedIsCurrent, NoSilentMiss
    <3>4. CASE ~rewritten'
      <4>1. ~rewritten /\ row'.next = row.next /\ row'.cron = row.cron
        BY <2>2, <3>4 DEF PatchWrites, TypeOK, MissInv, CronComesWithNext
      <4> QED
        BY <3>1, <3>2, <4>1 DEF MissInv, ListedIsCurrent, NoSilentMiss, Pending
    <3> QED
      BY <3>3, <3>4
  <2> QED
    BY <1>3, <2>1, <2>2 DEF PatchStep
<1>4. CASE Delete
  BY <1>4, MissFrame DEF Delete, Pending, TypeOK, Accounted
<1>5. CASE Advance
  BY <1>5, MissFrame DEF Advance, Pending, Accounted
<1>6. CASE UNCHANGED vars
  BY <1>6, MissFrame DEF vars, Pending, Accounted
<1> QED
  BY <1>1, <1>2, <1>3, <1>4, <1>5, <1>6 DEF Next

\* Overlapping ticks lose an instant only by dying with it or by giving it back
\* too late, unless a PATCH recomputes next_run_at.
THEOREM NoSilentMissCorrect == Spec => []NoSilentMiss
<1>1. Init => MissInv
  <2> SUFFICES ASSUME Init PROVE MissInv
    OBVIOUS
  <2>1. IsNext(row.cron, 0, row.next) /\ row.cron \in Crons /\ row.next \in Instant
    BY DEF Init
  <2>2. \A i \in row.cron : i \in Nat /\ (0 < i => row.next <= i) /\ row.next \in Nat
    BY <2>1, Instants DEF IsNext
  <2>3. \A i \in row.cron : ~(0 < i /\ i < row.next)
    BY <2>2
  <2>4. NoSilentMiss
    BY <2>3 DEF NoSilentMiss
  <2> QED
    BY <2>4 DEF Init, MissInv, CronComesWithNext, ListedIsCurrent
<1>2. MissInv => NoSilentMiss
  BY DEF MissInv
<1> QED
  BY <1>1, <1>2, MissStep, ClaimInvariant, TypeCorrect, PTL DEF Spec

(***************************************************************************)
(* Refinement of the ledger                                                *)
(***************************************************************************)

\* The drops of the ledger, as the scheduler implements them.
Drops == [i \in Instant |-> lost[i] + overtaken[i]]

\* Unless the book is reopened, the tick that holds a claim settles an instant
\* nothing has settled yet.
LEMMA PendingIsOpen ==
  ASSUME TypeOK, ClaimInv, NEW t \in Tick, Pending(t)
  PROVE  expected[t] \in Instant /\ Ledger!Open(expected[t])
<1>1. expected[t] \in Instant /\ Settled(expected[t]) \in Nat
  BY Numbers
<1>2. CASE rewritten
  BY <1>1, <1>2 DEF Ledger!Open
<1>3. CASE ~rewritten
  <2>1. expected[t] < claimed[t] /\ (Settled(expected[t]) > 0 => claimed[t] <= expected[t])
    BY <1>1, <1>3, Numbers DEF ClaimInv, ClaimsAreIntervals, SettledIsOutside
  <2>2. Settled(expected[t]) = 0
    BY <1>1, <2>1, Numbers
  <2>3. /\ fired[expected[t]] \in Nat /\ lost[expected[t]] \in Nat
        /\ overtaken[expected[t]] \in Nat
    BY <1>1 DEF TypeOK
  <2>4. fired[expected[t]] + (lost[expected[t]] + overtaken[expected[t]]) = 0
    BY <2>2, <2>3 DEF Settled
  <2> QED
    BY <1>1, <2>4 DEF Ledger!Open
<1> QED
  BY <1>2, <1>3

\* Every step of the scheduler is a step of the ledger, or none.
LEMMA LedgerStep ==
  TypeOK /\ ClaimInv /\ [Next]_vars => [Ledger!Next]_<<fired, unanswered, Drops, rewritten>>
<1> SUFFICES ASSUME TypeOK, ClaimInv, [Next]_vars
             PROVE  Ledger!Next \/ UNCHANGED <<fired, unanswered, Drops, rewritten>>
  OBVIOUS
<1> USE DEF tickVars, patchVars, historyVars
<1>a. ASSUME NEW t \in Tick, Pending(t), UNCHANGED <<lost, overtaken, rewritten>>,
             \/ fired' = [fired EXCEPT ![expected[t]] = @ + 1] /\ unanswered' = unanswered
             \/ unanswered' = [unanswered EXCEPT ![expected[t]] = @ + 1] /\ fired' = fired
      PROVE  Ledger!Next
  <2>1. Ledger!Fire(expected[t]) \/ Ledger!FireInDoubt(expected[t])
    BY <1>a, PendingIsOpen DEF Ledger!Fire, Ledger!FireInDoubt
  <2> QED
    BY <1>a, <2>1, PendingIsOpen DEF Ledger!Next
<1>b. ASSUME NEW t \in Tick, Pending(t), UNCHANGED <<fired, unanswered, rewritten>>,
             \/ lost' = [lost EXCEPT ![expected[t]] = @ + 1] /\ overtaken' = overtaken
             \/ overtaken' = [overtaken EXCEPT ![expected[t]] = @ + 1] /\ lost' = lost
      PROVE  Ledger!Next
  <2>1. expected[t] \in Instant /\ Ledger!Open(expected[t])
    BY <1>b, PendingIsOpen
  <2>2. lost \in [Instant -> Nat] /\ overtaken \in [Instant -> Nat]
    BY DEF TypeOK
  <2>3. /\ lost'[expected[t]] + overtaken'[expected[t]]
             = lost[expected[t]] + overtaken[expected[t]] + 1
        /\ \A i \in Instant \ {expected[t]} : lost'[i] = lost[i] /\ overtaken'[i] = overtaken[i]
    BY <1>b, <2>1, <2>2
  <2>4. Drops' = [Drops EXCEPT ![expected[t]] = @ + 1]
    BY <2>1, <2>3 DEF Drops
  <2>5. PICK i \in Instant : i = expected[t]
    BY <2>1
  <2>6. Ledger!Drop(i)
    BY <1>b, <2>1, <2>4, <2>5 DEF Ledger!Drop, Drops
  <2> QED
    BY <2>6 DEF Ledger!Next
<1>1. ASSUME NEW t \in Tick, TickStep(t)
      PROVE Ledger!Next \/ UNCHANGED <<fired, unanswered, Drops, rewritten>>
  <2>1. CASE TickEnqueues(t) \/ TickEnqueueUnanswered(t)
    BY <2>1, <1>a DEF TickEnqueues, TickEnqueueUnanswered, TickGoto, Pending
  <2>2. CASE TickReleases(t)
    <3>1. CASE row.exists /\ row.next = claimed[t]
      BY <2>2, <3>1 DEF TickReleases, Drops
    <3>2. CASE ~(row.exists /\ row.next = claimed[t])
      BY <2>2, <3>2, <1>b DEF TickReleases, TickGoto, Pending
    <3> QED
      BY <3>1, <3>2
  <2>3. CASE ~TickEnqueues(t) /\ ~TickEnqueueUnanswered(t) /\ ~TickReleases(t)
    BY <1>1, <2>3 DEF TickStep, TickLists, TickFindsNothing, TickClaims, TickLosesClaim,
                      TickEnqueueFails, TickRecords, vars, Drops
  <2> QED
    BY <2>1, <2>2, <2>3
<1>2. ASSUME NEW t \in Tick, TickCrashes(t)
      PROVE Ledger!Next \/ UNCHANGED <<fired, unanswered, Drops, rewritten>>
  <2>1. CASE Pending(t)
    BY <1>2, <2>1, <1>b DEF TickCrashes
  <2>2. CASE ~Pending(t)
    BY <1>2, <2>2 DEF TickCrashes, Drops
  <2> QED
    BY <2>1, <2>2
<1>3. ASSUME NEW p \in Patch, PatchStep(p)
      PROVE Ledger!Next \/ UNCHANGED <<fired, unanswered, Drops, rewritten>>
  <2>1. /\ UNCHANGED <<fired, unanswered, lost, overtaken>>
        /\ rewritten' = TRUE \/ rewritten' = rewritten
    <3>1. CASE PatchWrites(p)
      BY <3>1 DEF PatchWrites, TypeOK
    <3>2. CASE ~PatchWrites(p)
      BY <1>3, <3>2 DEF PatchStep, PatchReads
    <3> QED
      BY <3>1, <3>2
  <2>2. Drops' = Drops
    BY <2>1 DEF Drops
  <2> QED
    BY <2>1, <2>2 DEF Ledger!Next, Ledger!Edit, Drops
<1>4. CASE Delete \/ Advance \/ UNCHANGED vars
  BY <1>4 DEF Delete, Advance, vars, Drops
<1> QED
  BY <1>1, <1>2, <1>3, <1>4 DEF Next

\* The scheduler implements FireLedger: until an edit recomputes next_run_at, no
\* instant is fired after it has been fired or dropped, except for the fires that
\* raised with their task queued.
THEOREM LedgerCorrect == Spec => KeepsLedger
<1>1. Init => Ledger!Init
  BY DEF Init, Ledger!Init
<1> QED
  BY <1>1, LedgerStep, TypeCorrect, ClaimInvariant, PTL
     DEF Spec, KeepsLedger, Ledger!Spec, Drops
=============================================================================
