------------------------- MODULE GuardianBacklog_proofs -------------------------
(***************************************************************************)
(* The judgement of a consumer, for any consumers and any times: it rests  *)
(* on what was seen after the cooldown of the last rebind, and on nothing  *)
(* but ready samples, an earlier descriptor's if its key has been reused.  *)
(***************************************************************************)
EXTENDS GuardianBacklog, TLAPS

(* No sample is taken while the cooldown lasts, so every entry is younger  *)
(* than its end.                                                           *)
Rested ==
  /\ rebound + cooldown >= Cooldown
  /\ phase \in {"sample", "rebind"} => cooldown = 0
  /\ \A k \in DOMAIN since : since[k] + Cooldown <= rebound

BacklogInv ==
  TypeOK /\ RebindsApart /\ Rested /\ ReadyThroughout

---------------------------------------------------------------------------
LEMMA AgesType ==
  ASSUME NEW f
  PROVE  f \in Ages(Grace) <=> \E S \in SUBSET Consumers : f \in [S -> 0 .. Grace]
BY DEF Ages

LEMMA AgesFacts ==
  ASSUME NEW f \in Ages(Grace)
  PROVE  /\ DOMAIN f \subseteq Consumers
         /\ \A k \in DOMAIN f : f[k] \in 0 .. Grace
BY AgesType

(* What is done to a table of ages keeps it one. *)
LEMMA OlderType ==
  ASSUME NEW f \in Ages(Grace), NEW e \in Nat
  PROVE  /\ Older(f, e) \in Ages(Grace) /\ DOMAIN Older(f, e) = DOMAIN f
         /\ \A k \in DOMAIN f : /\ Older(f, e)[k] = Least(f[k] + e, Grace)
                                /\ Older(f, e)[k] <= f[k] + e
                                /\ Older(f, e)[k] \in 0 .. Grace
<1>1. DOMAIN Older(f, e) = DOMAIN f
  BY DEF Older
<1>2. \A k \in DOMAIN f : /\ Older(f, e)[k] = Least(f[k] + e, Grace)
                          /\ Older(f, e)[k] <= f[k] + e
                          /\ Older(f, e)[k] \in 0 .. Grace
  BY AgesFacts, TimesAssumption DEF Older, Least
<1>3. Older(f, e) \in [DOMAIN f -> 0 .. Grace]
  BY <1>1, <1>2 DEF Older
<1> QED BY <1>1, <1>2, <1>3, AgesFacts, AgesType

LEMMA ObservedType ==
  ASSUME NEW f \in Ages(Grace)
  PROVE  /\ Observed(f) \in Ages(Grace) /\ DOMAIN Observed(f) = Ready
         /\ Ready \subseteq Consumers
         /\ \A k \in Ready : Observed(f)[k] = IF k \in DOMAIN f THEN f[k] ELSE 0
<1>1. Ready \subseteq Consumers
  BY DEF Ready
<1>2. Observed(f) \in [Ready -> 0 .. Grace]
  BY AgesFacts, TimesAssumption DEF Observed
<1>3. Observed(f) \in Ages(Grace)
  BY <1>1, <1>2, AgesType
<1> QED BY <1>1, <1>3 DEF Observed

(* A table of all consumers stays one. *)
LEMMA OlderAll ==
  ASSUME NEW f \in [Consumers -> 0 .. Grace], NEW e \in Nat
  PROVE  /\ Older(f, e) \in [Consumers -> 0 .. Grace]
         /\ \A k \in Consumers : Older(f, e)[k] = Least(f[k] + e, Grace)
BY TimesAssumption DEF Older, Least

LEMMA ZerosType == Zeros \in [Consumers -> 0 .. Grace]
BY TimesAssumption DEF Zeros

LEMMA EmptyType ==
  ASSUME NEW f, f = [k \in {} |-> 0]
  PROVE  f \in Ages(Grace) /\ DOMAIN f = {}
<1>1. f \in [{} -> 0 .. Grace]
  OBVIOUS
<1> QED BY <1>1, AgesType

---------------------------------------------------------------------------
(* Time passes: ages and the age of the rebind advance alike. *)
LEMMA LapseStep ==
  ASSUME BacklogInv, Wake \/ ScanFails
  PROVE  BacklogInv'
<1>1. PICK e \in Lapses : Lapse(e)
  BY DEF Wake, ScanFails
<1>2. /\ e \in Nat /\ Grace \in Nat /\ Cooldown \in Nat /\ Refresh \in Nat
      /\ since \in Ages(Grace)
      /\ steady \in [Consumers -> 0 .. Grace] /\ taken \in [Consumers -> 0 .. Grace]
      /\ refreshed \in Nat /\ cooldown \in Nat /\ cooldown <= Cooldown
      /\ rebound \in Nat /\ rebound <= Never
  BY TimesAssumption DEF BacklogInv, TypeOK, Never
<1>3. /\ since' = Older(since, e)
      /\ steady' = Older(steady, e) /\ taken' = Older(taken, e)
      /\ refreshed' = Least(refreshed + e, Refresh)
      /\ cooldown' = Left(cooldown, e) /\ rebound' = Least(rebound + e, Never)
      /\ reused' = reused /\ desc' = desc /\ held' = held
      /\ phase' \in {"asleep", "scanned"}
  BY <1>1 DEF Lapse, Wake, ScanFails
<1>4. /\ since' \in Ages(Grace) /\ DOMAIN since' = DOMAIN since
      /\ steady' \in [Consumers -> 0 .. Grace] /\ taken' \in [Consumers -> 0 .. Grace]
  BY <1>2, <1>3, OlderType, OlderAll
<1>5. /\ refreshed' \in 0 .. Refresh /\ cooldown' \in 0 .. Cooldown
      /\ rebound' \in 0 .. Never
  BY <1>2, <1>3 DEF Least, Left, Never
<1>6. TypeOK'
  BY <1>3, <1>4, <1>5 DEF BacklogInv, TypeOK
<1>7. rebound' + cooldown' >= Cooldown
  BY <1>2, <1>3 DEF BacklogInv, Rested, Least, Left, Never
<1>8. \A k \in DOMAIN since' : since'[k] + Cooldown <= rebound'
  <2> SUFFICES ASSUME NEW k \in DOMAIN since PROVE since'[k] + Cooldown <= rebound'
    BY <1>4
  <2>1. /\ since'[k] \in 0 .. Grace /\ since'[k] <= since[k] + e
        /\ since[k] \in 0 .. Grace
    BY <1>2, <1>3, OlderType, AgesFacts
  <2>2. since[k] + Cooldown <= rebound
    BY DEF BacklogInv, Rested
  <2>3. since'[k] + Cooldown <= rebound + e /\ since'[k] + Cooldown <= Never
    BY <1>2, <2>1, <2>2 DEF Never
  <2> QED BY <1>3, <2>3 DEF Least
<1>9. ReadyThroughout'
  <2> SUFFICES ASSUME NEW k \in DOMAIN since
               PROVE  /\ since'[k] <= steady'[k]
                      /\ k \notin reused => since'[k] <= taken'[k]
    BY <1>3, <1>4 DEF ReadyThroughout
  <2>1. /\ k \in Consumers /\ since[k] \in Nat
        /\ since'[k] = Least(since[k] + e, Grace)
        /\ steady'[k] = Least(steady[k] + e, Grace)
        /\ taken'[k] = Least(taken[k] + e, Grace)
        /\ steady[k] \in Nat /\ taken[k] \in Nat
    <3>1. /\ k \in Consumers /\ since[k] \in Nat
          /\ since'[k] = Least(since[k] + e, Grace)
      BY <1>2, <1>3, OlderType, AgesFacts
    <3>2. steady'[k] = Least(steady[k] + e, Grace) /\ steady[k] \in Nat
      BY <1>2, <1>3, <3>1, OlderAll
    <3>3. taken'[k] = Least(taken[k] + e, Grace) /\ taken[k] \in Nat
      BY <1>2, <1>3, <3>1, OlderAll
    <3> QED BY <3>1, <3>2, <3>3
  <2>2. since[k] <= steady[k] /\ (k \notin reused => since[k] <= taken[k])
    BY DEF BacklogInv, ReadyThroughout
  <2> QED BY <1>2, <2>1, <2>2 DEF Least
<1> QED
  BY <1>3, <1>4, <1>6, <1>7, <1>8, <1>9 DEF BacklogInv, Rested, RebindsApart

(* A rebind, or the rest after one, empties the observer. *)
LEMMA ForgetStep ==
  ASSUME BacklogInv, CounterRebind \/ Rest \/ BacklogRebind \/ BacklogRebindFails
  PROVE  BacklogInv'
<1>1. /\ Forget /\ phase' = "asleep"
      /\ \/ cooldown' = Cooldown /\ rebound' = 0
         \/ UNCHANGED <<cooldown, rebound>>
      /\ desc' = desc \/ desc' = [k \in Consumers |-> "closed"]
  BY DEF CounterRebind, Rest, BacklogRebind, BacklogRebindFails, Rebound
<1>2. /\ DOMAIN since' = {} /\ since' \in Ages(Grace)
      /\ steady' \in [Consumers -> 0 .. Grace] /\ taken' \in [Consumers -> 0 .. Grace]
  BY <1>1, EmptyType, ZerosType DEF Forget
<1>3. /\ held' \in [Consumers -> {"none", "own", "idle", "unread", "dead"}]
      /\ reused' = {} /\ refreshed' \in 0 .. Refresh
  BY <1>1, TimesAssumption DEF Forget
<1>4. desc' \in [Consumers -> {"closed", "drained", "unread"}]
  BY <1>1 DEF BacklogInv, TypeOK
<1>5. cooldown' \in 0 .. Cooldown /\ rebound' \in 0 .. Never /\ rebound' + cooldown' >= Cooldown
  BY <1>1, TimesAssumption DEF BacklogInv, TypeOK, Rested, Never
<1>6. TypeOK'
  BY <1>1, <1>2, <1>3, <1>4, <1>5 DEF TypeOK
<1> QED
  BY <1>1, <1>2, <1>5, <1>6 DEF BacklogInv, Rested, RebindsApart, ReadyThroughout

(* The consumers are looked for anew, or not. *)
LEMMA RefreshStep ==
  ASSUME BacklogInv, NotDue \/ RefreshFails \/ RefreshConsumers
  PROVE  BacklogInv'
<1>1. /\ cooldown = 0 /\ phase' = "sample"
      /\ UNCHANGED <<desc, since, steady, cooldown, rebound>>
  BY DEF NotDue, RefreshFails, RefreshConsumers, Due, observer, history, timers
<1>2. /\ held' \in [Consumers -> {"none", "own", "idle", "unread", "dead"}]
      /\ refreshed' \in 0 .. Refresh
  BY TimesAssumption DEF NotDue, RefreshFails, RefreshConsumers, timers, BacklogInv, TypeOK
<1>3. /\ taken' \in [Consumers -> 0 .. Grace]
      /\ reused' \subseteq Consumers /\ ReadyThroughout'
  <2>1. CASE UNCHANGED <<taken, reused>>
    BY <1>1, <2>1 DEF BacklogInv, TypeOK, ReadyThroughout
  <2>2. CASE RefreshConsumers
    <3>1. /\ taken' = [k \in Consumers |-> IF held[k] = "own" THEN taken[k] ELSE 0]
          /\ reused' = reused \cup {k \in DOMAIN since : held[k] # "own"}
          /\ since \in Ages(Grace) /\ taken \in [Consumers -> 0 .. Grace]
      BY <2>2 DEF RefreshConsumers, BacklogInv, TypeOK
    <3>2. taken' \in [Consumers -> 0 .. Grace]
      BY <3>1, TimesAssumption
    <3>3. \A k \in DOMAIN since \ reused' :
            k \notin reused /\ k \in Consumers /\ taken'[k] = taken[k]
      BY <3>1, AgesFacts
    <3>4. reused' \subseteq Consumers
      BY <3>1, AgesFacts DEF BacklogInv, TypeOK
    <3> QED BY <1>1, <3>2, <3>3, <3>4 DEF BacklogInv, ReadyThroughout
  <2> QED BY <2>1, <2>2 DEF NotDue, RefreshFails, observer, history
<1>4. TypeOK'
  BY <1>1, <1>2, <1>3 DEF BacklogInv, TypeOK
<1> QED BY <1>1, <1>3, <1>4 DEF BacklogInv, Rested, RebindsApart

(* A sample continues the entries it finds ready and begins new ones. *)
LEMMA ObserveStep ==
  ASSUME BacklogInv, Observe
  PROVE  BacklogInv'
<1>1. /\ since' = Observed(since)
      /\ steady' = [k \in Consumers |-> IF k \in Ready THEN steady[k] ELSE 0]
      /\ reused' = reused \cap DOMAIN since'
      /\ UNCHANGED <<desc, taken, refreshed, cooldown, rebound>>
      /\ cooldown = 0
      /\ phase' = IF \E k \in Ready : since'[k] >= Grace THEN "rebind" ELSE "asleep"
  BY DEF Observe, timers, BacklogInv, Rested
<1>2. /\ since \in Ages(Grace) /\ rebound \in Nat
      /\ steady \in [Consumers -> 0 .. Grace] /\ taken \in [Consumers -> 0 .. Grace]
      /\ Cooldown \in Nat /\ Grace \in Nat \ {0} /\ rebound >= Cooldown
  BY <1>1, TimesAssumption DEF BacklogInv, TypeOK, Rested, Never
<1>3. /\ since' \in Ages(Grace) /\ DOMAIN since' = Ready
      /\ \A k \in Ready : since'[k] = IF k \in DOMAIN since THEN since[k] ELSE 0
      /\ Ready \subseteq Consumers
      /\ steady' \in [Consumers -> 0 .. Grace]
      /\ \A k \in Ready : steady'[k] = steady[k]
  <2>1. /\ since' \in Ages(Grace) /\ DOMAIN since' = Ready /\ Ready \subseteq Consumers
        /\ \A k \in Ready : since'[k] = IF k \in DOMAIN since THEN since[k] ELSE 0
    BY <1>1, <1>2, ObservedType
  <2>2. steady' \in [Consumers -> 0 .. Grace]
    BY <1>1, <1>2
  <2> QED BY <1>1, <2>1, <2>2
<1>4. held' \in [Consumers -> {"none", "own", "idle", "unread", "dead"}]
  BY DEF Observe, BacklogInv, TypeOK
<1>5. TypeOK'
  BY <1>1, <1>2, <1>3, <1>4 DEF BacklogInv, TypeOK
<1>6. \A k \in Ready : since'[k] + Cooldown <= rebound
  BY <1>2, <1>3 DEF BacklogInv, Rested
<1>7. RebindsApart'
  <2>1. SUFFICES ASSUME phase' = "rebind" PROVE rebound >= Cooldown + Grace
    BY <1>1 DEF RebindsApart
  <2>2. PICK k \in Ready : since'[k] >= Grace
    BY <1>1, <2>1
  <2>3. since'[k] + Cooldown <= rebound /\ since'[k] \in 0 .. Grace
    BY <1>3, <1>6, AgesFacts
  <2> QED BY <1>2, <2>2, <2>3
<1>8. ReadyThroughout'
  <2> SUFFICES ASSUME NEW k \in Ready
               PROVE  /\ since'[k] <= steady'[k]
                      /\ k \notin reused' => since'[k] <= taken'[k]
    BY <1>3 DEF ReadyThroughout
  <2>1. k \notin reused' => k \notin reused
    BY <1>1, <1>3
  <2>2. k \in Consumers /\ steady[k] \in 0 .. Grace /\ taken[k] \in 0 .. Grace
    BY <1>2, <1>3
  <2>3. CASE k \in DOMAIN since
    BY <1>1, <1>3, <2>1, <2>3 DEF BacklogInv, ReadyThroughout
  <2>4. CASE k \notin DOMAIN since
    BY <1>1, <1>2, <1>3, <2>2, <2>4
  <2> QED BY <2>3, <2>4
<1> QED
  BY <1>1, <1>2, <1>3, <1>5, <1>6, <1>7, <1>8 DEF BacklogInv, Rested

LEMMA OtherStep ==
  ASSUME BacklogInv, Environment \/ Nobody \/ UNCHANGED vars
  PROVE  BacklogInv'
<1>1. /\ UNCHANGED <<since, steady, taken, reused, refreshed, cooldown, rebound>>
      /\ phase' = phase \/ phase' = "asleep"
  BY DEF Environment, Nobody, observer, history, timers, vars
<1>2. /\ desc' \in [Consumers -> {"closed", "drained", "unread"}]
      /\ held' \in [Consumers -> {"none", "own", "idle", "unread", "dead"}]
  BY DEF Environment, Deliver, Drain, Close, Open, Unplug, Nobody, vars,
     BacklogInv, TypeOK
<1>3. TypeOK'
  BY <1>1, <1>2 DEF BacklogInv, TypeOK
<1> QED
  BY <1>1, <1>3 DEF BacklogInv, Rested, RebindsApart, ReadyThroughout

(* The inductive invariant of the observer. *)
THEOREM BacklogInvariant == Spec => []BacklogInv
<1>1. Init => BacklogInv
  <2> SUFFICES ASSUME Init PROVE BacklogInv
    OBVIOUS
  <2>1. /\ since \in Ages(Grace) /\ DOMAIN since = {}
        /\ steady \in [Consumers -> 0 .. Grace] /\ taken \in [Consumers -> 0 .. Grace]
    BY EmptyType, ZerosType DEF Init
  <2>2. TypeOK
    BY <2>1, TimesAssumption DEF Init, TypeOK, Never
  <2> QED
    BY <2>1, <2>2, TimesAssumption DEF Init, BacklogInv, Rested, RebindsApart,
       ReadyThroughout, Never
<1>2. BacklogInv /\ [Next]_vars => BacklogInv'
  BY LapseStep, ForgetStep, RefreshStep, ObserveStep, OtherStep DEF Next, Pass
<1> QED BY <1>1, <1>2, PTL DEF Spec

(* Every variable of the observer has its type; no age exceeds its bound.  *)
THEOREM BacklogTypeCorrect == Spec => []TypeOK
<1>1. BacklogInv => TypeOK
  BY DEF BacklogInv
<1> QED BY <1>1, BacklogInvariant, PTL

(* Two rebinds for a backlog are the cooldown and the grace period apart,  *)
(* however long they take.                                                 *)
THEOREM BacklogRebindsApart == Spec => []RebindsApart
<1>1. BacklogInv => RebindsApart
  BY DEF BacklogInv
<1> QED BY <1>1, BacklogInvariant, PTL

(* No consumer is judged by more than ready samples, and only a key that   *)
(* was used again by what an earlier descriptor left unread.               *)
THEOREM JudgedByReadySamples == Spec => []ReadyThroughout
<1>1. BacklogInv => ReadyThroughout
  BY DEF BacklogInv
<1> QED BY <1>1, BacklogInvariant, PTL
=============================================================================
