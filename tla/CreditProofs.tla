----------------------------- MODULE CreditProofs ----------------------------
(***************************************************************************)
(* What Credit promises, for any number of users, any requests and any     *)
(* parameters of NewCredit.                                                *)
(***************************************************************************)
EXTENDS Credit, TLAPS

\* The parameters that NewCredit and GetCredit work with.
LEMMA Parameters ==
    /\ {MinC, ReplenishValue, MaxPeriods} \subseteq Nat
    /\ \A m \in MaxParams :
         NewMax(m) \in Nat /\ (NewMax(m) # 0 => ReplenishValue <= NewMax(m))
BY CreditAssumption DEF NewMax

\* The acceptable minimum never exceeds the amount desired.
LEMMA AcceptableFacts ==
    ASSUME NEW d \in Nat
    PROVE  Acceptable(d) \in Nat /\ Acceptable(d) <= d
BY Parameters DEF Acceptable

\* Capping does not add credit.
LEMMA CappedFacts ==
    ASSUME NEW n \in Nat, max \in Nat
    PROVE  Capped(n) \in Nat /\ Capped(n) <= n /\ (max # 0 => Capped(n) <= max)
BY Parameters DEF Capped

\* What is granted when there is enough credit: in the acceptable range and no
\* more than there is.
LEMMA GrantFacts ==
    ASSUME TypeOK, NEW u \in Users, current >= Acceptable(desired[u])
    PROVE  /\ Grant(u) \in Nat /\ Grant(u) <= current /\ Grant(u) <= desired[u]
           /\ Grant(u) >= Acceptable(desired[u])
<1>1. current \in Nat /\ desired[u] \in Nat
  BY DEF TypeOK
<1>2. Acceptable(desired[u]) \in Nat /\ Acceptable(desired[u]) <= desired[u]
  BY <1>1, AcceptableFacts
<1>3. QED
  BY <1>1, <1>2 DEF Grant

\* The arithmetic of a replenishment.
LEMMA SumFacts ==
    ASSUME NEW g \in Nat, NEW c \in Nat, NEW b \in Nat, NEW r \in Nat, NEW d \in Nat,
           g + c <= b, d <= c + r
    PROVE  g + d <= b + r
OBVIOUS

\* The invariants, which do not depend on each other but for the types.
CreditInv == TypeOK /\ RateLimited /\ BurstLimited /\ NoSleepWithCredit /\ GrantInRange

LEMMA CreditInit == Init => CreditInv
<1> SUFFICES ASSUME Init PROVE CreditInv
  OBVIOUS
<1>0. max \in Nat /\ (max # 0 => ReplenishValue <= max)
  BY Parameters DEF Init
<1>1. TypeOK
  <2>1. /\ max \in Nat /\ current \in Nat /\ periods \in Nat /\ granted \in Nat
        /\ counting \in BOOLEAN /\ cancelled \in BOOLEAN /\ rpc = "check"
    BY <1>0, Parameters, Zenon DEF Init
  <2>2. upc \in [Users -> {"idle"}] /\ desired \in [Users -> {0}] /\ got \in [Users -> {0}]
    BY DEF Init
  <2>3. QED
    BY <2>1, <2>2 DEF TypeOK
<1>2. RateLimited
  BY Parameters DEF Init, RateLimited
<1>3. BurstLimited
  BY <1>0 DEF Init, BurstLimited
<1>4. NoSleepWithCredit /\ GrantInRange
  BY DEF Init, NoSleepWithCredit, GrantInRange
<1>5. QED
  BY <1>1, <1>2, <1>3, <1>4 DEF CreditInv

LEMMA CreditStep ==
    ASSUME CreditInv, [Next]_vars
    PROVE  CreditInv'
<1> USE DEF CreditInv
<1>0. /\ current \in Nat /\ periods \in Nat /\ granted \in Nat
      /\ upc \in [Users -> {"idle", "wait", "retry"}]
      /\ desired \in [Users -> Nat] /\ got \in [Users -> Nat]
      /\ ReplenishValue \in Nat /\ max \in Nat /\ counting \in BOOLEAN
  BY Parameters DEF TypeOK
<1>1. CASE UNCHANGED vars
  BY <1>1 DEF vars, creditVars, settings, TypeOK, RateLimited, BurstLimited, NoSleepWithCredit,
     GrantInRange, Acceptable
<1>2. CASE CheckDone \/ StopReplenish
  <2>1. UNCHANGED <<max, counting, current, periods, granted, upc, desired, got>>
    BY <1>2 DEF CheckDone, StopReplenish, settings
  <2>2. cancelled' \in BOOLEAN /\ rpc' \in {"check", "pause", "stopped"}
    BY <1>2, Zenon DEF CheckDone, StopReplenish, TypeOK
  <2>3. QED
    BY <2>1, <2>2 DEF TypeOK, RateLimited, BurstLimited, NoSleepWithCredit,
       GrantInRange, Acceptable
<1>3. CASE Replenish
  <2>1. /\ current' = Capped(current + ReplenishValue)
        /\ periods' = IF counting THEN periods + 1 ELSE periods
        /\ upc' = [u \in Users |-> IF upc[u] = "wait" THEN "retry" ELSE upc[u]]
        /\ rpc' = "check"
        /\ UNCHANGED <<max, counting, granted, cancelled, desired, got>>
    BY <1>3 DEF Replenish, Broadcast, settings
  <2>2. /\ current' \in Nat /\ current' <= current + ReplenishValue
        /\ max # 0 => current' <= max
    BY <1>0, <2>1, CappedFacts
  <2>3. TypeOK'
    BY <1>0, <2>1, <2>2 DEF TypeOK
  <2>4. RateLimited'
    <3>1. SUFFICES ASSUME counting
                   PROVE  granted' + current' <= ReplenishValue * (periods' + 1)
      BY <2>1 DEF RateLimited
    <3>2. granted + current <= ReplenishValue * (periods + 1)
      BY <3>1 DEF RateLimited
    <3>3. periods' = periods + 1 /\ granted' = granted
      BY <2>1, <3>1
    <3>4. PICK before \in Nat : before = ReplenishValue * (periods + 1)
      BY <1>0
    <3>5. ReplenishValue * (periods' + 1) = before + ReplenishValue
      BY <1>0, <3>3, <3>4
    <3>6. granted + current <= before
      BY <3>2, <3>4
    <3>7. QED
      <4>1. granted + current' <= before + ReplenishValue
        BY <1>0, <2>2, <3>6, SumFacts, Zenon
      <4>2. QED
        BY <3>3, <3>5, <4>1
  <2>5. BurstLimited'
    BY <2>1, <2>2 DEF BurstLimited
  <2>6. NoSleepWithCredit'
    BY <1>0, <2>1 DEF NoSleepWithCredit
  <2>7. GrantInRange'
    BY <1>0, <2>1 DEF GrantInRange, Acceptable
  <2>8. QED
    BY <2>3, <2>4, <2>5, <2>6, <2>7
<1>4. ASSUME NEW u \in Users, NEW d \in Requests, GetCredit(u, d)
      PROVE  CreditInv'
  <2>1. /\ desired' = [desired EXCEPT ![u] = d] /\ upc' = [upc EXCEPT ![u] = "retry"]
        /\ got' = [got EXCEPT ![u] = 0]
        /\ UNCHANGED <<max, counting, current, periods, granted, cancelled, rpc>> /\ d \in Nat
    BY <1>4, RequestsAssumption DEF GetCredit, creditVars, settings
  <2>2. TypeOK' /\ RateLimited' /\ BurstLimited'
    BY <1>0, <2>1 DEF TypeOK, RateLimited, BurstLimited
  <2>3. NoSleepWithCredit' /\ GrantInRange'
    BY <1>0, <2>1 DEF NoSleepWithCredit, GrantInRange, Acceptable
  <2>4. QED
    BY <2>2, <2>3
<1>5. ASSUME NEW u \in Users, Wait(u)
      PROVE  CreditInv'
  <2>1. /\ upc' = [upc EXCEPT ![u] = "wait"] /\ current < Acceptable(desired[u])
        /\ UNCHANGED <<max, counting, current, periods, granted, cancelled, rpc, desired, got>>
    BY <1>5 DEF Wait, creditVars, settings
  <2>2. TypeOK' /\ RateLimited' /\ BurstLimited'
    BY <1>0, <2>1 DEF TypeOK, RateLimited, BurstLimited
  <2>3. NoSleepWithCredit' /\ GrantInRange'
    BY <1>0, <2>1 DEF NoSleepWithCredit, GrantInRange, Acceptable
  <2>4. QED
    BY <2>2, <2>3
<1>6. ASSUME NEW u \in Users, Take(u)
      PROVE  CreditInv'
  <2>1. /\ upc' = [upc EXCEPT ![u] = "idle"] /\ got' = [got EXCEPT ![u] = Grant(u)]
        /\ current' = current - Grant(u)
        /\ granted' = IF counting THEN granted + Grant(u) ELSE granted
        /\ UNCHANGED <<max, counting, periods, cancelled, rpc, desired>>
    BY <1>6 DEF Take, LessGrant, settings
  <2>2. /\ Grant(u) \in Nat /\ Grant(u) <= current /\ Grant(u) <= desired[u]
        /\ Grant(u) >= Acceptable(desired[u])
    BY <1>6, GrantFacts DEF Take
  <2>3. current' \in Nat /\ current' <= current
    BY <1>0, <2>1, <2>2
  <2>4. TypeOK'
    BY <1>0, <2>1, <2>2, <2>3 DEF TypeOK
  <2>5. RateLimited' /\ BurstLimited'
    BY <1>0, <2>1, <2>2, <2>3 DEF RateLimited, BurstLimited
  <2>6. NoSleepWithCredit'
    <3>1. SUFFICES ASSUME NEW v \in Users, upc'[v] = "wait"
                   PROVE  current' < Acceptable(desired[v])'
      BY DEF NoSleepWithCredit
    <3>2. upc[v] = "wait"
      BY <1>0, <2>1, <3>1
    <3>3. Acceptable(desired[v])' = Acceptable(desired[v])
      BY <2>1 DEF Acceptable
    <3>4. Acceptable(desired[v]) \in Nat
      BY <1>0, AcceptableFacts
    <3>5. QED
      BY <1>0, <2>3, <3>2, <3>3, <3>4 DEF NoSleepWithCredit
  <2>7. GrantInRange'
    <3>1. SUFFICES ASSUME NEW v \in Users, upc'[v] = "idle", desired'[v] > 0
                   PROVE  Acceptable(desired[v])' <= got'[v] /\ got'[v] <= desired'[v]
      BY DEF GrantInRange
    <3>2. Acceptable(desired[v])' = Acceptable(desired[v])
      BY <2>1 DEF Acceptable
    <3>3. CASE v = u
      BY <1>0, <2>1, <2>2, <3>2, <3>3
    <3>4. CASE v # u
      BY <1>0, <2>1, <3>1, <3>2, <3>4 DEF GrantInRange
    <3>5. QED
      BY <3>3, <3>4
  <2>8. QED
    BY <2>4, <2>5, <2>6, <2>7
<1>7. QED
  BY <1>1, <1>2, <1>3, <1>4, <1>5, <1>6 DEF Next

LEMMA CreditInvariant == Spec => []CreditInv
BY CreditInit, CreditStep, PTL DEF Spec

\* Over n replenish periods all the users of a Credit together are granted no
\* more than n + 1 times the replenish value (rate_controller.go:115-174).
THEOREM RateIsLimited == Spec => []RateLimited
BY CreditInvariant, PTL DEF CreditInv

\* The credit that accumulates while nobody asks for it, hence the burst, never
\* exceeds max (rate_controller.go:135-137).
THEOREM BurstIsLimited == Spec => []BurstLimited
BY CreditInvariant, PTL DEF CreditInv

\* No call of GetCredit sleeps with enough credit for it
\* (rate_controller.go:138, 163-165).
THEOREM WaitersAreWoken == Spec => []NoSleepWithCredit
BY CreditInvariant, PTL DEF CreditInv

\* Every call returns between the acceptable minimum and the amount desired
\* (rate_controller.go:154-174).
THEOREM GrantsAreInRange == Spec => []GrantInRange
BY CreditInvariant, PTL DEF CreditInv
==============================================================================
