----------------------- MODULE HttpEndpointPoolProofs ------------------------
(***************************************************************************)
(* No endpoint of the pool is lost, for any number of endpoints, senders   *)
(* and errors, any intervals and whoever calls Shutdown when.              *)
(***************************************************************************)
EXTENDS HttpEndpointPool, TLAPS

------------------------------------------------------------------------------
(* The healthy list as a value: l has every endpoint that h flags, once.     *)

Injective(l) == \A i, j \in 1..Len(l) : l[i] = l[j] => i = j
Has(l, e) == \E i \in 1..Len(l) : l[i] = e
Holds(l, h) == Injective(l) /\ \A e \in Endpoints : h[e] <=> Has(l, e)

\* The list l with the endpoints behind e moved up by one.
Drop(l, e) ==
    [i \in 1..(Len(l) - 1) |-> IF \E j \in 1..i : l[j] = e THEN l[i + 1] ELSE l[i]]

LEMMA DropFacts ==
    ASSUME NEW l \in Seq(Endpoints), Injective(l), NEW i \in 1..Len(l)
    PROVE  /\ Drop(l, l[i]) \in Seq(Endpoints) /\ Len(l) \in Nat
           /\ Len(Drop(l, l[i])) = Len(l) - 1
           /\ \A k \in 1..(Len(l) - 1) :
                Drop(l, l[i])[k] = IF k < i THEN l[k] ELSE l[k + 1]
<1>1. Len(l) \in Nat /\ \A k \in 1..Len(l) : l[k] \in Endpoints
  OBVIOUS
<1>2. Drop(l, l[i]) \in [1..(Len(l) - 1) -> Endpoints]
  BY <1>1 DEF Drop
<1>3. Drop(l, l[i]) \in Seq(Endpoints) /\ Len(Drop(l, l[i])) = Len(l) - 1
  BY <1>1, <1>2
<1>4. ASSUME NEW k \in 1..(Len(l) - 1) PROVE (\E j \in 1..k : l[j] = l[i]) <=> ~(k < i)
  BY <1>1 DEF Injective
<1>5. QED
  BY <1>1, <1>3, <1>4 DEF Drop

\* MoveToHealthy: an endpoint that is out of the list goes to its tail.
LEMMA AppendHolds ==
    ASSUME NEW l \in Seq(Endpoints), NEW h \in [Endpoints -> BOOLEAN],
           NEW e \in Endpoints, Holds(l, h), ~h[e]
    PROVE  /\ Append(l, e) \in Seq(Endpoints) /\ Append(l, e) # <<>>
           /\ Holds(Append(l, e), [h EXCEPT ![e] = TRUE])
           /\ Head(Append(l, e)) = IF l = <<>> THEN e ELSE Head(l)
<1> DEFINE m == Append(l, e)
<1>1. /\ m \in Seq(Endpoints) /\ Len(l) \in Nat /\ Len(m) = Len(l) + 1
      /\ m[Len(l) + 1] = e /\ \A k \in 1..Len(l) : m[k] = l[k]
      /\ m # <<>>
  OBVIOUS
<1>2. \A k \in 1..Len(l) : l[k] # e /\ l[k] \in Endpoints
  BY DEF Holds, Has
<1>3. Head(m) = IF l = <<>> THEN e ELSE Head(l)
  OBVIOUS
<1> HIDE DEF m
<1>4. Injective(m)
  BY <1>1, <1>2 DEF Injective, Holds
<1>5. ASSUME NEW x \in Endpoints
      PROVE  [h EXCEPT ![e] = TRUE][x] <=> Has(m, x)
  <2>1. CASE x = e
    BY <1>1, <2>1 DEF Has
  <2>2. CASE x # e
    <3>1. Has(m, x) <=> Has(l, x)
      BY <1>1, <2>2 DEF Has
    <3>2. QED
      BY <2>2, <3>1 DEF Holds
  <2>3. QED
    BY <2>1, <2>2
<1>6. QED
  BY <1>1, <1>3, <1>4, <1>5 DEF Holds, m

\* ReportError: an endpoint leaves the list; unless it was the head, the head
\* stays.
LEMMA RemoveHolds ==
    ASSUME NEW l \in Seq(Endpoints), NEW h \in [Endpoints -> BOOLEAN],
           NEW e \in Endpoints, Holds(l, h), h[e]
    PROVE  /\ l # <<>>
           /\ Drop(l, e) \in Seq(Endpoints)
           /\ Holds(Drop(l, e), [h EXCEPT ![e] = FALSE])
           /\ Head(l) # e => Drop(l, e) # <<>> /\ Head(Drop(l, e)) = Head(l)
<1> DEFINE m == Drop(l, e)
<1>1. PICK i \in 1..Len(l) : l[i] = e
  BY DEF Holds, Has
<1>3. /\ m \in Seq(Endpoints) /\ Len(l) \in Nat /\ Len(m) = Len(l) - 1
      /\ \A k \in 1..(Len(l) - 1) : m[k] = IF k < i THEN l[k] ELSE l[k + 1]
  BY <1>1, DropFacts, ZenonT(30) DEF Holds
<1> HIDE DEF m
<1>4. Injective(m)
  <2> DEFINE at(k) == IF k < i THEN k ELSE k + 1
  <2>1. ASSUME NEW j \in 1..Len(m), NEW k \in 1..Len(m), m[j] = m[k] PROVE j = k
    <3>1. /\ at(j) \in 1..Len(l) /\ at(k) \in 1..Len(l)
          /\ m[j] = l[at(j)] /\ m[k] = l[at(k)]
      BY <1>3
    <3>2. at(j) = at(k)
      <4> HIDE DEF at
      <4>1. QED
        BY <2>1, <3>1, Zenon DEF Injective, Holds
    <3>3. QED
      BY <1>3, <3>2
  <2>2. QED
    BY <2>1 DEF Injective
<1>5. ASSUME NEW x \in Endpoints
      PROVE  [h EXCEPT ![e] = FALSE][x] <=> Has(m, x)
  <2>1. CASE x = e
    <3>1. \A k \in 1..Len(m) : m[k] # e
      BY <1>1, <1>3 DEF Injective, Holds
    <3>2. QED
      BY <2>1, <3>1 DEF Has
  <2>2. CASE x # e
    <3>1. ASSUME Has(m, x) PROVE Has(l, x)
      BY <1>3, <3>1 DEF Has
    <3>2. ASSUME Has(l, x) PROVE Has(m, x)
      <4>1. PICK k \in 1..Len(l) : l[k] = x
        BY <3>2 DEF Has
      <4>2. CASE k < i
        BY <1>3, <4>1, <4>2 DEF Has
      <4>3. CASE k > i
        <5>1. k - 1 \in 1..Len(m) /\ m[k - 1] = x
          BY <1>3, <4>1, <4>3
        <5>2. QED
          BY <5>1 DEF Has
      <4>4. k # i
        BY <1>1, <2>2, <4>1
      <4>5. QED
        BY <4>2, <4>3, <4>4
    <3>3. QED
      BY <2>2, <3>1, <3>2 DEF Holds
  <2>3. QED
    BY <2>1, <2>2
<1>6. l # <<>> /\ Head(l) = l[1]
  BY <1>1
<1>7. ASSUME Head(l) # e PROVE m # <<>> /\ Head(m) = Head(l)
  <2>1. i > 1 /\ Len(m) > 0 /\ m[1] = l[1]
    BY <1>1, <1>3, <1>6, <1>7
  <2>2. QED
    BY <1>3, <1>6, <2>1
<1>8. QED
  BY <1>3, <1>4, <1>5, <1>6, <1>7 DEF Holds, m

\* An endpoint of the list goes to its tail: below the threshold of errors, or
\* rotated.
LEMMA ToTailHolds ==
    ASSUME NEW l \in Seq(Endpoints), NEW h \in [Endpoints -> BOOLEAN],
           NEW e \in Endpoints, Holds(l, h), h[e]
    PROVE  /\ Append(Drop(l, e), e) \in Seq(Endpoints)
           /\ Append(Drop(l, e), e) # <<>>
           /\ Holds(Append(Drop(l, e), e), h)
           /\ Head(l) # e => Head(Append(Drop(l, e), e)) = Head(l)
<1> DEFINE m == Drop(l, e)
           g == [h EXCEPT ![e] = FALSE]
<1>1. /\ m \in Seq(Endpoints) /\ Holds(m, g)
      /\ Head(l) # e => m # <<>> /\ Head(m) = Head(l)
  BY RemoveHolds, Zenon
<1>2. g \in [Endpoints -> BOOLEAN] /\ ~g[e] /\ [g EXCEPT ![e] = TRUE] = h
  BY Zenon
<1> HIDE DEF m, g
<1>3. /\ Append(m, e) \in Seq(Endpoints) /\ Append(m, e) # <<>>
      /\ Holds(Append(m, e), h)
      /\ Head(Append(m, e)) = IF m = <<>> THEN e ELSE Head(m)
  BY <1>1, <1>2, AppendHolds, Zenon
<1>4. QED
  BY <1>1, <1>3 DEF m

LEMMA SameSeq ==
    ASSUME NEW s \in Seq(Endpoints), NEW t \in Seq(Endpoints), Len(s) = Len(t),
           \A i \in 1..Len(s) : s[i] = t[i]
    PROVE  s = t
OBVIOUS

\* GetCurrentHealthy: the rotation moves the head to the tail.
LEMMA RotateHolds ==
    ASSUME NEW l \in Seq(Endpoints), NEW h \in [Endpoints -> BOOLEAN],
           Holds(l, h), Len(l) > 1
    PROVE  /\ Append(Tail(l), Head(l)) \in Seq(Endpoints)
           /\ Append(Tail(l), Head(l)) # <<>>
           /\ Holds(Append(Tail(l), Head(l)), h)
           /\ Head(l) \in Endpoints /\ h[Head(l)]
           /\ Head(Append(Tail(l), Head(l))) \in Endpoints \ {Head(l)}
<1>1. /\ Len(l) \in Nat /\ Head(l) = l[1] /\ Head(l) \in Endpoints /\ l[2] \in Endpoints
      /\ Tail(l) \in Seq(Endpoints) /\ Len(Tail(l)) = Len(l) - 1
      /\ \A k \in 1..(Len(l) - 1) : Tail(l)[k] = l[k + 1]
  OBVIOUS
<1>2. h[Head(l)]
  BY <1>1 DEF Holds, Has
<1>3. Drop(l, Head(l)) = Tail(l)
  <2>1. ASSUME NEW k \in 1..(Len(l) - 1) PROVE \E j \in 1..k : l[j] = Head(l)
    BY <1>1
  <2>2. /\ Drop(l, Head(l)) \in Seq(Endpoints) /\ Len(Drop(l, Head(l))) = Len(Tail(l))
        /\ \A k \in 1..Len(Tail(l)) : Tail(l)[k] = Drop(l, Head(l))[k]
    BY <1>1, <2>1 DEF Drop
  <2>3. QED
    BY <1>1, <2>2, SameSeq, Zenon
<1>5. /\ Append(Tail(l), Head(l)) \in Seq(Endpoints)
      /\ Append(Tail(l), Head(l)) # <<>>
      /\ Holds(Append(Tail(l), Head(l)), h)
  BY <1>1, <1>2, <1>3, ToTailHolds, ZenonT(30)
<1>6. Head(Append(Tail(l), Head(l))) = l[2]
  BY <1>1
<1>7. l[2] # l[1]
  BY <1>1 DEF Holds, Injective
<1>8. QED
  BY <1>1, <1>2, <1>5, <1>6, <1>7

------------------------------------------------------------------------------
(* The state of the pool.                                                    *)

StateOf(l, h, e) ==
    IF ~h[e] THEN "HealthCheck" ELSE IF Head(l) = e THEN "AtHead" ELSE "Healthy"

LEMMA NoEndpointLostFacts ==
    NoEndpointLost <=>
        /\ Holds(list, healthy)
        /\ \A e \in Endpoints :
             /\ Len(hc[e]) = IF healthy[e] THEN 0 ELSE 1
             /\ healthy[e] => numErrors[e] < Threshold
             /\ epState[e] = StateOf(list, healthy, e)
BY DEF NoEndpointLost, Holds, Injective, Has, InList, StateOf

PoolType ==
    /\ list \in Seq(Endpoints)
    /\ healthy \in [Endpoints -> BOOLEAN]
    /\ numErrors \in [Endpoints -> Nat]
    /\ errorAge \in [Endpoints -> Nat]
    /\ firstUse \in BOOLEAN
    /\ headAge \in Nat
    /\ epState \in [Endpoints -> {"HealthCheck", "Healthy", "AtHead"}]
    /\ hc \in [Endpoints -> Seq({"wait", "probe", "move"})]

SendType ==
    /\ spc \in [Senders -> {"idle", "get", "poll", "do", "report"}]
    /\ sep \in [Senders -> Endpoints \cup {NoEndpoint}]
    /\ \A s \in Senders : spc[s] \in {"do", "report"} => sep[s] \in Endpoints
    /\ left \in [Senders -> Int]
    /\ nap \in [Senders -> Nat]
    /\ mpc \in {"open", "shut", "cancelled", "closed"}

LEMMA TypeParts == TypeOK <=> PoolType /\ SendType
BY DEF TypeOK, PoolType, SendType

\* The inductive invariant: NoEndpointLost needs nothing but the types.
PoolInv == TypeOK /\ NoEndpointLost

LEMMA Frame ==
    ASSUME PoolInv, UNCHANGED <<listVars, hc>>
    PROVE  PoolType' /\ NoEndpointLost'
BY DEF PoolInv, TypeOK, PoolType, NoEndpointLost, InList, listVars

LEMMA PoolInit == Init => PoolInv
<1> SUFFICES ASSUME Init PROVE PoolInv
  OBVIOUS
<1> DEFINE n == Cardinality(Endpoints)
<1>1. n \in Nat
  BY EndpointsAssumption
<1>2. /\ list \in [1..n -> Endpoints]
      /\ \A i, j \in 1..n : list[i] = list[j] => i = j
      /\ \A e \in Endpoints : \E i \in 1..n : list[i] = e
  BY DEF Init, Bijection, Injection, Surjection, IsInjective
<1> HIDE DEF n
<1>3. list \in Seq(Endpoints) /\ Len(list) = n
  BY <1>1, <1>2
<1>5. Holds(list, healthy)
  BY <1>2, <1>3 DEF Holds, Has, Injective, Init
<1>6. NoEndpointLost
  BY <1>5, NoEndpointLostFacts, ThresholdAssumption
     DEF Init, StateOf, AllHealthyStates
<1>7. PoolType
  BY <1>3, IntervalsAssumption DEF Init, PoolType, AllHealthyStates, MaxHeadAge
<1>8. SendType
  BY DEF Init, SendType
<1>9. QED
  BY <1>6, <1>7, <1>8, TypeParts DEF PoolInv

------------------------------------------------------------------------------
(* The steps.                                                                *)

LEMMA TickStep ==
    ASSUME PoolInv, Tick
    PROVE  PoolInv'
<1>1. PoolType /\ SendType /\ NoEndpointLost
  BY TypeParts DEF PoolInv
<1>2. ErrorResetInterval \in Nat /\ MaxHeadAge \in Nat
  BY IntervalsAssumption DEF MaxHeadAge
<1>3. errorAge' \in [Endpoints -> Nat] /\ headAge' \in Nat
  BY <1>1, <1>2 DEF Tick, PoolType, Smaller
<1>4. left' \in [Senders -> Int] /\ nap' \in [Senders -> Nat]
  BY <1>1 DEF Tick, SendType, Larger
<1>5. TypeOK'
  BY <1>1, <1>3, <1>4 DEF Tick, TypeOK, PoolType, SendType
<1>6. NoEndpointLost'
  BY <1>1 DEF Tick, NoEndpointLost, InList
<1>7. QED
  BY <1>5, <1>6 DEF PoolInv

\* SendBuffer returns.
LEMMA ReturnType ==
    ASSUME SendType, NEW s \in Senders, Return(s), UNCHANGED mpc
    PROVE  SendType'
BY DEF SendType, Return

\* GetCurrentHealthy finds an endpoint.
LEMMA UseHeadStep ==
    ASSUME PoolInv, NEW s \in Senders, UseHead(s), UNCHANGED <<hc, mpc>>
    PROVE  PoolInv'
<1> DEFINE l == IF RotateDue THEN Append(Tail(list), Head(list)) ELSE list
           e == Head(l)
<1>1. PoolType /\ SendType /\ Holds(list, healthy) /\ list # <<>>
  BY TypeParts, NoEndpointLostFacts DEF PoolInv, UseHead
<1>2. \A x \in Endpoints : /\ Len(hc[x]) = IF healthy[x] THEN 0 ELSE 1
                           /\ healthy[x] => numErrors[x] < Threshold
                           /\ epState[x] = StateOf(list, healthy, x)
  BY NoEndpointLostFacts DEF PoolInv
<1>3. l \in Seq(Endpoints) /\ l # <<>> /\ Holds(l, healthy)
  BY <1>1, RotateHolds, Zenon DEF RotateDue, PoolType
<1>4. e \in Endpoints /\ healthy[e]
  <2> HIDE DEF l
  <2>1. 1 \in 1..Len(l) /\ l[1] = e /\ e \in Endpoints
    BY <1>3
  <2>2. QED
    BY <1>3, <2>1 DEF Holds, Has
<1>5. /\ list' = l /\ healthy' = healthy /\ hc' = hc
      /\ \A x \in Endpoints : numErrors'[x] \in {0, numErrors[x]}
      /\ numErrors' \in [Endpoints -> Nat]
  BY <1>1, <1>4, Zenon DEF UseHead, PoolType
<1>6. \A x \in Endpoints : epState'[x] = StateOf(l, healthy, x)
  <2>1. CASE RotateDue
    <3>1. /\ Head(list) \in Endpoints /\ healthy[Head(list)]
          /\ e \in Endpoints /\ e # Head(list)
      BY <1>1, <2>1, RotateHolds DEF RotateDue, PoolType
    <3>3. epState' = [epState EXCEPT ![Head(list)] = "Healthy", ![e] = "AtHead"]
      BY <2>1 DEF UseHead, RotatedState
    <3> HIDE DEF e, l
    <3>4. \A x \in Endpoints :
            epState'[x] = IF x = e THEN "AtHead"
                          ELSE IF x = Head(list) THEN "Healthy" ELSE epState[x]
      BY <1>1, <3>1, <3>3 DEF PoolType
    <3>5. QED
      BY <1>2, <1>4, <3>1, <3>4 DEF StateOf, e
  <2>2. CASE ~RotateDue
    BY <1>2, <2>2 DEF UseHead
  <2>3. QED
    BY <2>1, <2>2
<1>7. epState' \in [Endpoints -> {"HealthCheck", "Healthy", "AtHead"}]
  <2>1. epState' = epState \/ epState' = RotatedState(l)
    BY DEF UseHead
  <2>2. QED
    BY <1>1, <2>1, Zenon DEF PoolType, RotatedState
<1>8. NoEndpointLost'
  <2>1. ASSUME NEW x \in Endpoints, healthy[x] PROVE numErrors'[x] < Threshold
    <3>1. numErrors[x] < Threshold /\ numErrors'[x] \in {0, numErrors[x]}
      BY <1>2, <1>5, <2>1
    <3>2. QED
      BY <3>1, ThresholdAssumption
  <2> HIDE DEF l
  <2>2. QED
    BY <1>2, <1>3, <1>5, <1>6, <2>1, NoEndpointLostFacts
       DEF NoEndpointLost, Holds, Injective, Has, InList, StateOf
<1>9. PoolType'
  BY <1>1, <1>3, <1>5, <1>7, Zenon DEF PoolType, UseHead
<1>10. SendType'
  BY <1>1, <1>4, Zenon DEF SendType, UseHead, Attempt
<1>11. QED
  BY <1>8, <1>9, <1>10, TypeParts DEF PoolInv, TypeOK, PoolType, SendType

\* The steps of SendBuffer that leave the list alone.
LEMMA SendOnlyStep ==
    ASSUME PoolInv, UNCHANGED <<listVars, hc>>, SendType'
    PROVE  PoolInv'
BY Frame DEF PoolInv, TypeOK, PoolType, SendType

LEMMA GetStep ==
    ASSUME PoolInv, NEW s \in Senders,
           UseHead(s) \/ NoHealthyEndpoint(s) \/ Sleep(s), UNCHANGED <<hc, mpc>>
    PROVE  PoolInv'
<1>0. SendType
  BY TypeParts DEF PoolInv
<1>1. CASE UseHead(s)
  BY <1>1, UseHeadStep
<1>2. CASE NoHealthyEndpoint(s)
  BY <1>0, <1>2, ReturnType, SendOnlyStep DEF NoHealthyEndpoint
<1>3. CASE Sleep(s)
  <2>1. Smaller(PollInterval, left[s]) \in Nat
    BY <1>0, <1>3, IntervalsAssumption DEF Sleep, Smaller, SendType
  <2>2. SendType'
    BY <1>0, <1>3, <2>1 DEF Sleep, SendType
  <2>3. QED
    BY <1>3, <2>2, SendOnlyStep DEF Sleep
<1>4. QED
  BY <1>1, <1>2, <1>3

\* The error of an endpoint that is healthy.
LEMMA DemoteStep ==
    ASSUME PoolType, NoEndpointLost, NEW e \in Endpoints, healthy[e], Demote(e),
           numErrors' = [numErrors EXCEPT ![e] = @ + 1],
           UNCHANGED headAge, errorAge' \in [Endpoints -> Nat]
    PROVE  PoolType' /\ NoEndpointLost'
<1> DEFINE out == Unhealthy(numErrors[e] + 1)
           l == IF out THEN Without(e) ELSE Append(Without(e), e)
           h == [healthy EXCEPT ![e] = ~out]
<1>1. Holds(list, healthy)
  BY NoEndpointLostFacts
<1>2. \A x \in Endpoints : /\ Len(hc[x]) = IF healthy[x] THEN 0 ELSE 1
                           /\ healthy[x] => numErrors[x] < Threshold
                           /\ epState[x] = StateOf(list, healthy, x)
  BY NoEndpointLostFacts
<1>3. /\ l \in Seq(Endpoints) /\ Holds(l, h)
      /\ Head(list) # e => l # <<>> /\ Head(l) = Head(list)
      /\ ~out => l # <<>>
  <2>1. CASE out
    <3>1. l = Drop(list, e) /\ h = [healthy EXCEPT ![e] = FALSE]
      BY <2>1, Zenon DEF Without, Drop
    <3>2. /\ Drop(list, e) \in Seq(Endpoints)
          /\ Holds(Drop(list, e), [healthy EXCEPT ![e] = FALSE])
          /\ Head(list) # e => /\ Drop(list, e) # <<>>
                              /\ Head(Drop(list, e)) = Head(list)
      BY <1>1, RemoveHolds, Zenon DEF PoolType
    <3> HIDE DEF l, h, out
    <3>3. QED
      BY <2>1, <3>1, <3>2
  <2>2. CASE ~out
    <3>1. l = Append(Drop(list, e), e) /\ h = [healthy EXCEPT ![e] = TRUE]
      BY <2>2, Zenon DEF Without, Drop
    <3>2. [healthy EXCEPT ![e] = TRUE] = healthy
      BY DEF PoolType
    <3>3. QED
      BY <1>1, <2>2, <3>1, <3>2, ToTailHolds, ZenonT(30) DEF PoolType
  <2>3. QED
    BY <2>1, <2>2
<1>4. /\ list' = l /\ healthy' = h /\ firstUse' = TRUE
      /\ hc' = [hc EXCEPT ![e] = IF out THEN Append(@, "wait") ELSE @]
      /\ epState' = HeadState([epState EXCEPT ![e] =
                                 IF out THEN "HealthCheck" ELSE "Healthy"], l)
  BY DEF Demote
<1>5. out \in BOOLEAN /\ (~out => numErrors'[e] < Threshold)
  <2>1. numErrors[e] \in Nat /\ numErrors'[e] = numErrors[e] + 1
    BY DEF PoolType
  <2>2. QED
    BY <2>1, ThresholdAssumption DEF Unhealthy
<1> HIDE DEF l, out
<1>6. /\ h \in [Endpoints -> BOOLEAN] /\ (h[e] <=> ~out)
      /\ \A x \in Endpoints \ {e} : h[x] = healthy[x]
  BY <1>5, Zenon DEF PoolType
<1>7. l # <<>> => Head(l) \in Endpoints /\ h[Head(l)]
  <2> SUFFICES ASSUME l # <<>> PROVE Head(l) \in Endpoints /\ h[Head(l)]
    OBVIOUS
  <2>1. Head(l) \in Endpoints /\ Head(l) = l[1] /\ 1 \in 1..Len(l)
    BY <1>3
  <2>2. QED
    BY <1>3, <2>1 DEF Holds, Has
<1> HIDE DEF h
<1>8. /\ epState' \in [Endpoints -> {"HealthCheck", "Healthy", "AtHead"}]
      /\ \A x \in Endpoints : epState'[x] = StateOf(l, h, x)
  <2> DEFINE st == [epState EXCEPT ![e] = IF out THEN "HealthCheck" ELSE "Healthy"]
  <2>1. /\ st \in [Endpoints -> {"HealthCheck", "Healthy", "AtHead"}]
        /\ epState' = HeadState(st, l)
        /\ st[e] = IF out THEN "HealthCheck" ELSE "Healthy"
        /\ \A x \in Endpoints \ {e} : st[x] = epState[x]
    BY <1>4 DEF PoolType
  <2> HIDE DEF st
  <2>2. CASE l = <<>>
    <3>1. out /\ Head(list) = e /\ epState' = st
      BY <1>3, <2>1, <2>2 DEF HeadState
    <3>2. \A x \in Endpoints : ~h[x]
      BY <1>3, <2>2 DEF Holds, Has
    <3>3. \A x \in Endpoints : epState'[x] = "HealthCheck"
      BY <1>2, <1>6, <2>1, <3>1, <3>2 DEF StateOf
    <3>4. QED
      BY <2>1, <3>1, <3>2, <3>3 DEF StateOf
  <2>3. CASE l # <<>>
    <3>1. epState' = [st EXCEPT ![Head(l)] = "AtHead"]
      BY <2>1, <2>3 DEF HeadState
    <3>2. ASSUME NEW x \in Endpoints PROVE epState'[x] = StateOf(l, h, x)
      <4>1. CASE x = Head(l)
        BY <1>7, <2>1, <2>3, <3>1, <4>1 DEF StateOf
      <4>2. CASE x # Head(l) /\ x = e
        BY <1>5, <1>6, <2>1, <3>1, <4>2 DEF StateOf
      <4>3. CASE x # Head(l) /\ x # e
        <5>1. epState'[x] = epState[x] /\ h[x] = healthy[x]
          BY <1>6, <2>1, <3>1, <4>3
        <5>2. x # Head(list)
          BY <1>3, <4>3
        <5>3. QED
          BY <1>2, <4>3, <5>1, <5>2 DEF StateOf
      <4>4. QED
        BY <4>1, <4>2, <4>3
    <3>3. QED
      BY <2>1, <3>1, <3>2, Zenon
  <2>4. QED
    BY <2>2, <2>3
<1>9. /\ hc' \in [Endpoints -> Seq({"wait", "probe", "move"})]
      /\ \A x \in Endpoints : Len(hc'[x]) = IF h[x] THEN 0 ELSE 1
  <2>1. hc[e] \in Seq({"wait", "probe", "move"}) /\ Len(hc[e]) = 0
    BY <1>2 DEF PoolType
  <2>2. /\ Append(hc[e], "wait") \in Seq({"wait", "probe", "move"})
        /\ Len(Append(hc[e], "wait")) = 1
    BY <2>1
  <2>3. QED
    BY <1>2, <1>4, <1>5, <1>6, <2>1, <2>2, ZenonT(30) DEF PoolType
<1>10. numErrors' \in [Endpoints -> Nat]
  BY DEF PoolType
<1>11. \A x \in Endpoints : h[x] => numErrors'[x] < Threshold
  BY <1>2, <1>5, <1>6 DEF PoolType
<1>12. NoEndpointLost'
  <2>1. /\ \A i, j \in 1..Len(list') : list'[i] = list'[j] => i = j
        /\ \A x \in Endpoints : healthy'[x] <=> InList(x)'
    BY <1>3, <1>4 DEF Holds, Injective, Has, InList
  <2>2. ASSUME NEW x \in Endpoints
        PROVE  /\ Len(hc'[x]) = IF healthy'[x] THEN 0 ELSE 1
               /\ healthy'[x] => numErrors'[x] < Threshold
               /\ epState'[x] = StateOf(list', healthy', x)
    BY <1>4, <1>8, <1>9, <1>11, Zenon
  <2>3. QED
    BY <2>1, <2>2 DEF NoEndpointLost, StateOf
<1>13. PoolType'
  BY <1>3, <1>4, <1>6, <1>8, <1>9, <1>10, Zenon DEF PoolType
<1>14. QED
  BY <1>12, <1>13

LEMMA ReportStep ==
    ASSUME PoolInv, NEW s \in Senders, ReportError(s)
    PROVE  PoolInv'
<1> DEFINE e == sep[s]
<1>1. PoolType /\ SendType /\ NoEndpointLost
  BY TypeParts DEF PoolInv
<1>2. e \in Endpoints
  BY <1>1 DEF ReportError, SendType
<1>3. /\ numErrors' = [numErrors EXCEPT ![e] = @ + 1] /\ headAge' = headAge
      /\ errorAge' \in [Endpoints -> Nat]
  BY <1>1, <1>2 DEF ReportError, PoolType
<1>4. PoolType' /\ NoEndpointLost'
  <2>1. CASE healthy[e]
    <3>1. Demote(e)
      BY <2>1 DEF ReportError
    <3> HIDE DEF e
    <3>2. QED
      BY <1>1, <1>2, <1>3, <2>1, <3>1, DemoteStep, Zenon
  <2>2. CASE ~healthy[e]
    <3>1. UNCHANGED <<list, firstUse, healthy, hc, epState>>
      BY <2>2 DEF ReportError
    <3> HIDE DEF e
    <3>2. /\ numErrors' \in [Endpoints -> Nat]
          /\ \A x \in Endpoints : healthy[x] => numErrors'[x] = numErrors[x]
      BY <1>1, <1>2, <1>3, <2>2 DEF PoolType
    <3>3. PoolType'
      BY <1>1, <1>3, <3>1, <3>2 DEF PoolType
    <3>4. NoEndpointLost'
      BY <1>1, <3>1, <3>2 DEF NoEndpointLost, InList
    <3>5. QED
      BY <3>3, <3>4
  <2>3. QED
    BY <2>1, <2>2
<1>5. SendType'
  BY <1>1 DEF ReportError, SendType
<1>6. QED
  BY <1>4, <1>5 DEF PoolInv, TypeOK, PoolType, SendType

LEMMA SenderStep ==
    ASSUME PoolInv, NEW s \in Senders, SendBuffer(s) \/ Sender(s)
    PROVE  PoolInv'
<1>0. SendType
  BY TypeParts DEF PoolInv
<1>1. CASE SendBuffer(s)
  <2>1. SendType'
    BY <1>0, <1>1, IntervalsAssumption DEF SendBuffer, SendType
  <2>2. QED
    BY <1>1, <2>1, SendOnlyStep DEF SendBuffer
<1>2. CASE GetCurrentHealthy(s)
  <2>1. CASE shutdown
    BY <1>0, <1>2, <2>1, ReturnType, SendOnlyStep DEF GetCurrentHealthy
  <2>2. CASE ~shutdown
    BY <1>2, <2>2, GetStep DEF GetCurrentHealthy
  <2>3. QED
    BY <2>1, <2>2
<1>3. CASE Poll(s)
  BY <1>3, GetStep DEF Poll
<1>4. CASE Responded(s)
  BY <1>0, <1>4, ReturnType, SendOnlyStep DEF Responded
<1>5. CASE Failed(s)
  <2>1. SendType'
    BY <1>0, <1>5 DEF Failed, SendType
  <2>2. QED
    BY <1>5, <2>1, SendOnlyStep DEF Failed
<1>6. CASE ReportError(s)
  BY <1>6, ReportStep
<1>7. QED
  BY <1>1, <1>2, <1>3, <1>4, <1>5, <1>6 DEF Sender

\* A health check goes on without the list.
LEMMA CheckGoesOn ==
    ASSUME PoolInv, NEW e \in Endpoints, NEW i \in 1..Len(hc[e]),
           NEW v \in {"wait", "probe", "move"}, hc' = [hc EXCEPT ![e][i] = v],
           UNCHANGED <<listVars, sendVars, mpc>>
    PROVE  PoolInv'
<1>1. hc[e] \in Seq({"wait", "probe", "move"}) /\ hc'= [hc EXCEPT ![e] = [hc[e] EXCEPT ![i] = v]]
  BY DEF PoolInv, TypeOK
<1>2. /\ [hc[e] EXCEPT ![i] = v] \in Seq({"wait", "probe", "move"})
      /\ Len([hc[e] EXCEPT ![i] = v]) = Len(hc[e])
  BY <1>1
<1>3. /\ hc' \in [Endpoints -> Seq({"wait", "probe", "move"})]
      /\ \A x \in Endpoints : Len(hc'[x]) = Len(hc[x])
  BY <1>1, <1>2 DEF PoolInv, TypeOK
<1>4. TypeOK'
  BY <1>3 DEF PoolInv, TypeOK, listVars, sendVars
<1>5. NoEndpointLost'
  BY <1>3 DEF PoolInv, NoEndpointLost, InList, listVars
<1>6. QED
  BY <1>4, <1>5 DEF PoolInv

\* A health check ends and returns its endpoint.
LEMMA CheckEnds ==
    ASSUME PoolInv, NEW e \in Endpoints, NEW i \in 1..Len(hc[e]), HealthCheckEnd(e, i)
    PROVE  PoolInv'
<1> DEFINE l == Append(list, e)
           h == [healthy EXCEPT ![e] = TRUE]
           rest == SubSeq(hc[e], 1, i - 1) \o SubSeq(hc[e], i + 1, Len(hc[e]))
<1>1. PoolType /\ SendType /\ Holds(list, healthy)
  BY TypeParts, NoEndpointLostFacts DEF PoolInv
<1>2. \A x \in Endpoints : /\ Len(hc[x]) = IF healthy[x] THEN 0 ELSE 1
                           /\ healthy[x] => numErrors[x] < Threshold
                           /\ epState[x] = StateOf(list, healthy, x)
  BY NoEndpointLostFacts DEF PoolInv
<1>3. ~healthy[e] /\ Len(hc[e]) = 1
  <2>1. Len(hc[e]) # 0
    OBVIOUS
  <2>2. QED
    BY <1>2, <2>1, Zenon
<1>4. /\ list' = l /\ healthy' = h /\ hc' = [hc EXCEPT ![e] = rest]
      /\ numErrors' = [numErrors EXCEPT ![e] = 0]
      /\ epState' = [epState EXCEPT ![e] = IF list = <<>> THEN "AtHead" ELSE "Healthy"]
  BY <1>3 DEF HealthCheckEnd, MoveToHealthy
<1>5. /\ l \in Seq(Endpoints) /\ l # <<>> /\ Holds(l, h)
      /\ Head(l) = IF list = <<>> THEN e ELSE Head(list)
  BY <1>1, <1>3, AppendHolds, Zenon DEF PoolType
<1>6. h \in [Endpoints -> BOOLEAN] /\ h[e] /\ \A x \in Endpoints \ {e} : h[x] = healthy[x]
  BY <1>1 DEF PoolType
<1>7. /\ rest \in Seq({"wait", "probe", "move"})
      /\ Len(rest) = 0
  <2>1. hc[e] \in Seq({"wait", "probe", "move"})
    BY <1>1 DEF PoolType
  <2> DEFINE a == SubSeq(hc[e], 1, i - 1)
             b == SubSeq(hc[e], i + 1, Len(hc[e]))
  <2>2. /\ a \in Seq({"wait", "probe", "move"}) /\ Len(a) = 0
        /\ b \in Seq({"wait", "probe", "move"}) /\ Len(b) = 0
    BY <1>3, <2>1
  <2> HIDE DEF a, b
  <2>3. a \o b \in Seq({"wait", "probe", "move"}) /\ Len(a \o b) = 0
    BY <2>2
  <2>4. QED
    BY <2>3, Zenon DEF a, b
<1>8. /\ hc' \in [Endpoints -> Seq({"wait", "probe", "move"})]
      /\ \A x \in Endpoints : Len(hc'[x]) = IF h[x] THEN 0 ELSE 1
  BY <1>1, <1>2, <1>4, <1>6, <1>7, Zenon DEF PoolType
<1>9. list # <<>> => Head(list) \in Endpoints /\ healthy[Head(list)]
  <2> SUFFICES ASSUME list # <<>> PROVE Head(list) \in Endpoints /\ healthy[Head(list)]
    OBVIOUS
  <2>1. Head(list) \in Endpoints /\ Head(list) = list[1] /\ 1 \in 1..Len(list)
    BY <1>1 DEF PoolType
  <2>2. QED
    BY <1>1, <2>1 DEF Holds, Has
<1>10. list = <<>> => \A x \in Endpoints : ~healthy[x]
  BY <1>1 DEF Holds, Has
<1> HIDE DEF l, h, rest
<1>11. ASSUME NEW x \in Endpoints PROVE epState'[x] = StateOf(l, h, x)
  <2>1. CASE x = e
    <3>1. epState'[x] = IF list = <<>> THEN "AtHead" ELSE "Healthy"
      BY <1>1, <1>4, <2>1 DEF PoolType
    <3>2. list # <<>> => Head(list) # e
      BY <1>3, <1>9
    <3>3. QED
      BY <1>5, <1>6, <2>1, <3>1, <3>2 DEF StateOf
  <2>2. CASE x # e
    <3>1. epState'[x] = epState[x] /\ h[x] = healthy[x]
      BY <1>1, <1>4, <1>6, <2>2 DEF PoolType
    <3>2. QED
      BY <1>2, <1>5, <1>10, <2>2, <3>1 DEF StateOf
  <2>3. QED
    BY <2>1, <2>2
<1>12. /\ numErrors' \in [Endpoints -> Nat]
       /\ \A x \in Endpoints : h[x] => numErrors'[x] < Threshold
  <2>1. numErrors' \in [Endpoints -> Nat] /\ numErrors'[e] = 0
    BY <1>1, <1>4 DEF PoolType
  <2>2. \A x \in Endpoints \ {e} : numErrors'[x] = numErrors[x]
    BY <1>1, <1>4 DEF PoolType
  <2>3. QED
    BY <1>2, <1>6, <2>1, <2>2, ThresholdAssumption
<1>13. NoEndpointLost'
  BY <1>4, <1>5, <1>8, <1>11, <1>12
     DEF NoEndpointLost, Holds, Injective, Has, InList, StateOf
<1>14. epState' \in [Endpoints -> {"HealthCheck", "Healthy", "AtHead"}]
  BY <1>1, <1>4 DEF PoolType
<1>15. TypeOK'
  BY <1>1, <1>4, <1>5, <1>6, <1>8, <1>12, <1>14, Zenon
     DEF TypeOK, PoolType, SendType, HealthCheckEnd, sendVars
<1>16. QED
  BY <1>13, <1>15 DEF PoolInv

LEMMA PoolNext == PoolInv /\ [Next]_vars => PoolInv'
<1> SUFFICES ASSUME PoolInv, [Next]_vars PROVE PoolInv'
  OBVIOUS
<1>1. CASE Tick
  BY <1>1, TickStep
<1>2. ASSUME NEW s \in Senders, SendBuffer(s) \/ Sender(s) PROVE PoolInv'
  BY <1>2, SenderStep
<1>3. ASSUME NEW e \in Endpoints, HealthCheck(e) PROVE PoolInv'
  <2>1. PICK i \in 1..Len(hc[e]) :
          \/ HealthCheckCancelled(e, i)
          \/ HealthCheckTimer(e, i)
          \/ \E success \in BOOLEAN : HealthCheckResult(e, i, success)
          \/ HealthCheckEnd(e, i)
    BY <1>3 DEF HealthCheck
  <2>2. CASE HealthCheckCancelled(e, i)
    BY <2>2, CheckGoesOn, Zenon DEF HealthCheckCancelled
  <2>3. CASE HealthCheckTimer(e, i)
    BY <2>3, CheckGoesOn, Zenon DEF HealthCheckTimer
  <2>4. ASSUME NEW success \in BOOLEAN, HealthCheckResult(e, i, success) PROVE PoolInv'
    BY <2>4, CheckGoesOn, Zenon DEF HealthCheckResult
  <2>5. CASE HealthCheckEnd(e, i)
    BY <2>5, CheckEnds
  <2>6. QED
    BY <2>1, <2>2, <2>3, <2>4, <2>5
<1>4. CASE Main
  <2>1. UNCHANGED <<listVars, hc, sendVars>> /\ mpc' \in {"shut", "cancelled", "closed"}
    BY <1>4 DEF Main, Shutdown, ShutdownCancel, ShutdownWaited
  <2>2. SendType'
    BY <2>1 DEF PoolInv, TypeOK, SendType, sendVars
  <2>3. QED
    BY <2>1, <2>2, SendOnlyStep
<1>5. CASE UNCHANGED vars
  BY <1>5 DEF vars, listVars, sendVars, PoolInv, TypeOK, NoEndpointLost, InList
<1>6. QED
  BY <1>1, <1>2, <1>3, <1>4, <1>5 DEF Next

\* Whatever the senders, the health checks and main do in whatever order, every
\* endpoint is in the healthy list once or in its one health check, below the
\* threshold of errors while it is in the list, and the state that is reported
\* for it is the true one: NoEndpointLost, for every number of endpoints and
\* senders (http_endpoint_pool.go:638-673, 687-698, 746-754).
THEOREM EndpointsAreKept == Spec => [](TypeOK /\ NoEndpointLost)
<1>1. PoolInv => TypeOK /\ NoEndpointLost
  BY DEF PoolInv
<1>2. QED
  BY <1>1, PoolInit, PoolNext, PTL DEF Spec
==============================================================================
