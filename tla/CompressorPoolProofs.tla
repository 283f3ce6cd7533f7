------------------------ MODULE CompressorPoolProofs -------------------------
(***************************************************************************)
(* Every buffer is sent once, or given up, and nothing empty is sent, for  *)
(* any number of compressors and buffers, any sizes and limits.            *)
(***************************************************************************)
EXTENDS CompressorPool, FiniteSetTheorems, TLAPS

Injective(s) == \A i, j \in 1..Len(s) : s[i] = s[j] => i = j
Elems(s) == {s[i] : i \in 1..Len(s)}

------------------------------------------------------------------------------
(* The queue and the batches as sequences without repetition.                *)

LEMMA AppendElems ==
    ASSUME NEW s \in Seq(Msgs), NEW m \in Msgs, Injective(s), m \notin Elems(s)
    PROVE  /\ Append(s, m) \in Seq(Msgs) /\ Append(s, m) # <<>>
           /\ Len(Append(s, m)) = Len(s) + 1
           /\ Injective(Append(s, m))
           /\ Elems(Append(s, m)) = Elems(s) \cup {m}
<1> DEFINE t == Append(s, m)
<1>1. /\ t \in Seq(Msgs) /\ Len(s) \in Nat /\ Len(t) = Len(s) + 1 /\ t # <<>>
      /\ t[Len(s) + 1] = m /\ \A k \in 1..Len(s) : t[k] = s[k]
  OBVIOUS
<1>2. \A k \in 1..Len(s) : s[k] # m
  BY DEF Elems
<1> HIDE DEF t
<1>3. Injective(t)
  BY <1>1, <1>2 DEF Injective
<1>4. Elems(t) = Elems(s) \cup {m}
  <2>1. ASSUME NEW x \in Elems(t) PROVE x \in Elems(s) \cup {m}
    BY <1>1, <2>1 DEF Elems
  <2>2. ASSUME NEW x \in Elems(s) PROVE x \in Elems(t)
    <3>1. PICK k \in 1..Len(s) : x = s[k]
      BY <2>2 DEF Elems
    <3>2. k \in 1..Len(t) /\ t[k] = x
      BY <1>1, <3>1
    <3>3. QED
      BY <3>2 DEF Elems
  <2>3. m \in Elems(t)
    <3>1. Len(s) + 1 \in 1..Len(t)
      BY <1>1
    <3>2. QED
      BY <1>1, <3>1 DEF Elems
  <2>4. QED
    BY <2>1, <2>2, <2>3
<1>5. QED
  BY <1>1, <1>3, <1>4 DEF t

LEMMA TailElems ==
    ASSUME NEW s \in Seq(Msgs), s # <<>>, Injective(s)
    PROVE  /\ Tail(s) \in Seq(Msgs) /\ Len(Tail(s)) = Len(s) - 1
           /\ Injective(Tail(s))
           /\ Head(s) \in Msgs /\ Head(s) \in Elems(s)
           /\ Elems(Tail(s)) = Elems(s) \ {Head(s)}
<1> DEFINE t == Tail(s)
<1>1. /\ t \in Seq(Msgs) /\ Len(s) \in Nat \ {0} /\ Len(t) = Len(s) - 1
      /\ Head(s) = s[1] /\ Head(s) \in Msgs
      /\ \A k \in 1..(Len(s) - 1) : t[k] = s[k + 1]
  OBVIOUS
<1> HIDE DEF t
<1>2. Injective(t)
  <2>1. ASSUME NEW j \in 1..Len(t), NEW k \in 1..Len(t), t[j] = t[k] PROVE j = k
    <3>1. j + 1 \in 1..Len(s) /\ k + 1 \in 1..Len(s) /\ s[j + 1] = s[k + 1]
      BY <1>1, <2>1
    <3>2. j + 1 = k + 1
      BY <3>1 DEF Injective
    <3>3. QED
      BY <1>1, <3>2
  <2>2. QED
    BY <2>1 DEF Injective
<1>3. Head(s) \in Elems(s)
  BY <1>1 DEF Elems
<1>4. ASSUME NEW x \in Elems(t) PROVE x \in Elems(s) \ {Head(s)}
  <2>1. PICK k \in 1..Len(t) : x = t[k]
    BY <1>4 DEF Elems
  <2>2. k + 1 \in 1..Len(s) /\ x = s[k + 1] /\ k + 1 # 1 /\ 1 \in 1..Len(s)
    BY <1>1, <2>1
  <2>3. QED
    BY <1>1, <2>2 DEF Elems, Injective
<1>5. ASSUME NEW x \in Elems(s) \ {Head(s)} PROVE x \in Elems(t)
  <2>1. PICK k \in 1..Len(s) : x = s[k]
    BY <1>5 DEF Elems
  <2>2. k # 1
    BY <1>1, <1>5, <2>1
  <2>3. k - 1 \in 1..Len(t) /\ t[k - 1] = x
    BY <1>1, <2>1, <2>2
  <2>4. QED
    BY <2>3 DEF Elems
<1>6. Elems(t) = Elems(s) \ {Head(s)}
  BY <1>4, <1>5
<1>7. QED
  BY <1>1, <1>2, <1>3, <1>6 DEF t

\* A batch counts every message in it once.
LEMMA CountAllFacts ==
    ASSUME NEW b \in Seq(Msgs), Injective(b), NEW n \in [Msgs -> Nat]
    PROVE  /\ CountAll(n, b) \in [Msgs -> Nat]
           /\ \A m \in Msgs :
                CountAll(n, b)[m] = IF m \in Elems(b) THEN n[m] + 1 ELSE n[m]
<1>1. ASSUME NEW m \in Msgs
      PROVE  Cardinality({i \in 1..Len(b) : b[i] = m}) = IF m \in Elems(b) THEN 1 ELSE 0
  <2> DEFINE at == {i \in 1..Len(b) : b[i] = m}
  <2>1. CASE m \in Elems(b)
    <3>1. PICK i \in 1..Len(b) : b[i] = m
      BY <2>1 DEF Elems
    <3>2. at = {i}
      BY <3>1 DEF Injective
    <3>3. Cardinality({i}) = 1
      BY FS_Singleton, Zenon
    <3>4. QED
      BY <2>1, <3>2, <3>3, Zenon
  <2>2. CASE m \notin Elems(b)
    <3>1. at = {}
      BY <2>2 DEF Elems
    <3>2. QED
      BY <2>2, <3>1, FS_EmptySet, Zenon
  <2>3. QED
    BY <2>1, <2>2
<1>2. QED
  BY <1>1 DEF CountAll

------------------------------------------------------------------------------
(* Where the messages are, for a queue q, batches b, counts dl and ds of the  *)
(* messages that were sent and given up, and messages qd queued so far.       *)

Ends(dl, ds, m) == dl[m] + ds[m]

Accounted(q, b, dl, ds, qd) ==
    /\ Injective(q) /\ Elems(q) \subseteq qd
    /\ \A c \in Compressors :
         /\ Injective(b[c]) /\ Elems(b[c]) \subseteq qd
         /\ Elems(b[c]) \cap Elems(q) = {}
    /\ \A c, d \in Compressors : c # d => Elems(b[c]) \cap Elems(b[d]) = {}
    /\ \A m \in Msgs : Ends(dl, ds, m) # 0 =>
         /\ Ends(dl, ds, m) = 1
         /\ m \in qd /\ m \notin Elems(q)
         /\ \A c \in Compressors : m \notin Elems(b[c])
    /\ \A m \in qd : Size[m] > 0 =>
         \/ m \in Elems(q)
         \/ \E c \in Compressors : m \in Elems(b[c])
         \/ Ends(dl, ds, m) # 0

Typed(q, b, dl, ds, qd) ==
    /\ q \in Seq(Msgs) /\ b \in [Compressors -> Seq(Msgs)]
    /\ dl \in [Msgs -> Nat] /\ ds \in [Msgs -> Nat] /\ qd \in SUBSET Msgs

\* QueueBuf
LEMMA Queued ==
    ASSUME NEW q, NEW b, NEW dl, NEW ds, NEW qd, NEW m \in Msgs,
           Typed(q, b, dl, ds, qd), Accounted(q, b, dl, ds, qd), m \notin qd
    PROVE  Accounted(Append(q, m), b, dl, ds, qd \cup {m})
<1>1. Injective(Append(q, m)) /\ Elems(Append(q, m)) = Elems(q) \cup {m}
  BY AppendElems DEF Typed, Accounted
<1>2. \A c \in Compressors : m \notin Elems(b[c])
  BY DEF Accounted
<1>3. Ends(dl, ds, m) = 0
  BY DEF Accounted
<1>4. QED
  BY <1>1, <1>2, <1>3 DEF Accounted

\* A message goes from the queue to the batch of compressor c.
LEMMA Moved ==
    ASSUME NEW q, NEW b, NEW dl, NEW ds, NEW qd, NEW c \in Compressors,
           Typed(q, b, dl, ds, qd), Accounted(q, b, dl, ds, qd), q # <<>>
    PROVE  /\ Append(b[c], Head(q)) \in Seq(Msgs)
           /\ Accounted(Tail(q), [b EXCEPT ![c] = Append(@, Head(q))], dl, ds, qd)
<1> DEFINE m == Head(q)
           a == [b EXCEPT ![c] = Append(@, Head(q))]
<1>1. /\ m \in Msgs /\ m \in Elems(q) /\ Injective(Tail(q))
      /\ Elems(Tail(q)) = Elems(q) \ {m}
  BY TailElems DEF Typed, Accounted
<1>2. m \notin Elems(b[c])
  BY <1>1 DEF Accounted
<1>3. /\ Append(b[c], m) \in Seq(Msgs) /\ Injective(Append(b[c], m))
      /\ Elems(Append(b[c], m)) = Elems(b[c]) \cup {m}
  BY <1>1, <1>2, AppendElems DEF Typed, Accounted
<1>4. a[c] = Append(b[c], m) /\ \A d \in Compressors \ {c} : a[d] = b[d]
  BY DEF Typed
<1> HIDE DEF m, a
<1>5. /\ Injective(Tail(q)) /\ Elems(Tail(q)) \subseteq qd
      /\ \A d \in Compressors :
           /\ Injective(a[d]) /\ Elems(a[d]) \subseteq qd
           /\ Elems(a[d]) \cap Elems(Tail(q)) = {}
  <2>1. Elems(Tail(q)) \subseteq qd /\ m \in qd
    BY <1>1 DEF Accounted
  <2>2. /\ Injective(a[c]) /\ Elems(a[c]) \subseteq qd
        /\ Elems(a[c]) \cap Elems(Tail(q)) = {}
    <3>1. Elems(b[c]) \subseteq qd /\ Elems(b[c]) \cap Elems(q) = {}
      BY DEF Accounted
    <3>2. QED
      BY <1>1, <1>3, <1>4, <2>1, <3>1
  <2>3. ASSUME NEW d \in Compressors \ {c}
        PROVE  /\ Injective(a[d]) /\ Elems(a[d]) \subseteq qd
               /\ Elems(a[d]) \cap Elems(Tail(q)) = {}
    <3>1. Injective(b[d]) /\ Elems(b[d]) \subseteq qd /\ Elems(b[d]) \cap Elems(q) = {}
      BY DEF Accounted
    <3>2. QED
      BY <1>1, <1>4, <3>1
  <2>4. QED
    BY <1>1, <2>1, <2>2, <2>3
<1>6. \A d, e \in Compressors : d # e => Elems(a[d]) \cap Elems(a[e]) = {}
  <2>1. \A d \in Compressors \ {c} : m \notin Elems(a[d])
    BY <1>1, <1>4 DEF Accounted
  <2>2. \A d, e \in Compressors : d # e => Elems(b[d]) \cap Elems(b[e]) = {}
    BY DEF Accounted
  <2>3. ASSUME NEW d \in Compressors \ {c} PROVE Elems(a[c]) \cap Elems(a[d]) = {}
    <3>1. Elems(b[c]) \cap Elems(b[d]) = {} /\ m \notin Elems(b[d])
      BY <1>4, <2>1, <2>2, Zenon
    <3>2. Elems(a[c]) = Elems(b[c]) \cup {m} /\ Elems(a[d]) = Elems(b[d])
      BY <1>3, <1>4
    <3>3. QED
      BY <3>1, <3>2
  <2>4. ASSUME NEW d \in Compressors \ {c}, NEW e \in Compressors \ {c}, d # e
        PROVE  Elems(a[d]) \cap Elems(a[e]) = {}
    BY <1>4, <2>2, <2>4, Zenon
  <2>5. ASSUME NEW d \in Compressors, NEW e \in Compressors, d # e
        PROVE  Elems(a[d]) \cap Elems(a[e]) = {}
    <3>1. CASE d = c
      BY <2>3, <2>5, <3>1
    <3>2. CASE e = c
      BY <2>3, <2>5, <3>2
    <3>3. CASE d # c /\ e # c
      BY <2>4, <2>5, <3>3
    <3>4. QED
      BY <3>1, <3>2, <3>3
  <2>6. QED
    BY <2>5
<1>7. \A x \in Msgs : Ends(dl, ds, x) # 0 =>
        /\ Ends(dl, ds, x) = 1
        /\ x \in qd /\ x \notin Elems(Tail(q))
        /\ \A d \in Compressors : x \notin Elems(a[d])
  BY <1>1, <1>3, <1>4, ZenonT(30) DEF Accounted
<1>8. \A x \in qd : Size[x] > 0 =>
        \/ x \in Elems(Tail(q))
        \/ \E d \in Compressors : x \in Elems(a[d])
        \/ Ends(dl, ds, x) # 0
  BY <1>1, <1>3, <1>4, Zenon DEF Accounted
<1>9. QED
  BY <1>3, <1>5, <1>6, <1>7, <1>8, Zenon DEF Accounted, a, m

\* A message without data is dropped.
LEMMA Dropped ==
    ASSUME NEW q, NEW b, NEW dl, NEW ds, NEW qd,
           Typed(q, b, dl, ds, qd), Accounted(q, b, dl, ds, qd), q # <<>>,
           Size[Head(q)] = 0
    PROVE  Accounted(Tail(q), b, dl, ds, qd)
<1>1. /\ Head(q) \in Elems(q) /\ Injective(Tail(q))
      /\ Elems(Tail(q)) = Elems(q) \ {Head(q)}
  BY TailElems DEF Typed, Accounted
<1>2. /\ Elems(Tail(q)) \subseteq qd
      /\ \A d \in Compressors : Elems(b[d]) \cap Elems(Tail(q)) = {}
  BY <1>1 DEF Accounted
<1>3. \A m \in Msgs : Ends(dl, ds, m) # 0 => m \notin Elems(Tail(q))
  BY <1>1 DEF Accounted
<1>4. ASSUME NEW m \in qd, Size[m] > 0
      PROVE  \/ m \in Elems(Tail(q))
             \/ \E d \in Compressors : m \in Elems(b[d])
             \/ Ends(dl, ds, m) # 0
  <2>1. m # Head(q)
    BY <1>4
  <2>2. QED
    BY <1>1, <1>4, <2>1 DEF Accounted
<1>5. QED
  BY <1>1, <1>2, <1>3, <1>4, Zenon DEF Accounted

\* The batch of compressor c is sent or given up, which leaves dm and dt.
LEMMA Ended ==
    ASSUME NEW q, NEW b, NEW dl, NEW ds, NEW qd, NEW c \in Compressors, NEW dm, NEW dt,
           Typed(q, b, dl, ds, qd), Accounted(q, b, dl, ds, qd),
           \/ dm = CountAll(dl, b[c]) /\ dt = ds
           \/ dm = dl /\ dt = CountAll(ds, b[c])
    PROVE  /\ dm \in [Msgs -> Nat] /\ dt \in [Msgs -> Nat]
           /\ Accounted(q, [b EXCEPT ![c] = <<>>], dm, dt, qd)
<1> DEFINE a == [b EXCEPT ![c] = <<>>]
<1>1. b[c] \in Seq(Msgs) /\ Injective(b[c])
  BY DEF Typed, Accounted
<1>2. /\ dm \in [Msgs -> Nat] /\ dt \in [Msgs -> Nat]
      /\ \A m \in Msgs : dm[m] + dt[m] =
           IF m \in Elems(b[c]) THEN (dl[m] + ds[m]) + 1 ELSE dl[m] + ds[m]
  <2>0. dl \in [Msgs -> Nat] /\ ds \in [Msgs -> Nat]
    BY DEF Typed
  <2>1. CASE dm = CountAll(dl, b[c]) /\ dt = ds
    <3>1. /\ dm \in [Msgs -> Nat]
          /\ \A m \in Msgs : dm[m] = IF m \in Elems(b[c]) THEN dl[m] + 1 ELSE dl[m]
      BY <1>1, <2>0, <2>1, CountAllFacts
    <3>2. QED
      BY <2>0, <2>1, <3>1
  <2>2. CASE dm = dl /\ dt = CountAll(ds, b[c])
    <3>1. /\ dt \in [Msgs -> Nat]
          /\ \A m \in Msgs : dt[m] = IF m \in Elems(b[c]) THEN ds[m] + 1 ELSE ds[m]
      BY <1>1, <2>0, <2>2, CountAllFacts
    <3>2. QED
      BY <2>0, <2>2, <3>1
  <2>3. QED
    BY <2>1, <2>2
<1>3. \A m \in Elems(b[c]) : m \in Msgs /\ m \in qd /\ m \notin Elems(q)
  BY DEF Typed, Accounted
<1>4. \A m \in Msgs : Ends(dl, ds, m) \in Nat /\ Ends(dm, dt, m) =
           IF m \in Elems(b[c]) THEN Ends(dl, ds, m) + 1 ELSE Ends(dl, ds, m)
  BY <1>2 DEF Ends, Typed
<1>5. \A m \in Elems(b[c]) : Ends(dm, dt, m) = 1
  <2> TAKE m \in Elems(b[c])
  <2>1. m \in Msgs
    BY <1>3
  <2>2. Ends(dl, ds, m) = 0
    BY <2>1 DEF Accounted
  <2>3. QED
    BY <1>4, <2>1, <2>2
<1>6. a[c] = <<>> /\ \A d \in Compressors \ {c} : a[d] = b[d]
  BY DEF Typed
<1>7. Injective(<<>>) /\ Elems(<<>>) = {}
  BY DEF Injective, Elems
<1> HIDE DEF a
<1>8. \A m \in Msgs \ Elems(b[c]) : Ends(dm, dt, m) = Ends(dl, ds, m)
  BY <1>4
<1>9. /\ Injective(q) /\ Elems(q) \subseteq qd
      /\ \A d \in Compressors :
           /\ Injective(a[d]) /\ Elems(a[d]) \subseteq qd
           /\ Elems(a[d]) \cap Elems(q) = {}
      /\ \A d, e \in Compressors : d # e => Elems(a[d]) \cap Elems(a[e]) = {}
  BY <1>6, <1>7, ZenonT(30) DEF Accounted
<1>10. ASSUME NEW m \in Msgs, Ends(dm, dt, m) # 0
       PROVE  /\ Ends(dm, dt, m) = 1
              /\ m \in qd /\ m \notin Elems(q)
              /\ \A d \in Compressors : m \notin Elems(a[d])
  <2>1. CASE m \in Elems(b[c])
    BY <1>3, <1>5, <1>6, <1>7, <2>1 DEF Accounted
  <2>2. CASE m \notin Elems(b[c])
    BY <1>6, <1>7, <1>8, <1>10, <2>2 DEF Accounted
  <2>3. QED
    BY <2>1, <2>2
<1>11. ASSUME NEW m \in qd, Size[m] > 0
       PROVE  \/ m \in Elems(q)
              \/ \E d \in Compressors : m \in Elems(a[d])
              \/ Ends(dm, dt, m) # 0
  <2>1. CASE m \in Elems(b[c])
    BY <1>5, <2>1
  <2>2. CASE m \notin Elems(b[c])
    BY <1>6, <1>8, <1>11, <2>2, Zenon DEF Accounted, Typed
  <2>3. QED
    BY <2>1, <2>2
<1>12. QED
  BY <1>2, <1>9, <1>10, <1>11, Zenon DEF Accounted, a

------------------------------------------------------------------------------
(* The inductive invariant: where the messages are, and what the counter, the *)
(* writer and the timer of a compressor say about its batch.                  *)

Looping ==
    \A c \in Compressors :
        /\ byteCount[c] = 0 <=> batch[c] = <<>>
        /\ batch[c] # <<>> => gzWriter[c]
        /\ Sending(c) => batch[c] # <<>>
        /\ timerSet[c] => batch[c] # <<>> /\ ~Sending(c)

AccountedNow == Accounted(queue, batch, delivered, discarded, queued)

PoolInv == TypeOK /\ AccountedNow /\ Looping

LEMMA PoolInit == Init => PoolInv
<1> SUFFICES ASSUME Init PROVE PoolInv
  OBVIOUS
<1>1. TypeOK
  BY PoolAssumption DEF Init, TypeOK, CompressorStats, NewCompressorStats
<1>2. Injective(<<>>) /\ Elems(<<>>) = {}
  BY DEF Injective, Elems
<1>3. AccountedNow
  <2>1. queue = <<>> /\ queued = {} /\ \A c \in Compressors : batch[c] = <<>>
    BY DEF Init
  <2>2. \A m \in Msgs : Ends(delivered, discarded, m) = 0
    BY DEF Init, Ends
  <2>3. QED
    BY <1>2, <2>1, <2>2 DEF AccountedNow, Accounted
<1>4. Looping
  BY DEF Init, Looping, Sending
<1>5. QED
  BY <1>1, <1>3, <1>4 DEF PoolInv

LEMMA TypedNow == PoolInv => Typed(queue, batch, delivered, discarded, queued)
BY DEF PoolInv, TypeOK, Typed

LEMMA ReturnBufType == TypeOK /\ ReturnBuf => idle' \in 0..MaxIdle
BY PoolAssumption DEF TypeOK, ReturnBuf

LEMMA QueueStep ==
    ASSUME PoolInv, NEW m \in Msgs, QueueBuf(m)
    PROVE  PoolInv'
<1>1. TypeOK'
  <2>1. queue' \in Seq(Msgs) /\ Len(queue') <= QueueSize
    BY PoolAssumption DEF PoolInv, TypeOK, QueueBuf
  <2>2. idle' \in 0..MaxIdle
    BY PoolAssumption DEF PoolInv, TypeOK, QueueBuf
  <2>3. QED
    BY <2>1, <2>2 DEF PoolInv, TypeOK, QueueBuf, loopVars, endVars
<1>2. Accounted(Append(queue, m), batch, delivered, discarded, queued \cup {m})
  BY TypedNow, Queued DEF PoolInv, AccountedNow, QueueBuf
<1>3. AccountedNow'
  BY <1>2 DEF AccountedNow, QueueBuf, loopVars, endVars
<1>4. Looping'
  BY DEF PoolInv, Looping, Sending, QueueBuf, loopVars
<1>5. QED
  BY <1>1, <1>3, <1>4 DEF PoolInv

\* DoSend, with the limit that every batch has.
LEMMA DoSendFacts ==
    ASSUME TypeOK, NEW c \in Compressors, NEW n \in Nat, NEW open \in BOOLEAN
    PROVE  /\ DoSend(c, n, open) \in BOOLEAN
           /\ DoSend(c, n, open) => n > 0
           /\ ~DoSend(c, n, open) /\ ~open => n = 0
<1>1. limit[c] \in Nat \ {0}
  BY LimitsAssumption, ZenonT(30) DEF TypeOK
<1>2. QED
  BY <1>1 DEF DoSend

LEMMA ReadStep ==
    ASSUME PoolInv, NEW c \in Compressors, Read(c)
    PROVE  PoolInv'
<1> DEFINE n == byteCount[c] + Size[Head(queue)]
           b == Append(batch[c], Head(queue))
           send == DoSend(c, n, TRUE)
<1>1. TypeOK /\ AccountedNow /\ Looping /\ queue # <<>>
  BY DEF PoolInv, Read
<1>2. /\ Tail(queue) \in Seq(Msgs) /\ Len(Tail(queue)) = Len(queue) - 1
      /\ Head(queue) \in Msgs
  BY <1>1 DEF TypeOK
<1>3. /\ b \in Seq(Msgs)
      /\ Accounted(Tail(queue), [batch EXCEPT ![c] = Append(@, Head(queue))],
                   delivered, discarded, queued)
  BY <1>1, TypedNow, Moved DEF AccountedNow
<1>4. n \in Nat /\ n > 0
  <2>1. Size[Head(queue)] \in Nat /\ Size[Head(queue)] > 0
    BY <1>2, SizeAssumption DEF Read
  <2>2. byteCount[c] \in Nat
    BY <1>1 DEF TypeOK
  <2>3. QED
    BY <2>1, <2>2
<1>5. send \in BOOLEAN
  BY <1>1, <1>4, DoSendFacts, Zenon
<1>6. idle' \in 0..MaxIdle
  BY <1>1, ReturnBufType DEF Read
<1>7. /\ queue' = Tail(queue)
      /\ batch' = [batch EXCEPT ![c] = b]
      /\ byteCount' = [byteCount EXCEPT ![c] = n]
      /\ gzWriter' = [gzWriter EXCEPT ![c] = TRUE]
      /\ timerSet' = [timerSet EXCEPT ![c] = TimerAfterRead(c) /\ ~send]
      /\ cpc' = [cpc EXCEPT ![c] = IF send THEN "send" ELSE "select"]
      /\ UNCHANGED <<state, queued, isOpen, limit, stats, delivered, discarded>>
  BY DEF Read, AfterRead, endVars
<1>8. b # <<>>
  <2>1. batch[c] \in Seq(Msgs)
    BY <1>1 DEF TypeOK
  <2>2. Len(b) = Len(batch[c]) + 1
    BY <1>2, <2>1
  <2>3. QED
    BY <2>1, <2>2
<1>9. TimerAfterRead(c) \in BOOLEAN
  BY <1>1, FlushAssumption DEF TypeOK, TimerAfterRead
<1>10. AccountedNow'
  BY <1>3, <1>7 DEF AccountedNow
<1> HIDE DEF n, b, send
<1>11. TypeOK'
  <2>1. queue' \in Seq(Msgs) /\ Len(queue') <= QueueSize
    BY <1>1, <1>2, <1>7, PoolAssumption DEF TypeOK
  <2>2. /\ batch' \in [Compressors -> Seq(Msgs)]
        /\ byteCount' \in [Compressors -> Nat]
        /\ gzWriter' \in [Compressors -> BOOLEAN]
        /\ cpc' \in [Compressors -> {"off", "select", "send", "flush", "exited"}]
    BY <1>1, <1>3, <1>4, <1>7 DEF TypeOK
  <2>3. timerSet' \in [Compressors -> BOOLEAN]
    BY <1>1, <1>5, <1>7, <1>9 DEF TypeOK
  <2>4. QED
    BY <1>1, <1>6, <1>7, <2>1, <2>2, <2>3, Zenon DEF TypeOK
<1>12. Looping'
  <2>1. ASSUME NEW d \in Compressors \ {c}
        PROVE  /\ byteCount'[d] = byteCount[d] /\ batch'[d] = batch[d]
               /\ gzWriter'[d] = gzWriter[d] /\ timerSet'[d] = timerSet[d]
               /\ cpc'[d] = cpc[d]
    BY <1>1, <1>7 DEF TypeOK
  <2>2. /\ byteCount'[c] = n /\ batch'[c] = b /\ gzWriter'[c] = TRUE
        /\ timerSet'[c] = (TimerAfterRead(c) /\ ~send)
        /\ cpc'[c] = IF send THEN "send" ELSE "select"
    BY <1>1, <1>7 DEF TypeOK
  <2>3. /\ byteCount'[c] # 0 /\ batch'[c] # <<>> /\ gzWriter'[c]
        /\ timerSet'[c] => ~Sending(c)'
    <3>1. byteCount'[c] # 0 /\ batch'[c] # <<>> /\ gzWriter'[c]
      BY <1>4, <1>8, <2>2
    <3>2. CASE send
      BY <2>2, <3>1, <3>2, Zenon
    <3>3. CASE ~send
      BY <2>2, <3>1, <3>3 DEF Sending
    <3>4. QED
      BY <3>2, <3>3
  <2>4. QED
    BY <1>1, <2>1, <2>3 DEF Looping, Sending
<1>13. QED
  BY <1>10, <1>11, <1>12 DEF PoolInv

LEMMA WriteErrorStep ==
    ASSUME PoolInv, NEW c \in Compressors, ReadWriteError(c)
    PROVE  PoolInv'
<1> DEFINE b == Append(batch[c], Head(queue))
           a == [batch EXCEPT ![c] = Append(@, Head(queue))]
<1>1. TypeOK /\ AccountedNow /\ Looping /\ queue # <<>>
  BY DEF PoolInv, ReadWriteError
<1>2. Tail(queue) \in Seq(Msgs) /\ Len(Tail(queue)) = Len(queue) - 1
  BY <1>1 DEF TypeOK
<1>3. b \in Seq(Msgs) /\ Accounted(Tail(queue), a, delivered, discarded, queued)
  BY <1>1, TypedNow, Moved, Zenon DEF AccountedNow
<1>4. a[c] = b /\ [a EXCEPT ![c] = <<>>] = [batch EXCEPT ![c] = <<>>]
  BY <1>1 DEF TypeOK
<1>5. Typed(Tail(queue), a, delivered, discarded, queued)
  BY <1>1, <1>2, <1>3 DEF Typed, TypeOK
<1>6. /\ queue' = Tail(queue)
      /\ batch' = [batch EXCEPT ![c] = <<>>]
      /\ byteCount' = [byteCount EXCEPT ![c] = 0]
      /\ gzWriter' = [gzWriter EXCEPT ![c] = FALSE]
      /\ timerSet' = [timerSet EXCEPT ![c] = FALSE]
      /\ stats' = [stats EXCEPT ![c].writeError = @ + 1]
      /\ discarded' = CountAll(discarded, b)
      /\ UNCHANGED <<state, queued, isOpen, limit, delivered>>
  BY DEF ReadWriteError
<1>7. /\ discarded' \in [Msgs -> Nat]
      /\ Accounted(Tail(queue), [a EXCEPT ![c] = <<>>], delivered, discarded', queued)
  <2> HIDE DEF a, b
  <2>1. QED
    BY <1>3, <1>4, <1>5, <1>6, Ended, Zenon
<1>8. AccountedNow'
  BY <1>4, <1>6, <1>7 DEF AccountedNow
<1>9. cpc' = [cpc EXCEPT ![c] = "select"]
  <2>1. ~DoSend(c, 0, TRUE)
    <3>1. limit[c] \in Nat \ {0}
      BY <1>1, LimitsAssumption, Zenon DEF TypeOK
    <3>2. QED
      BY <3>1 DEF DoSend
  <2>2. QED
    BY <2>1 DEF ReadWriteError, AfterRead
<1> HIDE DEF a, b
<1>10. TypeOK'
  <2>1. queue' \in Seq(Msgs) /\ Len(queue') <= QueueSize
    BY <1>1, <1>2, <1>6, PoolAssumption DEF TypeOK
  <2>2. idle' \in 0..MaxIdle
    BY <1>1, ReturnBufType DEF ReadWriteError
  <2>3. /\ batch' \in [Compressors -> Seq(Msgs)]
        /\ byteCount' \in [Compressors -> Nat]
        /\ gzWriter' \in [Compressors -> BOOLEAN]
        /\ timerSet' \in [Compressors -> BOOLEAN]
        /\ cpc' \in [Compressors -> {"off", "select", "send", "flush", "exited"}]
    BY <1>1, <1>6, <1>9 DEF TypeOK
  <2>4. stats' \in [Compressors -> CompressorStats]
    <3>1. stats \in [Compressors -> CompressorStats]
      BY <1>1 DEF TypeOK
    <3>2. [stats[c] EXCEPT !.writeError = @ + 1] \in CompressorStats
      BY <3>1 DEF CompressorStats
    <3>3. QED
      BY <1>6, <3>1, <3>2
  <2>5. QED
    BY <1>1, <1>6, <1>7, <2>1, <2>2, <2>3, <2>4, Zenon DEF TypeOK
<1>11. Looping'
  <2>1. ASSUME NEW d \in Compressors \ {c}
        PROVE  /\ byteCount'[d] = byteCount[d] /\ batch'[d] = batch[d]
               /\ gzWriter'[d] = gzWriter[d] /\ timerSet'[d] = timerSet[d]
               /\ cpc'[d] = cpc[d]
    BY <1>1, <1>6, <1>9 DEF TypeOK
  <2>2. /\ byteCount'[c] = 0 /\ batch'[c] = <<>> /\ timerSet'[c] = FALSE
        /\ cpc'[c] = "select"
    BY <1>1, <1>6, <1>9 DEF TypeOK
  <2>3. QED
    BY <1>1, <2>1, <2>2 DEF Looping, Sending
<1>12. QED
  BY <1>8, <1>10, <1>11 DEF PoolInv

LEMMA EmptyStep ==
    ASSUME PoolInv, NEW c \in Compressors, ReadEmpty(c)
    PROVE  PoolInv'
<1> DEFINE send == DoSend(c, byteCount[c], TRUE)
<1>1. TypeOK /\ AccountedNow /\ Looping /\ queue # <<>>
  BY DEF PoolInv, ReadEmpty
<1>2. Tail(queue) \in Seq(Msgs) /\ Len(Tail(queue)) = Len(queue) - 1
  BY <1>1 DEF TypeOK
<1>3. Accounted(Tail(queue), batch, delivered, discarded, queued)
  <2>1. Size[Head(queue)] = 0
    BY DEF ReadEmpty
  <2>2. QED
    BY <1>1, <2>1, TypedNow, Dropped DEF AccountedNow
<1>4. byteCount[c] \in Nat
  BY <1>1 DEF TypeOK
<1>5. send \in BOOLEAN /\ (send => byteCount[c] > 0)
  BY <1>1, <1>4, DoSendFacts, Zenon
<1>6. /\ queue' = Tail(queue)
      /\ timerSet' = [timerSet EXCEPT ![c] = timerSet[c] /\ ~send]
      /\ cpc' = [cpc EXCEPT ![c] = IF send THEN "send" ELSE "select"]
      /\ UNCHANGED <<state, queued, idle, isOpen, batch, byteCount, gzWriter, limit,
                     stats, delivered, discarded>>
  BY DEF ReadEmpty, AfterRead, endVars
<1> HIDE DEF send
<1>7. TypeOK'
  <2>1. queue' \in Seq(Msgs) /\ Len(queue') <= QueueSize
    BY <1>1, <1>2, <1>6, PoolAssumption DEF TypeOK
  <2>2. timerSet' \in [Compressors -> BOOLEAN]
    BY <1>1, <1>5, <1>6 DEF TypeOK
  <2>3. cpc' \in [Compressors -> {"off", "select", "send", "flush", "exited"}]
    BY <1>1, <1>6 DEF TypeOK
  <2>4. QED
    BY <1>1, <1>6, <2>1, <2>2, <2>3 DEF TypeOK
<1>8. AccountedNow'
  BY <1>3, <1>6 DEF AccountedNow
<1>9. Looping'
  <2>1. \A d \in Compressors \ {c} : timerSet'[d] = timerSet[d] /\ cpc'[d] = cpc[d]
    BY <1>1, <1>6 DEF TypeOK
  <2>2. /\ timerSet'[c] = (timerSet[c] /\ ~send)
        /\ cpc'[c] = IF send THEN "send" ELSE "select"
    BY <1>1, <1>6 DEF TypeOK
  <2>3. /\ Sending(c)' => batch[c] # <<>>
        /\ timerSet'[c] => batch[c] # <<>> /\ ~Sending(c)'
    <3>1. CASE send
      <4>1. batch[c] # <<>>
        BY <1>1, <1>4, <1>5, <3>1 DEF Looping
      <4>2. ~timerSet'[c]
        BY <2>2, <3>1, Zenon
      <4>3. QED
        BY <4>1, <4>2
    <3>2. CASE ~send
      BY <1>1, <2>2, <3>2, Zenon DEF Looping, Sending
    <3>3. QED
      BY <3>1, <3>2
  <2>4. QED
    BY <1>1, <1>6, <2>1, <2>3 DEF Looping, Sending
<1>10. QED
  BY <1>7, <1>8, <1>9 DEF PoolInv

LEMMA ClosedStep ==
    ASSUME PoolInv, NEW c \in Compressors, ReadClosed(c)
    PROVE  PoolInv'
<1> DEFINE send == DoSend(c, byteCount[c], FALSE)
<1>1. TypeOK /\ AccountedNow /\ Looping
  BY DEF PoolInv
<1>2. byteCount[c] \in Nat
  BY <1>1 DEF TypeOK
<1>3. send \in BOOLEAN /\ (send => byteCount[c] > 0) /\ (~send => byteCount[c] = 0)
  BY <1>1, <1>2, DoSendFacts, ZenonT(30)
<1>4. /\ isOpen' = [isOpen EXCEPT ![c] = FALSE]
      /\ timerSet' = [timerSet EXCEPT ![c] = timerSet[c] /\ ~send]
      /\ cpc' = [cpc EXCEPT ![c] = IF send THEN "send" ELSE "exited"]
      /\ UNCHANGED <<state, queue, queued, idle, batch, byteCount, gzWriter, limit,
                     stats, delivered, discarded>>
  BY DEF ReadClosed, AfterRead, endVars
<1> HIDE DEF send
<1>5. TypeOK'
  <2>1. timerSet' \in [Compressors -> BOOLEAN]
    BY <1>1, <1>3, <1>4 DEF TypeOK
  <2>2. /\ cpc' \in [Compressors -> {"off", "select", "send", "flush", "exited"}]
        /\ isOpen' \in [Compressors -> BOOLEAN]
    BY <1>1, <1>4 DEF TypeOK
  <2>3. QED
    BY <1>1, <1>4, <2>1, <2>2 DEF TypeOK
<1>6. AccountedNow'
  BY <1>1, <1>4 DEF AccountedNow
<1>7. Looping'
  <2>1. \A d \in Compressors \ {c} : timerSet'[d] = timerSet[d] /\ cpc'[d] = cpc[d]
    BY <1>1, <1>4 DEF TypeOK
  <2>2. /\ timerSet'[c] = (timerSet[c] /\ ~send)
        /\ cpc'[c] = IF send THEN "send" ELSE "exited"
    BY <1>1, <1>4 DEF TypeOK
  <2>3. /\ Sending(c)' => batch[c] # <<>>
        /\ timerSet'[c] => batch[c] # <<>> /\ ~Sending(c)'
    <3>1. CASE send
      <4>1. batch[c] # <<>>
        BY <1>1, <1>2, <1>3, <3>1 DEF Looping
      <4>2. ~timerSet'[c]
        BY <2>2, <3>1, Zenon
      <4>3. QED
        BY <4>1, <4>2
    <3>2. CASE ~send
      BY <1>1, <2>2, <3>2, Zenon DEF Looping, Sending
    <3>3. QED
      BY <3>1, <3>2
  <2>4. QED
    BY <1>1, <1>4, <2>1, <2>3 DEF Looping, Sending
<1>8. QED
  BY <1>5, <1>6, <1>7 DEF PoolInv

LEMMA FlushStep ==
    ASSUME PoolInv, NEW c \in Compressors, FlushTimer(c)
    PROVE  PoolInv'
<1>1. TypeOK'
  BY DEF PoolInv, TypeOK, FlushTimer, endVars
<1>2. AccountedNow'
  BY DEF PoolInv, AccountedNow, FlushTimer, endVars
<1>3. Looping'
  <2>1. \A d \in Compressors \ {c} : timerSet'[d] = timerSet[d] /\ cpc'[d] = cpc[d]
    BY DEF PoolInv, TypeOK, FlushTimer
  <2>2. timerSet'[c] = FALSE /\ batch[c] # <<>>
    BY DEF PoolInv, TypeOK, Looping, FlushTimer
  <2>3. UNCHANGED <<batch, byteCount, gzWriter>>
    BY DEF FlushTimer
  <2>4. QED
    BY <2>1, <2>2, <2>3 DEF PoolInv, Looping, Sending
<1>4. QED
  BY <1>1, <1>2, <1>3 DEF PoolInv

LEMMA CountSendType ==
    ASSUME NEW s \in CompressorStats, NEW n \in Nat,
           NEW flush \in BOOLEAN, NEW ok \in BOOLEAN
    PROVE  CountSend(s, n, flush, ok) \in CompressorStats
<1> DEFINE f == IF flush THEN s.timeoutFlush + 1 ELSE s.timeoutFlush
           e == IF ok THEN s.sendError ELSE s.sendError + 1
<1>1. s.read + n \in Nat /\ s.send + 1 \in Nat
  BY DEF CompressorStats
<1>2. f \in Nat
  BY DEF CompressorStats
<1>3. e \in Nat
  BY DEF CompressorStats
<1>4. CountSend(s, n, flush, ok) = [s EXCEPT !.read = s.read + n, !.send = s.send + 1,
                                             !.timeoutFlush = f, !.sendError = e]
  BY DEF CountSend
<1> HIDE DEF f, e
<1>5. QED
  BY <1>1, <1>2, <1>3, <1>4, ZenonT(30) DEF CompressorStats

LEMMA SendStep ==
    ASSUME PoolInv, NEW c \in Compressors, NEW ok \in BOOLEAN, SendReturned(c, ok)
    PROVE  PoolInv'
<1>1. TypeOK /\ AccountedNow /\ Looping /\ Sending(c)
  BY DEF PoolInv, SendReturned
<1>2. /\ \/ delivered' = CountAll(delivered, batch[c]) /\ discarded' = discarded
         \/ delivered' = delivered /\ discarded' = CountAll(discarded, batch[c])
      /\ batch' = [batch EXCEPT ![c] = <<>>]
      /\ byteCount' = [byteCount EXCEPT ![c] = 0]
      /\ cpc' = [cpc EXCEPT ![c] = IF isOpen[c] THEN "select" ELSE "exited"]
      /\ UNCHANGED <<state, queue, queued, idle, isOpen, gzWriter, timerSet>>
  BY DEF SendReturned, BatchReset
<1>3. /\ delivered' \in [Msgs -> Nat] /\ discarded' \in [Msgs -> Nat]
      /\ Accounted(queue, [batch EXCEPT ![c] = <<>>], delivered', discarded', queued)
  BY <1>1, <1>2, TypedNow, Ended, ZenonT(30) DEF AccountedNow
<1>4. AccountedNow'
  BY <1>2, <1>3 DEF AccountedNow
<1>5. TypeOK'
  <2>1. stats' \in [Compressors -> CompressorStats]
    <3>1. /\ stats \in [Compressors -> CompressorStats]
          /\ Len(batch[c]) \in Nat /\ (cpc[c] = "flush") \in BOOLEAN
      BY <1>1 DEF TypeOK
    <3>2. CountSend(stats[c], Len(batch[c]), cpc[c] = "flush", ok) \in CompressorStats
      BY <3>1, CountSendType, ZenonT(30)
    <3>3. stats' = [stats EXCEPT
                      ![c] = CountSend(stats[c], Len(batch[c]), cpc[c] = "flush", ok)]
      BY DEF SendReturned
    <3>4. QED
      BY <3>1, <3>2, <3>3
  <2>2. limit' \in [Compressors -> Limits]
    BY <1>1 DEF TypeOK, SendReturned
  <2>3. /\ batch' \in [Compressors -> Seq(Msgs)]
        /\ byteCount' \in [Compressors -> Nat]
        /\ cpc' \in [Compressors -> {"off", "select", "send", "flush", "exited"}]
    BY <1>1, <1>2 DEF TypeOK
  <2>4. QED
    BY <1>1, <1>2, <1>3, <2>1, <2>2, <2>3 DEF TypeOK
<1>6. Looping'
  <2>1. ASSUME NEW d \in Compressors \ {c}
        PROVE  /\ byteCount'[d] = byteCount[d] /\ batch'[d] = batch[d]
               /\ cpc'[d] = cpc[d]
    BY <1>1, <1>2 DEF TypeOK
  <2>2. /\ byteCount'[c] = 0 /\ batch'[c] = <<>>
        /\ cpc'[c] \in {"select", "exited"}
    BY <1>1, <1>2 DEF TypeOK
  <2>3. ~timerSet[c]
    BY <1>1 DEF Looping
  <2>4. QED
    BY <1>1, <1>2, <2>1, <2>2, <2>3 DEF Looping, Sending
<1>7. QED
  BY <1>4, <1>5, <1>6 DEF PoolInv

\* The steps that do not touch a batch or a message.
LEMMA OtherStep ==
    ASSUME PoolInv, Start \/ Shutdown \/ ShutdownWaited \/ UNCHANGED vars
    PROVE  PoolInv'
<1>1. /\ state' \in {"Created", "Running", "Stopped", "Done"}
      /\ \/ cpc' = cpc
         \/ cpc' = [c \in Compressors |-> "select"]
      /\ UNCHANGED <<queue, queued, idle, isOpen, batch, byteCount, gzWriter, timerSet,
                     limit, stats, delivered, discarded>>
  BY DEF PoolInv, TypeOK, Start, Shutdown, ShutdownWaited, vars, loopVars, endVars
<1>2. cpc' \in [Compressors -> {"off", "select", "send", "flush", "exited"}]
  BY <1>1 DEF PoolInv, TypeOK
<1>3. TypeOK'
  BY <1>1, <1>2 DEF PoolInv, TypeOK
<1>4. AccountedNow'
  BY <1>1 DEF PoolInv, AccountedNow
<1>5. \A c \in Compressors : Sending(c)' => Sending(c)
  BY <1>1 DEF Sending
<1>6. Looping'
  BY <1>1, <1>5 DEF PoolInv, Looping
<1>7. QED
  BY <1>3, <1>4, <1>6 DEF PoolInv

LEMMA PoolNext == PoolInv /\ [Next]_vars => PoolInv'
<1> SUFFICES ASSUME PoolInv, [Next]_vars PROVE PoolInv'
  OBVIOUS
<1>1. ASSUME NEW m \in Msgs, QueueBuf(m) PROVE PoolInv'
  BY <1>1, QueueStep
<1>2. ASSUME NEW c \in Compressors, Compressor(c) PROVE PoolInv'
  <2>1. CASE Read(c)
    BY <2>1, ReadStep
  <2>2. CASE ReadWriteError(c)
    BY <2>2, WriteErrorStep
  <2>3. CASE ReadEmpty(c)
    BY <2>3, EmptyStep
  <2>4. CASE ReadClosed(c)
    BY <2>4, ClosedStep
  <2>5. CASE FlushTimer(c)
    BY <2>5, FlushStep
  <2>6. ASSUME NEW ok \in BOOLEAN, SendReturned(c, ok) PROVE PoolInv'
    BY <2>6, SendStep
  <2>7. QED
    BY <1>2, <2>1, <2>2, <2>3, <2>4, <2>5, <2>6 DEF Compressor
<1>3. CASE Start \/ Shutdown \/ ShutdownWaited \/ UNCHANGED vars
  BY <1>3, OtherStep
<1>4. QED
  BY <1>1, <1>2, <1>3 DEF Next

\* A message of a sequence without repetition is at one place of it.
LEMMA AtOnce ==
    ASSUME NEW s \in Seq(Msgs), Injective(s), NEW m \in Elems(s)
    PROVE  \E i : At(s, m) = {i}
<1>1. PICK i \in 1..Len(s) : s[i] = m
  BY DEF Elems
<1>2. At(s, m) = {i}
  BY <1>1 DEF At, Injective
<1>3. QED
  BY <1>2

\* The places in the batches of a message that only compressor c has.
LEMMA OnePlace ==
    ASSUME NEW m \in Msgs, NEW c \in Compressors,
           \A d \in Compressors \ {c} : At(batch[d], m) = {}
    PROVE  (UNION {{"batch"} \X ({d} \X At(batch[d], m)) : d \in Compressors})
             = {"batch"} \X ({c} \X At(batch[c], m))
OBVIOUS

\* A message that is accounted for is in one place.
LEMMA InvOnce == PoolInv => ExactlyOnce
<1> SUFFICES ASSUME PoolInv, NEW m \in Msgs, Size[m] > 0, m \in queued
             PROVE  \E p \in Places(m) : Places(m) = {p}
  BY DEF ExactlyOnce
<1>1. /\ queue \in Seq(Msgs) /\ batch \in [Compressors -> Seq(Msgs)]
      /\ delivered[m] \in Nat /\ discarded[m] \in Nat
  BY DEF PoolInv, TypeOK
<1>2. /\ m \notin Elems(queue) => At(queue, m) = {}
      /\ \A c \in Compressors : m \notin Elems(batch[c]) => At(batch[c], m) = {}
  BY <1>1 DEF Elems, At
<1>3. /\ m \in Elems(queue) => \E i : At(queue, m) = {i}
      /\ \A c \in Compressors : m \in Elems(batch[c]) => \E i : At(batch[c], m) = {i}
  BY <1>1, AtOnce, ZenonT(30) DEF PoolInv, AccountedNow, Accounted
<1>4. CASE Ends(delivered, discarded, m) # 0
  <2> DEFINE Q == {"queue"} \X At(queue, m)
             B == UNION {{"batch"} \X ({c} \X At(batch[c], m)) : c \in Compressors}
             D == {"delivered"} \X (1..delivered[m])
             X == {"discarded"} \X (1..discarded[m])
  <2>1. /\ At(queue, m) = {} /\ \A c \in Compressors : At(batch[c], m) = {}
        /\ delivered[m] + discarded[m] = 1
    BY <1>2, <1>4 DEF PoolInv, AccountedNow, Accounted, Ends
  <2>2. Places(m) = Q \cup B \cup D \cup X
    BY DEF Places
  <2>3. Q = {} /\ B = {}
    BY <2>1
  <2>4. CASE delivered[m] = 1 /\ discarded[m] = 0
    <3>1. 1..delivered[m] = {1} /\ 1..discarded[m] = {}
      BY <2>4
    <3>2. D = {<<"delivered", 1>>} /\ X = {}
      BY <3>1
    <3> HIDE DEF Q, B, D, X
    <3>3. Places(m) = {<<"delivered", 1>>}
      BY <2>2, <2>3, <3>2
    <3>4. QED
      BY <3>3
  <2>5. CASE delivered[m] = 0 /\ discarded[m] = 1
    <3>1. 1..delivered[m] = {} /\ 1..discarded[m] = {1}
      BY <2>5
    <3>2. D = {} /\ X = {<<"discarded", 1>>}
      BY <3>1
    <3> HIDE DEF Q, B, D, X
    <3>3. Places(m) = {<<"discarded", 1>>}
      BY <2>2, <2>3, <3>2
    <3>4. QED
      BY <3>3
  <2> HIDE DEF Q, B, D, X
  <2>6. \/ delivered[m] = 1 /\ discarded[m] = 0
        \/ delivered[m] = 0 /\ discarded[m] = 1
    BY <1>1, <2>1
  <2>7. QED
    BY <2>4, <2>5, <2>6
<1>5. CASE Ends(delivered, discarded, m) = 0
  <2>1. delivered[m] = 0 /\ discarded[m] = 0
    BY <1>1, <1>5 DEF Ends
  <2>2. 1..delivered[m] = {} /\ 1..discarded[m] = {}
    BY <2>1
  <2>3. CASE m \in Elems(queue)
    <3>1. PICK i : At(queue, m) = {i}
      BY <1>3, <2>3, Zenon
    <3>2. \A c \in Compressors : At(batch[c], m) = {}
      BY <1>2, <2>3 DEF PoolInv, AccountedNow, Accounted
    <3>3. Places(m) = {<<"queue", i>>}
      BY <2>2, <3>1, <3>2 DEF Places
    <3>4. QED
      BY <3>3
  <2>4. ASSUME NEW c \in Compressors, m \in Elems(batch[c])
        PROVE  \E p \in Places(m) : Places(m) = {p}
    <3>1. PICK i : At(batch[c], m) = {i}
      BY <1>3, <2>4, ZenonT(30)
    <3>2. /\ At(queue, m) = {}
          /\ \A d \in Compressors : d # c => At(batch[d], m) = {}
      BY <1>2, <2>4 DEF PoolInv, AccountedNow, Accounted
    <3>3. (UNION {{"batch"} \X ({d} \X At(batch[d], m)) : d \in Compressors})
            = {"batch"} \X ({c} \X {i})
      BY <3>1, <3>2, OnePlace
    <3>4. {"batch"} \X ({c} \X {i}) = {<<"batch", <<c, i>>>>}
      OBVIOUS
    <3>5. Places(m) = {<<"batch", <<c, i>>>>}
      BY <2>2, <3>2, <3>3, <3>4 DEF Places
    <3>6. QED
      BY <3>5
  <2>5. QED
    BY <1>5, <2>3, <2>4 DEF PoolInv, AccountedNow, Accounted
<1>6. QED
  BY <1>4, <1>5

------------------------------------------------------------------------------
\* Whatever the sizes, the number of goroutines, the limits and the capacity of
\* the queue, a buffer with data is at every moment in one place: none is lost
\* and none sent twice (compressor_pool.go:334-419).
THEOREM BuffersSentOnce == Spec => [](TypeOK /\ ExactlyOnce)
<1>1. PoolInv => TypeOK /\ ExactlyOnce
  BY InvOnce DEF PoolInv
<1>2. QED
  BY <1>1, PoolInit, PoolNext, PTL DEF Spec

\* No compressor sends without a writer or an empty batch, and no flush timer
\* runs without a batch, for any constants (compressor_pool.go:365-368, 380-388).
THEOREM NothingEmptyIsSent == Spec => []NothingEmptySent
<1>1. PoolInv => NothingEmptySent
  BY DEF PoolInv, Looping, NothingEmptySent
<1>2. QED
  BY <1>1, PoolInit, PoolNext, PTL DEF Spec
==============================================================================
