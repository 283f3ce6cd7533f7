------------------------ MODULE ReadFileBufPoolProofs ------------------------
(***************************************************************************)
(* The ownership discipline of ReadFileBufPool, for any number of          *)
(* goroutines and buffers and any limits.                                  *)
(***************************************************************************)
EXTENDS ReadFileBufPool, TLAPS

\* A goroutine in ReadFile has the buffer that it fills.
ReadersHold ==
    \A u \in Users :
        /\ reading[u] # NoBuffer => reading[u] \in held[u]
        /\ readFailed[u] => reading[u] # NoBuffer

BufInv == TypeOK /\ NoAliasing /\ PoolBounded /\ ReadersHold

\* GetBuf takes the buffer out of the pool, or makes one that is nowhere else.
LEMMA GetFacts ==
    ASSUME BufInv, NEW u \in Users, NEW b \in Buffers, GetBuf(u, b)
    PROVE  /\ pool' = pool /\ poolSize' \in 0..Len(pool)
           /\ size' = [size EXCEPT ![b] = 0]
           /\ held' = [held EXCEPT ![u] = @ \cup {b}]
           /\ \A v \in Users : b \notin held[v]
           /\ b \notin Live'
           /\ Live' \subseteq Live
           /\ \A i, j \in 1..poolSize' : pool'[i] = pool'[j] => i = j
<1>0. pool \in Seq(Buffers) /\ poolSize \in 0..Len(pool) /\ Len(pool) \in Nat
  BY DEF BufInv, TypeOK
<1>1. pool' = pool /\ held' = [held EXCEPT ![u] = @ \cup {b}]
  BY DEF GetBuf
<1>2. CASE PopBuf(u, b)
  <2>1. /\ poolSize > 0 /\ b = pool[poolSize] /\ poolSize' = poolSize - 1
        /\ size' = [size EXCEPT ![b] = 0]
    BY <1>2 DEF PopBuf
  <2>2. b \in Live
    BY <1>0, <2>1 DEF Live
  <2>3. \A v \in Users : b \notin held[v]
    BY <2>2 DEF BufInv, NoAliasing
  <2>4. b \notin Live' /\ Live' \subseteq Live
    BY <1>0, <1>1, <2>1 DEF BufInv, NoAliasing, Live
  <2>5. \A i, j \in 1..poolSize' : pool'[i] = pool'[j] => i = j
    BY <1>0, <1>1, <2>1 DEF BufInv, NoAliasing
  <2>6. QED
    BY <1>0, <1>1, <2>1, <2>3, <2>4, <2>5
<1>3. CASE NewBuf(u, b)
  <2>1. /\ poolSize = 0 /\ poolSize' = 0 /\ size' = [size EXCEPT ![b] = 0]
        /\ b \notin Held
    BY <1>3 DEF NewBuf
  <2>2. Live' = {} /\ Live = {}
    BY <2>1 DEF Live
  <2>3. \A v \in Users : b \notin held[v]
    BY <2>1 DEF Held
  <2>4. QED
    BY <1>0, <1>1, <2>1, <2>2, <2>3
<1>4. QED
  BY <1>2, <1>3 DEF GetBuf

\* ReturnBuf moves the buffer from its holder to the pool, or discards it.
LEMMA ReturnFacts ==
    ASSUME BufInv, NEW u \in Users, NEW b \in Buffers, ReturnBuf(u, b)
    PROVE  /\ pool' \in Seq(Buffers) /\ poolSize' \in 0..Len(pool') /\ size' = size
           /\ held' = [held EXCEPT ![u] = @ \ {b}]
           /\ Live' \subseteq Live \cup {b}
           /\ \A v \in Users : v # u => b \notin held[v]
           /\ \A i, j \in 1..poolSize' : pool'[i] = pool'[j] => i = j
           /\ PoolBounded'
<1>0. /\ pool \in Seq(Buffers) /\ poolSize \in 0..Len(pool) /\ Len(pool) \in Nat
      /\ b \in held[u] /\ held' = [held EXCEPT ![u] = @ \ {b}] /\ size' = size
      /\ MaxPoolSize \in Nat
  BY BoundsAssumption DEF BufInv, TypeOK, ReturnBuf
<1>1. \A v \in Users : v # u => b \notin held[v]
  BY <1>0 DEF BufInv, NoAliasing
<1>2. b \notin Live
  BY <1>0 DEF BufInv, NoAliasing
<1>3. CASE MaxPoolSize > 0 /\ poolSize >= MaxPoolSize
  <2>1. pool' = pool /\ poolSize' = poolSize
    BY <1>3 DEF ReturnBuf, PushBuf
  <2>2. QED
    BY <1>0, <1>1, <2>1 DEF BufInv, NoAliasing, PoolBounded, Live
<1>4. CASE ~(MaxPoolSize > 0 /\ poolSize >= MaxPoolSize)
  <2>1. /\ pool' = IF poolSize >= Len(pool) THEN Append(pool, b)
                                            ELSE [pool EXCEPT ![poolSize + 1] = b]
        /\ poolSize' = poolSize + 1
    BY <1>4 DEF ReturnBuf, PushBuf
  <2>2. /\ pool' \in Seq(Buffers) /\ poolSize' \in 0..Len(pool')
        /\ \A i \in 1..poolSize : pool'[i] = pool[i]
        /\ pool'[poolSize'] = b
        /\ Len(pool') = IF poolSize >= Len(pool) THEN Len(pool) + 1 ELSE Len(pool)
    <3>1. CASE poolSize >= Len(pool)
      BY <1>0, <2>1, <3>1
    <3>2. CASE ~(poolSize >= Len(pool))
      BY <1>0, <2>1, <3>2
    <3>3. QED
      BY <3>1, <3>2
  <2>3. \A i \in 1..poolSize' : i \in 1..poolSize \/ i = poolSize'
    BY <1>0, <2>1
  <2>4. Live' \subseteq Live \cup {b}
    BY <2>2, <2>3 DEF Live
  <2>5. \A i \in 1..poolSize : pool[i] # b
    BY <1>2 DEF Live
  <2>6. \A i, j \in 1..poolSize' : pool'[i] = pool'[j] => i = j
    BY <2>2, <2>3, <2>5 DEF BufInv, NoAliasing
  <2>7. PoolBounded'
    BY <1>0, <1>4, <2>2 DEF PoolBounded, BufInv
  <2>8. QED
    BY <1>0, <1>1, <2>2, <2>4, <2>6, <2>7, Zenon
<1>5. QED
  BY <1>3, <1>4

LEMMA BufInit == Init => BufInv
<1> SUFFICES ASSUME Init PROVE BufInv
  OBVIOUS
<1>1. TypeOK
  BY DEF Init, TypeOK
<1>2. NoAliasing
  BY DEF Init, NoAliasing, Live
<1>3. PoolBounded
  BY BoundsAssumption DEF Init, PoolBounded
<1>4. ReadersHold
  BY DEF Init, ReadersHold
<1>5. QED
  BY <1>1, <1>2, <1>3, <1>4 DEF BufInv

\* The steps that take a buffer.
LEMMA GetStep ==
    ASSUME BufInv, NEW u \in Users, Get(u) \/ ReadFile(u)
    PROVE  BufInv'
<1>0. /\ held \in [Users -> SUBSET Buffers] /\ size \in [Buffers -> Nat]
      /\ reading \in [Users -> Buffers \cup {NoBuffer}]
      /\ readFailed \in [Users -> BOOLEAN] /\ pool \in Seq(Buffers)
  BY DEF BufInv, TypeOK
<1>1. PICK b \in Buffers :
        /\ GetBuf(u, b) /\ reading[u] = NoBuffer /\ readFailed' = readFailed
        /\ reading' = reading \/ reading' = [reading EXCEPT ![u] = b]
  BY DEF Get, ReadFile
<1>2. /\ pool' = pool /\ poolSize' \in 0..Len(pool)
      /\ size' = [size EXCEPT ![b] = 0]
      /\ held' = [held EXCEPT ![u] = @ \cup {b}]
      /\ \A v \in Users : b \notin held[v]
      /\ b \notin Live'
      /\ Live' \subseteq Live
      /\ \A i, j \in 1..poolSize' : pool'[i] = pool'[j] => i = j
  BY <1>1, GetFacts
<1>3. TypeOK'
  BY <1>0, <1>1, <1>2 DEF TypeOK
<1>4. NoAliasing'
  BY <1>0, <1>2 DEF BufInv, NoAliasing
<1>5. PoolBounded'
  BY <1>2 DEF BufInv, PoolBounded
<1>6. ReadersHold'
  BY <1>0, <1>1, <1>2, NoBufferAssumption DEF BufInv, ReadersHold
<1>7. QED
  BY <1>3, <1>4, <1>5, <1>6 DEF BufInv

\* The steps that return one.
LEMMA ReturnStep ==
    ASSUME BufInv, NEW u \in Users,
           ReadErrorReturn(u) \/ \E b \in Buffers : Return(u, b)
    PROVE  BufInv'
<1>0. /\ held \in [Users -> SUBSET Buffers] /\ size \in [Buffers -> Nat]
      /\ reading \in [Users -> Buffers \cup {NoBuffer}]
      /\ readFailed \in [Users -> BOOLEAN]
  BY DEF BufInv, TypeOK
<1>1. PICK b \in Buffers :
        /\ ReturnBuf(u, b)
        /\ \/ /\ reading[u] = NoBuffer /\ reading' = reading /\ readFailed' = readFailed
           \/ /\ reading' = [reading EXCEPT ![u] = NoBuffer]
              /\ readFailed' = [readFailed EXCEPT ![u] = FALSE]
  <2>1. CASE ReadErrorReturn(u)
    BY <1>0, <2>1 DEF ReadErrorReturn, BufInv, ReadersHold
  <2>2. CASE \E b \in Buffers : Return(u, b)
    BY <2>2 DEF Return
  <2>3. QED
    BY <2>1, <2>2
<1>2. /\ pool' \in Seq(Buffers) /\ poolSize' \in 0..Len(pool') /\ size' = size
      /\ held' = [held EXCEPT ![u] = @ \ {b}]
      /\ Live' \subseteq Live \cup {b}
      /\ \A v \in Users : v # u => b \notin held[v]
      /\ \A i, j \in 1..poolSize' : pool'[i] = pool'[j] => i = j
      /\ PoolBounded'
  BY <1>1, ReturnFacts
<1>3. TypeOK'
  BY <1>0, <1>1, <1>2, Zenon DEF TypeOK
<1>4. NoAliasing'
  BY <1>0, <1>2 DEF BufInv, NoAliasing
<1>5. readFailed[u] => reading[u] # NoBuffer
  BY DEF BufInv, ReadersHold
<1>6. ReadersHold'
  BY <1>0, <1>1, <1>2, <1>5 DEF BufInv, ReadersHold
<1>7. QED
  BY <1>2, <1>3, <1>4, <1>6 DEF BufInv

\* The steps that leave the pool alone.
LEMMA UseStep ==
    ASSUME BufInv, NEW u \in Users,
           \/ \E n \in FileSizes : ReadDone(u, n) \/ ReadError(u, n)
           \/ \E b \in Buffers : Write(u, b) \/ Drop(u, b)
           \/ \E v \in Users \ {u}, b \in Buffers : HandOver(u, v, b)
    PROVE  BufInv'
<1>0. /\ held \in [Users -> SUBSET Buffers] /\ size \in [Buffers -> Nat]
      /\ reading \in [Users -> Buffers \cup {NoBuffer}]
      /\ readFailed \in [Users -> BOOLEAN]
      /\ pool \in Seq(Buffers) /\ poolSize \in 0..Len(pool)
  BY DEF BufInv, TypeOK
<1>1. ASSUME NEW n \in FileSizes, ReadDone(u, n) \/ ReadError(u, n)
      PROVE  BufInv'
  <2>1. /\ UNCHANGED <<pool, poolSize, held>>
        /\ size' = [size EXCEPT ![reading[u]] = @ + ReadSize(n)]
        /\ reading[u] \in Buffers
        /\ \/ reading' = [reading EXCEPT ![u] = NoBuffer]
              /\ ~readFailed[u] /\ readFailed' = readFailed
           \/ reading' = reading /\ readFailed' = [readFailed EXCEPT ![u] = TRUE]
    BY <1>0, <1>1 DEF ReadDone, ReadError
  <2>2. ReadSize(n) \in Nat
    BY BoundsAssumption, FileSizesAssumption DEF ReadSize
  <2>3. size' \in [Buffers -> Nat]
    BY <1>0, <2>1, <2>2
  <2>4. TypeOK'
    BY <1>0, <2>1, <2>3, Zenon DEF TypeOK
  <2>5. NoAliasing' /\ PoolBounded'
    BY <2>1 DEF BufInv, NoAliasing, PoolBounded, Live
  <2>6. ReadersHold'
    BY <1>0, <2>1, NoBufferAssumption, Zenon DEF BufInv, ReadersHold
  <2>7. QED
    BY <2>4, <2>5, <2>6 DEF BufInv
<1>2. ASSUME NEW b \in Buffers, Write(u, b)
      PROVE  BufInv'
  <2>1. UNCHANGED <<pool, poolSize, held, reading, readFailed>>
        /\ size' = [size EXCEPT ![b] = 1]
    BY <1>2 DEF Write
  <2>2. QED
    BY <1>0, <2>1 DEF BufInv, TypeOK, NoAliasing, PoolBounded, Live, ReadersHold
<1>3. ASSUME NEW b \in Buffers, Drop(u, b)
      PROVE  BufInv'
  <2>1. /\ UNCHANGED <<pool, poolSize, size, reading, readFailed>>
        /\ held' = [held EXCEPT ![u] = @ \ {b}] /\ reading[u] = NoBuffer
    BY <1>3 DEF Drop
  <2>2. Live' = Live
    BY <2>1 DEF Live
  <2>3. QED
    BY <1>0, <2>1, <2>2 DEF BufInv, TypeOK, NoAliasing, PoolBounded, ReadersHold
<1>4. ASSUME NEW v \in Users \ {u}, NEW b \in Buffers, HandOver(u, v, b)
      PROVE  BufInv'
  <2>1. /\ UNCHANGED <<pool, poolSize, size, reading, readFailed>>
        /\ b \in held[u] /\ reading[u] = NoBuffer
        /\ held' = [held EXCEPT ![u] = @ \ {b}, ![v] = @ \cup {b}]
    BY <1>4 DEF HandOver
  <2>2. \A w \in Users : held'[w] = IF w = u THEN held[u] \ {b}
                                    ELSE IF w = v THEN held[v] \cup {b} ELSE held[w]
    BY <1>0, <2>1, Zenon
  <2>3. Live' = Live
    BY <2>1 DEF Live
  <2>4. NoAliasing'
    <3>1. b \notin Live /\ \A w \in Users \ {u} : b \notin held[w]
      BY <2>1 DEF BufInv, NoAliasing
    <3>2. \A w \in Users : held'[w] \cap Live = {}
      BY <2>2, <3>1 DEF BufInv, NoAliasing
    <3>3. ASSUME NEW w \in Users, NEW x \in Users, w # x
          PROVE  held'[w] \cap held'[x] = {}
      <4>1. held[w] \cap held[x] = {}
        BY <3>3 DEF BufInv, NoAliasing
      <4>2. QED
        BY <2>2, <3>1, <3>3, <4>1
    <3>4. \A i, j \in 1..poolSize' : pool'[i] = pool'[j] => i = j
      BY <2>1 DEF BufInv, NoAliasing
    <3>5. QED
      BY <2>3, <3>2, <3>3, <3>4 DEF NoAliasing
  <2>5. TypeOK' /\ PoolBounded' /\ ReadersHold'
    BY <1>0, <2>1, <2>2 DEF BufInv, TypeOK, PoolBounded, ReadersHold
  <2>6. QED
    BY <2>4, <2>5 DEF BufInv
<1>5. QED
  BY <1>1, <1>2, <1>3, <1>4

LEMMA BufStep ==
    ASSUME BufInv, [Next]_vars
    PROVE  BufInv'
<1>1. CASE UNCHANGED vars
  BY <1>1 DEF vars, BufInv, TypeOK, NoAliasing, PoolBounded, Live, ReadersHold
<1>2. CASE Next
  BY <1>2, GetStep, ReturnStep, UseStep DEF Next
<1>3. QED
  BY <1>1, <1>2

LEMMA BufInvariant == Spec => []BufInv
BY BufInit, BufStep, PTL DEF Spec

\* No goroutine ever shares a buffer with another or with the pool
\* (readfile_buf_pool.go:56-88).
THEOREM BuffersAreNotShared == Spec => []NoAliasing
BY BufInvariant, PTL DEF BufInv

\* The pool's slice never outgrows maxPoolSize (readfile_buf_pool.go:76-86).
THEOREM PoolIsBounded == Spec => []PoolBounded
BY BufInvariant, PTL DEF BufInv
==============================================================================
