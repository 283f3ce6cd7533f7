--------------------------- MODULE ReadFileBufPool ---------------------------
(***************************************************************************)
(* The buffer pool of internal/utils/readfile_buf_pool.go, shared by the   *)
(* metrics generators, which fill buffers, and the compressors, which      *)
(* return them.  A buffer is an identity and whether it holds data.  The   *)
(* pool's slice is longer than poolSize after a GetBuf: the slots beyond   *)
(* it keep pointing at buffers that are in use.                            *)
(***************************************************************************)
EXTENDS Integers, Sequences, FiniteSets

CONSTANTS
    Users,          \* the goroutines
    Buffers,        \* the identities of the bytes.Buffer objects
    MaxPoolSize,    \* maxPoolSize; 0 is unbound
    MaxReadSize,    \* maxReadSize; 0 is unbound
    FileSizes,      \* the sizes a file may have when it is read
    NoBuffer

ASSUME BoundsAssumption == MaxPoolSize \in Nat /\ MaxReadSize \in Nat
ASSUME FileSizesAssumption == FileSizes \subseteq Nat
ASSUME NoBufferAssumption == NoBuffer \notin Buffers

VARIABLES
    pool,       \* the slice
    poolSize,   \* how many of its slots are in the pool
    size,       \* the bytes in each buffer
    held,       \* the buffers each user may use
    reading,    \* the buffer a user's ReadFile is filling, or NoBuffer
    readFailed  \* whether that read failed, the buffer being due back

vars == <<pool, poolSize, size, held, reading, readFailed>>

Referenced == {pool[i] : i \in 1..Len(pool)}
Held == UNION {held[u] : u \in Users}

\* The buffers that are in the pool.
Live == {pool[i] : i \in 1..poolSize}

Init ==
    /\ pool = <<>>
    /\ poolSize = 0
    /\ size = [b \in Buffers |-> 0]
    /\ held = [u \in Users |-> {}]
    /\ reading = [u \in Users |-> NoBuffer]
    /\ readFailed = [u \in Users |-> FALSE]

------------------------------------------------------------------------------
PopKeepsSize(u, b) ==
    /\ poolSize > 0
    /\ b = pool[poolSize]
    /\ poolSize' = poolSize - 1
    /\ UNCHANGED size

PeekBuf(u, b) ==
    /\ poolSize > 0
    /\ b = pool[poolSize]
    /\ UNCHANGED poolSize
    /\ size' = [size EXCEPT ![b] = 0]

\* GetBuf, the pool not being empty: the last buffer in it, Reset.
PopBuf(u, b) ==
    /\ poolSize > 0
    /\ b = pool[poolSize]
    /\ poolSize' = poolSize - 1
    /\ size' = [size EXCEPT ![b] = 0]

\* GetBuf, the pool being empty: a new buffer, an object nothing refers to.
NewBuf(u, b) ==
    /\ poolSize = 0
    /\ b \notin Referenced \cup Held
    /\ size' = [size EXCEPT ![b] = 0]
    /\ UNCHANGED poolSize

GetBuf(u, b) ==
    /\ PopBuf(u, b) \/ NewBuf(u, b)
    /\ held' = [held EXCEPT ![u] = @ \cup {b}]
    /\ UNCHANGED pool

\* The generators' use of it.
Get(u) ==
    /\ reading[u] = NoBuffer
    /\ \E b \in Buffers : GetBuf(u, b)
    /\ UNCHANGED <<reading, readFailed>>

\* What ReturnBuf does to the pool: discard at capacity, else use the slot
\* after the last or make one.
PushBuf(b) ==
    IF MaxPoolSize > 0 /\ poolSize >= MaxPoolSize
    THEN UNCHANGED <<pool, poolSize>>
    ELSE /\ pool' = IF poolSize >= Len(pool) THEN Append(pool, b)
                                             ELSE [pool EXCEPT ![poolSize + 1] = b]
         /\ poolSize' = poolSize + 1

ReturnBuf(u, b) ==
    /\ b \in held[u]
    /\ PushBuf(b)
    /\ held' = [held EXCEPT ![u] = @ \ {b}]
    /\ UNCHANGED size

Return(u, b) ==
    /\ reading[u] = NoBuffer
    /\ ReturnBuf(u, b)
    /\ UNCHANGED <<reading, readFailed>>

------------------------------------------------------------------------------
\* ReadFile, the file having been opened: GetBuf.
ReadFile(u) ==
    /\ reading[u] = NoBuffer
    /\ \E b \in Buffers : GetBuf(u, b) /\ reading' = [reading EXCEPT ![u] = b]
    /\ UNCHANGED readFailed

\* How much of a file of size n CopyN or ReadFrom puts into the buffer.
ReadSize(n) == IF MaxReadSize > 0 /\ n > MaxReadSize THEN MaxReadSize ELSE n

\* The whole file or its first part was read: the caller gets the buffer, with
\* ErrReadFileBufPotentialTruncation if the limit was reached.
ReadDone(u, n) ==
    /\ reading[u] # NoBuffer
    /\ ~readFailed[u]
    /\ size' = [size EXCEPT ![reading[u]] = @ + ReadSize(n)]
    /\ reading' = [reading EXCEPT ![u] = NoBuffer]
    /\ UNCHANGED <<pool, poolSize, held, readFailed>>

\* The read failed after some bytes.
ReadError(u, n) ==
    /\ reading[u] # NoBuffer
    /\ ~readFailed[u]
    /\ size' = [size EXCEPT ![reading[u]] = @ + ReadSize(n)]
    /\ readFailed' = [readFailed EXCEPT ![u] = TRUE]
    /\ UNCHANGED <<pool, poolSize, held, reading>>

\* The buffer goes back to the pool, the caller gets nil.
ReadErrorReturn(u) ==
    /\ readFailed[u]
    /\ ReturnBuf(u, reading[u])
    /\ reading' = [reading EXCEPT ![u] = NoBuffer]
    /\ readFailed' = [readFailed EXCEPT ![u] = FALSE]

------------------------------------------------------------------------------
(* What users do with a buffer of theirs, as the generators and compressors. *)

Write(u, b) ==
    /\ reading[u] = NoBuffer
    /\ b \in held[u]
    /\ size[b] = 0
    /\ size' = [size EXCEPT ![b] = 1]
    /\ UNCHANGED <<pool, poolSize, held, reading, readFailed>>

\* The buffer travels through the compressors' queue.
HandOver(u, v, b) ==
    /\ reading[u] = NoBuffer
    /\ reading[v] = NoBuffer
    /\ b \in held[u]
    /\ held' = [held EXCEPT ![u] = @ \ {b}, ![v] = @ \cup {b}]
    /\ UNCHANGED <<pool, poolSize, size, reading, readFailed>>

\* A buffer is dropped, as the compressors do with an empty one.
Drop(u, b) ==
    /\ reading[u] = NoBuffer
    /\ b \in held[u]
    /\ held' = [held EXCEPT ![u] = @ \ {b}]
    /\ UNCHANGED <<pool, poolSize, size, reading, readFailed>>

Next ==
    \E u \in Users :
        \/ Get(u)
        \/ ReadFile(u)
        \/ ReadErrorReturn(u)
        \/ \E n \in FileSizes : ReadDone(u, n) \/ ReadError(u, n)
        \/ \E b \in Buffers : Return(u, b) \/ Write(u, b) \/ Drop(u, b)
        \/ \E v \in Users \ {u}, b \in Buffers : HandOver(u, v, b)

Spec == Init /\ [][Next]_vars
------------------------------------------------------------------------------
TypeOK ==
    /\ pool \in Seq(Buffers)
    /\ poolSize \in 0..Len(pool)
    /\ size \in [Buffers -> Nat]
    /\ held \in [Users -> SUBSET Buffers]
    /\ reading \in [Users -> Buffers \cup {NoBuffer}]
    /\ readFailed \in [Users -> BOOLEAN]

\* No two goroutines ever have the same buffer, nor has one a buffer that is
\* in the pool, nor is a buffer twice in the pool, although the slice's slots
\* past poolSize still refer to buffers in use (readfile_buf_pool.go:60-64,
\* 81-86).
NoAliasing ==
    /\ \A u, v \in Users : u # v => held[u] \cap held[v] = {}
    /\ \A u \in Users : held[u] \cap Live = {}
    /\ \A i, j \in 1..poolSize : pool[i] = pool[j] => i = j

\* The pool, its slice included, never outgrows its maximum: a spike of
\* concurrent use does not keep memory (readfile_buf_pool.go:30-33, 76-78).
PoolBounded == MaxPoolSize > 0 => Len(pool) <= MaxPoolSize

\* A buffer is empty when it is handed out, whatever its previous user left in
\* it, a failed ReadFile included (readfile_buf_pool.go:63, 114).
HandedOutEmpty ==
    [][\A u \in Users : \A b \in held'[u] \ Held : size'[b] = 0]_vars

==============================================================================
