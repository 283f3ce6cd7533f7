--------------------------- MODULE CompressorPool ----------------------------
(***************************************************************************)
(* The compressor pool of lsvmi/compressor_pool.go: generators queue       *)
(* buffers of metrics, compressor goroutines collect them in batches and   *)
(* hand a batch to the sender when it is large enough, when the flush      *)
(* timer fires or when the queue is closed.                                *)
(*                                                                         *)
(* A buffer is a message with a size; gzip is abstracted to the sequence   *)
(* of messages written since the batch began.  The compression factor only *)
(* matters through the read limit that it gives, so after a batch the      *)
(* limit is any of Limits.                                                 *)
(***************************************************************************)
EXTENDS Integers, Sequences, FiniteSets

CONSTANTS
    Msgs,           \* the buffers queued during the run
    Size,           \* [Msgs -> Nat]: their lengths
    Compressors,    \* the compressor goroutines
    Limits,         \* the values of batchReadByteLimit
    QueueSize,      \* metrics_queue_size
    MaxIdle,        \* buffer_pool_max_size; 0 is unbound
    FlushEnabled    \* whether flush_interval is > 0

ASSUME SizeAssumption == Size \in [Msgs -> Nat]
ASSUME LimitsAssumption == Limits # {} /\ Limits \subseteq Nat \ {0}
ASSUME PoolAssumption == QueueSize \in Nat \ {0} /\ MaxIdle \in Nat \ {0}
ASSUME FlushAssumption == FlushEnabled \in BOOLEAN

VARIABLES
    state,      \* CompressorPool.state, and "Done" when Shutdown has returned
    queue,      \* the metricsQueue channel
    queued,     \* the messages queued so far
    idle,       \* the number of buffers in the pool
    cpc,        \* where each compressor is in its loop
    isOpen,     \* its local `isOpen'
    batch,      \* the messages written to its gzBuf since the batch began
    byteCount,  \* its local `batchReadByteCount'
    gzWriter,   \* whether its gzWriter exists
    timerSet,   \* its local `timerSet': the flush timer is running
    limit,      \* its local `batchReadByteLimit'
    stats,      \* its stats
    delivered,  \* how often each message was in a batch that was sent
    discarded   \* how often each message was in a batch that was given up

loopVars == <<cpc, isOpen, batch, byteCount, gzWriter, timerSet, limit>>
endVars  == <<delivered, discarded>>
vars == <<state, queue, queued, idle, loopVars, stats, endVars>>

closed == state \in {"Stopped", "Done"}

\* count with one more for every message of batch b
CountAll(count, b) == [m \in Msgs |-> count[m] + Cardinality({i \in 1..Len(b) : b[i] = m})]

CompressorStats ==
    [read : Nat, send : Nat, timeoutFlush : Nat, sendError : Nat, writeError : Nat]

NewCompressorStats ==
    [read |-> 0, send |-> 0, timeoutFlush |-> 0, sendError |-> 0, writeError |-> 0]

Init ==
    /\ state = "Created"
    /\ queue = <<>> /\ queued = {}
    /\ idle = 0
    /\ cpc = [c \in Compressors |-> "off"]
    /\ isOpen = [c \in Compressors |-> TRUE]
    /\ batch = [c \in Compressors |-> <<>>]
    /\ byteCount = [c \in Compressors |-> 0]
    /\ gzWriter = [c \in Compressors |-> FALSE]
    /\ timerSet = [c \in Compressors |-> FALSE]
    /\ limit \in [Compressors -> Limits]
    /\ stats = [c \in Compressors |-> NewCompressorStats]
    /\ delivered = [m \in Msgs |-> 0]
    /\ discarded = [m \in Msgs |-> 0]

Start ==
    /\ state = "Created"
    /\ state' = "Running"
    /\ cpc' = [c \in Compressors |-> "select"]
    /\ UNCHANGED <<queue, queued, idle, isOpen, batch, byteCount, gzWriter, timerSet,
                   limit, stats, endVars>>

------------------------------------------------------------------------------
(* The generators.  main.go stops the scheduler, hence them, before it shuts *)
(* this pool down: nothing is queued after the close.                        *)

\* GetBuf, filled with message m, and QueueBuf.
QueueBuf(m) ==
    /\ state = "Running"
    /\ m \notin queued
    /\ Len(queue) < QueueSize
    /\ idle' = IF idle > 0 THEN idle - 1 ELSE idle
    /\ queue' = Append(queue, m)
    /\ queued' = queued \cup {m}
    /\ UNCHANGED <<state, loopVars, stats, endVars>>

------------------------------------------------------------------------------
(* The loop of compressor c.                                                 *)

\* BufPool.ReturnBuf: at its maximum the pool discards the buffer.
ReturnBuf == idle' = IF MaxIdle > 0 /\ idle >= MaxIdle THEN idle ELSE idle + 1

SendAtClose(c, n, open) == ~open \/ n >= limit[c]
FlushForgotten(c, n, open) == n >= limit[c]

\* doSend: the batch, of n bytes, is complete.
DoSend(c, n, open) == (~open /\ n > 0) \/ n >= limit[c]

StayInLoop(c, n, open) ==
    cpc' = [cpc EXCEPT ![c] = IF DoSend(c, n, open) THEN "send" ELSE "select"]

\* Go on to the send if the batch is complete, else to the next select.
AfterRead(c, n, open) ==
    cpc' = [cpc EXCEPT ![c] = IF DoSend(c, n, open) THEN "send"
                              ELSE IF open THEN "select" ELSE "exited"]

ArmOnce(c) == FlushEnabled /\ ~gzWriter[c]

\* The flush timer runs from the first read of a batch.
TimerAfterRead(c) == IF batch[c] = <<>> THEN FlushEnabled ELSE timerSet[c]

\* `case buf, isOpen = <-metricsQueue' with a buffer that has data: a first read
\* of the batch sets up the writer and the timer; the buffer is written and
\* returned to the pool.
Read(c) ==
    LET n == byteCount[c] + Size[Head(queue)]
    IN  /\ cpc[c] = "select"
        /\ queue # <<>> /\ Size[Head(queue)] > 0
        /\ queue' = Tail(queue)
        /\ ReturnBuf
        /\ batch' = [batch EXCEPT ![c] = Append(@, Head(queue))]
        /\ byteCount' = [byteCount EXCEPT ![c] = n]
        /\ gzWriter' = [gzWriter EXCEPT ![c] = TRUE]
        /\ timerSet' = [timerSet EXCEPT ![c] = TimerAfterRead(c) /\ ~DoSend(c, n, TRUE)]
        /\ AfterRead(c, n, TRUE)
        /\ UNCHANGED <<state, queued, isOpen, limit, stats, endVars>>

\* The same, but the write fails: the batch is given up.
ReadWriteError(c) ==
    /\ cpc[c] = "select"
    /\ queue # <<>> /\ Size[Head(queue)] > 0
    /\ queue' = Tail(queue)
    /\ ReturnBuf
    /\ batch' = [batch EXCEPT ![c] = <<>>]
    /\ byteCount' = [byteCount EXCEPT ![c] = 0]
    /\ gzWriter' = [gzWriter EXCEPT ![c] = FALSE]
    /\ timerSet' = [timerSet EXCEPT ![c] = FALSE]
    /\ stats' = [stats EXCEPT ![c].writeError = @ + 1]
    /\ discarded' = CountAll(discarded, Append(batch[c], Head(queue)))
    /\ AfterRead(c, 0, TRUE)
    /\ UNCHANGED <<state, queued, isOpen, limit, delivered>>

\* A buffer without data: it is neither compressed nor returned to the pool.
ReadEmpty(c) ==
    /\ cpc[c] = "select"
    /\ queue # <<>> /\ Size[Head(queue)] = 0
    /\ queue' = Tail(queue)
    /\ timerSet' = [timerSet EXCEPT ![c] = @ /\ ~DoSend(c, byteCount[c], TRUE)]
    /\ AfterRead(c, byteCount[c], TRUE)
    /\ UNCHANGED <<state, queued, idle, isOpen, batch, byteCount, gzWriter, limit, stats,
                   endVars>>

\* The channel is closed and drained.
ReadClosed(c) ==
    /\ cpc[c] = "select"
    /\ queue = <<>> /\ closed
    /\ isOpen' = [isOpen EXCEPT ![c] = FALSE]
    /\ timerSet' = [timerSet EXCEPT ![c] = @ /\ ~DoSend(c, byteCount[c], FALSE)]
    /\ AfterRead(c, byteCount[c], FALSE)
    /\ UNCHANGED <<state, queue, queued, idle, batch, byteCount, gzWriter, limit, stats,
                   endVars>>

\* `case <-flushTimer.C'
FlushTimer(c) ==
    /\ cpc[c] = "select"
    /\ timerSet[c]
    /\ timerSet' = [timerSet EXCEPT ![c] = FALSE]
    /\ cpc' = [cpc EXCEPT ![c] = "flush"]
    /\ UNCHANGED <<state, queue, queued, idle, isOpen, batch, byteCount, gzWriter, limit,
                   stats, endVars>>

BatchKept(c) == batch[c]

\* What is left of the batch after it was handed to the sender.
BatchReset(c) == <<>>

\* The stats after a send of a batch of that many reads.
CountSend(s, reads, flush, ok) ==
    [s EXCEPT !.read = @ + reads,
              !.send = @ + 1,
              !.timeoutFlush = IF flush THEN @ + 1 ELSE @,
              !.sendError = IF ok THEN @ ELSE @ + 1]

Sending(c) == cpc[c] \in {"send", "flush"}

\* sendFn returned, with an error or not; the stats, the new limit and the reset.
SendReturned(c, ok) ==
    /\ Sending(c)
    /\ stats' = [stats EXCEPT ![c] = CountSend(@, Len(batch[c]), cpc[c] = "flush", ok)]
    /\ IF ok
       THEN delivered' = CountAll(delivered, batch[c]) /\ UNCHANGED discarded
       ELSE discarded' = CountAll(discarded, batch[c]) /\ UNCHANGED delivered
    /\ \E l \in Limits : limit' = [limit EXCEPT ![c] = l]
    /\ batch' = [batch EXCEPT ![c] = BatchReset(c)]
    /\ byteCount' = [byteCount EXCEPT ![c] = 0]
    /\ cpc' = [cpc EXCEPT ![c] = IF isOpen[c] THEN "select" ELSE "exited"]
    /\ UNCHANGED <<state, queue, queued, idle, isOpen, gzWriter, timerSet>>

------------------------------------------------------------------------------
\* close(pool.metricsQueue)
Shutdown ==
    /\ state = "Running"
    /\ state' = "Stopped"
    /\ UNCHANGED <<queue, queued, idle, loopVars, stats, endVars>>

\* pool.wg.Wait() returned
ShutdownWaited ==
    /\ state = "Stopped"
    /\ \A c \in Compressors : cpc[c] = "exited"
    /\ state' = "Done"
    /\ UNCHANGED <<queue, queued, idle, loopVars, stats, endVars>>

------------------------------------------------------------------------------
Compressor(c) ==
    \/ Read(c)
    \/ ReadWriteError(c)
    \/ ReadEmpty(c)
    \/ ReadClosed(c)
    \/ FlushTimer(c)
    \/ \E ok \in BOOLEAN : SendReturned(c, ok)

Next ==
    \/ Start
    \/ \E m \in Msgs : QueueBuf(m)
    \/ \E c \in Compressors : Compressor(c)
    \/ Shutdown
    \/ ShutdownWaited

Spec == Init /\ [][Next]_vars

\* The goroutines are scheduled, sendFn returns and a timer that runs fires.
Fairness ==
    /\ \A c \in Compressors : WF_vars(Compressor(c))
    /\ WF_vars(Start) /\ WF_vars(ShutdownWaited)

FairSpec == Spec /\ Fairness
------------------------------------------------------------------------------
TypeOK ==
    /\ state \in {"Created", "Running", "Stopped", "Done"}
    /\ queue \in Seq(Msgs) /\ Len(queue) <= QueueSize
    /\ queued \in SUBSET Msgs
    /\ idle \in 0..MaxIdle
    /\ cpc \in [Compressors -> {"off", "select", "send", "flush", "exited"}]
    /\ isOpen \in [Compressors -> BOOLEAN]
    /\ batch \in [Compressors -> Seq(Msgs)]
    /\ byteCount \in [Compressors -> Nat]
    /\ gzWriter \in [Compressors -> BOOLEAN]
    /\ timerSet \in [Compressors -> BOOLEAN]
    /\ limit \in [Compressors -> Limits]
    /\ stats \in [Compressors -> CompressorStats]
    /\ delivered \in [Msgs -> Nat]
    /\ discarded \in [Msgs -> Nat]

At(s, m) == {i \in 1..Len(s) : s[i] = m}

\* Where message m is: its places in the queue and in the batches, and the
\* times it was sent or given up.
Places(m) ==
    ({"queue"} \X At(queue, m))
        \cup (UNION {{"batch"} \X ({c} \X At(batch[c], m)) : c \in Compressors})
        \cup ({"delivered"} \X (1..delivered[m]))
        \cup ({"discarded"} \X (1..discarded[m]))

\* Every buffer with data that was queued is in the queue, in one batch, sent
\* or given up with an error, and in one of these once: none is lost and none
\* sent twice, over flushes, errors and the close (compressor_pool.go:334-419).
ExactlyOnce ==
    \A m \in Msgs :
        Size[m] > 0 /\ m \in queued => \E p \in Places(m) : Places(m) = {p}

\* A compressor that is about to send has a writer and something to send, be
\* it the limit, the timer or the close that made it send; in particular the
\* flush timer never outlives its batch (compressor_pool.go:365-368, 380-388).
NothingEmptySent ==
    \A c \in Compressors :
        /\ Sending(c) => gzWriter[c] /\ batch[c] # <<>>
        /\ timerSet[c] => batch[c] # <<>> /\ ~Sending(c)

\* With the flush timer on, what was read into a batch is sent or given up,
\* even when nothing more arrives (compressor_pool.go:107-110, 350-353, 380-381).
BatchFlushed ==
    \A m \in Msgs :
        (\E c \in Compressors : At(batch[c], m) # {})
            ~> delivered[m] + discarded[m] > 0
==============================================================================
