-------------------------- MODULE StdoutMetricsQueue -------------------------
(***************************************************************************)
(* lsvmi/stdout_metrics_queue.go: the metrics queue that prints the        *)
(* buffers instead of compressing and sending them.                        *)
(***************************************************************************)
EXTENDS Integers, Sequences

CONSTANTS
    QueueSize,      \* metrics_queue_size
    MaxIdle         \* buffer_pool_max_size; 0 is unbound

VARIABLES
    state,      \* "Created", "Running", then "Stopped" and "Done" in Shutdown
    queue,      \* the metricsQueue channel
    looping,    \* whether the goroutine is in its loop
    idle,       \* the number of buffers in the pool
    queued,     \* history: the buffers queued so far
    printed     \* what went to stdout

vars == <<state, queue, looping, idle, queued, printed>>

Init ==
    /\ state = "Created" /\ looping = FALSE
    /\ queue = <<>> /\ queued = <<>> /\ printed = <<>>
    /\ idle = 0

\* NewStdoutMetricsQueue
New ==
    /\ state = "Created"
    /\ state' = "Running" /\ looping' = TRUE
    /\ UNCHANGED <<queue, idle, queued, printed>>

\* GetBuf and QueueBuf
QueueBuf(m) ==
    /\ state = "Running"
    /\ Len(queue) < QueueSize
    /\ idle' = IF idle > 0 THEN idle - 1 ELSE idle
    /\ queue' = Append(queue, m)
    /\ queued' = Append(queued, m)
    /\ UNCHANGED <<state, looping, printed>>

\* An iteration of loop with a buffer: Write, WriteString, ReturnBuf.
PrintNext ==
    /\ looping
    /\ queue # <<>>
    /\ queue' = Tail(queue)
    /\ printed' = Append(printed, Head(queue))
    /\ idle' = IF MaxIdle > 0 /\ idle >= MaxIdle THEN idle ELSE idle + 1
    /\ UNCHANGED <<state, looping, queued>>

LoopQuits ==
    /\ looping
    /\ state = "Stopped"
    /\ looping' = FALSE
    /\ UNCHANGED <<state, queue, idle, queued, printed>>

\* The channel is closed and drained.
LoopReturns ==
    /\ looping
    /\ queue = <<>> /\ state = "Stopped"
    /\ looping' = FALSE
    /\ UNCHANGED <<state, queue, idle, queued, printed>>

\* close(mq.metricsQueue)
Shutdown ==
    /\ state = "Running"
    /\ state' = "Stopped"
    /\ UNCHANGED <<queue, looping, idle, queued, printed>>

\* mq.wg.Wait() returned
ShutdownWaited ==
    /\ state = "Stopped" /\ ~looping
    /\ state' = "Done"
    /\ UNCHANGED <<queue, looping, idle, queued, printed>>
==============================================================================
