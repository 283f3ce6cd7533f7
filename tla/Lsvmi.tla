-------------------------------- MODULE Lsvmi --------------------------------
(***************************************************************************)
(* The importer as main.go puts it together: the scheduler's workers run   *)
(* the generators, which queue buffers of metrics; the compressors collect *)
(* them and call SendBuffer of the endpoint pool; a signal stops the three *)
(* in the order of main's deferred calls.  With -use-stdout-metrics-queue  *)
(* the queue that prints takes the place of the two pools.                 *)
(*                                                                         *)
(* CompressorPool and HttpEndpointPool are the modules of that name, with  *)
(* the compressors as the senders: a call of SendBuffer begins when a      *)
(* compressor has a batch to send and its return is the compressor's       *)
(* SendReturned.  Of the scheduler only the workers are kept, each idle,   *)
(* executing a generator that has a buffer to queue, or ended.             *)
(***************************************************************************)
EXTENDS Integers, Sequences, Functions

CONSTANTS
    Workers,
    Msgs, Size, Compressors, Limits, QueueSize, MaxIdle, FlushEnabled,
    Endpoints, Threshold, RotateInterval, ErrorResetInterval, SendTimeout,
    PollInterval, NoEndpoint

VARIABLES
    useStdout,  \* *useStdoutMetricsQueueArg
    main,       \* where main is: Created, Started, Running, the number of the
                \* deferred call that it is in, or Aborted
    wpc,        \* the message a worker's generator has, or "idle" or "ended"
    panicked,   \* a send on the closed channel
    state, queue, queued, idle, cpc, isOpen, batch, byteCount, gzWriter, timerSet, limit,
    stats, delivered, discarded,
    list, healthy, numErrors, errorAge, firstUse, headAge, epState, hc, spc, sep, left,
    nap, mpc,
    outState, outQueue, outLooping, outIdle, outQueued, printed

C == INSTANCE CompressorPool

\* The pool with Shutdown called at any time, and as it is meant to be.
H == INSTANCE HttpEndpointPool WITH Senders <- Compressors, Orderly <- FALSE
HO == INSTANCE HttpEndpointPool WITH Senders <- Compressors, Orderly <- TRUE

Out == INSTANCE StdoutMetricsQueue WITH
    state <- outState, queue <- outQueue, looping <- outLooping, idle <- outIdle,
    queued <- outQueued

cVars == <<state, queue, queued, idle, cpc, isOpen, batch, byteCount, gzWriter, timerSet,
           limit, stats, delivered, discarded>>
hVars == <<list, healthy, numErrors, errorAge, firstUse, headAge, epState, hc, spc, sep,
           left, nap, mpc>>
outVars == <<outState, outQueue, outLooping, outIdle, outQueued, printed>>
vars == <<useStdout, main, wpc, panicked, cVars, hVars, outVars>>

QueueFirst ==
    IF useStdout THEN <<"stdout", "scheduler">> ELSE <<"compressors", "scheduler", "endpoints">>
EndpointsFirst ==
    IF useStdout THEN <<"scheduler", "stdout">> ELSE <<"scheduler", "endpoints", "compressors">>

\* The deferred calls of main, last in first out.
ShutdownOrder ==
    IF useStdout THEN <<"scheduler", "stdout">> ELSE <<"scheduler", "compressors", "endpoints">>

Aborted == -3
Created == -2
Started == -1
Running == 0

In(call) == main \in DOMAIN ShutdownOrder /\ ShutdownOrder[main] = call

Returned == main' = main + 1

Exited == main = Len(ShutdownOrder) + 1

\* The process exists, and with it its goroutines.
Alive == main # Aborted /\ ~Exited

\* The buffer that main queues before the others.
Header == "# Metrics will be displayed at stdout"

Init ==
    /\ useStdout \in BOOLEAN
    /\ main = Created
    /\ wpc = [w \in Workers |-> "off"]
    /\ panicked = FALSE
    /\ C!Init
    /\ H!Init
    /\ Out!Init

------------------------------------------------------------------------------
(* main                                                                      *)

\* GlobalCompressorPool.Start(GlobalHttpEndpointPool)
StartCompressors ==
    /\ main = Created /\ ~useStdout
    /\ C!Start
    /\ main' = Started
    /\ UNCHANGED <<useStdout, wpc, panicked, hVars, outVars>>

\* NewStdoutMetricsQueue, and the first buffer.
StartStdout ==
    /\ main = Created /\ useStdout
    /\ \/ Out!New /\ UNCHANGED main
       \/ Out!QueueBuf(Header) /\ main' = Started
    /\ UNCHANGED <<useStdout, wpc, panicked, cVars, hVars>>

\* The scheduler starts and the generators' tasks are added.
StartScheduler ==
    /\ main = Started
    /\ wpc' = [w \in Workers |-> "idle"]
    /\ main' = Running
    /\ UNCHANGED <<useStdout, panicked, cVars, hVars, outVars>>

\* A signal: main returns and the deferred calls begin.
Signal ==
    /\ main = Running
    /\ main' = 1
    /\ UNCHANGED <<useStdout, wpc, panicked, cVars, hVars, outVars>>

\* GlobalScheduler.Shutdown returns when all workers have ended.
SchedulerStopped ==
    /\ In("scheduler")
    /\ \A w \in Workers : wpc[w] = "ended"
    /\ Returned
    /\ UNCHANGED <<useStdout, wpc, panicked, cVars, hVars, outVars>>

\* GlobalCompressorPool.Shutdown, which closes the queue and waits.
StopCompressors ==
    /\ In("compressors")
    /\ \/ C!Shutdown /\ UNCHANGED main
       \/ C!ShutdownWaited /\ Returned
    /\ UNCHANGED <<useStdout, wpc, panicked, hVars, outVars>>

\* StdoutMetricsQueue.Shutdown
StopStdout ==
    /\ In("stdout")
    /\ \/ Out!Shutdown /\ UNCHANGED main
       \/ Out!ShutdownWaited /\ Returned
    /\ UNCHANGED <<useStdout, wpc, panicked, cVars, hVars>>

\* GlobalHttpEndpointPool.Shutdown
StopEndpoints ==
    /\ In("endpoints")
    /\ \/ (H!Shutdown \/ H!ShutdownCancel) /\ UNCHANGED main
       \/ H!ShutdownWaited /\ Returned
    /\ UNCHANGED <<useStdout, wpc, panicked, cVars, outVars>>

\* mainLog.Fatal: a part cannot be made or started, or the watchdog finds that the
\* shutdown takes too long.  The process ends without its deferred calls.
Fatal ==
    /\ main \in {Created, Started} \cup DOMAIN ShutdownOrder
    /\ main' = Aborted
    /\ UNCHANGED <<useStdout, wpc, panicked, cVars, hVars, outVars>>

------------------------------------------------------------------------------
(* The workers                                                               *)

\* The scheduler's context is cancelled.
Cancelled == main \in DOMAIN ShutdownOrder /\ \E i \in 1..main : ShutdownOrder[i] = "scheduler"

\* A task's Execute begins and has metrics m to queue.
Execute(w, m) ==
    /\ Alive /\ wpc[w] = "idle"
    /\ m \notin queued \cup Range(outQueued) /\ \A v \in Workers : wpc[v] # m
    /\ wpc' = [wpc EXCEPT ![w] = m]
    /\ UNCHANGED <<useStdout, main, panicked, cVars, hVars, outVars>>

\* QueueBuf: a send on the channel, which waits while it is full.
Queue(w) ==
    /\ Alive /\ wpc[w] \in Msgs
    /\ IF C!closed \/ outState \in {"Stopped", "Done"}
       THEN panicked' = TRUE /\ UNCHANGED <<cVars, outVars>>
       ELSE /\ IF useStdout THEN Out!QueueBuf(wpc[w]) /\ UNCHANGED cVars
                            ELSE C!QueueBuf(wpc[w]) /\ UNCHANGED outVars
            /\ UNCHANGED panicked
    /\ wpc' = [wpc EXCEPT ![w] = "idle"]
    /\ UNCHANGED <<useStdout, main, hVars>>

\* A worker ends once the scheduler is shut down and it has no task.
EndWorker(w) ==
    /\ Alive /\ wpc[w] = "idle"
    /\ Cancelled
    /\ wpc' = [wpc EXCEPT ![w] = "ended"]
    /\ UNCHANGED <<useStdout, main, panicked, cVars, hVars, outVars>>

------------------------------------------------------------------------------
(* The compressors and the endpoint pool                                     *)

\* A compressor at work on its queue.
Compress(c) ==
    /\ Alive
    /\ \/ C!Read(c) \/ C!ReadWriteError(c) \/ C!ReadEmpty(c)
       \/ C!ReadClosed(c) \/ C!FlushTimer(c)
    /\ UNCHANGED <<useStdout, main, wpc, panicked, hVars, outVars>>

\* It calls SendBuffer for its batch.
SendBegins(c) ==
    /\ Alive /\ C!Sending(c)
    /\ H!SendBuffer(c)
    /\ UNCHANGED <<useStdout, main, wpc, panicked, cVars, outVars>>

\* SendBuffer at work: it goes on, or returns to the compressor; only a
\* response may be a success.
Send(c) ==
    /\ Alive /\ H!Sender(c)
    /\ IF spc'[c] # "idle" THEN UNCHANGED cVars
       ELSE \/ C!SendReturned(c, FALSE)
            \/ spc[c] = "do" /\ C!SendReturned(c, TRUE)
    /\ UNCHANGED <<useStdout, main, wpc, panicked, outVars>>

Background ==
    /\ Alive /\ ~useStdout
    /\ H!Tick \/ \E e \in Endpoints : H!HealthCheck(e)
    /\ UNCHANGED <<useStdout, main, wpc, panicked, cVars, outVars>>

\* The goroutine of the stdout queue.
PrintLoop ==
    /\ Alive
    /\ Out!PrintNext \/ Out!LoopReturns
    /\ UNCHANGED <<useStdout, main, wpc, panicked, cVars, hVars>>

\* The process has ended.
Terminated == ~Alive /\ UNCHANGED vars

Next ==
    \/ StartCompressors \/ StartStdout \/ StartScheduler \/ Signal
    \/ SchedulerStopped \/ StopCompressors \/ StopEndpoints \/ StopStdout
    \/ Fatal
    \/ PrintLoop
    \/ \E w \in Workers :
         Queue(w) \/ EndWorker(w) \/ \E m \in Msgs : Execute(w, m)
    \/ \E c \in Compressors : Compress(c) \/ SendBegins(c) \/ Send(c)
    \/ Background
    \/ Terminated

Spec == Init /\ [][Next]_vars

\* Everything runs, time passes, tasks that are under way return; an endpoint answers at
\* last if it is asked again and again; a worker that finds its context
\* cancelled again and again takes that case of its select.  The watchdog need not fire.
Fairness ==
    /\ WF_vars(StartCompressors) /\ WF_vars(StartStdout) /\ WF_vars(StartScheduler)
    /\ WF_vars(SchedulerStopped) /\ WF_vars(StopCompressors) /\ WF_vars(StopEndpoints)
    /\ WF_vars(StopStdout) /\ WF_vars(PrintLoop)
    /\ \A w \in Workers : WF_vars(Queue(w)) /\ SF_vars(EndWorker(w))
    /\ \A c \in Compressors :
         /\ WF_vars(Compress(c)) /\ WF_vars(SendBegins(c)) /\ WF_vars(Send(c))
         /\ SF_vars(Send(c) /\ H!Responded(c))
    /\ WF_vars(Background /\ H!Tick)
    /\ \A e \in Endpoints :
         /\ WF_vars(Background /\ H!HealthCheck(e))
         /\ SF_vars(Background /\ H!Cancel(e))

FairSpec == Spec /\ Fairness
------------------------------------------------------------------------------
\* No generator sends on the closed queue (compressor_pool.go:266, 280-282;
\* stdout_metrics_queue.go:74, 96): the scheduler is stopped, its workers waited for,
\* before the compressors or the printing are (main.go:87-88, 95, 108).
NoPanic == ~panicked

\* What the two pools assume of their callers is what main and the compressors
\* do: nothing is queued once the compressor pool is shut down, and the endpoint
\* pool is shut down after the last SendBuffer has returned and called by none
\* after that.
CallersAsAssumed == C!Spec /\ HO!Spec

\* When main returns every buffer that a generator queued is accounted for: it
\* went out, or its batch was discarded with an error counted for it; no
\* compressor is left in SendBuffer.  On stdout it was printed, in the order of the
\* queue and after the header (main.go:87-99, 108).
NothingLeftBehind ==
    /\ Exited /\ useStdout => printed = outQueued /\ Head(printed) = Header /\ ~outLooping
    /\ Exited /\ ~useStdout =>
        /\ \A m \in Msgs : m \in queued /\ Size[m] > 0 => delivered[m] + discarded[m] = 1
        /\ \A c \in Compressors : spc[c] = "idle" /\ cpc[c] = "exited"
        /\ (\E m \in Msgs : discarded[m] > 0) =>
             \E c \in Compressors : stats[c].sendError + stats[c].writeError > 0

\* After a signal main gets to its end, whatever its goroutines were doing: a
\* generator waiting for room in the queue, a compressor in SendBuffer; it does not
\* take the watchdog (main.go:140-145).
ExitsAfterSignal == (main \in DOMAIN ShutdownOrder) ~> ~Alive
==============================================================================
