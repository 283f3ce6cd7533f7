-------------------------- MODULE HttpEndpointPool ---------------------------
(***************************************************************************)
(* The pool of import endpoints of lsvmi/http_endpoint_pool.go.  The       *)
(* senders (the compressor goroutines) call SendBuffer, which takes the    *)
(* head of the healthy list (GetCurrentHealthy), makes a request and, on a *)
(* transport error, reports it and tries again.  An endpoint with enough   *)
(* errors leaves the list and gets a HealthCheck goroutine, which returns  *)
(* it to the tail.  Shutdown cancels the health checks and waits for them. *)
(*                                                                         *)
(* The healthy list is a sequence; EndpointList shows that the doubly      *)
(* linked list of the code is one.  A request's outcome is the             *)
(* environment's choice; the health check timer may fire at any time.      *)
(* Instead of time stamps the model keeps what the code compares: the time *)
(* passed since a stamp, up to the interval it is compared with, and the   *)
(* time left to a deadline, down to -1 past it.                            *)
(***************************************************************************)
EXTENDS Integers, Sequences, FiniteSets, Functions

CONSTANTS
    Endpoints, Senders,
    Threshold,          \* markUnhealthyThreshold
    RotateInterval,     \* healthyRotateInterval; -1 disables the rotation
    ErrorResetInterval, \* errorResetInterval; 0 disables the reset
    SendTimeout,        \* sendBufferTimeout
    PollInterval,       \* healthyPollInterval
    Orderly,            \* whether Shutdown is called as main.go does, after
                        \* the last sender has stopped
    NoEndpoint          \* the nil *HttpEndpoint

ASSUME ThresholdAssumption == Threshold \in Nat \ {0}
ASSUME IntervalsAssumption ==
    /\ RotateInterval \in Nat \cup {-1}
    /\ {ErrorResetInterval, SendTimeout} \subseteq Nat
    /\ PollInterval \in Nat \ {0}
ASSUME OrderlyAssumption == Orderly \in BOOLEAN
ASSUME EndpointsAssumption == Cardinality(Endpoints) \in Nat /\ NoEndpoint \notin Endpoints

VARIABLES
    list,           \* the healthy list, head first
    healthy,        \* HttpEndpoint.healthy
    numErrors,      \* HttpEndpoint.numErrors
    errorAge,       \* time since HttpEndpoint.errorTs
    firstUse,       \* HttpEndpointPool.firstUse
    headAge,        \* time since HttpEndpointPool.healthyHeadChangeTs
    epState,        \* HTTP_ENDPOINT_STATS_STATE of every endpoint
    hc,             \* the HealthCheck goroutines of every endpoint
    spc,            \* where each sender is in SendBuffer
    sep,            \* the endpoint of its current attempt
    left,           \* the time left until its deadline
    nap,            \* what remains of its sleep in GetCurrentHealthy
    mpc             \* where main is in Shutdown; "open" before it is called

listVars == <<list, healthy, numErrors, errorAge, firstUse, headAge, epState>>
sendVars == <<spc, sep, left, nap>>
vars == <<listVars, hc, sendVars, mpc>>

shutdown == mpc # "open"

MaxHeadAge == IF RotateInterval = -1 THEN 0 ELSE RotateInterval

AllHealthyStates(l) ==
    [e \in Endpoints |-> IF e = Head(l) THEN "AtHead" ELSE "Healthy"]

\* NewHttpEndpointPool: every endpoint moves to the healthy list, in the order
\* of the configuration or shuffled.
Init ==
    /\ list \in Bijection(1..Cardinality(Endpoints), Endpoints)
    /\ healthy = [e \in Endpoints |-> TRUE]
    /\ numErrors = [e \in Endpoints |-> 0]
    /\ errorAge = [e \in Endpoints |-> ErrorResetInterval]
    /\ firstUse = TRUE
    /\ headAge = MaxHeadAge
    /\ epState = AllHealthyStates(list)
    /\ hc = [e \in Endpoints |-> <<>>]
    /\ spc = [s \in Senders |-> "idle"]
    /\ sep = [s \in Senders |-> NoEndpoint]
    /\ left = [s \in Senders |-> 0]
    /\ nap = [s \in Senders |-> 0]
    /\ mpc = "open"

Smaller(m, n) == IF m < n THEN m ELSE n
Larger(m, n) == IF m > n THEN m ELSE n

\* Time passes; the deadline counts only inside SendBuffer.
Tick ==
    /\ errorAge' = [e \in Endpoints |-> Smaller(errorAge[e] + 1, ErrorResetInterval)]
    /\ headAge' = Smaller(headAge + 1, MaxHeadAge)
    /\ left' = [s \in Senders |-> IF spc[s] = "idle" THEN 0 ELSE Larger(left[s] - 1, -1)]
    /\ nap' = [s \in Senders |-> Larger(nap[s] - 1, 0)]
    /\ UNCHANGED <<list, healthy, numErrors, firstUse, epState, hc, spc, sep, mpc>>

------------------------------------------------------------------------------
(* SendBuffer and GetCurrentHealthy, run by sender s.                        *)

\* SendBuffer is called: its deadline is set.
SendBuffer(s) ==
    /\ spc[s] = "idle"
    /\ Orderly => ~shutdown
    /\ spc' = [spc EXCEPT ![s] = "get"]
    /\ left' = [left EXCEPT ![s] = SendTimeout]
    /\ UNCHANGED <<listVars, hc, sep, nap, mpc>>

\* SendBuffer returns.
Return(s) ==
    /\ spc' = [spc EXCEPT ![s] = "idle"]
    /\ sep' = [sep EXCEPT ![s] = NoEndpoint]
    /\ left' = [left EXCEPT ![s] = 0]
    /\ nap' = [nap EXCEPT ![s] = 0]

RotateThreeOrMore ==
    /\ ~firstUse
    /\ RotateInterval # -1
    /\ headAge >= RotateInterval
    /\ Len(list) > 2

\* Whether the head is rotated to the tail before it is used.
RotateDue ==
    /\ ~firstUse
    /\ RotateInterval # -1
    /\ headAge >= RotateInterval
    /\ Len(list) > 1

RotatedStateForgotten(l) == epState

\* The states after the list became l by moving its former head to the tail.
RotatedState(l) == [epState EXCEPT ![Head(list)] = "Healthy", ![Head(l)] = "AtHead"]

\* SendBuffer goes on to make its request to e.
Attempt(s, e) ==
    /\ spc' = [spc EXCEPT ![s] = "do"]
    /\ sep' = [sep EXCEPT ![s] = e]

\* The part of GetCurrentHealthy that finds an endpoint: rotate as needed,
\* reset old errors, and return the head, which the attempt then uses.
UseHead(s) ==
    LET l == IF RotateDue THEN Append(Tail(list), Head(list)) ELSE list
        e == Head(l)
    IN  /\ list # <<>>
        /\ list' = l
        /\ headAge' = IF firstUse \/ RotateDue THEN 0 ELSE headAge
        /\ firstUse' = FALSE
        /\ epState' = IF RotateDue THEN RotatedState(l) ELSE epState
        /\ numErrors' = [numErrors EXCEPT ![e] =
               IF ErrorResetInterval > 0 /\ errorAge[e] >= ErrorResetInterval
               THEN 0 ELSE @]
        /\ Attempt(s, e)
        /\ nap' = [nap EXCEPT ![s] = 0]
        /\ UNCHANGED <<healthy, errorAge, left>>

\* No healthy endpoint before the deadline: SendBuffer gives up.
NoHealthyEndpoint(s) ==
    /\ list = <<>>
    /\ left[s] <= 0
    /\ Return(s)
    /\ UNCHANGED listVars

\* Release the lock and sleep until the next poll or the deadline.
Sleep(s) ==
    /\ list = <<>>
    /\ left[s] > 0
    /\ spc' = [spc EXCEPT ![s] = "poll"]
    /\ nap' = [nap EXCEPT ![s] = Smaller(PollInterval, left[s])]
    /\ sep' = [sep EXCEPT ![s] = NoEndpoint]
    /\ UNCHANGED <<listVars, left>>

\* The entry of GetCurrentHealthy, the only place that looks at shutdown.
GetCurrentHealthy(s) ==
    /\ spc[s] = "get"
    /\ IF shutdown
       THEN Return(s) /\ UNCHANGED listVars
       ELSE UseHead(s) \/ NoHealthyEndpoint(s) \/ Sleep(s)
    /\ UNCHANGED <<hc, mpc>>

Poll(s) ==
    /\ spc[s] = "poll"
    /\ nap[s] = 0
    /\ UseHead(s) \/ NoHealthyEndpoint(s) \/ Sleep(s)
    /\ UNCHANGED <<hc, mpc>>

\* client.Do returned with a response: success, or a status that is not
\* retried (HttpEndpointPoolRetryCodes is empty), ends SendBuffer.
Responded(s) ==
    /\ spc[s] = "do"
    /\ Return(s)
    /\ UNCHANGED <<listVars, hc, mpc>>

\* client.Do returned without a response.
Failed(s) ==
    /\ spc[s] = "do"
    /\ spc' = [spc EXCEPT ![s] = "report"]
    /\ UNCHANGED <<listVars, hc, sep, left, nap, mpc>>

\* The list with the endpoints behind e moved up by one.
Without(e) ==
    [i \in 1..(Len(list) - 1) |->
        IF \E j \in 1..i : list[j] = e THEN list[i + 1] ELSE list[i]]

\* The state of whatever endpoint is at the head after an error.
HeadState(states, l) == IF l = <<>> THEN states ELSE [states EXCEPT ![Head(l)] = "AtHead"]

\* Whether n errors make an endpoint unhealthy.
Unhealthy(n) == n >= Threshold

\* The handling of an error of a healthy endpoint e: to the tail of the list,
\* or out of it and into a health check.
Demote(e) ==
    LET out == Unhealthy(numErrors[e] + 1)
        l   == IF out THEN Without(e) ELSE Append(Without(e), e)
    IN  /\ list' = l
        /\ firstUse' = TRUE
        /\ healthy' = [healthy EXCEPT ![e] = ~out]
        /\ hc' = [hc EXCEPT ![e] = IF out THEN Append(@, "wait") ELSE @]
        /\ epState' = HeadState(
               [epState EXCEPT ![e] = IF out THEN "HealthCheck" ELSE "Healthy"], l)

ReportAlways(s) ==
    LET e == sep[s] IN
    /\ spc[s] = "report"
    /\ numErrors' = [numErrors EXCEPT ![e] = @ + 1]
    /\ errorAge' = [errorAge EXCEPT ![e] = 0]
    /\ Demote(e)
    /\ spc' = [spc EXCEPT ![s] = "get"]
    /\ UNCHANGED <<headAge, sep, left, nap, mpc>>

\* ReportError, after which SendBuffer makes its next attempt.
ReportError(s) ==
    LET e == sep[s] IN
    /\ spc[s] = "report"
    /\ numErrors' = [numErrors EXCEPT ![e] = @ + 1]
    /\ errorAge' = [errorAge EXCEPT ![e] = 0]
    /\ IF healthy[e]
       THEN Demote(e)
       ELSE UNCHANGED <<list, firstUse, healthy, hc, epState>>
    /\ spc' = [spc EXCEPT ![s] = "get"]
    /\ UNCHANGED <<headAge, sep, left, nap, mpc>>

------------------------------------------------------------------------------
(* The i-th HealthCheck goroutine of endpoint e.                             *)

Cancelled == mpc \in {"cancelled", "closed"}

HealthCheckGoesOn(e, i) ==
    /\ hc[e][i] = "wait"
    /\ Cancelled
    /\ hc' = [hc EXCEPT ![e][i] = "probe"]
    /\ UNCHANGED <<listVars, sendVars, mpc>>

\* `case <-epPool.ctx.Done()'
HealthCheckCancelled(e, i) ==
    /\ hc[e][i] = "wait"
    /\ Cancelled
    /\ hc' = [hc EXCEPT ![e][i] = "move"]
    /\ UNCHANGED <<listVars, sendVars, mpc>>

\* `case <-timer.C': the test request goes out.
HealthCheckTimer(e, i) ==
    /\ hc[e][i] = "wait"
    /\ hc' = [hc EXCEPT ![e][i] = "probe"]
    /\ UNCHANGED <<listVars, sendVars, mpc>>

\* It returned, with a success code or else the timer is set again.
HealthCheckResult(e, i, success) ==
    /\ hc[e][i] = "probe"
    /\ hc' = [hc EXCEPT ![e][i] = IF success THEN "move" ELSE "wait"]
    /\ UNCHANGED <<listVars, sendVars, mpc>>

MoveKeepsErrors(e) ==
    /\ healthy' = [healthy EXCEPT ![e] = TRUE]
    /\ list' = Append(list, e)
    /\ epState' = [epState EXCEPT ![e] = IF list = <<>> THEN "AtHead" ELSE "Healthy"]
    /\ UNCHANGED numErrors

\* MoveToHealthy for an endpoint that is not healthy.
MoveToHealthy(e) ==
    /\ healthy' = [healthy EXCEPT ![e] = TRUE]
    /\ numErrors' = [numErrors EXCEPT ![e] = 0]
    /\ list' = Append(list, e)
    /\ epState' = [epState EXCEPT ![e] = IF list = <<>> THEN "AtHead" ELSE "Healthy"]

\* The goroutine ends: MoveToHealthy, a no-op if healthy, and wg.Done.
HealthCheckEnd(e, i) ==
    /\ hc[e][i] = "move"
    /\ hc' = [hc EXCEPT ![e] = SubSeq(@, 1, i - 1) \o SubSeq(@, i + 1, Len(@))]
    /\ IF healthy[e]
       THEN UNCHANGED <<healthy, numErrors, list, epState>>
       ELSE MoveToHealthy(e)
    /\ UNCHANGED <<errorAge, firstUse, headAge, sendVars, mpc>>

------------------------------------------------------------------------------
(* Shutdown, called by main.                                                 *)

\* The flag is set; main.go calls it when the compressor pool has stopped.
Shutdown ==
    /\ mpc = "open"
    /\ Orderly => \A s \in Senders : spc[s] = "idle"
    /\ mpc' = "shut"
    /\ UNCHANGED <<listVars, hc, sendVars>>

\* epPool.ctxCancelFn()
ShutdownCancel ==
    /\ mpc = "shut"
    /\ mpc' = "cancelled"
    /\ UNCHANGED <<listVars, hc, sendVars>>

\* epPool.wg.Wait() returned
ShutdownWaited ==
    /\ mpc = "cancelled"
    /\ \A e \in Endpoints : hc[e] = <<>>
    /\ mpc' = "closed"
    /\ UNCHANGED <<listVars, hc, sendVars>>

------------------------------------------------------------------------------
Sender(s) ==
    \/ GetCurrentHealthy(s)
    \/ Poll(s)
    \/ Responded(s)
    \/ Failed(s)
    \/ ReportError(s)

Cancel(e) == \E i \in 1..Len(hc[e]) : HealthCheckCancelled(e, i)

HealthCheck(e) ==
    \E i \in 1..Len(hc[e]) :
        \/ HealthCheckCancelled(e, i)
        \/ HealthCheckTimer(e, i)
        \/ \E success \in BOOLEAN : HealthCheckResult(e, i, success)
        \/ HealthCheckEnd(e, i)

Main == Shutdown \/ ShutdownCancel \/ ShutdownWaited

Next ==
    \/ Tick
    \/ \E s \in Senders : SendBuffer(s) \/ Sender(s)
    \/ \E e \in Endpoints : HealthCheck(e)
    \/ Main

Spec == Init /\ [][Next]_vars

\* The goroutines are scheduled, time passes, the compressors keep sending, a
\* request returns (it has a timeout) and a signal may or may not come; of the
\* two cases of the health check's select a ready one is picked at random.
Fairness ==
    /\ WF_vars(Tick)
    /\ \A s \in Senders : WF_vars(SendBuffer(s)) /\ WF_vars(Sender(s))
    /\ \A e \in Endpoints : WF_vars(HealthCheck(e)) /\ SF_vars(Cancel(e))
    /\ WF_vars(ShutdownCancel) /\ WF_vars(ShutdownWaited)

FairSpec == Spec /\ Fairness
------------------------------------------------------------------------------
TypeOK ==
    /\ list \in Seq(Endpoints)
    /\ healthy \in [Endpoints -> BOOLEAN]
    /\ numErrors \in [Endpoints -> Nat]
    /\ errorAge \in [Endpoints -> Nat]
    /\ firstUse \in BOOLEAN
    /\ headAge \in Nat
    /\ epState \in [Endpoints -> {"HealthCheck", "Healthy", "AtHead"}]
    /\ hc \in [Endpoints -> Seq({"wait", "probe", "move"})]
    /\ spc \in [Senders -> {"idle", "get", "poll", "do", "report"}]
    /\ sep \in [Senders -> Endpoints \cup {NoEndpoint}]
    /\ \A s \in Senders : spc[s] \in {"do", "report"} => sep[s] \in Endpoints
    /\ left \in [Senders -> Int]
    /\ nap \in [Senders -> Nat]
    /\ mpc \in {"open", "shut", "cancelled", "closed"}

InList(e) == \E i \in 1..Len(list) : list[i] = e

\* However errors of several senders, late ones included, and health checks
\* interleave, an endpoint is either in the healthy list, once and flagged so,
\* or it has one running health check that will return it: none is lost and none
\* is there twice.  In the list it has fewer errors than the threshold, although
\* errors of requests still under way are counted while it is checked.  The state
\* that the internal metrics report is its true one: "AtHead" for the head of the
\* list and for no other (http_endpoint_pool.go:638-673, 687-698, 746-754).
NoEndpointLost ==
    /\ \A i, j \in 1..Len(list) : list[i] = list[j] => i = j
    /\ \A e \in Endpoints :
         /\ healthy[e] <=> InList(e)
         /\ Len(hc[e]) = IF healthy[e] THEN 0 ELSE 1
         /\ healthy[e] => numErrors[e] < Threshold
         /\ epState[e] = IF ~healthy[e] THEN "HealthCheck"
                         ELSE IF Head(list) = e THEN "AtHead" ELSE "Healthy"

\* Shutdown returns, whatever the health checks were doing
\* (http_endpoint_pool.go:581-586, 877-878).
ShutdownCompletes == mpc = "shut" ~> mpc = "closed"

\* With rotation and senders that keep sending, an endpoint of the healthy list
\* gets to its head, unless it fails or the pool is shut down
\* (http_endpoint_pool.go:29-33, 737-764).
EveryEndpointGetsItsTurn ==
    \A e \in Endpoints :
        healthy[e] ~> (list # <<>> /\ Head(list) = e) \/ ~healthy[e] \/ shutdown

\* A SendBuffer call whose time is over returns, the buffer sent or discarded.
\* It does not: the deadline is only looked at when there is no healthy
\* endpoint, so one that passes its health checks but fails the requests keeps
\* the sender trying for ever (http_endpoint_pool.go:339-341, 798-804).
SendBufferReturns ==
    \A s \in Senders : spc[s] # "idle" /\ left[s] < 0 ~> spc[s] = "idle"
==============================================================================
