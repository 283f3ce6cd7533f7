----------------------------- MODULE RequestBody -----------------------------
(***************************************************************************)
(* The body of SendBuffer's requests: one BytesReadSeekCloser              *)
(* (lsvmi/http_endpoint_pool.go) or CreditReader (lsvmi/rate_controller.go)*)
(* that every attempt rewinds and gives to the HTTP client again.  The     *)
(* client's transport is external: a goroutine of its own reads the body   *)
(* of each request to the end and closes it.  By the contract of           *)
(* net/http.RoundTripper it may still be at it after Do returned an error; *)
(* TransportWaits leaves that out.                                         *)
(***************************************************************************)
EXTENDS Integers, Sequences

CONSTANTS
    N,              \* len(b), the bytes of the body
    MaxAttempts,    \* bound on the attempts
    Chunks,         \* how much a Read may return: buffer size, credit
    IsCreditReader, \* which of the two kinds of body
    TransportWaits  \* whether Do returns only after the body was closed

VARIABLES
    closed,     \* the body's closed flag
    pos,        \* its read position: cr.r, or that of the bytes.Reader
    attempt,    \* SendBuffer's attempt
    pc,         \* where SendBuffer is in the attempt
    wpc,        \* each attempt's transport goroutine
    sent        \* what it has read, and sent: the positions of the bytes

vars == <<closed, pos, attempt, pc, wpc, sent>>

Attempts == 1..MaxAttempts
WholeBody == [i \in 1..N |-> i]

\* NewBytesReadSeekCloser, NewCreditReader
Init ==
    /\ closed = FALSE
    /\ pos = 0
    /\ attempt = 1
    /\ pc = "do"
    /\ wpc = [k \in Attempts |-> "none"]
    /\ sent = [k \in Attempts |-> <<>>]

------------------------------------------------------------------------------
(* SendBuffer.                                                               *)

RewindOpensOnly ==
    /\ pc = "rewind"
    /\ closed' = FALSE
    /\ pc' = "do"
    /\ UNCHANGED <<pos, attempt, wpc, sent>>

\* Rewind, from the second attempt on.  A BytesReadSeekCloser seeks after it
\* cleared the flag, a CreditReader does both at once.
Rewind ==
    /\ pc = "rewind"
    /\ closed' = FALSE
    /\ IF IsCreditReader THEN pos' = 0 /\ pc' = "do"
                         ELSE pc' = "seek" /\ UNCHANGED pos
    /\ UNCHANGED <<attempt, wpc, sent>>

\* BytesReadSeekCloser.Seek(0, io.SeekStart): nothing on a closed body.
Seek ==
    /\ pc = "seek"
    /\ pos' = IF closed THEN pos ELSE 0
    /\ pc' = "do"
    /\ UNCHANGED <<closed, attempt, wpc, sent>>

\* client.Do: the transport starts sending.
Do ==
    /\ pc = "do"
    /\ pc' = "wait"
    /\ wpc' = [wpc EXCEPT ![attempt] = "sending"]
    /\ UNCHANGED <<closed, pos, attempt, sent>>

Retry ==
    IF attempt < MaxAttempts THEN attempt' = attempt + 1 /\ pc' = "rewind"
                             ELSE pc' = "gave up" /\ UNCHANGED attempt

\* Do returns the server's answer to the complete request.
Answered(success) ==
    /\ pc = "wait"
    /\ wpc[attempt] = "sent"
    /\ IF success THEN pc' = "success" /\ UNCHANGED attempt ELSE Retry
    /\ UNCHANGED <<closed, pos, wpc, sent>>

\* Do returns an error, such as the client's timeout.
DoError ==
    /\ pc = "wait"
    /\ wpc[attempt] = "sending" => ~TransportWaits
    /\ Retry
    /\ wpc' = [wpc EXCEPT ![attempt] = IF @ = "sending" THEN "abandoned" ELSE @]
    /\ UNCHANGED <<closed, pos, sent>>

------------------------------------------------------------------------------
(* The transport's goroutine for attempt k, external.                        *)

PastEnd(n) == pos + n

\* The position after a Read of n bytes, or of what is left.
Advance(n) == IF pos + n > N THEN N ELSE pos + n

\* Read: a closed body gives nothing; at the end it gives EOF.
Read(k, n) ==
    /\ wpc[k] \in {"sending", "abandoned"}
    /\ ~closed
    /\ pos < N
    /\ LET p == Advance(n)
       IN  /\ sent' = [sent EXCEPT ![k] = @ \o [i \in 1..(p - pos) |-> pos + i]]
           /\ pos' = p
    /\ UNCHANGED <<closed, attempt, pc, wpc>>

EOFEarly(k) ==
    /\ wpc[k] \in {"sending", "abandoned"}
    /\ ~closed
    /\ pos >= N - 1
    /\ closed' = TRUE
    /\ wpc' = [wpc EXCEPT ![k] = IF @ = "sending" THEN "sent" ELSE "ended"]
    /\ UNCHANGED <<pos, attempt, pc, sent>>

\* EOF: the request is complete, Close.
ReadEOF(k) ==
    /\ wpc[k] \in {"sending", "abandoned"}
    /\ ~closed
    /\ pos >= N
    /\ closed' = TRUE
    /\ wpc' = [wpc EXCEPT ![k] = IF @ = "sending" THEN "sent" ELSE "ended"]
    /\ UNCHANGED <<pos, attempt, pc, sent>>

\* The connection failed or the request was abandoned: Close.
Abort(k) ==
    /\ wpc[k] \in {"sending", "abandoned"}
    /\ closed' = TRUE
    /\ wpc' = [wpc EXCEPT ![k] = "ended"]
    /\ UNCHANGED <<pos, attempt, pc, sent>>

Next ==
    \/ Rewind \/ Seek \/ Do \/ DoError
    \/ \E success \in BOOLEAN : Answered(success)
    \/ \E k \in Attempts : ReadEOF(k) \/ Abort(k) \/ \E n \in Chunks : Read(k, n)

Spec == Init /\ [][Next]_vars
------------------------------------------------------------------------------
TypeOK ==
    /\ closed \in BOOLEAN
    /\ pos \in 0..N
    /\ attempt \in Attempts
    /\ pc \in {"do", "wait", "rewind", "seek", "success", "gave up"}
    /\ wpc \in [Attempts -> {"none", "sending", "sent", "abandoned", "ended"}]
    /\ \A k \in Attempts : sent[k] \in Seq(1..N)

\* A request that was answered carried the whole buffer, once and in order,
\* at whichever attempt: the body works "as body for http.Request w/ retries"
\* (http_endpoint_pool.go:161-162, 813-823).
WholeBufferSent ==
    \A k \in Attempts : wpc[k] = "sent" => sent[k] = WholeBody

\* At every attempt the transport finds an open body at its start
\* (http_endpoint_pool.go:813-815, 188-192; rate_controller.go:208-211).
FreshBody == pc = "do" => ~closed /\ pos = 0
==============================================================================
