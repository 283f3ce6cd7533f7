---------------------------- MODULE EndpointList -----------------------------
(***************************************************************************)
(* The intrusive doubly linked list of healthy endpoints,                  *)
(* HttpEndpointDoublyLinkedList of lsvmi/http_endpoint_pool.go, at the     *)
(* level of its pointers, under the calls that the pool makes: the flag    *)
(* healthy guards every insertion and removal, and all are made under the  *)
(* pool's lock.  The list implements EndpointSeq.                          *)
(***************************************************************************)
EXTENDS Integers, Sequences, FiniteSets

CONSTANTS
    Endpoints,
    Nil     \* the nil pointer, no endpoint

VARIABLES
    head, tail,     \* of the list
    prev, next,     \* of each endpoint
    healthy         \* HttpEndpoint.healthy, for each endpoint

vars == <<head, tail, prev, next, healthy>>

\* A list, as a record, for the operations that are made of several steps.
List == [head |-> head, tail |-> tail, prev |-> prev, next |-> next]

Init ==
    /\ head = Nil
    /\ tail = Nil
    /\ prev = [e \in Endpoints |-> Nil]
    /\ next = [e \in Endpoints |-> Nil]
    /\ healthy = [e \in Endpoints |-> FALSE]

------------------------------------------------------------------------------
\* Insert(ep, after): the successor's prev is left as it was.
Insert(l, e, after) ==
    LET succ == IF after = Nil THEN l.head ELSE l.next[after]
    IN  [head |-> IF after = Nil THEN e ELSE l.head,
         tail |-> IF succ = Nil THEN e ELSE l.tail,
         prev |-> [l.prev EXCEPT ![e] = after],
         next |-> [x \in Endpoints |->
                       IF x = e THEN succ ELSE IF x = after THEN e ELSE l.next[x]]]

UnlinkForward(l, e) ==
    [head |-> IF l.prev[e] = Nil THEN l.next[e] ELSE l.head,
     tail |-> IF l.next[e] = Nil THEN l.prev[e] ELSE l.tail,
     prev |-> [l.prev EXCEPT ![e] = Nil],
     next |-> [x \in Endpoints |->
                   IF x = e THEN Nil ELSE IF x = l.prev[e] THEN l.next[e] ELSE l.next[x]]]

\* Remove(ep)
Unlink(l, e) ==
    [head |-> IF l.prev[e] = Nil THEN l.next[e] ELSE l.head,
     tail |-> IF l.next[e] = Nil THEN l.prev[e] ELSE l.tail,
     prev |-> [x \in Endpoints |->
                   IF x = e THEN Nil ELSE IF x = l.next[e] THEN l.prev[e] ELSE l.prev[x]],
     next |-> [x \in Endpoints |->
                   IF x = e THEN Nil ELSE IF x = l.prev[e] THEN l.next[e] ELSE l.next[x]]]

Becomes(l) == head' = l.head /\ tail' = l.tail /\ prev' = l.prev /\ next' = l.next

\* MoveToHealthy, its AddToTail
AddToTail(e) ==
    /\ ~healthy[e]
    /\ healthy' = [healthy EXCEPT ![e] = TRUE]
    /\ Becomes(Insert(List, e, tail))

\* ReportError, the error making the endpoint unhealthy.
Remove(e) ==
    /\ healthy[e]
    /\ healthy' = [healthy EXCEPT ![e] = FALSE]
    /\ Becomes(Unlink(List, e))

\* Remove(ep), AddToTail(ep)
ToTail(l, e) == Insert(Unlink(l, e), e, Unlink(l, e).tail)

\* ReportError, the error being one of the tolerated ones: Remove, AddToTail.
Demote(e) ==
    /\ healthy[e]
    /\ Becomes(ToTail(List, e))
    /\ UNCHANGED healthy

RotateTwice ==
    /\ head # Nil
    /\ head # tail
    /\ Becomes(ToTail(ToTail(List, head), ToTail(List, head).head))
    /\ UNCHANGED healthy

\* GetCurrentHealthy, its rotation
Rotate ==
    /\ head # Nil
    /\ head # tail
    /\ Becomes(ToTail(List, head))
    /\ UNCHANGED healthy

Next ==
    \/ Rotate
    \/ \E e \in Endpoints : AddToTail(e) \/ Remove(e) \/ Demote(e)

Spec == Init /\ [][Next]_vars
------------------------------------------------------------------------------
TypeOK ==
    /\ {head, tail} \subseteq Endpoints \cup {Nil}
    /\ prev \in [Endpoints -> Endpoints \cup {Nil}]
    /\ next \in [Endpoints -> Endpoints \cup {Nil}]
    /\ healthy \in [Endpoints -> BOOLEAN]

\* The links of the healthy endpoints agree in both directions, end at head
\* and tail, and an endpoint out of the list keeps none, so that it can be
\* inserted again (http_endpoint_pool.go:271-300).
WellLinked ==
    /\ head = Nil <=> tail = Nil
    /\ head # Nil => healthy[head] /\ prev[head] = Nil
    /\ tail # Nil => healthy[tail] /\ next[tail] = Nil
    /\ \A e \in Endpoints :
         IF healthy[e]
         THEN /\ IF prev[e] = Nil THEN head = e
                                  ELSE healthy[prev[e]] /\ next[prev[e]] = e
              /\ IF next[e] = Nil THEN tail = e
                                  ELSE healthy[next[e]] /\ prev[next[e]] = e
         ELSE prev[e] = Nil /\ next[e] = Nil

\* The first endpoints met when following next from head.
Walk ==
    LET At[i \in 1..Cardinality(Endpoints) + 1] ==
            IF i = 1 THEN head ELSE IF At[i - 1] = Nil THEN Nil ELSE next[At[i - 1]]
    IN  SelectSeq([i \in 1..Cardinality(Endpoints) + 1 |-> At[i]], LAMBDA x : x # Nil)

Sequence == INSTANCE EndpointSeq WITH seq <- Walk

\* The list behaves as a sequence: insertions at the tail, removals that keep
\* the order of the others, rotation (http_endpoint_pool.go:267-308, 644-649,
\* 744-745).
IsSequence == Sequence!Spec
==============================================================================
