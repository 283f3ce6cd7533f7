------------------------- MODULE EndpointListProofs --------------------------
(***************************************************************************)
(* The links of the healthy list agree whatever the pool does, for any     *)
(* number of endpoints.                                                    *)
(***************************************************************************)
EXTENDS EndpointList, TLAPS

OrNil == Endpoints \cup {Nil}

\* The typing of a list record, and WellLinked for the list l when the
\* endpoints in it are those flagged by h.
IsList(l) ==
    /\ l.head \in OrNil /\ l.tail \in OrNil
    /\ l.prev \in [Endpoints -> OrNil] /\ l.next \in [Endpoints -> OrNil]

Linked(l, h) ==
    /\ l.head = Nil <=> l.tail = Nil
    /\ l.head # Nil => h[l.head] /\ l.prev[l.head] = Nil
    /\ l.tail # Nil => h[l.tail] /\ l.next[l.tail] = Nil
    /\ \A e \in Endpoints : h[e] /\ l.prev[e] = Nil => l.head = e
    /\ \A e \in Endpoints : h[e] /\ l.next[e] = Nil => l.tail = e
    /\ \A e \in Endpoints : h[e] /\ l.prev[e] # Nil =>
                                h[l.prev[e]] /\ l.next[l.prev[e]] = e
    /\ \A e \in Endpoints : h[e] /\ l.next[e] # Nil =>
                                h[l.next[e]] /\ l.prev[l.next[e]] = e
    /\ \A e \in Endpoints : ~h[e] => l.prev[e] = Nil /\ l.next[e] = Nil

LEMMA LinkedList == WellLinked <=> Linked(List, healthy)
BY DEF WellLinked, Linked, List

\* Appending an endpoint that is out of the list.
LEMMA InsertAtTail ==
    ASSUME NEW l, NEW h \in [Endpoints -> BOOLEAN], NEW e \in Endpoints,
           IsList(l), Linked(l, h), ~h[e], Nil \notin Endpoints
    PROVE  /\ IsList(Insert(l, e, l.tail))
           /\ Linked(Insert(l, e, l.tail), [h EXCEPT ![e] = TRUE])
<1> DEFINE m == Insert(l, e, l.tail)
           g == [h EXCEPT ![e] = TRUE]
<1>1. (IF l.tail = Nil THEN l.head ELSE l.next[l.tail]) = Nil
  BY DEF Linked
<1>2. /\ m.head = IF l.tail = Nil THEN e ELSE l.head
      /\ m.tail = e
      /\ m.prev = [l.prev EXCEPT ![e] = l.tail]
      /\ m.next = [x \in Endpoints |->
                     IF x = e THEN Nil ELSE IF x = l.tail THEN e ELSE l.next[x]]
  BY <1>1 DEF Insert
<1>3. /\ m.prev[e] = l.tail /\ m.next[e] = Nil
      /\ \A x \in Endpoints \ {e} :
           m.prev[x] = l.prev[x] /\ m.next[x] = IF x = l.tail THEN e ELSE l.next[x]
  BY <1>2 DEF IsList, OrNil
<1>4. g[e] /\ \A x \in Endpoints \ {e} : g[x] = h[x]
  OBVIOUS
<1>5. l.tail # e /\ l.head # e
  BY DEF Linked
<1>6. IsList(m)
  BY <1>2 DEF IsList, OrNil
<1>7. Linked(m, g)
  <2> HIDE DEF m, g
  <2>1. /\ m.head = Nil <=> m.tail = Nil
        /\ m.head # Nil => g[m.head] /\ m.prev[m.head] = Nil
        /\ m.tail # Nil => g[m.tail] /\ m.next[m.tail] = Nil
    BY <1>2, <1>3, <1>4, <1>5 DEF Linked, IsList, OrNil
  <2>2. ASSUME NEW x \in Endpoints, g[x]
        PROVE  /\ m.prev[x] = Nil => m.head = x
               /\ m.next[x] = Nil => m.tail = x
               /\ m.prev[x] # Nil => g[m.prev[x]] /\ m.next[m.prev[x]] = x
               /\ m.next[x] # Nil => g[m.next[x]] /\ m.prev[m.next[x]] = x
    <3>1. CASE x = e
      BY <1>2, <1>3, <1>4, <1>5, <3>1 DEF Linked, IsList, OrNil
    <3>2. CASE x # e
      <4>1. h[x]
        BY <1>4, <2>2, <3>2
      <4>2. l.prev[x] # e /\ l.next[x] # e
        BY <4>1 DEF Linked
      <4>3. (m.prev[x] = Nil => m.head = x) /\ (m.next[x] = Nil => m.tail = x)
        BY <1>2, <1>3, <3>2, <4>1 DEF Linked
      <4>4. m.prev[x] # Nil => g[m.prev[x]] /\ m.next[m.prev[x]] = x
        <5>1. ASSUME l.prev[x] # Nil
              PROVE  /\ l.prev[x] \in Endpoints \ {e} /\ h[l.prev[x]]
                     /\ l.next[l.prev[x]] = x /\ l.prev[x] # l.tail
          BY <4>1, <4>2, <5>1 DEF Linked, IsList, OrNil
        <5>2. QED
          BY <1>3, <1>4, <3>2, <5>1
      <4>5. m.next[x] # Nil => g[m.next[x]] /\ m.prev[m.next[x]] = x
        <5>1. ASSUME l.next[x] # Nil
              PROVE  /\ l.next[x] \in Endpoints \ {e} /\ h[l.next[x]]
                     /\ l.prev[l.next[x]] = x /\ x # l.tail
          BY <4>1, <4>2, <5>1 DEF Linked, IsList, OrNil
        <5>2. QED
          BY <1>3, <1>4, <3>2, <5>1
      <4>6. QED
        BY <4>3, <4>4, <4>5
    <3>3. QED
      BY <3>1, <3>2
  <2>3. \A x \in Endpoints : ~g[x] => m.prev[x] = Nil /\ m.next[x] = Nil
    BY <1>3, <1>4 DEF Linked
  <2>4. QED
    BY <2>1, <2>2, <2>3 DEF Linked
<1>8. QED
  BY <1>6, <1>7

\* Taking an endpoint out of the list.
LEMMA UnlinkOne ==
    ASSUME NEW l, NEW h \in [Endpoints -> BOOLEAN], NEW e \in Endpoints,
           IsList(l), Linked(l, h), h[e], Nil \notin Endpoints
    PROVE  /\ IsList(Unlink(l, e))
           /\ Linked(Unlink(l, e), [h EXCEPT ![e] = FALSE])
<1> DEFINE m == Unlink(l, e)
           g == [h EXCEPT ![e] = FALSE]
<1>1. /\ m.head = IF l.prev[e] = Nil THEN l.next[e] ELSE l.head
      /\ m.tail = IF l.next[e] = Nil THEN l.prev[e] ELSE l.tail
      /\ m.prev = [x \in Endpoints |->
                     IF x = e THEN Nil ELSE IF x = l.next[e] THEN l.prev[e] ELSE l.prev[x]]
      /\ m.next = [x \in Endpoints |->
                     IF x = e THEN Nil ELSE IF x = l.prev[e] THEN l.next[e] ELSE l.next[x]]
  BY DEF Unlink
<1>2. /\ m.prev[e] = Nil /\ m.next[e] = Nil
      /\ \A x \in Endpoints \ {e} :
           /\ m.prev[x] = IF x = l.next[e] THEN l.prev[e] ELSE l.prev[x]
           /\ m.next[x] = IF x = l.prev[e] THEN l.next[e] ELSE l.next[x]
  BY <1>1
<1>3. ~g[e] /\ \A x \in Endpoints \ {e} : g[x] = h[x]
  OBVIOUS
<1>4. IsList(m)
  BY <1>1 DEF IsList, OrNil
<1>5. Linked(m, g)
  <2> HIDE DEF m, g
  <2>1. /\ m.head = Nil <=> m.tail = Nil
        /\ m.head # Nil => g[m.head] /\ m.prev[m.head] = Nil
        /\ m.tail # Nil => g[m.tail] /\ m.next[m.tail] = Nil
    BY <1>1, <1>2, <1>3 DEF Linked, IsList, OrNil
  <2>2. ASSUME NEW x \in Endpoints, g[x]
        PROVE  /\ m.prev[x] = Nil => m.head = x
               /\ m.next[x] = Nil => m.tail = x
               /\ m.prev[x] # Nil => g[m.prev[x]] /\ m.next[m.prev[x]] = x
               /\ m.next[x] # Nil => g[m.next[x]] /\ m.prev[m.next[x]] = x
    <3>1. x # e /\ h[x]
      BY <1>3, <2>2
    <3>2. (m.prev[x] = Nil => m.head = x) /\ (m.next[x] = Nil => m.tail = x)
      BY <1>1, <1>2, <3>1 DEF Linked, IsList, OrNil
    <3>3. m.prev[x] # Nil => g[m.prev[x]] /\ m.next[m.prev[x]] = x
      BY <1>2, <1>3, <3>1 DEF Linked, IsList, OrNil
    <3>4. m.next[x] # Nil => g[m.next[x]] /\ m.prev[m.next[x]] = x
      BY <1>2, <1>3, <3>1 DEF Linked, IsList, OrNil
    <3>5. QED
      BY <3>2, <3>3, <3>4
  <2>3. \A x \in Endpoints : ~g[x] => m.prev[x] = Nil /\ m.next[x] = Nil
    <3>1. ASSUME NEW x \in Endpoints, ~g[x], x # e
          PROVE  m.prev[x] = Nil /\ m.next[x] = Nil
      <4>1. ~h[x]
        BY <1>3, <3>1
      <4>2. x # l.next[e] /\ x # l.prev[e]
        BY <4>1 DEF Linked
      <4>3. QED
        BY <1>2, <3>1, <4>1, <4>2 DEF Linked
    <3>2. QED
      BY <1>2, <3>1
  <2>4. QED
    BY <2>1, <2>2, <2>3 DEF Linked
<1>6. QED
  BY <1>4, <1>5

\* Moving an endpoint of the list to its tail.
LEMMA MoveToTail ==
    ASSUME NEW l, NEW h \in [Endpoints -> BOOLEAN], NEW e \in Endpoints,
           IsList(l), Linked(l, h), h[e], Nil \notin Endpoints
    PROVE  IsList(ToTail(l, e)) /\ Linked(ToTail(l, e), h)
<1> DEFINE g == [h EXCEPT ![e] = FALSE]
<1>1. IsList(Unlink(l, e)) /\ Linked(Unlink(l, e), g)
  BY UnlinkOne, Zenon
<1>2. g \in [Endpoints -> BOOLEAN] /\ ~g[e] /\ [g EXCEPT ![e] = TRUE] = h
  BY Zenon
<1>3. QED
  BY <1>1, <1>2, InsertAtTail DEF ToTail

ListInv == TypeOK /\ WellLinked

LEMMA ListTypes == TypeOK <=> IsList(List) /\ healthy \in [Endpoints -> BOOLEAN]
BY DEF TypeOK, IsList, List, OrNil

\* An operation whose result is a well linked list establishes the invariant.
LEMMA AfterBecomes ==
    ASSUME NEW l, Becomes(l), IsList(l), Linked(l, healthy'),
           healthy' \in [Endpoints -> BOOLEAN]
    PROVE  ListInv'
<1>1. head' = l.head /\ tail' = l.tail /\ prev' = l.prev /\ next' = l.next
  BY DEF Becomes
<1>2. TypeOK'
  BY <1>1 DEF TypeOK, IsList, OrNil
<1>3. WellLinked'
  BY <1>1 DEF WellLinked, Linked
<1>4. QED
  BY <1>2, <1>3 DEF ListInv

LEMMA ListInit ==
    ASSUME Nil \notin Endpoints
    PROVE  Init => ListInv
BY DEF Init, ListInv, TypeOK, WellLinked

LEMMA ListStep ==
    ASSUME Nil \notin Endpoints, ListInv, [Next]_vars
    PROVE  ListInv'
<1>0. IsList(List) /\ Linked(List, healthy) /\ healthy \in [Endpoints -> BOOLEAN]
  BY LinkedList, ListTypes DEF ListInv
<1>1. CASE UNCHANGED vars
  BY <1>1 DEF vars, ListInv, TypeOK, WellLinked
<1>2. ASSUME NEW e \in Endpoints, AddToTail(e)
      PROVE  ListInv'
  <2>1. /\ ~healthy[e] /\ healthy' = [healthy EXCEPT ![e] = TRUE]
        /\ Becomes(Insert(List, e, List.tail))
    BY <1>2 DEF AddToTail, List
  <2>2. /\ IsList(Insert(List, e, List.tail))
        /\ Linked(Insert(List, e, List.tail), healthy')
    BY <1>0, <2>1, InsertAtTail, Zenon
  <2>3. QED
    BY <1>0, <2>1, <2>2, AfterBecomes, Zenon
<1>3. ASSUME NEW e \in Endpoints, Remove(e)
      PROVE  ListInv'
  <2>1. /\ healthy[e] /\ healthy' = [healthy EXCEPT ![e] = FALSE]
        /\ Becomes(Unlink(List, e))
    BY <1>3 DEF Remove
  <2>2. IsList(Unlink(List, e)) /\ Linked(Unlink(List, e), healthy')
    BY <1>0, <2>1, UnlinkOne, Zenon
  <2>3. QED
    BY <1>0, <2>1, <2>2, AfterBecomes, Zenon
<1>4. ASSUME NEW e \in Endpoints, healthy[e], Becomes(ToTail(List, e)), UNCHANGED healthy
      PROVE  ListInv'
  <2>1. IsList(ToTail(List, e)) /\ Linked(ToTail(List, e), healthy')
    BY <1>0, <1>4, MoveToTail
  <2>2. QED
    BY <1>0, <1>4, <2>1, AfterBecomes
<1>5. ASSUME NEW e \in Endpoints, Demote(e)
      PROVE  ListInv'
  BY <1>4, <1>5 DEF Demote
<1>6. CASE Rotate
  <2>1. head \in Endpoints /\ healthy[head]
    BY <1>6 DEF Rotate, ListInv, TypeOK, WellLinked
  <2>2. QED
    BY <1>4, <1>6, <2>1 DEF Rotate
<1>7. QED
  BY <1>1, <1>2, <1>3, <1>5, <1>6 DEF Next

\* The list of healthy endpoints is well linked under the insertions, removals,
\* demotions and rotations that the pool makes (http_endpoint_pool.go:271-308,
\* 644-667, 691-693, 744-745), nil being no endpoint.
THEOREM ListIsWellLinked ==
    ASSUME Nil \notin Endpoints
    PROVE  Spec => []WellLinked
<1>1. Init => ListInv
  BY ListInit
<1>2. ListInv /\ [Next]_vars => ListInv'
  BY ListStep
<1>3. QED
  BY <1>1, <1>2, PTL DEF Spec, ListInv
==============================================================================
