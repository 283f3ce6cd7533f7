---------------------------- MODULE EndpointSeq ------------------------------
(***************************************************************************)
(* What HttpEndpointPool takes its list of healthy endpoints to be: a      *)
(* sequence without repetitions.                                           *)
(***************************************************************************)
EXTENDS Sequences

CONSTANT Endpoints

VARIABLE seq

Members == {seq[i] : i \in DOMAIN seq}

Init == seq = <<>>

AddToTail(e) == e \notin Members /\ seq' = Append(seq, e)

Without(e) == SelectSeq(seq, LAMBDA x : x # e)

Remove(e) == e \in Members /\ seq' = Without(e)

\* A demotion, or the rotation of the head.
MoveToTail(e) == e \in Members /\ seq' = Append(Without(e), e)

Next == \E e \in Endpoints : AddToTail(e) \/ Remove(e) \/ MoveToTail(e)

Spec == Init /\ [][Next]_seq
==============================================================================
