------------------------------ MODULE MCLsvmi --------------------------------
(***************************************************************************)
(* Instances of Lsvmi for TLC.                                             *)
(***************************************************************************)
EXTENDS Lsvmi

CONSTANTS m1, m2, m3

ThreeMsgs == {m1, m2, m3}
OneEmpty == [m \in ThreeMsgs |-> IF m = m3 THEN 0 ELSE 1]
NoRotation == -1
==============================================================================
