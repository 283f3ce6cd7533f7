----------------------------- MODULE MCNetSnmp6 ------------------------------
(* NetSnmp6Metrics for TLC, with one counter of each width.                  *)
EXTENDS NetSnmp6Metrics

Counters == {"InOctets", "InMsgs"}
OneLayout == {<<"InOctets", "InMsgs">>}
OneCycleCounter == [v \in Counters |-> 0]
==============================================================================
