--------------------------- MODULE PartialMetrics ----------------------------
(***************************************************************************)
(* What the metrics generators of lsvmi/ have in common: the cycle number  *)
(* by which every group of metrics is sent in full once per                *)
(* full_metrics_factor scans and the no-zero-after-zero rule for deltas of *)
(* counters that roll over.                                                *)
(***************************************************************************)
EXTENDS Integers

CONSTANTS
    FullMetricsFactor,  \* full_metrics_factor, a natural; 0 is a full set at every scan
    Wrap                \* the modulus of the counters, not 0: 2^32 or 2^64 in the code

\* initialCycleNum.Get: the global counter, which all generators advance.
InitialCycleNums ==
    IF FullMetricsFactor <= 1 THEN {0} ELSE 0..(FullMetricsFactor - 1)

CycleStuck(n) == IF n = 0 THEN FullMetricsFactor - 1 ELSE n

CycleTooLong(n) == IF n + 1 > FullMetricsFactor THEN 0 ELSE n + 1

\* The cycle number after a scan.
NextCycle(n) == IF n + 1 >= FullMetricsFactor THEN 0 ELSE n + 1

\* The difference of two unsigned counters.
Delta(curr, prev) == (curr - prev) % Wrap

UnlessZero(full, delta, zeroDelta) == full \/ ~zeroDelta

\* Whether a delta is sent, zeroDelta telling that the one before was 0.
SendDelta(full, delta, zeroDelta) == full \/ delta # 0 \/ ~zeroDelta

\* In a row of scans a metric is due in full at least once in that many.
FullPeriod == IF FullMetricsFactor <= 1 THEN 1 ELSE FullMetricsFactor
==============================================================================
