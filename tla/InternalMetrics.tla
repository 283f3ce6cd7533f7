--------------------------- MODULE InternalMetrics ---------------------------
(***************************************************************************)
(* The metrics about the importer itself: lsvmi/internal_metrics.go with   *)
(* internal_metrics_scheduler.go, internal_metrics_compressor_pool.go,     *)
(* internal_metrics_http_endpoint_pool.go, go_internal_metrics.go,         *)
(* internal_metrics_process.go, and the statistics that the generators     *)
(* leave in the container of metrics_common.go.                            *)
(*                                                                         *)
(* The statistics are copied one component after the other, each under its *)
(* own lock, while the workers go on counting.  One counter stands for     *)
(* those of a task, a compressor, an endpoint or the Go runtime, one for   *)
(* those of a generator.  With use_stdout there are neither compressors    *)
(* nor endpoints.                                                          *)
(***************************************************************************)
EXTENDS PartialMetrics, Sequences, FiniteSets, Functions, TLC

CONSTANTS
    Tasks, Compressors, Endpoints,  \* what has counters
    Runtime,                        \*   and those of the Go runtime
    Generators,                     \* what the container has statistics of
    Lengths,                        \* the length of the buffer before the last number
    GeneratorsIdle,                 \* whether one may not run between two scans
    MaxCount,                       \* bounds the counters, and the ticks of the process
    MaxScans,                       \* bounds the scans
    Nil

Sources == Tasks \cup Compressors \cup Endpoints \cup Runtime

\* The order in which Execute copies the statistics.
Kinds == <<Tasks, Compressors, Endpoints, Runtime>>

VARIABLES
    count,          \* the counters; a task has none before it is added
    stats,          \* the two copies of each kind, or Nil
    currIndex,      \* and the current one
    ticks,          \* the CPU time of the process
    pidStat,        \* the two parsed /proc/PID/stat, or Nil
    pidIndex,
    container,      \* GlobalMetricsGeneratorStatsContainer
    genStats,       \* metricsGenStats, the copy of it
    osCycle,        \* osCycleNum, FullMetricsFactor being osMetricsFactor; Nil
                    \* before osInfoMetric is made
    step,           \* how far Execute is: 0 when it is not running
    scans,
    snapped,        \* history: the counters when they were last copied
    parsed,         \*   the first and the last ticks that were parsed, or Nil
    updates,        \*   what the generators have counted
    sent,           \* the sums of the deltas sent: of the sources,
    sentTicks,      \*   of the CPU time,
    sentGen,        \*   of the generators
    osSince,        \* scans since the last with the OS info
    own             \* the bytes the last scan reports of itself, and its length

srcVars == <<count, stats, currIndex, snapped, sent>>
pidVars == <<ticks, pidStat, pidIndex, parsed, sentTicks>>
genVars == <<container, genStats, updates, sentGen>>
osVars == <<osCycle, osSince>>
vars == <<srcVars, pidVars, genVars, osVars, step, scans, own>>

Init ==
    /\ count = [s \in Sources |-> IF s \in Tasks THEN Nil ELSE 0]
    /\ stats = [k \in DOMAIN Kinds |-> [i \in 0..1 |->
                   IF k = 4 THEN [s \in Runtime |-> 0] ELSE Nil]]
    /\ currIndex = [k \in DOMAIN Kinds |-> 0]
    /\ ticks = 0 /\ pidStat = [i \in 0..1 |-> Nil] /\ pidIndex = 0
    /\ container = <<>> /\ genStats = <<>>
    /\ osCycle = Nil /\ osSince = 0 /\ step = 0 /\ scans = 0
    /\ snapped = [s \in Sources |-> 0]
    /\ parsed = Nil
    /\ updates = [g \in Generators |-> 0]
    /\ sent = [s \in Sources |-> 0]
    /\ sentTicks = 0
    /\ sentGen = [g \in Generators |-> 0]
    /\ own = [bytes |-> 0, length |-> 0]

------------------------------------------------------------------------------
(* The rest of the program.                                                  *)

\* A task is added to the scheduler.
AddTask(s) ==
    /\ s \in Tasks /\ count[s] = Nil
    /\ count' = [count EXCEPT ![s] = 0]
    /\ UNCHANGED <<stats, currIndex, snapped, sent, pidVars, genVars, osVars, step, scans, own>>

\* A worker, a compressor or a sender counts something.
Count(s) ==
    /\ count[s] # Nil /\ count[s] < MaxCount
    /\ count' = [count EXCEPT ![s] = @ + 1]
    /\ UNCHANGED <<stats, currIndex, snapped, sent, pidVars, genVars, osVars, step, scans, own>>

\* The process uses CPU time.
Tick ==
    /\ ticks < MaxCount
    /\ ticks' = ticks + 1
    /\ UNCHANGED <<srcVars, pidStat, pidIndex, parsed, sentTicks, genVars, osVars, step, scans, own>>

\* MetricsGeneratorStatsContainer.Update, the last thing a generator does.
Update(g) ==
    /\ updates[g] < MaxCount
    /\ container' = [x \in DOMAIN container \cup {g} |->
           IF x # g THEN container[x] ELSE IF g \in DOMAIN container THEN container[g] + 1 ELSE 1]
    /\ updates' = [updates EXCEPT ![g] = @ + 1]
    /\ UNCHANGED <<srcVars, pidVars, genStats, sentGen, osVars, step, scans, own>>

------------------------------------------------------------------------------
(* InternalMetrics.Execute                                                   *)

\* The SnapStats of the scheduler, the two pools and the Go runtime: step k copies
\* the counters of kind k into its current copy.
SnapStats ==
    LET k == step + 1
        has == {s \in Kinds[k] : count[s] # Nil}
    IN  /\ k \in DOMAIN Kinds
        /\ step = 0 => scans < MaxScans
        /\ stats' = [stats EXCEPT ![k][currIndex[k]] = [s \in has |-> count[s]]]
        /\ snapped' = [s \in Sources |-> IF s \in has THEN count[s] ELSE snapped[s]]
        /\ step' = k
        /\ UNCHANGED <<count, currIndex, sent, pidVars, genVars, osVars, scans, own>>

\* ProcessInternalMetrics.SnapStats; it fails if the file cannot be parsed.
SnapProcess(ok) ==
    /\ step = Len(Kinds)
    /\ pidStat' = [pidStat EXCEPT ![pidIndex] = IF ok THEN ticks ELSE Nil]
    /\ parsed' = IF ~ok THEN parsed
                 ELSE [first |-> IF parsed = Nil THEN ticks ELSE parsed.first, last |-> ticks]
    /\ step' = step + 1
    /\ UNCHANGED <<srcVars, ticks, pidIndex, sentTicks, genVars, osVars, scans, own>>

\* Whether the container is as it may be when it is copied: unless generators may be
\* idle, every one that ran before ran again since the last scan.
SnapReady ==
    /\ step = Len(Kinds) + 1
    /\ ~GeneratorsIdle => DOMAIN genStats \subseteq DOMAIN container

SnapOnlyKnown ==
    /\ SnapReady
    /\ genStats' = Restrict(container, DOMAIN container \cap DOMAIN genStats)
    /\ container' = <<>>
    /\ step' = step + 1
    /\ UNCHANGED <<srcVars, pidVars, updates, sentGen, osVars, scans, own>>

SnapAndKeep ==
    /\ SnapReady
    /\ genStats' = [g \in DOMAIN genStats \cup DOMAIN container |->
           IF g \in DOMAIN container THEN container[g] ELSE genStats[g]]
    /\ step' = step + 1
    /\ UNCHANGED <<container, srcVars, pidVars, updates, sentGen, osVars, scans, own>>

\* MetricsGeneratorStatsContainer.SnapStats with STATS_SNAP_AND_CLEAR: what was
\* copied before and is not in the container now stays.
SnapGenerators ==
    /\ SnapReady
    /\ genStats' = [g \in DOMAIN genStats \cup DOMAIN container |->
           IF g \in DOMAIN container THEN container[g] ELSE genStats[g]]
    /\ container' = <<>>
    /\ step' = step + 1
    /\ UNCHANGED <<srcVars, pidVars, updates, sentGen, osVars, scans, own>>

DeltaFromZero(k, s) == stats[k][currIndex[k]][s]

\* The delta of a source: the first time there is no previous value.
StatDelta(k, s) ==
    LET prev == stats[k][1 - currIndex[k]] IN
    IF prev # Nil /\ s \in DOMAIN prev
    THEN stats[k][currIndex[k]][s] - prev[s] ELSE stats[k][currIndex[k]][s]

Deltas(k) == [s \in DOMAIN stats[k][currIndex[k]] |-> StatDelta(k, s)]

\* The deltas that generateMetrics sends for each kind.
TaskMetrics == Deltas(1)
CompressorMetrics == Deltas(2)
EndpointMetrics == Deltas(3)

\* "deltas below work even at the 1st pass because prevMemStats has been primed"
GoMetrics == [s \in Runtime |-> stats[4][currIndex[4]][s] - stats[4][1 - currIndex[4]][s]]

FlipAlways == 1 - pidIndex

\* ProcessInternalMetrics.generateMetrics: the copies are flipped only if there
\* is a current one, so that the previous one is the last that was parsed.
PidIndexAfter == IF pidStat[pidIndex] = Nil THEN pidIndex ELSE 1 - pidIndex

\* The CPU time that it sends, if there are two copies to compare.
ProcessMetrics ==
    IF pidStat[pidIndex] # Nil /\ pidStat[1 - pidIndex] # Nil
    THEN pidStat[pidIndex] - pidStat[1 - pidIndex] ELSE 0

BytesOneShort(l) ==
    LET loop[k \in 1..9] == IF 10 ^ k < l + k THEN loop[k + 1] ELSE l + k IN loop[1]

\* The length of the buffer with the digits of that length.
Bytes(l) ==
    LET loop[k \in 1..9] == IF 10 ^ k <= l + k THEN loop[k + 1] ELSE l + k IN loop[1]

\* The cycle number of the OS metrics in this scan, first being the one that
\* updateOsMetrics takes in the first.
OsCycle(first) == IF osCycle = Nil THEN first ELSE osCycle

OsInfoWhenDue(first) == OsCycle(first) = 0

\* Whether the OS info is sent: in the first scan always.
SendOsInfo(first) == osCycle = Nil \/ OsCycle(first) = 0

\* The generation of the metrics from what was copied, until they are queued.
Generate(l, first) ==
    LET all == TaskMetrics @@ CompressorMetrics @@ EndpointMetrics @@ GoMetrics
    IN  /\ step = Len(Kinds) + 2
        /\ sent' = [s \in Sources |-> IF s \in DOMAIN all THEN sent[s] + all[s] ELSE sent[s]]
        /\ currIndex' = [k \in DOMAIN Kinds |-> 1 - currIndex[k]]
        /\ sentTicks' = sentTicks + ProcessMetrics
        /\ pidIndex' = PidIndexAfter
        /\ sentGen' = [g \in Generators |->
               IF g \in DOMAIN genStats THEN sentGen[g] + genStats[g] ELSE sentGen[g]]
        /\ osCycle' = NextCycle(OsCycle(first))
        /\ osSince' = IF SendOsInfo(first) THEN 0 ELSE osSince + 1
        /\ own' = [bytes |-> Bytes(l), length |-> l]
        /\ step' = 0
        /\ scans' = scans + 1
        /\ UNCHANGED <<count, stats, snapped, ticks, pidStat, parsed, container, genStats, updates>>

Next ==
    \/ \E s \in Sources : AddTask(s) \/ Count(s)
    \/ Tick
    \/ \E g \in Generators : Update(g)
    \/ SnapStats
    \/ \E ok \in BOOLEAN : SnapProcess(ok)
    \/ SnapGenerators
    \/ \E l \in Lengths, first \in InitialCycleNums : Generate(l, first)

Spec == Init /\ [][Next]_vars
------------------------------------------------------------------------------
TypeOK ==
    /\ \A s \in Sources : count[s] = Nil \/ count[s] \in 0..MaxCount
    /\ currIndex \in [DOMAIN Kinds -> 0..1] /\ pidIndex \in 0..1
    /\ ticks \in 0..MaxCount
    /\ DOMAIN container \cup DOMAIN genStats \subseteq Generators
    /\ osCycle \in {Nil} \cup InitialCycleNums /\ osSince \in 0..MaxScans
    /\ step \in 0..6 /\ scans \in 0..MaxScans

\* After every scan the deltas sent of a task, a compressor, an endpoint or the Go
\* runtime add up to its counter when it was last copied, whatever was counted in
\* between the copies and whenever a task was added
\* (internal_metrics_scheduler.go:95-114, 149).
DeltasAddUp == step = 0 => \A s \in Sources : sent[s] = snapped[s]

\* The CPU times sent add up to the time between the first and the last scan that
\* parsed /proc/PID/stat: a scan that fails to, and is skipped, loses none
\* (internal_metrics_process.go:75-78, 121-125, 157-174).
TicksAddUp ==
    step = 0 => sentTicks = IF parsed = Nil THEN 0 ELSE parsed.last - parsed.first

\* What the generators counted is sent once, also what they count while a scan is
\* running: it is in the container, about to be sent or sent, and nothing twice.
\* With GeneratorsIdle this is not so: the copy of one that did not run is still
\* there, and is sent again (metrics_common.go:99-140, internal_metrics.go:245, 290-300).
GeneratorsAddUp ==
    \A g \in Generators :
        LET in(S) == IF g \in DOMAIN S THEN S[g] ELSE 0 IN
        updates[g] = in(container) + sentGen[g] + (IF step = 6 THEN in(genStats) ELSE 0)

\* The OS info is sent with the first scan, whatever cycle number that is given, and
\* again within osMetricsFactor scans (internal_metrics.go:303-321, 436).
OsInfoKept == osSince < FullPeriod /\ (scans = 1 => osSince = 0)

\* The number of bytes a scan reports for itself includes the digits of that
\* number, also where they become one more (internal_metrics.go:346-361).
OwnBytes ==
    scans > 0 =>
        \E d \in 1..9 : /\ own.bytes = own.length + d
                        /\ 10 ^ (d - 1) <= own.bytes /\ own.bytes < 10 ^ d
==============================================================================
