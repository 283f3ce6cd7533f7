--------------------------- MODULE ProcStatMetrics ---------------------------
(***************************************************************************)
(* The metrics of lsvmi/proc_stat_metrics.go, with the parser              *)
(* procfs/stat_parser.go.  One tick counter stands for the ten of a CPU,   *)
(* one counter and one value for the fields that are not of a CPU.         *)
(***************************************************************************)
EXTENDS PartialMetrics, FiniteSets, Functions

CONSTANTS
    Cpus,           \* the CPU numbers
    All,            \* STAT_CPU_ALL, the "cpu" line
    Ticks,          \* the values of the tick counters
    OtherCounts,    \* the values of the other fields
    Nil

\* /proc/stat: ticks of all and of every CPU that is on line, a counter such as
\* ctxt and a value such as procs_running.
Files == [cpu : UNION {[S \cup {All} -> Ticks] : S \in SUBSET Cpus \ {{}}},
          delta : OtherCounts, val : OtherCounts]

VARIABLES
    active,         \* whether the scheduler keeps the task
    procStat,       \* the two parser objects, or Nil
    currIndex,
    cpuInfo,        \* the cycle number and the zero %CPU of a CPU
    other,          \* otherCycleNum, otherZeroDelta and whether there are otherMetrics
    maxNumCpus,
    file, prevFile, \* history: what the last two scans found, or Nil
    reported,       \*   the CPUs with metrics in the last scan
    since,          \*   such scans since a CPU's last full set
    settled,        \*   whether the last scan found the same CPUs as the previous
    last,           \* the receiver's last values
    up              \* the CPUs, All or "avg" with cpu up 1

histVars == <<file, prevFile, reported, since, settled, last, up>>
vars == <<active, procStat, currIndex, cpuInfo, other, maxNumCpus, histVars>>

Init ==
    /\ active = TRUE
    /\ procStat = [i \in 0..1 |-> Nil]
    /\ currIndex = 0
    /\ cpuInfo = <<>>
    /\ other \in [cycle : InitialCycleNums, zero : {FALSE}, made : {FALSE}]
    /\ maxNumCpus = 1
    /\ file = Nil /\ prevFile = Nil
    /\ reported = {} /\ up = {} /\ settled = FALSE
    /\ since = [c \in Cpus \cup {All} |-> 0]
    /\ last = [cpu |-> [c \in Cpus \cup {All} |-> Nil], avg |-> Nil, delta |-> Nil, val |-> Nil]

------------------------------------------------------------------------------
\* Clone(false): zeroes.
Current ==
    IF procStat[currIndex] # Nil THEN procStat[currIndex]
    ELSE IF procStat[1 - currIndex] # Nil
    THEN [cpu |-> [c \in DOMAIN procStat[1 - currIndex].cpu |-> 0], delta |-> 0, val |-> 0]
    ELSE [cpu |-> <<>>, delta |-> 0, val |-> 0]

KeepOffline(o, f) == {}

\* "Remove stats for CPUs no longer found at this scan"
Offline(o, f) == DOMAIN o.cpu \ DOMAIN f.cpu

Parse(o, f) ==
    [f EXCEPT !.cpu = [c \in (DOMAIN o.cpu \ Offline(o, f)) \cup DOMAIN f.cpu |->
        IF c \in DOMAIN f.cpu THEN f.cpu[c] ELSE o.cpu[c]]]

NumCpus(f) == Cardinality(DOMAIN f.cpu \ {All})

\* pct / numCpus, of which only the zero does not depend on the number.
Average(delta, n) == IF delta = 0 THEN <<0>> ELSE <<delta, n>>

FullMetrics(c) == c \notin DOMAIN cpuInfo \/ cpuInfo[c].cycle = 0

\* updateCpuInfo
CpuInfo(c, first) ==
    IF c \in DOMAIN cpuInfo THEN cpuInfo[c] ELSE [cycle |-> first, zero |-> FALSE]

NoneRemoved(o, info) == {}

\* "CPU's may be unplugged dynamically; remove out-of-scope CPUs"
OutOfScope(o, info) ==
    IF Cardinality(DOMAIN info) > Cardinality(DOMAIN o.cpu) THEN DOMAIN info \ DOMAIN o.cpu ELSE {}

\* "Other metrics": those that are not of a CPU.
OtherFull == ~other.made \/ other.cycle = 0

OtherSentIfFull(o, p) == {x \in {"delta", "val"} : OtherFull}

OtherSent(o, p) ==
    {x \in {"delta", "val"} :
        \/ OtherFull
        \/ x = "delta" /\ SendDelta(FALSE, Delta(o.delta, p.delta), other.zero)
        \/ x = "val" /\ o.val # p.val}

WithAvg(S) == IF All \in S THEN S \cup {"avg"} ELSE S

\* generateMetrics for the current object o, the previous one being p.
Generate(o, p, n) ==
    LET both == DOMAIN o.cpu \cap DOMAIN p.cpu
        full == {c \in both : FullMetrics(c)}
        delta(c) == Delta(o.cpu[c], p.cpu[c])
    IN  \E first \in [both \ DOMAIN cpuInfo -> InitialCycleNums] :
        LET old(c) == CpuInfo(c, IF c \in DOMAIN cpuInfo THEN 0 ELSE first[c])
            info == [c \in DOMAIN cpuInfo \cup both |->
                        IF c \notin both THEN cpuInfo[c]
                        ELSE [cycle |-> NextCycle(old(c).cycle), zero |-> delta(c) = 0]]
            gone == OutOfScope(o, info)
            sent == {c \in both : SendDelta(c \in full, delta(c), old(c).zero)}
            oth  == OtherSent(o, p)
        IN  /\ cpuInfo' = Restrict(info, DOMAIN info \ gone)
            /\ other' = [cycle |-> NextCycle(other.cycle), zero |-> Delta(o.delta, p.delta) = 0,
                         made |-> TRUE]
            /\ reported' = both
            /\ last' =
                 [cpu |-> [c \in Cpus \cup {All} |-> IF c \in sent THEN delta(c) ELSE last.cpu[c]],
                  avg |-> IF All \in sent THEN Average(delta(All), n) ELSE last.avg,
                  delta |-> IF "delta" \in oth THEN Delta(o.delta, p.delta) ELSE last.delta,
                  val |-> IF "val" \in oth THEN o.val ELSE last.val]
            /\ up' = (up \cup WithAvg(full)) \ WithAvg(gone)
            /\ since' = [c \in Cpus \cup {All} |-> IF c \in both \ full THEN since[c] + 1 ELSE 0]

\* generateMetrics without a previous scan.
FirstScan ==
    /\ reported' = {}
    /\ UNCHANGED <<cpuInfo, other, last, up, since>>

\* updateMaxNumCpus; the sizes that follow from it are left out.
UpdateMaxNumCpus(n) == maxNumCpus' = n

\* Execute
Execute(f) ==
    LET o == Parse(Current, f)
        p == procStat[1 - currIndex]
    IN  /\ active
        /\ procStat' = [procStat EXCEPT ![currIndex] = o]
        /\ IF NumCpus(f) > maxNumCpus THEN UpdateMaxNumCpus(NumCpus(f))
                                      ELSE UNCHANGED maxNumCpus
        /\ IF p = Nil THEN FirstScan ELSE Generate(o, p, NumCpus(f))
        /\ currIndex' = 1 - currIndex
        /\ file' = f /\ prevFile' = file
        /\ settled' = (file # Nil /\ DOMAIN f.cpu = DOMAIN file.cpu)
        /\ UNCHANGED active

\* Execute when the file cannot be parsed: the task is not run again.
ExecuteFails ==
    /\ active
    /\ active' = FALSE
    /\ UNCHANGED <<procStat, currIndex, cpuInfo, other, maxNumCpus, histVars>>

Next == ExecuteFails \/ \E f \in Files : Execute(f)

Spec == Init /\ [][Next]_vars
------------------------------------------------------------------------------
TypeOK ==
    /\ active \in BOOLEAN /\ settled \in BOOLEAN
    /\ currIndex \in 0..1 /\ maxNumCpus \in 1..Cardinality(Cpus)
    /\ other \in [cycle : InitialCycleNums, zero : BOOLEAN, made : BOOLEAN]
    /\ \A c \in DOMAIN cpuInfo : c \in Cpus \cup {All} /\ cpuInfo[c].cycle \in InitialCycleNums
    /\ up \subseteq Cpus \cup {All, "avg"}

\* For every CPU with metrics in the last scan, and for all, the receiver's last
\* %CPU is that of the last two scans, and the average is over the CPUs that are
\* on line now (proc_stat_metrics.go:369-405).
CpuIsCurrent ==
    /\ prevFile # Nil => reported = DOMAIN file.cpu \cap DOMAIN prevFile.cpu
    /\ \A c \in reported : last.cpu[c] = Delta(file.cpu[c], prevFile.cpu[c])
    /\ All \in reported =>
           last.avg = Average(Delta(file.cpu[All], prevFile.cpu[All]), NumCpus(file))

\* After every scan but the first, the receiver's last values of the fields that
\* are not of a CPU are the current ones, although a value that did not change
\* and a zero after a zero are not sent (proc_stat_metrics.go:452-474).
OtherIsCurrent ==
    prevFile # Nil =>
        last.delta = Delta(file.delta, prevFile.delta) /\ last.val = file.val

\* One scan after the last change of the CPUs, those that are up, with all and
\* the average, are the ones of the file, although the guard of the removal
\* compares sizes only (proc_stat_metrics.go:421-439).
UpIsCurrent == settled => up = DOMAIN file.cpu \cup {"avg"}

\* As long as a CPU has metrics, it has a full set of them once in
\* full_metrics_factor scans (docs/internals.md:105).
FullCycleKept == \A c \in Cpus \cup {All} : since[c] < FullPeriod
==============================================================================
