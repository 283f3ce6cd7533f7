--------------------------- MODULE SoftirqsMetrics ---------------------------
(***************************************************************************)
(* The softirq metrics of lsvmi/proc_softirqs_metrics.go, with the parser  *)
(* procfs/softirqs_parser.go.                                              *)
(*                                                                         *)
(* Unlike for the interrupts (module InterruptsMetrics) the two parser     *)
(* objects share nothing: a change of the CPUs is seen by each of them, in *)
(* two consecutive scans, and the counters are matched by CPU number both  *)
(* times.                                                                  *)
(***************************************************************************)
EXTENDS PartialMetrics, Sequences, FiniteSets, Functions

CONSTANTS
    Irqs,
    CpuLists,       \* the headers: sequences of CPU numbers
    CpusFlap,       \* whether CPUs may change in one scan and change back in the next
    EarlyRemoval,   \* whether the second scan may miss IRQs of the first
    Nil

Counts(n) == [1..n -> 0..(Wrap - 1)]

Files ==
    UNION {[cpus : {h}, irqs : UNION {[S -> Counts(Len(h))] : S \in SUBSET Irqs}] : h \in CpuLists}

VARIABLES
    status,         \* "active", or "disabled" by an error, or "panicked"
    obj,            \* procSoftirqs: [cpus, counters, cap, found] or Nil
    currIndex,
    cache,          \* irqDataCache: the cycle number and the zero deltas
    suffix,         \* deltaMetricsSuffixCache, or Nil
    file, prevFile, \* history: what the last two scans found, or Nil
    reported,       \*   the IRQs with metrics in the last scan
    since,          \*   such scans since an IRQ's last full set
    settled,        \*   whether the last scan found the same IRQs as the previous
    last,           \* the receiver's last delta of every IRQ and CPU
    infoOn          \* the IRQs with info 1

histVars == <<file, prevFile, reported, since, settled, last, infoOn>>
vars == <<status, obj, currIndex, cache, suffix, histVars>>

Cpus == UNION {Range(h) : h \in CpuLists}

Init ==
    /\ status = "active"
    /\ obj = [i \in 0..1 |-> Nil]
    /\ currIndex = 0
    /\ cache = <<>> /\ suffix = Nil
    /\ file = Nil /\ prevFile = Nil
    /\ reported = {} /\ settled = FALSE
    /\ since = [q \in Irqs |-> 0]
    /\ last = [q \in Irqs |-> [c \in Cpus |-> Nil]]
    /\ infoOn = {}

------------------------------------------------------------------------------
\* Clone(false): zeroed counters, and no scan numbers.
Clone(o) ==
    [o EXCEPT !.counters = [q \in DOMAIN @ |-> [i \in DOMAIN @[q] |-> 0]],
              !.cap = [q \in DOMAIN @ |-> Len(o.counters[q])],
              !.found = {}]

Current ==
    IF obj[currIndex] # Nil THEN obj[currIndex]
    ELSE IF obj[1 - currIndex] # Nil THEN Clone(obj[1 - currIndex])
    ELSE [cpus |-> <<>>, counters |-> <<>>, cap |-> <<>>, found |-> {}]

\* CpuListChanged: relative to this object's last scan.
CpuListChanged(o, f) == o.cpus # f.cpus

\* The counters are made anew only if the capacity does not suffice, and cut
\* only if there are too many: the length stays too small if there were fewer
\* in between.
LengthAfter(o, f, q) ==
    LET n == Len(f.cpus) IN
    IF q \notin DOMAIN o.counters \/ o.cap[q] < n THEN n
    ELSE IF Len(o.counters[q]) > n THEN n ELSE Len(o.counters[q])

ParsePanics(o, f) == \E q \in DOMAIN f.irqs : LengthAfter(o, f, q) < Len(f.cpus)

\* Parse with its cleanup of the IRQs found by an earlier scan only.
Parse(o, f) ==
    LET keep == DOMAIN o.counters \ (o.found \ DOMAIN f.irqs)
        all  == keep \cup DOMAIN f.irqs
        new(q) == q \in DOMAIN f.irqs
    IN  [cpus |-> f.cpus,
         found |-> DOMAIN f.irqs,
         counters |-> [q \in all |-> IF new(q) THEN f.irqs[q] ELSE o.counters[q]],
         cap |-> [q \in all |->
             IF new(q) /\ (q \notin DOMAIN o.counters \/ o.cap[q] < Len(f.cpus))
             THEN Len(f.cpus) ELSE o.cap[q]]]

------------------------------------------------------------------------------
Position(c, cpus) ==
    IF \E i \in DOMAIN cpus : cpus[i] = c
    THEN CHOOSE i \in DOMAIN cpus : cpus[i] = c ELSE 0

\* updateCpuList: the index of the previous counter of the same CPU, 0 if none;
\* ch tells that the CPU list changed.
PrevIndex(ch, o, p, i) == IF ch THEN Position(o.cpus[i], p.cpus) ELSE i

FullMetrics(q) == q \notin DOMAIN cache \/ cache[q].cycle = 0

KeepZeroDelta(ch, o, q, first) ==
    IF q \in DOMAIN cache THEN [cache[q] EXCEPT !.zero = [i \in 1..Len(o.cpus) |->
                                    i \in DOMAIN @ /\ @[i]]]
    ELSE [cycle |-> first, zero |-> [i \in 1..Len(o.cpus) |-> FALSE]]

\* "Previous zero delta is no longer valid"
IrqData(ch, o, q, first) ==
    [cycle |-> IF q \in DOMAIN cache THEN cache[q].cycle ELSE first,
     zero |-> IF q \in DOMAIN cache /\ ~ch THEN cache[q].zero
              ELSE [i \in 1..Len(o.cpus) |-> FALSE]]

DeltaAt(ch, o, p, q, i) == Delta(o.counters[q][i], p.counters[q][PrevIndex(ch, o, p, i)])

HasDelta(ch, o, p, q, i) == i \in 1..Len(o.counters[q]) /\ PrevIndex(ch, o, p, i) # 0

SentDeltas(ch, o, p, q, d, cpus) ==
    [c \in Cpus |->
        LET i == Position(c, cpus) IN
        IF HasDelta(ch, o, p, q, i) /\ SendDelta(FullMetrics(q), DeltaAt(ch, o, p, q, i), d.zero[i])
        THEN DeltaAt(ch, o, p, q, i) ELSE last[q][c]]

DataAfter(ch, o, p, q, d) ==
    [cycle |-> NextCycle(d.cycle),
     zero |-> [i \in DOMAIN d.zero |->
         IF HasDelta(ch, o, p, q, i) THEN DeltaAt(ch, o, p, q, i) = 0 ELSE d.zero[i]]]

ClearedIfFewer(o, data) ==
    IF Cardinality(DOMAIN data) < Cardinality(DOMAIN o.counters)
    THEN DOMAIN data \ DOMAIN o.counters ELSE {}

\* "Clear info for removed IRQ's, if any"
Cleared(o, data) ==
    IF Cardinality(DOMAIN data) # Cardinality(DOMAIN o.counters)
    THEN DOMAIN data \ DOMAIN o.counters ELSE {}

\* A previous counter, or a zero delta, that does not exist.
GeneratePanics(ch, o, p) ==
    \E q \in DOMAIN o.counters \cap DOMAIN p.counters : \E i \in 1..Len(o.counters[q]) :
        \/ PrevIndex(ch, o, p, i) > Len(p.counters[q])
        \/ q \in DOMAIN cache /\ ~ch /\ i > Len(cache[q].zero)

\* generateMetrics for the current object o and the previous one p.
Generate(ch, o, p) ==
    LET both == DOMAIN o.counters \cap DOMAIN p.counters
        cpus == IF ch \/ suffix = Nil THEN o.cpus ELSE suffix
    IN  \E first \in [both \ DOMAIN cache -> InitialCycleNums] :
        LET d(q)  == IrqData(ch, o, q, IF q \in DOMAIN cache THEN 0 ELSE first[q])
            data  == [q \in DOMAIN cache \cup both |->
                         IF q \in both THEN DataAfter(ch, o, p, q, d(q)) ELSE cache[q]]
            clear == Cleared(o, data)
            full  == {q \in both : FullMetrics(q)}
        IN  /\ suffix' = cpus
            /\ cache' = Restrict(data, DOMAIN data \ clear)
            /\ reported' = both
            /\ last' = [q \in Irqs |->
                   IF q \in both THEN SentDeltas(ch, o, p, q, d(q), cpus) ELSE last[q]]
            /\ infoOn' = (infoOn \cup full) \ clear
            /\ since' = [q \in Irqs |-> IF q \in both \ full THEN since[q] + 1 ELSE 0]

\* generateMetrics without a previous scan.
FirstScan ==
    /\ reported' = {}
    /\ UNCHANGED <<suffix, cache, last, infoOn, since>>

\* Execute
Execute(f) ==
    LET o == Parse(Current, f)
        p == obj[1 - currIndex]
        ch == CpuListChanged(Current, f)
    IN  /\ status = "active"
        /\ prevFile # Nil /\ ~CpusFlap => f.cpus = file.cpus \/ f.cpus # prevFile.cpus
        /\ file # Nil /\ prevFile = Nil /\ ~EarlyRemoval =>
               DOMAIN file.irqs \subseteq DOMAIN f.irqs
        /\ status' = IF ParsePanics(Current, f) \/ (p # Nil /\ GeneratePanics(ch, o, p))
                     THEN "panicked" ELSE "active"
        /\ IF status' = "panicked" THEN UNCHANGED <<obj, currIndex, cache, suffix, histVars>>
           ELSE /\ obj' = [obj EXCEPT ![currIndex] = o]
                /\ IF p = Nil THEN FirstScan ELSE Generate(ch, o, p)
                /\ currIndex' = 1 - currIndex
                /\ file' = f /\ prevFile' = file
                /\ settled' = (file # Nil /\ DOMAIN f.irqs = DOMAIN file.irqs)

\* Execute when the file cannot be read: the task is not run again.
ExecuteFails ==
    /\ status = "active"
    /\ status' = "disabled"
    /\ UNCHANGED <<obj, currIndex, cache, suffix, histVars>>

Next == ExecuteFails \/ \E f \in Files : Execute(f)

Spec == Init /\ [][Next]_vars
------------------------------------------------------------------------------
TypeOK ==
    /\ status \in {"active", "disabled", "panicked"} /\ settled \in BOOLEAN
    /\ currIndex \in 0..1
    /\ \A i \in 0..1 : obj[i] # Nil => DOMAIN obj[i].counters \subseteq Irqs
    /\ \A q \in DOMAIN cache : q \in Irqs /\ cache[q].cycle \in InitialCycleNums
    /\ reported \subseteq Irqs /\ infoOn \subseteq Irqs

\* For every IRQ with metrics in the last scan and every CPU of the last two
\* scans, wherever its column was in them, the receiver's last delta is the
\* difference of the two: the counters are matched "such that they refer to the
\* same CPU#" (proc_softirqs_metrics.go:274-327).
LastSentIsCurrent ==
    \A q \in reported : \A i \in DOMAIN file.cpus, j \in DOMAIN prevFile.cpus :
        file.cpus[i] = prevFile.cpus[j] =>
            /\ q \in DOMAIN file.irqs \cap DOMAIN prevFile.irqs
            /\ last[q][file.cpus[i]] = Delta(file.irqs[q][i], prevFile.irqs[q][j])

\* One scan after the last change of the IRQs those that are gone have no info
\* at 1 any more, although the lengths compared to find out whether any are gone
\* agree when others came (proc_softirqs_metrics.go:344-355).
GoneIsCleared == settled => infoOn \subseteq DOMAIN file.irqs

\* As long as an IRQ has metrics, it has a full set of them once in
\* full_metrics_factor scans (docs/internals.md:105).
FullCycleKept == \A q \in Irqs : since[q] < FullPeriod
==============================================================================
