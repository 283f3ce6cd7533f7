-------------------------- MODULE InterruptsMetrics --------------------------
(***************************************************************************)
(* The interrupt metrics of lsvmi/proc_interrupts_metrics.go, with the     *)
(* parser procfs/interrupts_parser.go.                                     *)
(*                                                                         *)
(* /proc/interrupts has a header with the CPUs and a line per IRQ with a   *)
(* counter per CPU and a description.  The two parser objects have their   *)
(* own CPU lists and counters, but share the header line and the IRQ       *)
(* descriptions (Info), so that a change is seen relative to the previous  *)
(* scan, not to the one before.                                            *)
(***************************************************************************)
EXTENDS PartialMetrics, Sequences, FiniteSets, Functions

CONSTANTS
    Irqs,
    Infos,          \* descriptions
    CpuLists,       \* the headers: sequences of CPU numbers
    IrqsReturn,     \* whether an IRQ may be in the file again after it was not
    Nil

Counts(n) == [1..n -> 0..(Wrap - 1)]

\* /proc/interrupts for header h.
FilesWith(h) ==
    [cpus : {h}, irqs : UNION {[S -> [info : Infos, counts : Counts(Len(h))]] : S \in SUBSET Irqs}]

Files == UNION {FilesWith(h) : h \in CpuLists}

VARIABLES
    status,         \* "active", or "disabled" by an error, or "panicked"
    obj,            \* procInterrupts: [cpus, counters] or Nil
    currIndex,
    irqInfo,        \* Info.IrqInfo: the description of every IRQ in it
    header,         \* Info.cpuHeaderLine
    cache,          \* irqDataCache
    suffix,         \* deltaMetricsSuffixCache, or Nil
    file, prevFile, \* history: what the last two scans found, or Nil
    reported,       \*   the IRQs with metrics in the last scan
    since,          \*   such scans since an IRQ's last full set
    settled,        \*   scans since the last that found other IRQs, at most 3
    gone,           \*   the IRQs that were in the file once
    last,           \* the receiver's last delta of every IRQ and CPU
    infoOn          \* the info series of an IRQ that are 1

histVars == <<file, prevFile, reported, since, settled, gone, last, infoOn>>
vars == <<status, obj, currIndex, irqInfo, header, cache, suffix, histVars>>

Cpus == UNION {Range(h) : h \in CpuLists}

Init ==
    /\ status = "active"
    /\ obj = [i \in 0..1 |-> Nil]
    /\ currIndex = 0
    /\ irqInfo = <<>> /\ header = <<>>
    /\ cache = <<>> /\ suffix = Nil
    /\ file = Nil /\ prevFile = Nil
    /\ reported = {}
    /\ since = [q \in Irqs |-> 0]
    /\ settled = 0
    /\ gone = {}
    /\ last = [q \in Irqs |-> [c \in Cpus |-> Nil]]
    /\ infoOn = [q \in Irqs |-> {}]

------------------------------------------------------------------------------
\* The object to parse into: the one of two scans ago, a clone, or a new one.
\* A clone has the keys of the counters, which the parse overwrites or deletes.
Current ==
    IF obj[currIndex] # Nil THEN obj[currIndex]
    ELSE IF obj[1 - currIndex] # Nil THEN obj[1 - currIndex]
    ELSE [cpus |-> <<>>, counters |-> <<>>]

HeaderChanged(f) == f.cpus # header

\* CpuList and NumCounters: updated when the header differs from the last scan's.
CpuListAfter(f) == IF HeaderChanged(f) THEN f.cpus ELSE Current.cpus

\* "Enough columns?"
ParseFails(f) == DOMAIN f.irqs # {} /\ Len(CpuListAfter(f)) > Len(f.cpus)

\* What follows the counters on a line; with too few of them read, the rest
\* of them too.
InfoLine(f, q) ==
    LET n == Len(CpuListAfter(f)) IN
    [rest |-> SubSeq(f.irqs[q].counts, n + 1, Len(f.cpus)), info |-> f.irqs[q].info]

\* "Cleanup IRQs no longer in use": those with a description.
Removed(f) == DOMAIN irqInfo \ DOMAIN f.irqs

ParseNoCleanup(f) ==
    LET n == Len(CpuListAfter(f))
    IN  [cpus |-> CpuListAfter(f),
         counters |-> [q \in DOMAIN Current.counters \cup DOMAIN f.irqs |->
             IF q \in DOMAIN f.irqs THEN SubSeq(f.irqs[q].counts, 1, n)
             ELSE Current.counters[q]]]

Parse(f) ==
    LET n == Len(CpuListAfter(f))
        keep == DOMAIN Current.counters \ Removed(f)
    IN  [cpus |-> CpuListAfter(f),
         counters |-> [q \in keep \cup DOMAIN f.irqs |->
             IF q \in DOMAIN f.irqs THEN SubSeq(f.irqs[q].counts, 1, n)
             ELSE Current.counters[q]]]

\* InterruptsIrqInfo.Changed
InfoChanged(f, q) == q \notin DOMAIN irqInfo \/ irqInfo[q] # InfoLine(f, q)

------------------------------------------------------------------------------
(* generateMetrics for the current object o, the previous one being p.       *)

Position(c, cpus) ==
    IF \E i \in DOMAIN cpus : cpus[i] = c
    THEN CHOOSE i \in DOMAIN cpus : cpus[i] = c ELSE 0

\* updateCpuList: the index of the previous counter of the same CPU, 0 if none.
PrevIndex(f, o, p, i) ==
    IF HeaderChanged(f) THEN Position(o.cpus[i], p.cpus) ELSE i

FullIfNew(f, q) == q \notin DOMAIN cache \/ InfoChanged(f, q)

FullMetrics(f, q) ==
    q \notin DOMAIN cache \/ InfoChanged(f, q) \/ cache[q].cycle = 0

\* The IRQ's data before its metrics are generated, first being the cycle
\* number of a new one.
IrqData(f, o, q, first) ==
    LET old == IF q \in DOMAIN cache THEN cache[q]
               ELSE [cycle |-> first, info |-> Nil, zero |-> [i \in 1..Len(o.cpus) |-> FALSE]]
    IN  [old EXCEPT
            !.info = IF FullMetrics(f, q) /\ (q \notin DOMAIN cache \/ InfoChanged(f, q))
                     THEN InfoLine(f, q) ELSE @,
            !.zero = IF HeaderChanged(f) THEN [i \in 1..Len(o.cpus) |-> FALSE] ELSE @]

\* An IRQ without a description, or an index out of range when the objects
\* disagree on the number of counters.
Panics(f, o, p, both) ==
    ~(both \subseteq DOMAIN f.irqs) \/ \E q \in both : \E i \in 1..Len(o.counters[q]) :
        \/ PrevIndex(f, o, p, i) > Len(p.counters[q])
        \/ q \in DOMAIN cache /\ ~HeaderChanged(f) /\ i > Len(cache[q].zero)

DeltaAt(f, o, p, q, i) == Delta(o.counters[q][i], p.counters[q][PrevIndex(f, o, p, i)])

\* The deltas of IRQ q that are sent, applied to what the receiver has.
SentDeltas(f, o, p, q, d, cpus) ==
    [c \in Cpus |->
        LET i == Position(c, cpus) IN
        IF i \in 1..Len(o.counters[q]) /\ PrevIndex(f, o, p, i) # 0
           /\ SendDelta(FullMetrics(f, q), DeltaAt(f, o, p, q, i), d.zero[i])
        THEN DeltaAt(f, o, p, q, i) ELSE last[q][c]]

ZeroForGood(f, o, p, q, d) ==
    [d EXCEPT !.cycle = NextCycle(@),
              !.zero = [i \in DOMAIN @ |-> @[i] \/ DeltaAt(f, o, p, q, i) = 0]]

DataAfter(f, o, p, q, d) ==
    [d EXCEPT !.cycle = NextCycle(@),
              !.zero = [i \in DOMAIN @ |->
                  IF i \in 1..Len(o.counters[q]) /\ PrevIndex(f, o, p, i) # 0
                  THEN DeltaAt(f, o, p, q, i) = 0 ELSE @[i]]]

KeepOldInfo(f, q, d) == infoOn[q] \cup {d.info}

\* The info series of q when its metrics are sent in full.
InfoSent(f, q, d) ==
    (IF q \in DOMAIN cache /\ InfoChanged(f, q) THEN infoOn[q] \ {cache[q].info} ELSE infoOn[q])
        \cup {d.info}

ClearedIfFewer(f, o, data) ==
    IF Cardinality(DOMAIN data) < Cardinality(DOMAIN f.irqs)
    THEN DOMAIN data \ DOMAIN o.counters ELSE {}

\* "Clear info for removed IRQ's, if any", data being the cache by then.
Cleared(f, o, data) ==
    IF Cardinality(DOMAIN data) # Cardinality(DOMAIN f.irqs)
    THEN DOMAIN data \ DOMAIN o.counters ELSE {}

Generate(f, o, p) ==
    LET both == DOMAIN o.counters \cap DOMAIN p.counters
        cpus == IF HeaderChanged(f) \/ suffix = Nil THEN o.cpus ELSE suffix
    IN  \E first \in [both \ DOMAIN cache -> InitialCycleNums] :
        LET d(q)  == IrqData(f, o, q, IF q \in DOMAIN cache THEN 0 ELSE first[q])
            data  == [q \in DOMAIN cache \cup both |->
                         IF q \in both THEN DataAfter(f, o, p, q, d(q)) ELSE cache[q]]
            clear == Cleared(f, o, data)
        IN  /\ suffix' = cpus
            /\ cache' = Restrict(data, DOMAIN data \ clear)
            /\ reported' = both
            /\ last' = [q \in Irqs |->
                   IF q \in both THEN SentDeltas(f, o, p, q, d(q), cpus) ELSE last[q]]
            /\ infoOn' = [q \in Irqs |->
                   IF q \in both /\ FullMetrics(f, q) THEN InfoSent(f, q, d(q))
                   ELSE IF q \in clear THEN infoOn[q] \ {data[q].info} ELSE infoOn[q]]
            /\ since' = [q \in Irqs |->
                   IF q \notin both \/ FullMetrics(f, q) THEN 0 ELSE since[q] + 1]

\* generateMetrics without a previous scan.
FirstScan ==
    /\ reported' = {}
    /\ UNCHANGED <<suffix, cache, last, infoOn, since>>

------------------------------------------------------------------------------
\* Execute
Execute(f) ==
    LET o == Parse(f)
        p == obj[1 - currIndex]
    IN  /\ status = "active"
        /\ ~IrqsReturn => DOMAIN f.irqs \cap gone = {}
        /\ status' = IF ParseFails(f) THEN "disabled"
                     ELSE IF p # Nil /\ Panics(f, o, p, DOMAIN o.counters \cap DOMAIN p.counters)
                     THEN "panicked" ELSE "active"
        /\ IF status' = "active"
           THEN /\ obj' = [obj EXCEPT ![currIndex] = o]
                /\ irqInfo' = [q \in DOMAIN f.irqs |-> InfoLine(f, q)]
                /\ header' = f.cpus
                /\ IF p = Nil THEN FirstScan ELSE Generate(f, o, p)
                /\ currIndex' = 1 - currIndex
                /\ file' = f /\ prevFile' = file
                /\ gone' = (gone \cup DOMAIN irqInfo) \ DOMAIN f.irqs
                /\ settled' = IF DOMAIN f.irqs # DOMAIN irqInfo THEN 0
                              ELSE IF settled < 3 THEN settled + 1 ELSE 3
           ELSE UNCHANGED <<obj, currIndex, irqInfo, header, cache, suffix, histVars>>

\* Execute when the file cannot be read: the task is not run again.
ExecuteFails ==
    /\ status = "active"
    /\ status' = "disabled"
    /\ UNCHANGED <<obj, currIndex, irqInfo, header, cache, suffix, histVars>>

Next == ExecuteFails \/ \E f \in Files : Execute(f)

Spec == Init /\ [][Next]_vars
------------------------------------------------------------------------------
TypeOK ==
    /\ status \in {"active", "disabled", "panicked"}
    /\ currIndex \in 0..1
    /\ \A i \in 0..1 : obj[i] # Nil => DOMAIN obj[i].counters \subseteq Irqs
    /\ DOMAIN irqInfo \subseteq Irqs /\ DOMAIN cache \subseteq Irqs
    /\ \A q \in DOMAIN cache : cache[q].cycle \in InitialCycleNums
    /\ reported \subseteq Irqs

\* For every IRQ with metrics in the last scan, the receiver's last delta of
\* every CPU is the difference of the last two scans
\* (proc_interrupts_metrics.go:326-344).
LastSentIsCurrent ==
    \A q \in reported : \A i \in DOMAIN file.cpus :
        /\ q \in DOMAIN file.irqs \cap DOMAIN prevFile.irqs
        /\ last[q][file.cpus[i]] = Delta(file.irqs[q].counts[i], prevFile.irqs[q].counts[i])

\* As long as the CPUs stay the same, no scan panics: in particular an IRQ in
\* the counters of both objects has a description, no nil being dereferenced
\* although an IRQ that is removed stays in the other object
\* (interrupts_parser.go:381-388, proc_interrupts_metrics.go:294-305).
NoPanic == status # "panicked"

\* An IRQ has one info series that is 1, that of its description; a former one
\* was set to 0 (proc_interrupts_metrics.go:346-360).
OneInfo ==
    /\ \A q \in Irqs : \A x, y \in infoOn[q] : x = y
    /\ \A q \in reported : infoOn[q] = {[rest |-> <<>>, info |-> file.irqs[q].info]}

\* Two scans after the last change of the IRQs those that are gone have no info
\* at 1 any more, also if others came at the same time, which is when the
\* lengths compared to find out whether any are gone may agree
\* (proc_interrupts_metrics.go:368-379).
GoneIsCleared ==
    settled >= 2 => \A q \in Irqs : infoOn[q] # {} => q \in DOMAIN file.irqs

\* As long as an IRQ has metrics, it has a full set of them once in
\* full_metrics_factor scans (docs/internals.md:105).
FullCycleKept == \A q \in Irqs : since[q] < FullPeriod
==============================================================================
