---------------------------- MODULE NetDevMetrics ----------------------------
(***************************************************************************)
(* The network device metrics of lsvmi/proc_net_dev_metrics.go, with the   *)
(* parser procfs/net_dev_parser.go.  One counter stands for the 16 of a    *)
(* device, which are treated alike.                                        *)
(***************************************************************************)
EXTENDS PartialMetrics, FiniteSets, Functions

CONSTANTS Devs, Nil

\* /proc/net/dev: the devices with their counter.
Files == UNION {[S -> 0..(Wrap - 1)] : S \in SUBSET Devs}

VARIABLES
    active,         \* whether the scheduler keeps the task
    procNetDev,     \* the DevStats of the two parser objects, or Nil
    currIndex,
    devInfoMap,     \* the cycle number and the zero delta of a device
    total,          \* totalMetricsCount: the devices it was last evaluated for, or Nil
    file, prevFile, \* history: what the last two scans found, or Nil
    reported,       \*   the devices with metrics in the last scan
    since,          \*   such scans since a device's last full set
    settled,        \*   whether the last scan found the same devices as the previous
    last,           \* the receiver's last delta of every device
    present         \* the devices with presence 1

histVars == <<file, prevFile, reported, since, settled, last, present>>
vars == <<active, procNetDev, currIndex, devInfoMap, total, histVars>>

Init ==
    /\ active = TRUE
    /\ procNetDev = [i \in 0..1 |-> Nil]
    /\ currIndex = 0
    /\ devInfoMap = <<>> /\ total = Nil
    /\ file = Nil /\ prevFile = Nil
    /\ reported = {} /\ present = {} /\ settled = FALSE
    /\ since = [d \in Devs |-> 0]
    /\ last = [d \in Devs |-> Nil]

------------------------------------------------------------------------------
\* The object to parse into: the one of two scans ago, a clone with zeroes, or
\* a new one.
Current ==
    IF procNetDev[currIndex] # Nil THEN procNetDev[currIndex]
    ELSE IF procNetDev[1 - currIndex] # Nil THEN [d \in DOMAIN procNetDev[1 - currIndex] |-> 0]
    ELSE <<>>

PruneNone(o, f) == {}

\* "Prune dev stats index for devices no longer found"
Pruned(o, f) == DOMAIN o \ DOMAIN f

Parse(o, f) ==
    [d \in (DOMAIN o \ Pruned(o, f)) \cup DOMAIN f |-> IF d \in DOMAIN f THEN f[d] ELSE o[d]]

FullMetrics(d) == d \notin DOMAIN devInfoMap \/ devInfoMap[d].cycle = 0

\* updateDevInfo
DevInfo(d, first) ==
    IF d \in DOMAIN devInfoMap THEN devInfoMap[d] ELSE [cycle |-> first, zero |-> FALSE]

NoneRemoved(o, info) == {}

\* "Network devices may be created/enabled dynamically, remove out of scope ones"
OutOfScope(o, info) ==
    IF Cardinality(DOMAIN info) > Cardinality(DOMAIN o) THEN DOMAIN info \ DOMAIN o ELSE {}

\* Whether totalMetricsCount is evaluated again.
Evaluate(o, both, info) ==
    \/ ~(both \subseteq DOMAIN devInfoMap)
    \/ Cardinality(DOMAIN info) > Cardinality(DOMAIN o)

\* generateMetrics for the current object o, the previous one being p; what it
\* wrote is queued only with a count.
Generate(o, p) ==
    LET both == DOMAIN o \cap DOMAIN p
        full == {d \in both : FullMetrics(d)}
        delta(d) == Delta(o[d], p[d])
    IN  \E first \in [both \ DOMAIN devInfoMap -> InitialCycleNums] :
        LET old(d) == DevInfo(d, IF d \in DOMAIN devInfoMap THEN 0 ELSE first[d])
            info == [d \in DOMAIN devInfoMap \cup both |->
                        IF d \notin both THEN devInfoMap[d]
                        ELSE [cycle |-> NextCycle(old(d).cycle), zero |-> delta(d) = 0]]
            gone == OutOfScope(o, info)
            sent == {d \in both : SendDelta(d \in full, delta(d), old(d).zero)}
        IN  /\ devInfoMap' = Restrict(info, DOMAIN info \ gone)
            /\ total' = IF Evaluate(o, both, info) THEN Cardinality(DOMAIN o) ELSE total
            /\ reported' = both
            /\ last' = [d \in Devs |->
                   IF d \in sent /\ total' # Nil THEN delta(d) ELSE last[d]]
            /\ present' = IF total' # Nil THEN (present \cup full) \ gone ELSE present
            /\ since' = [d \in Devs |-> IF d \in both \ full THEN since[d] + 1 ELSE 0]

\* generateMetrics without a previous scan.
FirstScan ==
    /\ reported' = {}
    /\ UNCHANGED <<devInfoMap, total, last, present, since>>

\* Execute
Execute(f) ==
    LET o == Parse(Current, f)
        p == procNetDev[1 - currIndex]
    IN  /\ active
        /\ procNetDev' = [procNetDev EXCEPT ![currIndex] = o]
        /\ IF p = Nil THEN FirstScan ELSE Generate(o, p)
        /\ currIndex' = 1 - currIndex
        /\ file' = f /\ prevFile' = file
        /\ settled' = (file # Nil /\ DOMAIN f = DOMAIN file)
        /\ UNCHANGED active

\* Execute when the file cannot be parsed: the task is not run again.
ExecuteFails ==
    /\ active
    /\ active' = FALSE
    /\ UNCHANGED <<procNetDev, currIndex, devInfoMap, total, histVars>>

Next == ExecuteFails \/ \E f \in Files : Execute(f)

Spec == Init /\ [][Next]_vars
------------------------------------------------------------------------------
TypeOK ==
    /\ active \in BOOLEAN /\ settled \in BOOLEAN
    /\ currIndex \in 0..1
    /\ \A d \in DOMAIN devInfoMap : d \in Devs /\ devInfoMap[d].cycle \in InitialCycleNums
    /\ reported \cup present \subseteq Devs

\* For every device with metrics in the last scan the receiver's last delta is
\* the difference of the last two scans, also for a device that went and came
\* back while another took its place in the count, so that its zero delta of
\* before is still there (proc_net_dev_metrics.go:273-290).
LastSentIsCurrent ==
    /\ prevFile # Nil => reported = DOMAIN file \cap DOMAIN prevFile
    /\ \A d \in reported : last[d] = Delta(file[d], prevFile[d])

\* One scan after the last change of the devices the ones with presence 1 are
\* those of the file, although the guard of the removal compares sizes only
\* (proc_net_dev_metrics.go:304-317).
PresenceIsCurrent == settled => present = DOMAIN file

\* As long as a device has metrics, it has a full set of them once in
\* full_metrics_factor scans (docs/internals.md:105).
FullCycleKept == \A d \in Devs : since[d] < FullPeriod
==============================================================================
