---------------------------- MODULE QdiscMetrics -----------------------------
(***************************************************************************)
(* The queueing discipline metrics of lsvmi/qdisc_metrics.go, with the     *)
(* netlink parser qdisc/qdisc_parser_linux.go.                             *)
(*                                                                         *)
(* The kernel's dump identifies an interface by index; its name comes from *)
(* a cache that the two parser objects share and that is refreshed every   *)
(* minute or on a miss.  A key stands for an (interface, handle), one      *)
(* counter and one value for those of a qdisc, and kind for what else is   *)
(* in the labels, the kind and the parent.                                 *)
(***************************************************************************)
EXTENDS PartialMetrics, FiniteSets, Functions

CONSTANTS
    Keys, Names, Kinds,
    Unnamed,        \* the empty interface name
    Counts,         \* the counters and the values
    Repeats,        \* how many messages of a dump may repeat a key
    Nil

Dumps == UNION {[S -> [name : Names, kind : Kinds, cnt : Counts, val : Counts]] : S \in SUBSET Keys}

VARIABLES
    active,         \* whether the scheduler keeps the task
    qdiscStats,     \* the Info of the two parser objects, or Nil
    currIndex,
    ifNames,        \* ifIndexToNameCache, or Nil before the first refresh
    info,           \* qdiscMetricsInfoMap: cycle number, zero delta and labels
    total,          \* totalMetricsCount: the qdiscs it counts, or Nil
    dump, prevDump, \* history: what the last two scans found, or Nil
    reported,       \*   the qdiscs with metrics in the last scan
    since,          \*   such scans since a qdisc's last full set
    settled,        \*   scans since the last that found other qdiscs, at most 3
    last,           \* the receiver's last values of a qdisc
    present         \* the labels of a qdisc with presence 1

histVars == <<dump, prevDump, reported, since, settled, last, present>>
vars == <<active, qdiscStats, currIndex, ifNames, info, total, histVars>>

Init ==
    /\ active = TRUE
    /\ qdiscStats = [i \in 0..1 |-> Nil]
    /\ currIndex = 0
    /\ ifNames = Nil /\ info = <<>> /\ total = Nil
    /\ dump = Nil /\ prevDump = Nil
    /\ reported = {} /\ settled = 0
    /\ since = [k \in Keys |-> 0]
    /\ last = [k \in Keys |-> Nil]
    /\ present = [k \in Keys |-> {}]

------------------------------------------------------------------------------
\* The object to parse into: the one of two scans ago, a clone with zeroes, or
\* a new one.
Current ==
    IF qdiscStats[currIndex] # Nil THEN qdiscStats[currIndex]
    ELSE IF qdiscStats[1 - currIndex] # Nil
    THEN [k \in DOMAIN qdiscStats[1 - currIndex] |->
             [qdiscStats[1 - currIndex][k] EXCEPT !.cnt = 0, !.val = 0]]
    ELSE <<>>

\* ifIndexToNameCacheRefresh: entries are added and replaced, never removed.
Refreshed(names, f) ==
    [k \in DOMAIN names \cup DOMAIN f |-> IF k \in DOMAIN f THEN f[k].name ELSE names[k]]

\* The cache at the beginning of a scan, due telling that a minute has passed.
NamesAtScan(f, due) ==
    IF ifNames = Nil THEN Refreshed(<<>>, f) ELSE IF due THEN Refreshed(ifNames, f) ELSE ifNames

\* The new qdiscs whose interface is not in the cache.
Missing(o, f, names) == DOMAIN f \ (DOMAIN o \cup DOMAIN names)

NamesAfter(o, f, due) ==
    LET names == NamesAtScan(f, due) IN
    IF Missing(o, f, names) # {} THEN Refreshed(names, f) ELSE names

\* The first new qdisc of an interface that is missing causes a refresh, and is
\* left without a name; a known one has its name verified at a regular refresh.
IfName(o, f, due, first, k) ==
    IF k \in DOMAIN o
    THEN IF due \/ ifNames = Nil THEN NamesAtScan(f, due)[k] ELSE o[k].name
    ELSE IF k = first THEN Unnamed ELSE NamesAfter(o, f, due)[k]

RemovedIfMore(o, f, repeated) ==
    IF Cardinality(DOMAIN f) + repeated > Cardinality(DOMAIN o \cup DOMAIN f)
    THEN DOMAIN o \ DOMAIN f ELSE {}

\* "Remove out-of-scope qdiscs as needed"
Removed(o, f, repeated) ==
    IF Cardinality(DOMAIN f) + repeated # Cardinality(DOMAIN o \cup DOMAIN f)
    THEN DOMAIN o \ DOMAIN f ELSE {}

Parse(o, f, due, first, repeated) ==
    [k \in (DOMAIN o \ Removed(o, f, repeated)) \cup DOMAIN f |->
        IF k \in DOMAIN f THEN [f[k] EXCEPT !.name = IfName(o, f, due, first, k)] ELSE o[k]]

------------------------------------------------------------------------------
Labels(qi) == <<qi.name, qi.kind>>

\* "Sanity check that no info has changed ...; if it did then the metrics will
\* have to be regenerated"
Regenerate(o, p, k) == k \notin DOMAIN info \/ Labels(o[k]) # Labels(p[k])

FullMetrics(o, p, k) == Regenerate(o, p, k) \/ info[k].cycle = 0

\* updateQdiscMetricsInfo
QdiscInfo(o, p, k, first) ==
    IF Regenerate(o, p, k) THEN [cycle |-> first, zero |-> FALSE, labels |-> Labels(o[k])]
    ELSE info[k]

PresenceKept(o, p, k, labels) == present[k] \cup {labels}

\* The presence metrics of a full set; "Clear the prev presence metric" when
\* they are regenerated.
PresenceSent(o, p, k, labels) ==
    (IF Regenerate(o, p, k) /\ k \in DOMAIN info
     THEN present[k] \ {info[k].labels} ELSE present[k]) \cup {labels}

NoneCleared(o, data) == {}

\* "Clear out-of-scope qdiscs as needed"
Cleared(o, data) ==
    IF Cardinality(DOMAIN data) # Cardinality(DOMAIN o) THEN DOMAIN data \ DOMAIN o ELSE {}

\* generateMetrics for the current object o, the previous one being p.
Generate(o, p) ==
    LET both == DOMAIN o \cap DOMAIN p
        full == {k \in both : FullMetrics(o, p, k)}
        delta(k) == Delta(o[k].cnt, p[k].cnt)
    IN  \E cyc \in [both -> InitialCycleNums] :
        LET qi(k) == QdiscInfo(o, p, k, cyc[k])
            data == [k \in DOMAIN info \cup both |->
                        IF k \notin both THEN info[k]
                        ELSE [qi(k) EXCEPT !.cycle = NextCycle(@), !.zero = (delta(k) = 0)]]
            clear == Cleared(o, data)
        IN  /\ \A k \in both : ~Regenerate(o, p, k) => cyc[k] = 0
            /\ info' = Restrict(data, DOMAIN data \ clear)
            /\ total' = IF total = Nil THEN Cardinality(DOMAIN o) ELSE total
            /\ reported' = both
            /\ last' = [k \in Keys |->
                   IF k \notin both THEN last[k]
                   ELSE LET was == IF last[k] = Nil THEN [delta |-> Nil, val |-> Nil] ELSE last[k] IN
                        [delta |-> IF SendDelta(k \in full, delta(k), qi(k).zero)
                                   THEN delta(k) ELSE was.delta,
                         val |-> IF k \in full \/ o[k].val # p[k].val THEN o[k].val ELSE was.val]]
            /\ present' = [k \in Keys |->
                   IF k \in clear THEN present[k] \ {data[k].labels}
                   ELSE IF k \in full THEN PresenceSent(o, p, k, qi(k).labels) ELSE present[k]]
            /\ since' = [k \in Keys |-> IF k \in both \ full THEN since[k] + 1 ELSE 0]

\* generateMetrics without a previous scan.
FirstScan ==
    /\ reported' = {}
    /\ UNCHANGED <<info, total, last, present, since>>

\* Execute
Execute(f, due, repeated) ==
    LET p == qdiscStats[1 - currIndex]
        missing == Missing(Current, f, NamesAtScan(f, due))
    IN  \E first \in IF missing = {} THEN {Nil} ELSE missing :
        LET o == Parse(Current, f, due, first, repeated) IN
        /\ active
        /\ repeated > 0 => DOMAIN f # {}
        /\ qdiscStats' = [qdiscStats EXCEPT ![currIndex] = o]
        /\ ifNames' = NamesAfter(Current, f, due)
        /\ IF p = Nil THEN FirstScan ELSE Generate(o, p)
        /\ currIndex' = 1 - currIndex
        /\ dump' = f /\ prevDump' = dump
        /\ settled' = IF dump = Nil THEN 0 ELSE IF DOMAIN f # DOMAIN dump THEN 0
                      ELSE IF settled < 3 THEN settled + 1 ELSE 3
        /\ UNCHANGED active

\* Execute when the request or a refresh fails: the task is not run again.
ExecuteFails ==
    /\ active
    /\ active' = FALSE
    /\ UNCHANGED <<qdiscStats, currIndex, ifNames, info, total, histVars>>

Next ==
    \/ ExecuteFails
    \/ \E f \in Dumps, due \in BOOLEAN, repeated \in Repeats : Execute(f, due, repeated)

Spec == Init /\ [][Next]_vars
------------------------------------------------------------------------------
TypeOK ==
    /\ active \in BOOLEAN /\ settled \in 0..3
    /\ currIndex \in 0..1
    /\ \A k \in DOMAIN info : k \in Keys /\ info[k].cycle \in InitialCycleNums
    /\ reported \subseteq Keys

\* For every qdisc with metrics in the last scan, also one whose labels changed,
\* the receiver's last delta is the difference of the last two scans and its last
\* value the current one (qdisc_metrics.go:318-369).
LastSentIsCurrent ==
    /\ prevDump # Nil => reported = DOMAIN dump \cap DOMAIN prevDump
    /\ \A k \in reported :
           last[k] = [delta |-> Delta(dump[k].cnt, prevDump[k].cnt), val |-> dump[k].val]

\* A qdisc has one presence metric at 1 at most: when its interface is renamed,
\* or its kind or parent changes, the former one is set to 0
\* (qdisc_metrics.go:300-311, 371-376).
OnePresent == \A k \in Keys : \A x, y \in present[k] : x = y

\* One scan after the last change of the qdiscs those with presence 1 are the
\* ones of the dump ("presence (value `1`) or disappearance (value `0`) of a
\* qdisc", docs/qdisc_metrics.md:83), although the removal from the parser object and the one
\* from the map compare sizes first (qdisc_metrics.go:384-396,
\* qdisc_parser_linux.go:204-212).
PresenceIsCurrent ==
    settled >= 1 => \A k \in Keys : present[k] # {} <=> k \in DOMAIN dump

\* As long as a qdisc has metrics, it has a full set of them once in
\* full_metrics_factor scans (docs/internals.md:105).
FullCycleKept == \A k \in Keys : since[k] < FullPeriod
==============================================================================
