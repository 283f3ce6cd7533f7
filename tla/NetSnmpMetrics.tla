--------------------------- MODULE NetSnmpMetrics ----------------------------
(***************************************************************************)
(* The IP protocol metrics of lsvmi/proc_net_snmp_metrics.go, with the     *)
(* parser procfs/net_snmp_parser.go.  /proc/net/snmp has a header and a    *)
(* data line for each protocol.  The parser keeps from one scan to the     *)
(* next where the values of a data line go, by their place in it, and      *)
(* builds that anew when a header changes: the kernel adds the line        *)
(* IcmpMsg, and variables to it, in the middle of the file, when the first *)
(* message of a type is seen.                                              *)
(***************************************************************************)
EXTENDS PartialMetrics, Sequences, Functions, FiniteSetsExt

CONSTANTS
    Layouts,        \* sequences of headers: records proto and vars, a sequence
    Vars,           \* the variables with an index and a metric
    AsIs,           \* those not sent as a delta, procNetSnmpNonDeltaIndex
    MayBeNegative,  \* those with a sign, NetSnmpValueMayBeNegative
    CounterOf,      \* [Vars -> naturals], the cycle counter of an index
    Nil

VarsOf(layout) == UNION {Range(layout[i].vars) : i \in DOMAIN layout}

\* The contents of /proc/net/snmp.
Files == UNION {[layout : {l}, val : [Vars \cap VarsOf(l) -> 0..(Wrap - 1)]] : l \in Layouts}

\* The value of a variable; one that the kernel does not show is 0.
Value(f, v) == IF v \in DOMAIN f.val THEN f.val[v] ELSE 0

VARIABLES
    active,         \* whether the scheduler keeps the task
    procNetSnmp,    \* the two parser objects: lineInfo, values, or Nil
    currIndex,
    cycleNum,       \* by cycle counter
    zeroDelta,      \* the variables whose last delta was 0
    file, prevFile, \* history: what the last two scans found, or Nil
    since,          \*   scans since a variable was due in full
    last            \* the receiver's last sample by variable, or Nil

histVars == <<file, prevFile, since, last>>
vars == <<active, procNetSnmp, currIndex, cycleNum, zeroDelta, histVars>>

\* NewProcNetSnmpMetrics
Init ==
    /\ active = TRUE
    /\ procNetSnmp = [i \in 0..1 |-> Nil]
    /\ currIndex = 0
    /\ cycleNum \in [Range(CounterOf) -> InitialCycleNums]
    /\ zeroDelta = {}
    /\ file = Nil /\ prevFile = Nil
    /\ since = [v \in Vars |-> 0]
    /\ last = [v \in Vars |-> Nil]

------------------------------------------------------------------------------
(* The parser                                                                *)

NewNetSnmp == [lineInfo |-> <<>>, values |-> [v \in Vars |-> 0]]

Clone(o) == [o EXCEPT !.values = [v \in Vars |-> 0]]

\* The object to parse into.
Current ==
    IF procNetSnmp[currIndex] # Nil THEN procNetSnmp[currIndex]
    ELSE IF procNetSnmp[1 - currIndex] # Nil THEN Clone(procNetSnmp[1 - currIndex])
    ELSE NewNetSnmp

\* A header and, for each place of its data line, the index, or Nil if unmapped.
buildSnmpLineInfo(line) ==
    [line |-> line, indexMap |-> [k \in DOMAIN line.vars |->
                                     IF line.vars[k] \in Vars THEN line.vars[k] ELSE Nil]]

\* The lines whose header is not the one expected.
Unexpected(info, layout) ==
    {i \in DOMAIN info \cap DOMAIN layout : info[i].line # layout[i]}

ExtendedOnly(info, layout) ==
    info \o [i \in 1..(Len(layout) - Len(info)) |-> buildSnmpLineInfo(layout[Len(info) + i])]

\* lineInfo after the headers were read: it is kept up to the first unexpected
\* one, and built from there.
LineInfo(info, layout) ==
    LET kept == IF Unexpected(info, layout) = {} THEN Len(info)
                ELSE Min(Unexpected(info, layout)) - 1
    IN  SubSeq(info, 1, kept) \o
        [i \in 1..(Len(layout) - kept) |-> buildSnmpLineInfo(layout[kept + i])]

\* Whether the data lines have the prefix and the number of values expected.
LinesFit(info, layout) ==
    \A i \in DOMAIN layout : /\ info[i].line.proto = layout[i].proto
                             /\ Len(info[i].indexMap) = Len(layout[i].vars)

\* The values after the data lines of f were read, each by its place.
ParsedValues(info, values, f) ==
    [v \in Vars |->
        LET at == {p \in UNION {{i} \X DOMAIN info[i].indexMap : i \in DOMAIN f.layout} :
                      info[p[1]].indexMap[p[2]] = v}
        IN  IF at = {} THEN values[v]
            ELSE LET p == CHOOSE p \in at : TRUE IN Value(f, f.layout[p[1]].vars[p[2]])]

------------------------------------------------------------------------------
(* generateMetrics                                                           *)

\* The number written for an as-is value: int32 for those with a sign.
Formatted(v, value) ==
    IF v \in MayBeNegative /\ value >= Wrap \div 2 THEN value - Wrap ELSE value

FullCycle(v) == cycleNum[CounterOf[v]] = 0

SentOnChange(v, curr, prev) == prev = Nil \/ curr[v] # prev[v]

\* Whether an as-is value is sent.
SendAsIs(v, curr, prev) == FullCycle(v) \/ prev = Nil \/ curr[v] # prev[v]

\* The values are curr, those of the previous scan prev, or Nil without one.
Generate(curr, prev) ==
    LET delta(v) == Delta(curr[v], prev[v])
        deltas   == IF prev = Nil THEN {} ELSE Vars \ AsIs
        asIs     == {v \in Vars \cap AsIs : SendAsIs(v, curr, prev)}
        changes  == {v \in deltas : SendDelta(FullCycle(v), delta(v), v \in zeroDelta)}
    IN  /\ zeroDelta' = IF prev = Nil THEN zeroDelta ELSE {v \in deltas : delta(v) = 0}
        /\ last' = [v \in Vars |-> IF v \in asIs THEN Formatted(v, curr[v])
                                   ELSE IF v \in changes THEN delta(v) ELSE last[v]]
        /\ since' = [v \in Vars |-> IF prev = Nil \/ (FullCycle(v) /\ v \in asIs \cup changes)
                                    THEN 0 ELSE since[v] + 1]
        /\ cycleNum' = [c \in DOMAIN cycleNum |-> NextCycle(cycleNum[c])]
        /\ currIndex' = 1 - currIndex

\* Variables do not vanish from the file.
Grows(f) == file # Nil => VarsOf(file.layout) \subseteq VarsOf(f.layout)

\* Execute with a well-formed file f.
Execute(f) ==
    LET o    == Current
        info == LineInfo(o.lineInfo, f.layout)
        new  == [lineInfo |-> info, values |-> ParsedValues(info, o.values, f)]
        prev == procNetSnmp[1 - currIndex]
    IN  /\ active
        /\ Grows(f)
        /\ file' = f /\ prevFile' = file
        /\ IF LinesFit(info, f.layout)
           THEN /\ procNetSnmp' = [i \in 0..1 |->
                       IF i = currIndex THEN new
                       ELSE IF prev # Nil /\ Unexpected(o.lineInfo, f.layout) # {}
                       THEN [prev EXCEPT !.lineInfo = info]     \* UpdateInfo
                       ELSE prev]
                /\ Generate(new.values, IF prev = Nil THEN Nil ELSE prev.values)
                /\ UNCHANGED active
           ELSE /\ active' = FALSE
                /\ UNCHANGED <<procNetSnmp, currIndex, cycleNum, zeroDelta, since, last>>

\* Execute when the file cannot be read or is malformed: the task is not run again.
ExecuteFails ==
    /\ active
    /\ active' = FALSE
    /\ file' = Nil
    /\ UNCHANGED <<procNetSnmp, currIndex, cycleNum, zeroDelta, prevFile, since, last>>

Next == ExecuteFails \/ \E f \in Files : Execute(f)

Spec == Init /\ [][Next]_vars
------------------------------------------------------------------------------
TypeOK ==
    /\ active \in BOOLEAN
    /\ currIndex \in 0..1
    /\ \A c \in DOMAIN cycleNum : cycleNum[c] \in InitialCycleNums
    /\ zeroDelta \subseteq Vars \ AsIs
    /\ \A i \in 0..1 : procNetSnmp[i] # Nil => procNetSnmp[i].values \in [Vars -> 0..(Wrap - 1)]

\* Every value ends up in its own metric, also in the scans in which a line or a
\* variable is inserted before it: the last samples are the values or deltas of the
\* last scan, although only changes are sent between full sets.  A well-formed file
\* never ends the task (net_snmp_parser.go:349-391, proc_net_snmp_metrics.go:388-420).
LastSentIsCurrent ==
    /\ ~active => file = Nil
    /\ active /\ file # Nil => \A v \in Vars \cap AsIs : last[v] = Formatted(v, Value(file, v))
    /\ active /\ prevFile # Nil =>
          \A v \in Vars \ AsIs : last[v] = Delta(Value(file, v), Value(prevFile, v))

\* Every variable, as-is or delta, is sent once in full_metrics_factor scans,
\* whichever cycle counter it shares with others (proc_net_snmp_metrics.go:112-120).
FullCycleKept == \A v \in Vars : since[v] < FullPeriod
==============================================================================
