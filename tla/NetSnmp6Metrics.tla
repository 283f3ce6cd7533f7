--------------------------- MODULE NetSnmp6Metrics ---------------------------
(***************************************************************************)
(* The IPv6 metrics of lsvmi/proc_net_snmp6_metrics.go, with the parser    *)
(* procfs/net_snmp6_parser.go.  /proc/net/snmp6 has one variable a line.   *)
(* The names are those of the first scan for good: another one, or one     *)
(* more or less, is an error that ends the task.  Some of the counters     *)
(* have 32 bits, the others 64.                                            *)
(***************************************************************************)
EXTENDS PartialMetrics, Sequences, Functions

CONSTANTS
    Layouts,        \* sequences of the names in the file
    Vars,           \* the variables with an index and a metric
    Uint32,         \* those with 32 bits, the table netSnmp6IsUint32
    Wrap32,         \* the modulus of those, below Wrap
    CounterOf,      \* [Vars -> naturals], the cycle counter of an index
    Nil

WrapOf(v) == IF v \in Uint32 THEN Wrap32 ELSE Wrap

\* The contents of /proc/net/snmp6.
Files ==
    UNION {{[layout |-> l, val |-> val] :
               val \in {g \in [Vars \cap Range(l) -> 0..(Wrap - 1)] :
                           \A v \in DOMAIN g : g[v] < WrapOf(v)}} : l \in Layouts}

\* The value of a variable; one that the kernel does not show is 0.
Value(f, v) == IF v \in DOMAIN f.val THEN f.val[v] ELSE 0

VARIABLES
    active,         \* whether the scheduler keeps the task
    procNetSnmp6,   \* the two parser objects: lineInfo, values, isUint32, or Nil
    currIndex,
    cycleNum,       \* by cycle counter
    zeroDelta,      \* the variables whose last delta was 0
    file, prevFile, \* history: what the last two scans found, or Nil
    since,          \*   scans since a variable was due in full
    last            \* the receiver's last delta by variable, or Nil

histVars == <<file, prevFile, since, last>>
vars == <<active, procNetSnmp6, currIndex, cycleNum, zeroDelta, histVars>>

\* NewProcNetSnmp6Metrics
Init ==
    /\ active = TRUE
    /\ procNetSnmp6 = [i \in 0..1 |-> Nil]
    /\ currIndex = 0
    /\ cycleNum \in [Range(CounterOf) -> InitialCycleNums]
    /\ zeroDelta = {}
    /\ file = Nil /\ prevFile = Nil
    /\ since = [v \in Vars |-> 0]
    /\ last = [v \in Vars |-> Nil]

------------------------------------------------------------------------------
(* The parser                                                                *)

\* NewNetSnmp6: the copy has the table as its destination and the new object's
\* flags, which are all false, as its source.
NewNetSnmp6 == [lineInfo |-> <<>>, values |-> [v \in Vars |-> 0], isUint32 |-> {}]

\* Clone: the same copy, to the object cloned, whose flags are all false as well.
Clone(o) == [o EXCEPT !.values = [v \in Vars |-> 0], !.isUint32 = {}]

\* The object to parse into.
Current ==
    IF procNetSnmp6[currIndex] # Nil THEN procNetSnmp6[currIndex]
    ELSE IF procNetSnmp6[1 - currIndex] # Nil THEN Clone(procNetSnmp6[1 - currIndex])
    ELSE NewNetSnmp6

NoneVanished(o, layout) == o.lineInfo = <<>> \/ Len(o.lineInfo) <= Len(layout)

\* "invalid name, not seen before", "unexpected number of variables"
Expected(o, layout) == o.lineInfo = <<>> \/ o.lineInfo = layout

\* lineInfo is built by the first scan; the values go where it says, line by line.
Parse(o, f) ==
    LET info == IF o.lineInfo = <<>> THEN f.layout ELSE o.lineInfo
        at(v) == {i \in DOMAIN info \cap DOMAIN f.layout : info[i] = v}
    IN  [o EXCEPT
           !.lineInfo = info,
           !.values = [v \in Vars |->
               IF at(v) = {} THEN o.values[v]
               ELSE Value(f, f.layout[CHOOSE i \in at(v) : TRUE])]]

------------------------------------------------------------------------------
(* generateMetrics                                                           *)

FullCycle(v) == cycleNum[CounterOf[v]] = 0

\* "Compensate for rollover explicitly"
Compensated(v, curr, prev) ==
    IF v \in curr.isUint32 /\ curr.values[v] < prev.values[v]
    THEN curr.values[v] + Wrap32 ELSE curr.values[v]

Generate(curr, prev) ==
    LET delta(v) == Delta(Compensated(v, curr, prev), prev.values[v])
        sent == {v \in Vars : SendDelta(FullCycle(v), delta(v), v \in zeroDelta)}
    IN  /\ zeroDelta' = {v \in Vars : delta(v) = 0}
        /\ last' = [v \in Vars |-> IF v \in sent THEN delta(v) ELSE last[v]]
        /\ since' = [v \in Vars |-> IF FullCycle(v) /\ v \in sent THEN 0 ELSE since[v] + 1]

\* generateMetrics without a previous scan: only the cycle counters move on.
FirstScan == UNCHANGED <<zeroDelta, last, since>>

\* Variables do not vanish from the file.
Grows(f) == file # Nil => Range(file.layout) \subseteq Range(f.layout)

\* Execute with a well-formed file f.
Execute(f) ==
    LET new  == Parse(Current, f)
        prev == procNetSnmp6[1 - currIndex]
    IN  /\ active
        /\ Grows(f)
        /\ file' = f /\ prevFile' = file
        /\ IF Expected(Current, f.layout)
           THEN /\ procNetSnmp6' = [procNetSnmp6 EXCEPT ![currIndex] = new]
                /\ IF prev = Nil THEN FirstScan ELSE Generate(new, prev)
                /\ cycleNum' = [c \in DOMAIN cycleNum |-> NextCycle(cycleNum[c])]
                /\ currIndex' = 1 - currIndex
                /\ UNCHANGED active
           ELSE /\ active' = FALSE
                /\ UNCHANGED <<procNetSnmp6, currIndex, cycleNum, zeroDelta, since, last>>

\* Execute when the file cannot be read or is malformed: the task is not run again.
ExecuteFails ==
    /\ active
    /\ active' = FALSE
    /\ UNCHANGED <<procNetSnmp6, currIndex, cycleNum, zeroDelta, histVars>>

Next == ExecuteFails \/ \E f \in Files : Execute(f)

Spec == Init /\ [][Next]_vars
------------------------------------------------------------------------------
TypeOK ==
    /\ active \in BOOLEAN
    /\ currIndex \in 0..1
    /\ \A c \in DOMAIN cycleNum : cycleNum[c] \in InitialCycleNums
    /\ zeroDelta \subseteq Vars
    /\ \A i \in 0..1 : procNetSnmp6[i] # Nil => procNetSnmp6[i].values \in [Vars -> 0..(Wrap - 1)]

\* Every delta ends up in its own metric and is that of the last two scans, modulo
\* 2^64, whatever lines the kernel adds and although repeated zeros are not sent;
\* those of the 32-bit counters as long as these do not roll over
\* (net_snmp6_parser.go:357-383, proc_net_snmp6_metrics.go:403-425).
LastSentIsCurrent ==
    active /\ prevFile # Nil =>
        \A v \in Vars : v \notin Uint32 \/ Value(file, v) >= Value(prevFile, v) =>
            last[v] = Delta(Value(file, v), Value(prevFile, v))

\* The delta of a 32-bit counter is right when it rolls over as well: "Compensate
\* for rollover explicitly" (proc_net_snmp6_metrics.go:405-408).
RolloverCompensated ==
    active /\ prevFile # Nil =>
        \A v \in Uint32 \cap Vars :
            last[v] = (Value(file, v) - Value(prevFile, v)) % Wrap32

\* Every variable is sent once in full_metrics_factor scans, whichever cycle
\* counter it shares with others (proc_net_snmp6_metrics.go:133-141).
FullCycleKept == \A v \in Vars : since[v] < FullPeriod
==============================================================================
