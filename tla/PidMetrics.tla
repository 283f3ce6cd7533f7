----------------------------- MODULE PidMetrics ------------------------------
(***************************************************************************)
(* The metrics of processes and threads, lsvmi/proc_pid_metrics.go with    *)
(* procfs/pid_{stat,status,cmdline}_parser.go.                             *)
(*                                                                         *)
(* The previous state of a process is kept in a parser of its own; the     *)
(* current one is read into the one unbound parser, which is exchanged for *)
(* it once metrics are generated ("musical chairs").  A parser stands for  *)
(* the pair for stat and status.  Their fields are abstracted to a state,  *)
(* a comm, the CPU time, one other counter and one memory size.  Kernel    *)
(* threads have no memory and no command line; a process loses both when   *)
(* it ends, and is a zombie until its parent has waited for it.  The list  *)
(* in which Execute keeps the entries, and the reuse of a PID between two  *)
(* scans, are in PidMetricsCache.                                          *)
(*                                                                         *)
(* `sent' is what a receiver knows of a process from the metrics sent      *)
(* since its entry was made: the categorical series that are 1, the last   *)
(* value of the others.                                                    *)
(***************************************************************************)
EXTENDS PartialMetrics

CONSTANTS
    Pids,
    KernelThreads,  \* those without memory and without a command line
    States, Comms, Sizes,
    Zombie,         \* the state of a process that has ended
    Cmds,           \* command lines of the other processes
    CpuTimes,       \* used so far, of which it only matters if they are the same
    Parsers,
    Nil

Counts == 0..(Wrap - 1)

\* What the files of a process may have; one may also have emptied its command line.
Files(p) ==
    IF p \in KernelThreads
    THEN [state : States \ {Zombie}, comm : Comms, cpu : CpuTimes, flt : Counts,
          mem : {Nil}, cmd : {Nil}]
    ELSE [state : States \ {Zombie}, comm : Comms, cpu : CpuTimes, flt : Counts,
          mem : Sizes, cmd : Cmds \cup {Nil}] \cup
         [state : States \cap {Zombie}, comm : Comms, cpu : CpuTimes, flt : Counts,
          mem : {Nil}, cmd : {Nil}]

NoData == [state |-> Nil, comm |-> Nil, cpu |-> Nil, flt |-> 0, mem |-> Nil, cmd |-> Nil]

VARIABLES
    todo,       \* the PIDs that the loop of Execute has yet to see; Nil: no scan
    unbound,    \* pidStat and pidStatus of the generator
    data,       \* the contents of the parsers
    info,       \* pidTidMetricsInfo: an entry or Nil for every PID
    fresh,      \* the PIDs whose entry has the current scanNum
    sent,       \* see above
    gen,        \* history: the files of a process when it last had metrics
    first,      \*   and when it had them for the first time
    size,       \*   the last memory size that it had at such a scan
    since       \*   scans since its last full set

vars == <<todo, unbound, data, info, fresh, sent, gen, first, size, since>>

NothingSent == [state |-> {}, comm |-> {}, cmd |-> {}, mem |-> Nil, flt |-> Nil, total |-> 0]

Init ==
    /\ todo = Nil
    /\ unbound = CHOOSE x \in Parsers : TRUE
    /\ data = [x \in Parsers |-> NoData]
    /\ info = [p \in Pids |-> Nil]
    /\ fresh = {}
    /\ sent = [p \in Pids |-> NothingSent]
    /\ gen = [p \in Pids |-> NoData]
    /\ first = [p \in Pids |-> 0]
    /\ size = [p \in Pids |-> Nil]
    /\ since = [p \in Pids |-> 0]

ParsersOf(S) == {info[p].parser : p \in {q \in S : info[q] # Nil}}

\* What the files of p may have next: a zombie stays one.
FilesNow(p) == {f \in Files(p) : gen[p].state = Zombie => f.state = Zombie}

------------------------------------------------------------------------------
\* PID/stat has all fields of f.
ParseStat(d, f) == [d EXCEPT !.state = f.state, !.comm = f.comm, !.cpu = f.cpu, !.flt = f.flt]

StatusKept(d, f) == IF f.mem = Nil THEN d ELSE [d EXCEPT !.mem = f.mem]

\* PID/status: a field that is missing is cleared.
ParseStatus(d, f) == [d EXCEPT !.mem = f.mem]

\* Whether the process has used CPU, c and old being its data now and before.
Active(c, old) == c.cpu # old.cpu

CategoricalKeeps(on, new, old, full) ==
    IF full \/ old # new THEN on \cup {new} ELSE on

\* A categorical series: the old value, if there is one, is set to 0.
Categorical(on, new, old, full) ==
    IF old # Nil /\ old # new THEN (on \ {old}) \cup {new}
    ELSE IF full \/ old = Nil THEN on \cup {new} ELSE on

\* The command line series, sent in full cycles only; a process without one
\* shows its comm.
Cmdline(on, f, old, full) ==
    IF ~(full \/ old = Nil) THEN on
    ELSE IF f.cmd # Nil THEN on \cup {f.cmd}
    ELSE Categorical(on, f.comm, old, TRUE)

\* generateMetrics with a previous state old, in the entry's parser.
GenerateWithPrev(s, f, c, old, zero, full) ==
    LET delta == Delta(c.flt, old.flt)
        send  == SendDelta(full, delta, zero)
    IN  [state |-> Categorical(s.state, c.state, old.state, full),
         comm  |-> Categorical(s.comm, c.comm, old.comm, full),
         cmd   |-> Cmdline(s.cmd, f, old.comm, full),
         mem   |-> IF c.mem # Nil /\ (full \/ c.mem # old.mem) THEN c.mem ELSE s.mem,
         flt   |-> IF send THEN delta ELSE s.flt,
         total |-> IF send THEN (s.total + delta) % Wrap ELSE s.total]

\* generateMetrics of a new process: no deltas.
GenerateNew(f, c) ==
    [NothingSent EXCEPT !.state = {c.state}, !.comm = {c.comm},
                        !.cmd = Cmdline({}, f, Nil, TRUE), !.mem = c.mem]

------------------------------------------------------------------------------
BeginScan(list) ==
    /\ todo = Nil
    /\ todo' = list
    /\ fresh' = {}
    /\ UNCHANGED <<unbound, data, info, sent, gen, first, size, since>>

\* Entries go, and their parsers with them; what was sent is history.
Forget(S) ==
    /\ info' = [p \in Pids |-> IF p \in S THEN Nil ELSE info[p]]
    /\ data' = [x \in Parsers |-> IF x \in ParsersOf(S) THEN NoData ELSE data[x]]
    /\ sent' = [p \in Pids |-> IF p \in S THEN NothingSent ELSE sent[p]]
    /\ gen' = [p \in Pids |-> IF p \in S THEN NoData ELSE gen[p]]
    /\ first' = [p \in Pids |-> IF p \in S THEN 0 ELSE first[p]]
    /\ size' = [p \in Pids |-> IF p \in S THEN Nil ELSE size[p]]
    /\ since' = [p \in Pids |-> IF p \in S THEN 0 ELSE since[p]]

\* One of the files cannot be parsed; what the unbound parser has then is not
\* used again.
ParseError(p) ==
    /\ todo # Nil /\ p \in todo
    /\ todo' = todo \ {p}
    /\ Forget({p})
    /\ UNCHANGED <<unbound, fresh>>

\* The iteration for a process that has been inactive and is so again.
Skip(p, f) ==
    LET c == ParseStat(data[unbound], f)
    IN  /\ todo # Nil /\ p \in todo /\ info[p] # Nil
        /\ ~Active(c, data[info[p].parser])
        /\ info[p].cycle # 0 /\ ~info[p].active
        /\ data' = [data EXCEPT ![unbound] = c]
        /\ info' = [info EXCEPT ![p].cycle = NextCycle(@)]
        /\ since' = [since EXCEPT ![p] = @ + 1]
        /\ todo' = todo \ {p} /\ fresh' = fresh \cup {p}
        /\ UNCHANGED <<unbound, sent, gen, first, size>>

SwapForgotten(p) == unbound

\* The parser that the generator has after the exchange with p's entry.
Swap(p) == info[p].parser

\* The iteration for a known process that is active, was, or is due in full.
Update(p, f) ==
    LET c    == ParseStatus(ParseStat(data[unbound], f), f)
        old  == data[info[p].parser]
        full == info[p].cycle = 0
    IN  /\ todo # Nil /\ p \in todo /\ info[p] # Nil
        /\ Active(c, old) \/ full \/ info[p].active
        /\ sent' = [sent EXCEPT ![p] = GenerateWithPrev(@, f, c, old, info[p].zero, full)]
        /\ data' = [data EXCEPT ![unbound] = c]
        /\ unbound' = Swap(p)
        /\ info' = [info EXCEPT ![p] =
               [parser |-> unbound, active |-> Active(c, old), cycle |-> NextCycle(@.cycle),
                zero |-> Delta(c.flt, old.flt) = 0]]
        /\ since' = [since EXCEPT ![p] = IF full THEN 0 ELSE @ + 1]
        /\ gen' = [gen EXCEPT ![p] = f]
        /\ size' = [size EXCEPT ![p] = IF f.mem = Nil THEN @ ELSE f.mem]
        /\ todo' = todo \ {p} /\ fresh' = fresh \cup {p}
        /\ UNCHANGED first

\* The iteration for a new process, which gets a new parser.
New(p, f, x, cycle) ==
    LET c == ParseStatus(ParseStat(data[unbound], f), f)
    IN  /\ todo # Nil /\ p \in todo /\ info[p] = Nil
        /\ sent' = [sent EXCEPT ![p] = GenerateNew(f, c)]
        /\ data' = [data EXCEPT ![unbound] = c, ![x] = NoData]
        /\ unbound' = x
        /\ info' = [info EXCEPT ![p] =
               [parser |-> unbound, active |-> TRUE, cycle |-> NextCycle(cycle), zero |-> FALSE]]
        /\ since' = [since EXCEPT ![p] = 0]
        /\ gen' = [gen EXCEPT ![p] = f]
        /\ first' = [first EXCEPT ![p] = f.flt]
        /\ size' = [size EXCEPT ![p] = f.mem]
        /\ todo' = todo \ {p} /\ fresh' = fresh \cup {p}

\* The removal of the outdated entries and the end of Execute.
EndScan ==
    /\ todo = {}
    /\ todo' = Nil
    /\ Forget(Pids \ fresh)
    /\ UNCHANGED <<unbound, fresh>>

Next ==
    \/ \E list \in SUBSET Pids : BeginScan(list)
    \/ \E p \in Pids :
         \/ ParseError(p)
         \/ \E f \in FilesNow(p) :
              \/ Skip(p, f)
              \/ Update(p, f)
              \/ \E x \in Parsers \ (ParsersOf(Pids) \cup {unbound}), cycle \in InitialCycleNums :
                   New(p, f, x, cycle)
    \/ EndScan

Spec == Init /\ [][Next]_vars
------------------------------------------------------------------------------
TypeOK ==
    /\ todo \in {Nil} \cup SUBSET Pids
    /\ unbound \in Parsers
    /\ DOMAIN data = Parsers
    /\ \A p \in Pids :
         info[p] \in {Nil} \cup
             [parser : Parsers, active : BOOLEAN, cycle : InitialCycleNums, zero : BOOLEAN]
    /\ fresh \subseteq Pids
    /\ \A p \in Pids : sent[p].state \subseteq States /\ sent[p].comm \subseteq Comms
    /\ \A p \in Pids : gen[p] \in {NoData} \cup Files(p) /\ first[p] \in Counts

\* Musical chairs: no two processes share a parser, none has the unbound one,
\* and the parser of a process holds what its files had when it last had
\* metrics, not what another process left there
\* (proc_pid_metrics.go:229-237, 1321-1325).
OwnParser ==
    \A p \in Pids : info[p] # Nil =>
        /\ info[p].parser # unbound
        /\ \A q \in Pids : info[q] # Nil /\ info[q].parser = info[p].parser => q = p
        /\ [data[info[p].parser] EXCEPT !.cmd = gen[p].cmd] = gen[p]

\* No page fault is lost or counted twice, although scans are skipped while a
\* process is inactive: the deltas sent add up to the counter's change, modulo
\* its width (proc_pid_metrics.go:894-908, 1262-1284).
DeltasAddUp ==
    \A p \in Pids : info[p] # Nil => sent[p].total = Delta(gen[p].flt, first[p])

\* The state and the comm of a process have exactly one series at 1, that of the
\* value when metrics were last generated.  The memory size is the last one that the
\* process itself had, never one that another left in the parser: a process that
\* ends keeps it, as a zombie has no size and a missing field is skipped.  After a
\* full set the command line is shown too, or the comm where there is none.  That
\* the series of former command lines are set to 0 is not claimed: they are not
\* (proc_pid_metrics.go:760-814, 871-891, 1061-1066, 1123-1135; docs/internals.md,
\* "Pseudo-categorical").
OneCategory ==
    \A p \in Pids : info[p] # Nil =>
        /\ sent[p].state = {gen[p].state}
        /\ sent[p].comm = {gen[p].comm}
        /\ sent[p].mem = size[p]
        /\ since[p] = 0 =>
             (IF gen[p].cmd # Nil THEN gen[p].cmd ELSE gen[p].comm) \in sent[p].cmd

\* An inactive process has its full set of metrics once in full_metrics_factor
\* scans, counting the scans that skip it (proc_pid_metrics.go:1249, 1265-1268).
FullCycleKept == \A p \in Pids : since[p] < FullPeriod
==============================================================================
