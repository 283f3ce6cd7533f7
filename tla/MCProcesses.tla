----------------------------- MODULE MCProcesses -----------------------------
(***************************************************************************)
(* The parts of the process metrics for TLC: the list of processes that    *)
(* the tasks share, the cache of entries of a task, and the metrics that   *)
(* a task generates from them.  A task touches its cache and its parsers   *)
(* only after GetPidTidList has returned its own copy of the list, so each *)
(* part is checked alone: the variable part names it, and its instance.    *)
(* With them the metrics of the importer's own process, which a task of    *)
(* its own generates.                                                      *)
(***************************************************************************)
EXTENDS Integers, FiniteSets

CONSTANTS FullMetricsFactor, Wrap, Nil

VARIABLES
    part,
    todo, fresh,                                                            \* a scan
    pc, map, pidOf, next, prev, head, tail, seen,                           \* cache
    unbound, data, info, sent, gen, first, size, since,                     \* metrics
    alive, still, lists, initialized, age, holder, names, readTime, stopped, got,   \* list
    count, stats, currIndex, ticks, pidStat, pidIndex, container, genStats,         \* internal
    osCycle, step, scans, snapped, parsed, updates, sentTicks, sentGen, osSince, own

cacheVars == <<pc, map, pidOf, next, prev, head, tail, seen>>
metricsVars == <<unbound, data, info, sent, gen, first, size, since>>
listVars == <<alive, still, lists, initialized, age, holder, names, readTime, stopped, got>>
internalVars == <<count, stats, currIndex, ticks, pidStat, pidIndex, container, genStats,
                  osCycle, step, scans, snapped, parsed, updates, sentTicks, sentGen,
                  osSince, own>>
vars == <<part, todo, fresh, cacheVars, metricsVars, listVars, internalVars>>

\* Three PIDs; an entry more, as a new one is built while others are in the map.
Cache == INSTANCE PidMetricsCache WITH
    Pids <- {"1", "2", "3"}, Nodes <- {"n1", "n2", "n3", "n4"}, PidReuse <- FALSE

\* A process, which may be a zombie, and a kernel thread; the counters of a process;
\* the states of a thread; the sizes of a process until it has ended.
Chairs == INSTANCE PidMetrics WITH
    Pids <- {"p", "k"}, KernelThreads <- {"k"}, States <- {"R", "Z"}, Zombie <- "Z",
    Comms <- {"c"}, Sizes <- {1}, Cmds <- {"cmd"}, CpuTimes <- {0, 1},
    Parsers <- {"x1", "x2", "x3"}, Wrap <- 1
Counters == INSTANCE PidMetrics WITH
    Pids <- {"p"}, KernelThreads <- {}, States <- {"R"}, Zombie <- "Z",
    Comms <- {"c"}, Sizes <- {1}, Cmds <- {"cmd"}, CpuTimes <- {0, 1},
    Parsers <- {"x1", "x2"}, FullMetricsFactor <- 3, Wrap <- 3
Categories == INSTANCE PidMetrics WITH
    Pids <- {"k"}, KernelThreads <- {"k"}, States <- {"R", "S"}, Zombie <- "Z",
    Comms <- {"c", "d"}, Sizes <- {1}, Cmds <- {"cmd"}, CpuTimes <- {0, 1},
    Parsers <- {"x1", "x2"}, FullMetricsFactor <- 3
Zombies == INSTANCE PidMetrics WITH
    Pids <- {"p"}, KernelThreads <- {}, States <- {"R", "Z"}, Zombie <- "Z",
    Comms <- {"c"}, Sizes <- {1, 2}, Cmds <- {"cmd"}, CpuTimes <- {0, 1},
    Parsers <- {"x1", "x2"}, FullMetricsFactor <- 3

\* Two tasks, with a process each.
List == INSTANCE PidTidList WITH
    NumPart <- 2, Entries <- {1, 2}, Key <- <<1, 2>>, ValidFor <- 1, MaxRead <- 1

\* The statistics of the program's parts; those of a generator, and the CPU time.
InternalDeltas == INSTANCE InternalMetrics WITH
    Tasks <- {"task"}, Compressors <- {"compressor"}, Endpoints <- {"endpoint"},
    Runtime <- {"mallocs"}, Generators <- {},
    Lengths <- {100}, GeneratorsIdle <- FALSE, MaxCount <- 1, MaxScans <- 3,
    FullMetricsFactor <- 1
InternalGenerators == INSTANCE InternalMetrics WITH
    Tasks <- {}, Compressors <- {}, Endpoints <- {}, Runtime <- {}, Generators <- {"generator"},
    Lengths <- {8, 9, 98, 997}, GeneratorsIdle <- FALSE, MaxCount <- 3, MaxScans <- 3,
    FullMetricsFactor <- 3

------------------------------------------------------------------------------
NoCache ==
    /\ pc = Nil /\ map = Nil /\ pidOf = Nil /\ next = Nil /\ prev = Nil /\ head = Nil
    /\ tail = Nil /\ seen = Nil
NoMetrics ==
    /\ unbound = Nil /\ data = Nil /\ info = Nil /\ sent = Nil /\ gen = Nil /\ first = Nil
    /\ size = Nil /\ since = Nil
NoList ==
    /\ alive = Nil /\ still = Nil /\ lists = Nil /\ initialized = Nil /\ age = Nil
    /\ holder = Nil /\ names = Nil /\ readTime = Nil /\ stopped = Nil /\ got = Nil

NoInternal ==
    /\ count = Nil /\ stats = Nil /\ currIndex = Nil /\ ticks = Nil /\ pidStat = Nil /\ pidIndex = Nil
    /\ container = Nil /\ genStats = Nil /\ osCycle = Nil /\ step = Nil /\ scans = Nil
    /\ snapped = Nil /\ parsed = Nil /\ updates = Nil /\ sentTicks = Nil
    /\ sentGen = Nil /\ osSince = Nil /\ own = Nil

Init ==
    \/ /\ part = "cache" /\ Cache!Init
       /\ NoMetrics /\ NoList /\ NoInternal
    \/ /\ \/ part = "chairs" /\ Chairs!Init
          \/ part = "counters" /\ Counters!Init
          \/ part = "categories" /\ Categories!Init
          \/ part = "zombies" /\ Zombies!Init
       /\ NoCache /\ NoList /\ NoInternal
    \/ /\ part = "list" /\ List!Init
       /\ todo = Nil /\ fresh = Nil
       /\ NoCache /\ NoMetrics /\ NoInternal
    \/ /\ \/ part = "internal deltas" /\ InternalDeltas!Init
          \/ part = "internal generators" /\ InternalGenerators!Init
       /\ todo = Nil /\ fresh = Nil
       /\ unbound = Nil /\ data = Nil /\ info = Nil /\ gen = Nil /\ first = Nil
       /\ size = Nil /\ since = Nil
       /\ NoCache /\ NoList

Next ==
    /\ \/ /\ part = "cache" /\ Cache!Next
          /\ UNCHANGED <<metricsVars, listVars, internalVars>>
       \/ /\ \/ part = "chairs" /\ Chairs!Next
             \/ part = "counters" /\ Counters!Next
             \/ part = "categories" /\ Categories!Next
             \/ part = "zombies" /\ Zombies!Next
          /\ UNCHANGED <<cacheVars, listVars, internalVars>>
       \/ /\ part = "list" /\ List!Next
          /\ UNCHANGED <<todo, fresh, cacheVars, metricsVars, internalVars>>
       \/ /\ \/ part = "internal deltas" /\ InternalDeltas!Next
             \/ part = "internal generators" /\ InternalGenerators!Next
          /\ UNCHANGED <<todo, fresh, cacheVars, listVars, unbound, data, info, gen, first,
                         size, since>>
    /\ UNCHANGED part

Spec == Init /\ [][Next]_vars

------------------------------------------------------------------------------
\* The part that is checked is in a state of its types.
TypeOK ==
    /\ part = "cache" => Cache!TypeOK
    /\ part = "chairs" => Chairs!TypeOK
    /\ part = "counters" => Counters!TypeOK
    /\ part = "categories" => Categories!TypeOK
    /\ part = "zombies" => Zombies!TypeOK
    /\ part = "list" => List!TypeOK
    /\ part = "internal deltas" => InternalDeltas!TypeOK
    /\ part = "internal generators" => InternalGenerators!TypeOK

\* Between any two iterations of the loops of Execute the LRU list is the cache: the
\* same entries, each once, in both directions, those that the scan has not seen
\* before those that it has, so that the removal may stop at the first of these.
\* Between scans the cache has exactly the processes that the last one parsed
\* (proc_pid_metrics.go:262-267, 276-279, 1211-1223, 1339-1360).
CacheKept ==
    part = "cache" => Cache!ListIsCache /\ Cache!OutdatedFirst /\ Cache!CacheIsCurrent

\* No two processes share a parser, and that of a process has what its files had
\* when its metrics were last generated (proc_pid_metrics.go:229-237, 1321-1325).
OwnParser ==
    /\ part = "chairs" => Chairs!OwnParser
    /\ part = "counters" => Counters!OwnParser
    /\ part = "categories" => Categories!OwnParser
    /\ part = "zombies" => Zombies!OwnParser

\* The deltas sent add up, although scans of an inactive process are skipped
\* (proc_pid_metrics.go:894-908, 1262-1284).
DeltasAddUp ==
    /\ part = "counters" => Counters!DeltasAddUp
    /\ part = "zombies" => Zombies!DeltasAddUp

\* The state and the comm of a process have one series at 1, that of its current
\* value, and its memory size is the last it had itself, also once it is a zombie
\* (proc_pid_metrics.go:760-814, 871-891, 1061-1066).  Former command lines are not
\* set to 0 and are not part of this.
OneCategory ==
    /\ part = "chairs" => Chairs!OneCategory
    /\ part = "categories" => Categories!OneCategory
    /\ part = "zombies" => Zombies!OneCategory

\* An inactive process has a full set of metrics once in full_metrics_factor
\* scans, and the OS info is sent once in its own factor, first with the first scan
\* (proc_pid_metrics.go:1249, 1265-1268, internal_metrics.go:303-321, 436).
FullCycleKept ==
    /\ part = "chairs" => Chairs!FullCycleKept
    /\ part = "counters" => Counters!FullCycleKept
    /\ part = "categories" => Categories!FullCycleKept
    /\ part = "zombies" => Zombies!FullCycleKept
    /\ part = "internal generators" => InternalGenerators!OsInfoKept

\* A task is given every long-lived process of its part, no other task's and none
\* that has been gone for long (pid_tid_list.go:40-42, 119-133, 211-231).
ListShared == part = "list" => List!NoneMissed /\ List!NoGhosts

\* These of the internal metrics are exact: the deltas of the counters add up to them
\* as they were last copied, the CPU times although scans of /proc/PID/stat fail, what
\* the generators count is sent once and nothing twice, as long as each runs between
\* two scans, and the bytes of a scan include the digits of their number
\* (internal_metrics_scheduler.go:95-114, 149, internal_metrics_process.go:75-78,
\* 157-174, metrics_common.go:99-140, internal_metrics.go:346-361).
StatsExact ==
    /\ part = "internal deltas" => InternalDeltas!DeltasAddUp
    /\ part = "internal deltas" => InternalDeltas!TicksAddUp
    /\ part = "internal generators" => InternalGenerators!TicksAddUp
    /\ part = "internal generators" => InternalGenerators!GeneratorsAddUp
    /\ part = "internal deltas" => InternalDeltas!OwnBytes
    /\ part = "internal generators" => InternalGenerators!OwnBytes
==============================================================================
