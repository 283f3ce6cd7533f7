# TLA+ models of the Linux Stats VictoriaMetrics Importer

The importer (LSVMI) reads statistics of a Linux host (`/proc`, `statfs`,
netlink), turns them into metrics in Prometheus text form, compresses them in
batches and sends them to one of several import endpoints.

```
 main ── Scheduler ──> workers ── Execute ──> metrics generators
                                                   │ GetBuf / QueueBuf
                                                   v
                              CompressorPool: buffer pool, metrics queue,
                                              compressors with flush timers
                                                   │ SendBuffer
                                                   v
                              HttpEndpointPool: healthy list, health checks,
                                                rotation, rate limit (Credit)
```

With `-use-stdout-metrics-queue` a queue that prints replaces the two pools.

## Inventory

| Part | Source | Module | State |
| --- | --- | --- | --- |
| task scheduler | `lsvmi/scheduler.go` | `Scheduler`, `TaskContract` | modelled, proved |
| compressor pool | `lsvmi/compressor_pool.go` | `CompressorPool` | modelled, proved |
| endpoint pool | `lsvmi/http_endpoint_pool.go` | `HttpEndpointPool` | modelled, proved |
| healthy list | `lsvmi/http_endpoint_pool.go` | `EndpointList`, `EndpointSeq` | partly, proved |
| request body | `lsvmi/http_endpoint_pool.go`, `lsvmi/rate_controller.go` | `RequestBody` | modelled |
| rate controller | `lsvmi/rate_controller.go` | `Credit` | modelled, proved |
| file buffers | `internal/utils/readfile_buf_pool.go` | `ReadFileBufPool` | modelled, proved |
| start and shutdown | `main.go` | `Lsvmi` | modelled |
| stdout queue | `lsvmi/stdout_metrics_queue.go` | `StdoutMetricsQueue` | modelled |
| cycles | `lsvmi/metrics_common.go` | `PartialMetrics` | partly |
| disks and mounts | `lsvmi/proc_diskstats_metrics.go`, parsers | `DiskstatsMetrics` | modelled |
| processes | `lsvmi/proc_pid_metrics.go`, parsers | `PidMetrics`, `PidMetricsCache` | modelled |
| process list | `procfs/pid_tid_list.go` | `PidTidList` | modelled |
| interrupts | `lsvmi/proc_interrupts_metrics.go`, parser | `InterruptsMetrics` | modelled |
| softirqs | `lsvmi/proc_softirqs_metrics.go`, parser | `SoftirqsMetrics` | modelled |
| network devices | `lsvmi/proc_net_dev_metrics.go`, parser | `NetDevMetrics` | modelled |
| CPU and system | `lsvmi/proc_stat_metrics.go`, parser | `ProcStatMetrics` | modelled |
| qdiscs | `lsvmi/qdisc_metrics.go`, `qdisc/` | `QdiscMetrics` | modelled |
| internal metrics | `lsvmi/internal_metrics*.go`, `lsvmi/go_internal_metrics.go` | `InternalMetrics` | modelled |
| filesystems | `lsvmi/statfs_metrics.go`, parser | `StatfsMetrics` | modelled |
| IP protocols | `lsvmi/proc_net_snmp*_metrics.go`, parsers | `NetSnmpMetrics`, `NetSnmp6Metrics` | modelled |
| command lines | `procfs/pid_cmdline_parser.go` | `PidCmdline` | modelled |
| files of a process | `procfs/pid_stat_parser.go`, `procfs/pid_status_parser.go` | in `PidMetrics` | partly |
| configuration, logger, OS utilities, tools | | | not modelled |

## The modules

**Scheduler.** One dispatcher goroutine takes tasks from `taskQ`, computes the
next deadline and keeps them in a heap; a timer fires for the earliest and the
task is passed through `todoQ` to a worker, which executes it and puts it back.
The variables are the two channels, the heap, the timer, what the dispatcher and
each worker have in their hands, the task's fields and the statistics; an action
is what a goroutine does between two blocking points. `time.Now` is
`ClockReadings`: the real time, or up to `MaxSkew` ticks less (the code has a
correction for clocks that go back). `TaskContract` is what a generator relies
on, without queues and goroutines: its `Execute` is not entered twice at a time,
executions are a minimum pause apart, and the task stays until it asks to leave.
`ContractKept` is the refinement.

**CompressorPool.** Buffers are messages with a size, a batch is the sequence
written to the gzip writer. The limit of a batch is any of `Limits`, since it
follows the compression factor of the last. The `sendFn`/`sender` variants that
do not send, and the error of `gzip.NewWriterLevel`, which the validated level
excludes, are left out. Limits are positive: a `batch_target_size` of 0 is not
covered. The operations on lists that this module and the next need are written
out in them rather than taken from a library, so that the prover sees no more
than it needs.

**HttpEndpointPool.** Senders run `SendBuffer`; the healthy list is a sequence;
each unhealthy endpoint has its health check goroutine. Ages stand for time
stamps. All endpoints have one threshold. `Shutdown` cancels, waits for the
health checks and closes; the replenisher that it also waits for is in `Credit`.
With `Orderly` the pool is shut down when the senders are done, as `main.go` does;
`Lsvmi` shows this (`CallersAsAssumed`).

**EndpointList** has the `prev` and `next` pointers of the list, `EndpointSeq` the
sequence it stands for. **RequestBody** has the body that `SendBuffer` uses for
all its attempts, with the HTTP transport's goroutine reading and closing it;
`TransportWaits` says whether the transport is done with it when `Do` returns
(which `net/http` does not promise). **Credit** has the condition variable and the
replenisher, **ReadFileBufPool** the shared pool of file buffers.

**Lsvmi** composes workers, `CompressorPool` and `HttpEndpointPool` in the order in
which `main.go` starts them and in which the deferred shutdowns run. A worker is
reduced to what matters here, queueing its buffers. The compressors' sends are
the pool's senders. With `useStdout`, chosen initially, **StdoutMetricsQueue** takes
the place of both pools. `Fatal` ends the process without the deferred calls: when
a part cannot be started, and when the watchdog finds that a shutdown takes too
long. After a shutdown that was cut short buffers may be lost, which is what the
watchdog is for; `NothingLeftBehind` is about a `main` that returned.

**Generators.** All keep two parser objects that are used in turn, the second a
clone of the first; deltas are differences of the two; items have a cycle number
and send all their metrics when it is 0 (`full_metrics_factor`), else only what
changed, and a delta of 0 once. `PartialMetrics` has these rules, and each module
its parser and generator: what is shared between the two objects, what is removed
from which, and the guards by which it is noticed. One counter, one value and one
label stand for those of a kind; counters wrap at `Wrap`. An execution is one
action, since a task is never executed twice at a time (`TaskContract`); the input
is any file. The modules record what the receiver last got (`last`, `present`) and
compare it with the last two files. An execution that fails ends the task, as
the scheduler does not queue it again.

**PidMetricsCache** has the process cache and its LRU list on the level of pointers,
with every link assignment; **PidMetrics** the exchange of the parsers ("musical
chairs"), the skipped inactive processes and the categorical metrics. A process
may become a zombie, which has neither memory sizes nor a command line; its last
size stays with the receiver. Of the CPU times (`CpuTimes`) only matters whether
they differ from those of the last scan. Reused
process numbers are in the first only. **PidTidList** is the list that the
partitions share. **PidCmdline** is the one place where bytes matter: a command line
is read up to a limit, cut at the boundary of a character, and escaped. The parse
is on bytes, what it is compared with on characters.

**StatfsMetrics** reads the table of mounts once in a cycle, uses it until the next
reading if it changed, and calls `statfs`, which may fail, in every scan. **NetSnmpMetrics** and
**NetSnmp6Metrics** keep where a variable is in the file from an earlier parse; the
first builds that anew when a header differs, the second never.
**InternalMetrics** copies the statistics of one component after the other, of the
Go runtime, of the process and of the generators, while these count. The OS info
has a cycle of its own, whose first number is taken with the first scan. How many
metrics a scan counts is left out, and how many bytes it reports for itself is in.

## Runs

An `MC` module gives constants their values, and the cfg of a run names what it
checks. Parts that share no state are checked in one run, each on its own: in
`MCStructures`, `MCGenerators` and `MCProcesses` a variable chosen in the initial
state names the part that runs (an instance of the component's module, with
constants for one question), and the variables of the others do not change.

| Run | Checks | Instance |
| --- | --- | --- |
| `Scheduler` | `TypeOK`, `OnePlace`, `TimerTracksTop`, `ContractKept`, `DeadlinesAdvance` | 2 tasks of different intervals, 2 workers, queues of 1, 4 ticks, readings up to 2 late |
| `SchedulerLive` | `DueTasksRun`, `ShutdownCompletes` | 2 tasks, 1 worker, queues of 2, 4 ticks, exact readings |
| `Pool` | `NoEndpointLost`, `ShutdownCompletes`, `EveryEndpointGetsItsTurn` | 2 endpoints, 2 senders, threshold 2, rotation and error reset after one tick |
| `Structures` | `NoAliasing`, `HandedOutEmpty`; `LabelsOfFile`; `WellLinked`, `IsSequence`; `BodyIntact` | 3 readers, 4 buffers, a pool of 2; a limit of 7 bytes and command lines up to the character that reaches it; a list of 5; a body of 4 bytes in 3 attempts, of either kind |
| `Credit` | `RateLimited`, `NoSleepWithCredit`, `CreditGranted` | 2 readers; no maximum, one below and one above the replenish value |
| `Compressor` | `ExactlyOnce`, `NothingEmptySent`, `BatchFlushed` | 4 messages, one empty and one as large as a batch, 2 compressors |
| `Lsvmi` | `NoPanic`, `NothingLeftBehind`, `CallersAsAssumed`, `ExitsAfterSignal` | 2 workers, 3 messages, 2 compressors and 1 endpoint, or stdout |
| `Generators` | `TypeOK`, `FullCycleKept`, `LastSentIsCurrent`, `GoneIsCleared`, `OneLabel`, `NoPanic` | 19 instances of the nine generators, with 1 to 4 items each |
| `Processes` | `TypeOK`, `CacheKept`; `OwnParser`, `DeltasAddUp`, `OneCategory`, `FullCycleKept`; `ListShared`; `StatsExact` | 3 processes for the cache, 1 or 2 for the metrics, 2 tasks for the list; 3 scans of the internal metrics, of one counter of each kind or of a generator |
| `PoolSendTimeout` | `SendBufferReturns`, violated | 2 endpoints that may fail once each before they are checked, 1 sender |
| `PidCacheEmptied` | `OutdatedRemoved`, violated | 2 processes |
| `Snmp6Rollover` | `RolloverCompensated`, violated | a counter of 2 bits among those of 4 |

What they show: `ExactlyOnce` and `NothingLeftBehind` together, that a buffer
which a generator queued is sent once or its loss counted, over flushes, errors
and shutdown. `NoEndpointLost`, that an endpoint is in the healthy list or being
checked, never both or neither, however late the errors of other senders come.
`LastSentIsCurrent`, that leaving out unchanged values and repeated zeros is
invisible to the receiver: its last sample is the true one, although two parser
objects are used in turn and items come, go and are renamed; of several disks
none goes. `GoneIsCleared`, that no series of an interrupt, a softirq, a device, a
CPU, a qdisc or a filesystem stays at 1 once it is gone, nor that of a mount once
the generator has read the table again; the info series of a removed disk does
stay, and is not covered. `OneLabel`, that what is renamed is never at 1 under two
labels; which one it is at is the last that the generator noticed.
`CacheKept`, that the list by age and the map of processes are one. `ListShared`,
that the tasks which share the list of processes see each long-lived process
once. `OneCategory`, that the state and the comm of a process are at 1 for one
value each, its own, and that its memory size is the last it had; not that former
command lines are cleared, which they are not. `StatsExact`, that what the
importer reports of itself adds up to what its parts counted, although they go on
counting while it is copied. `LabelsOfFile`, that the labels of a process are its own and never end
within a character, wherever the limit falls.

The bounds: two items make one that comes while another goes, which is what the
guards that compare sizes are about; a factor of 2 has full and partial scans,
and 3 two partial ones in a row; `Wrap = 2` has zero and nonzero deltas and one
that wraps. A limit of 7 bytes lets every search for the start of a character end
at each of its four places, with characters of 1, 2 and 4 bytes before and after;
what an earlier parse left in the buffer is one of `Reused`. Only the scheduler, the credit and the internal metrics have
unbounded counters, cut by `MaxTime`, `MaxPeriods`, `MaxCount` and `MaxScans`;
for the first two the proofs have no need of the bound. The totals of `Credit`
are kept only in behaviours with `counting`, so that in the others replenishing
never ends and liveness can be stated. Queues of 1 with two workers are what
makes the goroutines of the scheduler wait for each other; `SchedulerLive` has
as many places as tasks, without which dispatcher and workers may block each
other for good (a full `todoQ` against a full `taskQ`). The program's queues have
64 places each and it has about a dozen tasks, but the partitions of the process
metrics are tasks of their own and their number is configurable. Deadlock is not
checked where the system may stop: after a shutdown, at such a bound, when a body
was sent or when the task of a generator has ended. `Lsvmi` checks it.

## Where code and comments differ

Three differences are runs of their own, with the lines quoted in `PROJECT.json`:
`PoolSendTimeout`, a send that is retried has no timeout; `PidCacheEmptied`, the
removal of outdated processes runs off the list when none is left; and
`Snmp6Rollover`, the flags of the 32 bit counters of `/proc/net/snmp6` are copied
in the wrong direction, so that a rollover is not compensated for.

The modules have the code's behaviour in the following cases too. Where a constant
is named, the instances that check the property concerned have the value that
keeps the cause out, and with the other value TLC finds a counterexample. Where
none is named, the behaviour is in the runs and no property says otherwise.

* `RequestBody`, `TransportWaits`: the body is rewound for a retry while
  `net/http` may still read or close it for the failed attempt
  (`http_endpoint_pool.go:813`; line 161: "such that it can be used as body for
  http.Request w/ retries").
* `DiskstatsMetrics`, `Removal`: when a scan misses one of several disks, the
  clean-up deletes those that are in scope from the parser object instead of the
  missing one from the info, now and in every later scan
  (`proc_diskstats_metrics.go:474`: "Clean up info no longer in scope:"), and they
  are not sent again, against `docs/internals.md:105` ("each metric is guaranteed
  to be sent"): `LastSentIsCurrent` and `FullCycleKept` fail.
* `DiskstatsMetrics`: the clean-up of a scan that finds a new disk makes the next
  scan leave out the others (`excused` in the two properties); the info
  series of a removed disk stays at 1 (`proc_diskstats_metrics.go:473-481`).
* `DiskstatsMetrics`: the parser compares with the scan before last of the same
  object, so a name that changes and changes back goes unnoticed
  (`diskstats_parser.go:76`: "from the previous scan or not").
* `PidMetricsCache`, `PidReuse`: the entry of a process number that is found with
  another start time has been taken out of the list (`proc_pid_metrics.go:1211-1223`)
  and is replaced only when all files of the new process were parsed; if one was
  not, it stays in the map without being in the list (lines 1244, 1288-1309; line
  262: "Also organized as a LRU list"): `CacheKept` fails.
* `PidMetrics`: the former command line of a process is never set to 0
  (`proc_pid_metrics.go:1123`; `docs/internals.md:145`).
* `InterruptsMetrics`, `IrqsReturn`: an IRQ that returns after one scan gets a
  delta to its former counters (`interrupts_parser.go:381`;
  `proc_interrupts_metrics.go:297`: "This is a new IRQ, no deltas for it:").
* `InterruptsMetrics`, `CpuLists` of more than one header: after a change of the CPUs one of the two
  objects keeps the former list (`interrupts_parser.go:248`).
* `SoftirqsMetrics`, `CpusFlap`: deltas are taken without index map when the list
  of CPUs changes in one scan and back in the next (`proc_softirqs_metrics.go:274`).
* `SoftirqsMetrics`: CPUs that go and come back later are indexed beyond slices that
  were cut (`softirqs_parser.go:195`). The instance with CPUs that come and go
  reaches this panic, its behaviours end there (`status` is `panicked`), and the
  properties are about those up to it.
* `SoftirqsMetrics`, `EarlyRemoval`: `Clone` does not copy the scan numbers, so
  what disappears with the second scan stays (`softirqs_parser.go:78`).
* `QdiscMetrics`: on a cache miss the name is not read again after the refresh
  (`qdisc_parser_linux.go:155`).
* `QdiscMetrics`, `Repeats`: a key that the dump repeats makes up for one that
  is gone (`qdisc_parser_linux.go:205`).
* `NetDevMetrics`, `QdiscMetrics`: the total is not evaluated on every change
  (`proc_net_dev_metrics.go:327`, `qdisc_metrics.go:290`; both: "evaluated
  every time there is a change"), and that of the CPU metrics leaves out the
  average (`proc_stat_metrics.go:222`).
* `NetSnmp6Metrics`: a variable that the kernel adds to the file after the first
  scan, as it does for a new type of ICMPv6 message, ends the task for good
  (`net_snmp6_parser.go`: "invalid name, not seen before").
* `StatfsMetrics`: a filesystem for which `statfs` fails is tried again as long as the
  last reading of the table found a change, and after that not before the table
  changes (`statfs_metrics.go:454`).
* `InternalMetrics`, `GeneratorsIdle`: a generator that did not run since the last
  scan is reported again with its former numbers (`internal_metrics.go:245`;
  `docs/internal_metrics.md:167`: "The number of invocations, since the last
  scan."): `StatsExact` fails.
* not modelled: the process metrics are not in the number of metrics that the
  internal metrics report (`internal_metrics.go:287`).
* not modelled: `AddToHead` does not set the `prev` of the former head
  (`http_endpoint_pool.go:302`); the pool does not use it.

## Fairness

Goroutines that can go on do (weak fairness). A `select` whose cancellation is
ready again and again takes it at some time, since Go chooses among the ready
cases at random, and so does one with a timer that fired: strong fairness for
`DispatcherDone`, `WorkerDone`, `TimerFires`, the health checks' `Cancel` and the
workers' end in `Lsvmi`. Of `Credit` only weak fairness is assumed: a reader that
is woken gets the lock, but others may have taken the credit before; so
`CreditGranted` says that calls return, not that each does. `Lsvmi` assumes of
the endpoints that a send that is retried for ever is answered at some time:
without it the shutdown waits until the watchdog ends it (`PoolSendTimeout`).
`Fatal` has no fairness: `ExitsAfterSignal` shows that it does not take the
watchdog. `SendBufferReturns` is stated under the pool's fairness, without that assumption.

## Proofs

TLAPS proves, for any tasks, workers, queue sizes, readers, buffers,
endpoints and compressors:

* `SchedulerProofs`: `TypeCorrect` and `TaskInOnePlace`; `SchedulerTimeProofs`:
  `TimerOnTop`, `PauseKept`, `NoLagNoHack` and `DeadlinesOnlyAdvance`;
  `SchedulerContractProofs`: `SchedulerKeepsContract`. The invariant grows in
  layers: `TypeInv` is the type invariant with `Hands` (what a goroutine holds
  fits where it is in its loop); `PlaceInv` adds `OnePlace`; `TimeInv` adds the
  timer, and `Pauses` and `Deadlines`, which relate the deadline of a task in
  each place to its last execution. `MinPauseKept` alone is not inductive, as it
  says nothing of a task that waits. The refinement follows from `TimeInv`,
  action by action. Assumed: a granularity of at least one tick and nonempty
  queues.
* `CreditProofs`: `RateIsLimited`, `BurstIsLimited`, `WaitersAreWoken`,
  `GrantsAreInRange`. Their conjunction with the type invariant is inductive.
  That a maximum below the replenish value is raised to it is what makes the
  burst limit hold at the start.
* `ReadFileBufPoolProofs`: `BuffersAreNotShared` and `PoolIsBounded`, with
  `ReadersHold`: who is in `ReadFile` holds the buffer it reads into.
* `EndpointListProofs`: `ListIsWellLinked`, from lemmas on what the removal and
  the insertion at the tail make of any well linked list.
* `HttpEndpointPoolProofs`: `EndpointsAreKept`, `TypeOK` and `NoEndpointLost`. The
  latter ties list, flags, health checks, error counts and reported states
  together, and is inductive with the types. The lemmas say what an insertion, a
  removal and a rotation make of a list without repetition (`Holds`). Assumed: a
  finite number of endpoints and a positive threshold; nothing of the order in
  which `Shutdown` and the senders come.
* `CompressorPoolProofs`: `BuffersSentOnce`, `TypeOK` and `ExactlyOnce`, and
  `NothingEmptyIsSent`. `ExactlyOnce` counts the places of a message; the
  induction is over the sequences themselves, without repetition and disjoint
  (`AccountedNow`), and needs that the count of bytes, the writer and the timer of
  a compressor fit its batch (`Looping`). Assumed: sizes are natural
  numbers, limits positive, and the queue and the buffer pool have a place.

What `Lsvmi` needs of the two pools, in particular that their states are well
typed, follows from `CallersAsAssumed`, by which they run as these theorems
assume.

Only model-checked: liveness and fairness, the composition, the request body, the
generators with their parsers, and `IsSequence` of the list, which needs induction
along it. Only proved, not in a run: the minimum pause and the correction without
lag of the scheduler, the burst limit and the range of a grant, the bound of the
buffer pool, and the types of the two pools.

## Not modelled

* The configuration, the command line arguments, the logger and the OS utilities:
  read or called at the start, without state that changes afterwards. Their results
  are `CONSTANTS`.
* The layout of `/proc` files: how a line is split into words and numbers is
  sequential, without memory, and covered by the parsers' tests over recorded
  files. What a parser keeps from one file for the next, and what it does with one
  that it rejects, is in the modules. This is why the parsers of `stat` and `status` of
  a process are partly modelled.
* Formatting of samples, labels other than the command line, time stamps: a sample
  is the value and what it is about. Text matters in two places, the length in the
  internal metrics and the bytes of a command line, and is modelled there.
* The floating point average of the compression factor: a limit is any of `Limits`.
* `AddToHead` and the insertion in the middle of the healthy list, which nothing calls.
* The composition with whole generators: a worker of `Lsvmi` only queues. Generators
  share nothing but the process list (`PidTidList`), the buffers (`ReadFileBufPool`)
  and the statistics (`InternalMetrics`), which are checked with several actors.
