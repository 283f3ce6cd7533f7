---------------------------- MODULE MCGenerators -----------------------------
(***************************************************************************)
(* The metrics generators for TLC.  Each is a task of its own and shares   *)
(* no state with the others, so a behaviour of the program is an           *)
(* interleaving of theirs and they are checked one at a time: the variable *)
(* generator names the one that runs, and the instance of it.  The parser  *)
(* objects are obj, the per item data info, what the receiver has as       *)
(* present is present.                                                     *)
(***************************************************************************)
EXTENDS Integers, Sequences, FiniteSets

CONSTANTS FullMetricsFactor, Wrap, Nil

VARIABLES
    generator,
    status, obj, currIndex, info, total,                                \* most
    file, prevFile, reported, since, settled, last, present,
    mountinfo, mountCycle, mountDisabled, mountCache, missed, mountLag, \* disks, mounts
    excused,
    irqInfo, header, suffix, gone,                                      \* interrupts
    other, maxNumCpus,                                                  \* CPUs
    ifNames                                                             \* qdiscs

common == <<status, obj, currIndex, info, file, prevFile, reported, since, last, present>>
diskVars == <<mountinfo, mountCycle, mountDisabled, mountCache, missed, mountLag, excused>>
irqVars == <<irqInfo, header, gone>>
statVars == <<other, maxNumCpus>>
vars == <<generator, common, diskVars, irqVars, statVars, total, settled, suffix, ifNames>>

------------------------------------------------------------------------------
\* Disks that are added, two with counters and three without; one, with a gauge, that is
\* renamed, goes and comes back; two, with mounts, that go and come back.
DisksAdded == INSTANCE DiskstatsMetrics WITH
    active <- status, devInfoMap <- obj, mountOn <- present,
    Disks <- {"8:0", "8:16"}, Names <- {"sda"}, Gauges <- {0}, Mounts <- {}, DiskOf <- <<>>,
    Removal <- FALSE
ThreeDisks == INSTANCE DiskstatsMetrics WITH
    active <- status, devInfoMap <- obj, mountOn <- present, Wrap <- 1,
    Disks <- {"8:0", "8:16", "8:32"}, Names <- {"sda"}, Gauges <- {0}, Mounts <- {},
    DiskOf <- <<>>, Removal <- FALSE
DiskRenamed == INSTANCE DiskstatsMetrics WITH
    active <- status, devInfoMap <- obj, mountOn <- present, Wrap <- 1,
    Disks <- {"8:0"}, Names <- {"sda", "sdb"}, Gauges <- {0, 1}, Mounts <- {}, DiskOf <- <<>>,
    Removal <- TRUE
DiskMounts == INSTANCE DiskstatsMetrics WITH
    active <- status, devInfoMap <- obj, mountOn <- present, Wrap <- 1,
    Disks <- {"8:0", "8:16"}, Names <- {"sda"}, Gauges <- {0},
    Mounts <- {1, 2}, DiskOf <- <<"8:0", "8:16">>, Removal <- TRUE

\* An IRQ on CPUs 0 and 2; descriptions that change; IRQs that return.
IrqDeltas == INSTANCE InterruptsMetrics WITH
    cache <- info, infoOn <- present,
    Irqs <- {"1"}, Infos <- {"a"}, CpuLists <- {<<0, 2>>}, IrqsReturn <- FALSE
IrqInfos == INSTANCE InterruptsMetrics WITH
    cache <- info, infoOn <- present, Wrap <- 1,
    Irqs <- {"1", "2"}, Infos <- {"a", "b"}, CpuLists <- {<<0>>}, IrqsReturn <- FALSE
IrqReturns == INSTANCE InterruptsMetrics WITH
    cache <- info, infoOn <- present, Wrap <- 1,
    Irqs <- {"1", "2", "3"}, Infos <- {"a"}, CpuLists <- {<<0>>}, IrqsReturn <- TRUE

\* CPUs that go on- and offline; IRQs that come and go.
SoftirqCpus == INSTANCE SoftirqsMetrics WITH
    cache <- info, infoOn <- present,
    Irqs <- {"NET"}, CpuLists <- {<<0>>, <<1>>, <<0, 1>>}, CpusFlap <- FALSE, EarlyRemoval <- FALSE
SoftirqChurn == INSTANCE SoftirqsMetrics WITH
    cache <- info, infoOn <- present, Wrap <- 1,
    Irqs <- {"NET", "RCU", "HI"}, CpuLists <- {<<0>>}, CpusFlap <- FALSE, EarlyRemoval <- FALSE

\* Two devices with counters; three that come and go.
NetDevs == INSTANCE NetDevMetrics WITH
    active <- status, procNetDev <- obj, devInfoMap <- info, Devs <- {"eth0", "lo"}
NetDevsChurn == INSTANCE NetDevMetrics WITH
    active <- status, procNetDev <- obj, devInfoMap <- info, Wrap <- 1,
    Devs <- {"eth0", "lo", "tun0"}

\* Two CPUs that go on- and offline; the ticks of one and the other fields.
StatCpus == INSTANCE ProcStatMetrics WITH
    active <- status, procStat <- obj, cpuInfo <- info, up <- present,
    Cpus <- {"0", "1"}, All <- "all", Ticks <- {0}, OtherCounts <- {0}
StatOther == INSTANCE ProcStatMetrics WITH
    active <- status, procStat <- obj, cpuInfo <- info, up <- present,
    Cpus <- {"0"}, All <- "all", Ticks <- {0, 1}, OtherCounts <- {0, 1}

\* A qdisc whose interface is renamed; two that come and go.
QdiscDeltas == INSTANCE QdiscMetrics WITH
    active <- status, qdiscStats <- obj, dump <- file, prevDump <- prevFile,
    Keys <- {1}, Names <- {"eth0", "eth1"}, Kinds <- {"fq"}, Unnamed <- "",
    Counts <- {0, 1}, Repeats <- {0}
QdiscPresence == INSTANCE QdiscMetrics WITH
    active <- status, qdiscStats <- obj, dump <- file, prevDump <- prevFile,
    FullMetricsFactor <- 1,
    Keys <- {1, 2}, Names <- {"eth0"}, Kinds <- {"fq"}, Unnamed <- "",
    Counts <- {0}, Repeats <- {0}

\* Tables of mounts, with a filesystem that has two and one of an excluded type;
\* the values of one filesystem.
Mount(fs, type, mountPoint) == [fs |-> fs, type |-> type, mountPoint |-> mountPoint]
MountTables ==
    LET root == Mount("sda1", "ext4", "/")
        bind == Mount("sda1", "ext4", "/bind")
        proc == Mount("proc", "proc", "/proc")
    IN  {<<>>, <<root>>, <<root, bind>>, <<bind, proc>>, <<proc, bind, root>>}
Statfs(bsize, blocks, bfree, bavail, files, ffree) ==
    [bsize |-> bsize, blocks |-> blocks, bfree |-> bfree, bavail |-> bavail,
     files |-> files, ffree |-> ffree]
StatfsResults ==
    {Statfs(bsize, blocks, 2, 1, 1, 1) : bsize \in {1, 2}, blocks \in {2, 4}} \cup
    {Statfs(1, 2, 0, 1, 1, 1), Statfs(1, 2, 0, 0, 2, 1), Statfs(1, 2, 0, 0, 2, 2),
     Statfs(1, 0, 0, 0, 0, 0)}
FsTables == INSTANCE StatfsMetrics WITH
    active <- status, statfsInfo <- info, table <- file, lag <- mountLag, failed <- missed,
    Tables <- MountTables, Stats <- {Statfs(1, 4, 2, 2, 1, 1)}, KByte <- 2,
    IncludeFilesystemTypes <- {}, ExcludeFilesystemTypes <- {"proc"}
FsValues == INSTANCE StatfsMetrics WITH
    active <- status, statfsInfo <- info, table <- file, lag <- mountLag, failed <- missed,
    Tables <- {<<Mount("sda1", "ext4", "/")>>}, Stats <- StatfsResults, KByte <- 2,
    IncludeFilesystemTypes <- {"ext4"}, ExcludeFilesystemTypes <- {}

\* The line IcmpMsg appears and grows before Tcp, with a type that has no metric; for
\* IPv6 such a type appears between a 64-bit and a 32-bit counter.
Header(proto, names) == [proto |-> proto, vars |-> names]
SnmpLayouts ==
    LET tcp == Header("Tcp", <<"MaxConn", "OutSegs">>)
    IN  {<<tcp>>, <<Header("IcmpMsg", <<"InType8">>), tcp>>,
         <<Header("IcmpMsg", <<"InType5", "InType8">>), tcp>>}
Snmp == INSTANCE NetSnmpMetrics WITH
    active <- status, procNetSnmp <- obj, cycleNum <- info, zeroDelta <- reported,
    Layouts <- SnmpLayouts, Vars <- {"MaxConn", "OutSegs", "InType8"},
    AsIs <- {"MaxConn"}, MayBeNegative <- {"MaxConn"},
    CounterOf <- [v \in {"MaxConn", "OutSegs", "InType8"} |-> IF v = "OutSegs" THEN 1 ELSE 0]
Snmp6 == INSTANCE NetSnmp6Metrics WITH
    active <- status, procNetSnmp6 <- obj, cycleNum <- info, zeroDelta <- reported,
    Wrap <- 4, Wrap32 <- 2, Uint32 <- {"InMsgs"}, Vars <- {"InOctets", "InMsgs"},
    Layouts <- {<<"InOctets", "InMsgs">>, <<"InOctets", "InType5", "InMsgs">>},
    CounterOf <- [v \in {"InOctets", "InMsgs"} |-> IF v = "InMsgs" THEN 1 ELSE 0]

------------------------------------------------------------------------------
NoDisks ==
    /\ mountinfo = Nil /\ mountCycle = Nil /\ mountDisabled = Nil /\ mountCache = Nil
    /\ missed = Nil /\ mountLag = Nil /\ excused = Nil
NoIrqs == irqInfo = Nil /\ header = Nil /\ gone = Nil
NoStat == other = Nil /\ maxNumCpus = Nil

Init ==
    \/ /\ \/ generator = "disks added" /\ DisksAdded!Init
          \/ generator = "three disks" /\ ThreeDisks!Init
          \/ generator = "disk renamed" /\ DiskRenamed!Init
          \/ generator = "disk mounts" /\ DiskMounts!Init
       /\ total = Nil /\ settled = Nil /\ suffix = Nil /\ ifNames = Nil
       /\ NoIrqs /\ NoStat
    \/ /\ \/ generator = "irq deltas" /\ IrqDeltas!Init
          \/ generator = "irq infos" /\ IrqInfos!Init
          \/ generator = "irq returns" /\ IrqReturns!Init
       /\ total = Nil /\ ifNames = Nil
       /\ NoDisks /\ NoStat
    \/ /\ \/ generator = "softirq cpus" /\ SoftirqCpus!Init
          \/ generator = "softirq churn" /\ SoftirqChurn!Init
       /\ total = Nil /\ ifNames = Nil
       /\ NoDisks /\ NoIrqs /\ NoStat
    \/ /\ \/ generator = "net devs" /\ NetDevs!Init
          \/ generator = "net devs churn" /\ NetDevsChurn!Init
       /\ suffix = Nil /\ ifNames = Nil
       /\ NoDisks /\ NoIrqs /\ NoStat
    \/ /\ \/ generator = "stat cpus" /\ StatCpus!Init
          \/ generator = "stat other" /\ StatOther!Init
       /\ suffix = Nil /\ ifNames = Nil /\ total = Nil
       /\ NoDisks /\ NoIrqs
    \/ /\ \/ generator = "qdisc deltas" /\ QdiscDeltas!Init
          \/ generator = "qdisc presence" /\ QdiscPresence!Init
       /\ suffix = Nil
       /\ NoDisks /\ NoIrqs /\ NoStat
    \/ /\ \/ generator = "fs tables" /\ FsTables!Init
          \/ generator = "fs values" /\ FsValues!Init
       /\ obj = Nil /\ prevFile = Nil /\ reported = Nil /\ total = Nil /\ settled = Nil
       /\ suffix = Nil /\ ifNames = Nil /\ mountDisabled = Nil /\ mountCache = Nil
       /\ excused = Nil /\ NoIrqs /\ NoStat
    \/ /\ \/ generator = "snmp" /\ Snmp!Init
          \/ generator = "snmp6" /\ Snmp6!Init
       /\ present = Nil /\ total = Nil /\ settled = Nil /\ suffix = Nil /\ ifNames = Nil
       /\ NoDisks /\ NoIrqs /\ NoStat

Next ==
    /\ \/ /\ \/ generator = "disks added" /\ DisksAdded!Next
             \/ generator = "three disks" /\ ThreeDisks!Next
             \/ generator = "disk renamed" /\ DiskRenamed!Next
             \/ generator = "disk mounts" /\ DiskMounts!Next
          /\ UNCHANGED <<irqVars, statVars, total, settled, suffix, ifNames>>
       \/ /\ \/ generator = "irq deltas" /\ IrqDeltas!Next
             \/ generator = "irq infos" /\ IrqInfos!Next
             \/ generator = "irq returns" /\ IrqReturns!Next
          /\ UNCHANGED <<diskVars, statVars, total, ifNames>>
       \/ /\ \/ generator = "softirq cpus" /\ SoftirqCpus!Next
             \/ generator = "softirq churn" /\ SoftirqChurn!Next
          /\ UNCHANGED <<diskVars, irqVars, statVars, total, ifNames>>
       \/ /\ \/ generator = "net devs" /\ NetDevs!Next
             \/ generator = "net devs churn" /\ NetDevsChurn!Next
          /\ UNCHANGED <<diskVars, irqVars, statVars, suffix, ifNames>>
       \/ /\ \/ generator = "stat cpus" /\ StatCpus!Next
             \/ generator = "stat other" /\ StatOther!Next
          /\ UNCHANGED <<diskVars, irqVars, suffix, ifNames, total>>
       \/ /\ \/ generator = "qdisc deltas" /\ QdiscDeltas!Next
             \/ generator = "qdisc presence" /\ QdiscPresence!Next
          /\ UNCHANGED <<diskVars, irqVars, statVars, suffix>>
       \/ /\ \/ generator = "fs tables" /\ FsTables!Next
             \/ generator = "fs values" /\ FsValues!Next
          /\ UNCHANGED <<irqVars, statVars, obj, prevFile, reported, total,
                         settled, suffix, ifNames, mountDisabled, mountCache, excused>>
       \/ /\ \/ generator = "snmp" /\ Snmp!Next
             \/ generator = "snmp6" /\ Snmp6!Next
          /\ UNCHANGED <<diskVars, irqVars, statVars, present, total, settled,
                         suffix, ifNames>>
    /\ UNCHANGED generator

Spec == Init /\ [][Next]_vars

------------------------------------------------------------------------------
\* The generator that runs is in a state of its types.
TypeOK ==
    /\ generator = "disks added" => DisksAdded!TypeOK
    /\ generator = "three disks" => ThreeDisks!TypeOK
    /\ generator = "disk renamed" => DiskRenamed!TypeOK
    /\ generator = "disk mounts" => DiskMounts!TypeOK
    /\ generator = "irq deltas" => IrqDeltas!TypeOK
    /\ generator = "irq infos" => IrqInfos!TypeOK
    /\ generator = "irq returns" => IrqReturns!TypeOK
    /\ generator = "softirq cpus" => SoftirqCpus!TypeOK
    /\ generator = "softirq churn" => SoftirqChurn!TypeOK
    /\ generator = "net devs" => NetDevs!TypeOK
    /\ generator = "net devs churn" => NetDevsChurn!TypeOK
    /\ generator = "stat cpus" => StatCpus!TypeOK
    /\ generator = "stat other" => StatOther!TypeOK
    /\ generator = "qdisc deltas" => QdiscDeltas!TypeOK
    /\ generator = "qdisc presence" => QdiscPresence!TypeOK
    /\ generator = "fs tables" => FsTables!TypeOK
    /\ generator = "fs values" => FsValues!TypeOK
    /\ generator = "snmp" => Snmp!TypeOK
    /\ generator = "snmp6" => Snmp6!TypeOK

\* What is found scan after scan has a full set of metrics once in full_metrics_factor
\* scans, whatever else comes and goes and whichever scans fail: disks (as long as none
\* is removed, and but for the scan after another was added), IRQs, devices, CPUs,
\* qdiscs, filesystems and variables (docs/internals.md:105).
FullCycleKept ==
    /\ generator = "disks added" => DisksAdded!FullCycleKept
    /\ generator = "three disks" => ThreeDisks!FullCycleKept
    /\ generator = "disk renamed" => DiskRenamed!FullCycleKept
    /\ generator = "irq deltas" => IrqDeltas!FullCycleKept
    /\ generator = "irq infos" => IrqInfos!FullCycleKept
    /\ generator = "irq returns" => IrqReturns!FullCycleKept
    /\ generator = "softirq cpus" => SoftirqCpus!FullCycleKept
    /\ generator = "softirq churn" => SoftirqChurn!FullCycleKept
    /\ generator = "net devs" => NetDevs!FullCycleKept
    /\ generator = "net devs churn" => NetDevsChurn!FullCycleKept
    /\ generator = "stat cpus" => StatCpus!FullCycleKept
    /\ generator = "stat other" => StatOther!FullCycleKept
    /\ generator = "qdisc deltas" => QdiscDeltas!FullCycleKept
    /\ generator = "qdisc presence" => QdiscPresence!FullCycleKept
    /\ generator = "fs tables" => FsTables!FullCycleKept
    /\ generator = "fs values" => FsValues!FullCycleKept
    /\ generator = "snmp" => Snmp!FullCycleKept
    /\ generator = "snmp6" => Snmp6!FullCycleKept

\* The receiver's last sample of a metric is the true one.  Deltas are those of the
\* last two scans, of the same disk, IRQ, CPU, device, qdisc or variable, wherever it
\* was in them, whatever comes and goes, and although unchanged values and repeated
\* zeros are not sent; sizes and percentages are those of the values they are computed
\* from.  Disks: all that the last two scans found, as long as none of several is
\* removed, but for the scan after another was added, under the name that the
\* generator has for them (proc_diskstats_metrics.go:364-424, 473-481,
\* proc_interrupts_metrics.go:326-344, proc_softirqs_metrics.go:274-327,
\* proc_net_dev_metrics.go:273-290, proc_stat_metrics.go:369-405, 452-474,
\* qdisc_metrics.go:318-369, statfs_metrics.go:278-380, net_snmp_parser.go:349-391,
\* proc_net_snmp_metrics.go:388-420, proc_net_snmp6_metrics.go:403-425).
LastSentIsCurrent ==
    /\ generator = "disks added" => DisksAdded!LastSentIsCurrent
    /\ generator = "three disks" => ThreeDisks!LastSentIsCurrent
    /\ generator = "disk renamed" => DiskRenamed!LastSentIsCurrent
    /\ generator = "irq deltas" => IrqDeltas!LastSentIsCurrent
    /\ generator = "irq infos" => IrqInfos!LastSentIsCurrent
    /\ generator = "softirq cpus" => SoftirqCpus!LastSentIsCurrent
    /\ generator = "softirq churn" => SoftirqChurn!LastSentIsCurrent
    /\ generator = "net devs" => NetDevs!LastSentIsCurrent
    /\ generator = "net devs churn" => NetDevsChurn!LastSentIsCurrent
    /\ generator = "stat cpus" => StatCpus!CpuIsCurrent
    /\ generator = "stat other" => StatOther!CpuIsCurrent
    /\ generator = "stat cpus" => StatCpus!OtherIsCurrent
    /\ generator = "stat other" => StatOther!OtherIsCurrent
    /\ generator = "qdisc deltas" => QdiscDeltas!LastSentIsCurrent
    /\ generator = "qdisc presence" => QdiscPresence!LastSentIsCurrent
    /\ generator = "fs tables" => FsTables!LastSentIsCurrent
    /\ generator = "fs values" => FsValues!LastSentIsCurrent
    /\ generator = "snmp" => Snmp!LastSentIsCurrent
    /\ generator = "snmp6" => Snmp6!LastSentIsCurrent

\* What is gone is shown as gone a scan or two later, also if as much came, and
\* what is there is shown: mounts (as the generator knows them), IRQs, devices, CPUs,
\* qdiscs and filesystems.  Not the disks: the info series of a removed one stays at 1
\* (proc_diskstats_metrics.go:433-471, proc_interrupts_metrics.go:368-379,
\* proc_softirqs_metrics.go:344-355, proc_net_dev_metrics.go:304-317,
\* proc_stat_metrics.go:421-439, qdisc_metrics.go:384-396,
\* statfs_metrics.go:266-275, 439-510).
GoneIsCleared ==
    /\ generator = "disk mounts" => DiskMounts!MountsKnown
    /\ generator = "irq deltas" => IrqDeltas!GoneIsCleared
    /\ generator = "irq infos" => IrqInfos!GoneIsCleared
    /\ generator = "irq returns" => IrqReturns!GoneIsCleared
    /\ generator = "softirq cpus" => SoftirqCpus!GoneIsCleared
    /\ generator = "softirq churn" => SoftirqChurn!GoneIsCleared
    /\ generator = "net devs" => NetDevs!PresenceIsCurrent
    /\ generator = "net devs churn" => NetDevsChurn!PresenceIsCurrent
    /\ generator = "stat cpus" => StatCpus!UpIsCurrent
    /\ generator = "stat other" => StatOther!UpIsCurrent
    /\ generator = "qdisc deltas" => QdiscDeltas!PresenceIsCurrent
    /\ generator = "qdisc presence" => QdiscPresence!PresenceIsCurrent
    /\ generator = "fs tables" => FsTables!PresenceIsCurrent
    /\ generator = "fs values" => FsValues!PresenceIsCurrent

\* A disk that is renamed, an IRQ whose description changes and a qdisc whose
\* interface is renamed never have two series at 1, a filesystem has one mount.  That
\* the name of a disk is the current one is not part of it: a name that changes and
\* changes back goes unnoticed (proc_diskstats_metrics.go:374-384,
\* proc_interrupts_metrics.go:346-360, qdisc_metrics.go:300-311, 371-376,
\* statfs_metrics.go:468-472).
OneLabel ==
    /\ generator = "disk renamed" => DiskRenamed!OneName
    /\ generator = "disk mounts" => DiskMounts!OneName
    /\ generator = "irq deltas" => IrqDeltas!OneInfo
    /\ generator = "irq infos" => IrqInfos!OneInfo
    /\ generator = "qdisc deltas" => QdiscDeltas!OnePresent
    /\ generator = "qdisc presence" => QdiscPresence!OnePresent
    /\ generator = "fs tables" => FsTables!OneMount

\* An IRQ that is removed and returns does not make a scan dereference a missing
\* description (interrupts_parser.go:381-388, proc_interrupts_metrics.go:294-305).
NoPanic ==
    /\ generator = "irq deltas" => IrqDeltas!NoPanic
    /\ generator = "irq infos" => IrqInfos!NoPanic
    /\ generator = "irq returns" => IrqReturns!NoPanic
==============================================================================
