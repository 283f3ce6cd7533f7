-------------------------- MODULE DiskstatsMetrics ---------------------------
(***************************************************************************)
(* The disk and mount metrics of lsvmi/proc_diskstats_metrics.go, with the *)
(* parsers procfs/diskstats_parser.go and procfs/mountinfo_parser.go.      *)
(*                                                                         *)
(* Every execution reads /proc/diskstats into one of two objects, the      *)
(* other one holding the previous scan, and /proc/PID/mountinfo when it    *)
(* may have changed.  A disk is its major:minor with a name, one counter   *)
(* and one gauge; a mount is a line of mountinfo with the disk it is on.   *)
(* `last' and `mountOn' are what a receiver of all the metrics so far      *)
(* knows: the last sample of every series.                                 *)
(***************************************************************************)
EXTENDS PartialMetrics, FiniteSets

CONSTANTS
    Disks,      \* major:minor numbers
    Names,      \* of disks
    Gauges,     \* values of the gauge
    Mounts,     \* lines of mountinfo
    DiskOf,     \* [Mounts -> Disks]
    Removal,    \* whether disks are removed; they may be added at any time
    Nil

Stats == [name : Names, count : 0..(Wrap - 1), gauge : Gauges]

\* The contents of /proc/diskstats, as functions from the disks in it.
Files == UNION {[S -> Stats] : S \in SUBSET Disks}

VARIABLES
    active,         \* whether the scheduler keeps the task
    devInfoMap,     \* DevInfoMap of the two parser objects, or Nil
    currIndex,
    info,           \* diskstatsMetricsInfo: a function of the disks in it
    mountinfo,      \* procMountinfo: the lines and Changed, or Nil
    mountCycle,     \* mountinfoCycleNum
    mountDisabled,  \* mountifoDisabled
    mountCache,     \* mountinfoMetricsCache, or Nil
    file,           \* history: what the last scan found, or Nil
    prevFile,       \*   and the one before
    reported,       \*   the disks that the last scan generated metrics for
    excused,        \*   whether the scan before it was the first to find some disk
    since,          \*   scans that found a disk again since its last full set, up to
                    \*   FullPeriod
    missed,         \*   the disks left out by some scan since then
    last,           \* the receiver's last sample of every disk series
    mountOn,        \* the mount series whose last sample is 1
    mountLag        \* how long mountOn has not been mountCache

genVars  == <<devInfoMap, currIndex, info>>
mntVars  == <<mountinfo, mountCycle, mountDisabled, mountCache>>
histVars == <<file, prevFile, reported, excused, since, missed, last, mountOn, mountLag>>
vars == <<active, genVars, mntVars, histVars>>

NoSample == [count |-> Nil, gauge |-> Nil, info |-> Nil]

Init ==
    /\ active = TRUE
    /\ devInfoMap = [i \in 0..1 |-> Nil]
    /\ currIndex = 0
    /\ info = <<>>
    /\ mountinfo = Nil
    /\ mountCycle \in InitialCycleNums
    /\ mountDisabled = FALSE
    /\ mountCache = Nil
    /\ file = Nil /\ prevFile = Nil
    /\ reported = {}
    /\ excused = FALSE
    /\ since = [d \in Disks |-> 0]
    /\ missed = {}
    /\ last = [d \in Disks |-> [n \in Names |-> NoSample]]
    /\ mountOn = {} /\ mountLag = 0

------------------------------------------------------------------------------
\* The names a parser object has from its last Parse, or from the Clone.
KnownDisks ==
    IF devInfoMap[currIndex] # Nil THEN devInfoMap[currIndex]
    ELSE IF devInfoMap[1 - currIndex] # Nil THEN devInfoMap[1 - currIndex] ELSE <<>>

ParseKeeps(f) ==
    [d \in DOMAIN KnownDisks \cup DOMAIN f |-> IF d \in DOMAIN f THEN f[d] ELSE KnownDisks[d]]

\* Diskstats.Parse: the disks of the file; those not in it are removed.
Parse(f) == f

\* Diskstats.Changed after it: relative to what the object had.
ParseChanged(f) ==
    \/ DOMAIN f # DOMAIN KnownDisks
    \/ \E d \in DOMAIN f : f[d].name # KnownDisks[d].name

\* The part of Execute that reads mountinfo, if need be: m is what it has, or Nil if
\* it cannot be read or parsed; what was parsed is not used again then.
ReadMountinfo(m, changed) ==
    IF mountDisabled THEN UNCHANGED <<mountinfo, mountDisabled>>
    ELSE IF mountinfo = Nil \/ mountCycle = 0 \/ changed
    THEN /\ mountinfo' = IF m = Nil THEN Nil
             ELSE [lines   |-> m,
                   changed |-> m # IF mountinfo = Nil THEN {} ELSE mountinfo.lines]
         /\ mountDisabled' = (m = Nil)
    ELSE /\ mountinfo' = [mountinfo EXCEPT !.changed = FALSE]
         /\ UNCHANGED mountDisabled

------------------------------------------------------------------------------
(* generateMetrics, the disks: the entry of disk d in the current and the    *)
(* previous object is c and p.                                               *)

NameChanged(changed, c, p) == changed /\ c.name # p.name

FullData(d, changed, c, p) ==
    d \notin DOMAIN info \/ info[d].cycle = 0 \/ NameChanged(changed, c, p)

\* updateDiskstatsMetricsCache, when it is called, first being the cycle number
\* of a disk without info yet.
UpdatedInfo(d, changed, c, p, first) ==
    IF d \notin DOMAIN info THEN [cycle |-> first, zero |-> FALSE, name |-> c.name]
    ELSE IF NameChanged(changed, c, p)
    THEN [info[d] EXCEPT !.zero = FALSE, !.name = c.name]
    ELSE info[d]

AnnulNothing(d, changed, c, p, s) == s

\* The info series of the old name is set to 0 before the name is replaced.
Annulled(d, changed, c, p, s) ==
    IF d \in DOMAIN info /\ NameChanged(changed, c, p)
    THEN [s EXCEPT ![info[d].name].info = 0] ELSE s

\* The samples sent for d, applied to the receiver's s.
Sent(d, changed, c, p, i, s) ==
    LET full  == FullData(d, changed, c, p)
        delta == Delta(c.count, p.count)
    IN  [Annulled(d, changed, c, p, s) EXCEPT ![i.name] =
            [count |-> IF SendDelta(full, delta, i.zero) THEN delta ELSE @.count,
             gauge |-> IF full \/ c.gauge # p.gauge THEN c.gauge ELSE @.gauge,
             info  |-> IF full THEN 1 ELSE @.info]]

\* The info kept for d after its metrics were generated.
InfoAfter(c, p, i) ==
    [i EXCEPT !.zero = Delta(c.count, p.count) = 0, !.cycle = NextCycle(@)]

CleanUpAlways(map, newInfo) == [d \in DOMAIN map \ DOMAIN newInfo |-> map[d]]

\* The clean up at the end, newInfo being the info by then: it is the current
\* object's disks that are removed.
CleanUp(map, newInfo) ==
    IF Cardinality(DOMAIN newInfo) # Cardinality(DOMAIN map)
    THEN [d \in DOMAIN map \ DOMAIN newInfo |-> map[d]]
    ELSE map

\* All disks found by this and by the previous scan.
GenerateDisks(f, map, changed) ==
    LET prev   == devInfoMap[1 - currIndex]
        both   == DOMAIN map \cap DOMAIN prev
    IN  \E first \in [both -> InitialCycleNums] :
        LET i(d) == UpdatedInfo(d, changed, map[d], prev[d], first[d])
            newInfo == [d \in DOMAIN info \cup both |->
                           IF d \in both THEN InfoAfter(map[d], prev[d], i(d)) ELSE info[d]]
        IN  /\ info' = newInfo
            /\ devInfoMap' = [devInfoMap EXCEPT ![currIndex] = CleanUp(map, newInfo)]
            /\ reported' = both
            /\ last' = [d \in Disks |->
                   IF d \in both THEN Sent(d, changed, map[d], prev[d], i(d), last[d])
                                 ELSE last[d]]
            /\ since' = [d \in Disks |->
                   CASE d \notin DOMAIN f \cap DOMAIN file -> 0
                     [] d \in both /\ FullData(d, changed, map[d], prev[d]) -> 0
                     [] OTHER -> IF excused' \/ since[d] = FullPeriod THEN since[d] ELSE since[d] + 1]
            /\ missed' = (missed \cup (Disks \ both)) \
                   {d \in both : FullData(d, changed, map[d], prev[d])}

------------------------------------------------------------------------------
(* generateMetrics, the mounts.                                              *)

AnnulNone(old, new) == {}

\* The series that go out of scope when the cache is rebuilt.
OutOfScope(old, new) == (IF old = Nil THEN {} ELSE old) \ new

GenerateMounts(map) ==
    /\ IF mountDisabled'
       THEN /\ mountCache' = Nil
            /\ mountOn' = mountOn \ (IF mountCache = Nil THEN {} ELSE mountCache)
            /\ UNCHANGED mountCycle
       ELSE LET lines   == {m \in mountinfo'.lines : DiskOf[m] \in DOMAIN map}
                rebuild == mountinfo'.changed \/ mountCache = Nil
                new     == IF rebuild THEN lines ELSE mountCache
                annul   == IF rebuild THEN OutOfScope(mountCache, new) ELSE {}
            IN  /\ mountCache' = new
                /\ mountOn' = (mountOn \ annul) \cup
                       (IF mountinfo'.changed \/ mountCycle = 0 THEN new ELSE {})
                /\ mountCycle' = NextCycle(mountCycle)
    /\ mountLag' = IF mountOn' = (IF mountCache' = Nil THEN {} ELSE mountCache')
                   THEN 0 ELSE mountLag + 1

\* generateMetrics without a previous scan.
FirstScan(map) ==
    /\ devInfoMap' = [devInfoMap EXCEPT ![currIndex] = map]
    /\ reported' = {}
    /\ UNCHANGED <<info, mountCycle, mountCache, since, missed, last, mountOn, mountLag>>

\* Execute, the files being f and m.
Execute(f, m) ==
    LET map == Parse(f)
        changed == ParseChanged(f)
    IN  /\ active
        /\ ~Removal /\ file # Nil => DOMAIN file \subseteq DOMAIN f
        /\ excused' = (prevFile # Nil /\ ~(DOMAIN file \subseteq DOMAIN prevFile))
        /\ ReadMountinfo(m, changed)
        /\ IF devInfoMap[1 - currIndex] = Nil
           THEN FirstScan(map)
           ELSE GenerateDisks(f, map, changed) /\ GenerateMounts(map)
        /\ currIndex' = 1 - currIndex
        /\ file' = f /\ prevFile' = file
        /\ UNCHANGED active

\* Execute when /proc/diskstats cannot be read or parsed: the task ends and its
\* objects, half updated or not, are not used again.
ExecuteFails ==
    /\ active
    /\ active' = FALSE
    /\ UNCHANGED <<genVars, mntVars, histVars>>

Next ==
    \/ \E f \in Files, m \in {Nil} \cup SUBSET Mounts : Execute(f, m)
    \/ ExecuteFails

Spec == Init /\ [][Next]_vars
------------------------------------------------------------------------------
Maps == {Nil} \cup UNION {[S -> Stats] : S \in SUBSET Disks}

TypeOK ==
    /\ active \in BOOLEAN
    /\ devInfoMap \in [0..1 -> Maps]
    /\ currIndex \in 0..1
    /\ DOMAIN info \subseteq Disks
    /\ \A d \in DOMAIN info :
         info[d] \in [cycle : InitialCycleNums, zero : BOOLEAN, name : Names]
    /\ mountinfo = Nil \/ mountinfo \in [lines : SUBSET Mounts, changed : BOOLEAN]
    /\ mountCycle \in InitialCycleNums
    /\ mountDisabled \in BOOLEAN
    /\ mountCache \in {Nil} \cup SUBSET Mounts
    /\ reported \subseteq Disks /\ excused \in BOOLEAN
    /\ mountOn \subseteq Mounts

\* The disks that have metrics are those that the last two scans found, unless the
\* earlier of them was the first to find some disk: the clean up takes the others
\* out of it, and they miss one scan.  The receiver's last samples of a disk with
\* metrics, under the name that the generator has for it, are the true ones: the
\* delta is that of the last two scans, never one to an older scan of the reused
\* object, and what was not sent had not changed.  Only a gauge that changed while
\* the disk was gone, or in a scan that it missed, is first sent in its next full
\* cycle (proc_diskstats_metrics.go:364-424, 473-481, docs/internals.md:99).
LastSentIsCurrent ==
    file # Nil /\ prevFile # Nil =>
        LET both == DOMAIN file \cap DOMAIN prevFile
        IN  /\ reported \subseteq both
            /\ excused \/ reported = both
            /\ \A d \in reported :
                 LET s == last[d][info[d].name]
                 IN  /\ s.count = Delta(file[d].count, prevFile[d].count)
                     /\ d \notin missed => s.gauge = file[d].gauge
                     /\ s.info = 1

\* However a disk is renamed, goes away and comes back, at most one name of it
\* is shown as present (proc_diskstats_metrics.go:374-384).
OneName ==
    \A d \in Disks : \A m, n \in Names :
        last[d][m].info = 1 /\ last[d][n].info = 1 => m = n

\* A disk that scan after scan is in the file has a full set of metrics once in
\* full_metrics_factor scans, not counting those that it misses because the scan
\* before was the first to find another.  With Removal this is not so: the entries
\* of removed disks are kept, the sizes differ for good and every clean up takes out
\* the disks that are left (proc_diskstats_metrics.go:473-481, docs/internals.md:105).
FullCycleKept == \A d \in Disks : since[d] < FullPeriod

\* No mount that is gone keeps the value 1: whatever the order in which
\* mountinfo changes, cannot be read, or the disks change, what the receiver
\* sees as mounted is in the generator's cache, and the other way round after
\* one full cycle (proc_diskstats_metrics.go:281-282, 433-471).
MountsKnown ==
    /\ mountOn \subseteq IF mountCache = Nil THEN {} ELSE mountCache
    /\ mountLag < FullPeriod
==============================================================================
