---------------------------- MODULE StatfsMetrics ----------------------------
(***************************************************************************)
(* The filesystem metrics of lsvmi/statfs_metrics.go, with the parser      *)
(* procfs/mountinfo_parser.go.  A line of the mount table has a filesystem *)
(* (the mount source), its type and a mount point; the table is read again *)
(* once in a cycle, while statfs is called with every scan and may fail.   *)
(*                                                                         *)
(* The scan numbers are left out: after an execution all that is left in   *)
(* statfsInfo has the number of that execution, so what matters is what    *)
(* the present one marks.                                                  *)
(***************************************************************************)
EXTENDS PartialMetrics, Functions

CONSTANTS
    Tables,         \* the mount tables: sequences of records fs, type, mountPoint
    IncludeFilesystemTypes, ExcludeFilesystemTypes,     \* {} for no restriction
    Stats,          \* results of statfs: records bsize, blocks, bfree, bavail, files, ffree
    KByte,          \* KBYTE, 1000 in the code
    Nil

Lines == UNION {Range(t) : t \in Tables}

VARIABLES
    active,         \* whether the scheduler keeps the task
    statfsInfo,     \* by line: cycle, and buf, the Statfs_t of the two scans, or Nil
    currIndex,
    mountinfo,      \* procMountinfo: lines, changed, or Nil
    mountCycle,     \* mountinfoCycleNum
    table,          \* history: the mount table of the last scan, or Nil
    lag,            \*   scans since it was last another one
    failed,         \*   lines for which the last call of statfs failed
    since,          \*   scans since a line's last full set
    last,           \* the receiver's last samples by line, or Nil
    present         \* the lines with presence 1

histVars == <<table, lag, failed, since, last, present>>
vars == <<active, statfsInfo, currIndex, mountinfo, mountCycle, histVars>>

\* NewStatfsMetrics
Init ==
    /\ active = TRUE
    /\ statfsInfo = <<>>
    /\ currIndex = 0
    /\ mountinfo = Nil
    /\ mountCycle \in InitialCycleNums
    /\ table = Nil /\ lag = 0 /\ failed = {} /\ present = {}
    /\ since = [l \in Lines |-> 0]
    /\ last = [l \in Lines |-> Nil]

------------------------------------------------------------------------------
\* Mountinfo.Parse: the lines are parsed again if the content has changed.
ParseMountinfo(t) ==
    [lines |-> t, changed |-> t # IF mountinfo = Nil THEN <<>> ELSE mountinfo.lines]

\* The part of Execute that reads the table when it is due; Changed stays as the
\* last parse left it.
ReadMountinfo(t) ==
    IF mountinfo = Nil \/ mountCycle = 0 THEN ParseMountinfo(t) ELSE mountinfo

keepFsType(type) ==
    /\ type \notin ExcludeFilesystemTypes
    /\ IncludeFilesystemTypes = {} \/ type \in IncludeFilesystemTypes

EveryMount(t) == {l \in Range(t) : keepFsType(l.type)}

\* "The same FS may be mounted multiple times, keep the 1st mount!"
FirstMounts(t) ==
    {t[i] : i \in {i \in DOMAIN t :
        /\ keepFsType(t[i].type)
        /\ \A j \in 1..(i - 1) : keepFsType(t[j].type) => t[j].fs # t[i].fs}}

MarkedOrKnown(t, changed) == DOMAIN statfsInfo \cup FirstMounts(t)

\* The lines for which statfs is called: those of a changed table, known or new,
\* or those known.
Marked(t, changed) == IF changed THEN FirstMounts(t) ELSE DOMAIN statfsInfo

------------------------------------------------------------------------------
(* generateMetrics, for one filesystem                                       *)

Size(blocks, bsize) == (blocks * bsize) \div KByte

\* The samples for a result.  A percentage is the quotient as it stands: NaN for a
\* filesystem without blocks, as 0/0 is.
Samples(s) ==
    [bsize  |-> s.bsize,  files |-> s.files,  ffree |-> s.ffree,
     blocks |-> s.blocks, totalSize |-> Size(s.blocks, s.bsize),
     bfree  |-> s.bfree,  freeSize  |-> Size(s.bfree, s.bsize),
     bavail |-> s.bavail, availSize |-> Size(s.bavail, s.bsize),
     freePct  |-> <<s.bfree, s.blocks>>,
     availPct |-> <<s.bavail, s.blocks>>]

CycleOnly(curr, prev, cycle) == prev = Nil \/ cycle = 0

\* allMetrics
AllMetrics(curr, prev, cycle) == prev = Nil \/ cycle = 0 \/ curr.bsize # prev.bsize

PctOfItsOwn(curr, prev) ==
    UNION {IF curr.blocks # prev.blocks THEN {"blocks", "totalSize"} ELSE {},
           IF curr.bfree # prev.bfree THEN {"bfree", "freeSize", "freePct"} ELSE {},
           IF curr.bavail # prev.bavail THEN {"bavail", "availSize", "availPct"} ELSE {},
           IF curr.files # prev.files THEN {"files"} ELSE {},
           IF curr.ffree # prev.ffree THEN {"ffree"} ELSE {}}

\* What is sent between full sets: updateFreePct and updateAvailPct follow both
\* of the values that the percentages are made of.
ChangedMetrics(curr, prev) ==
    UNION {IF curr.blocks # prev.blocks THEN {"blocks", "totalSize", "freePct", "availPct"} ELSE {},
           IF curr.bfree # prev.bfree THEN {"bfree", "freeSize", "freePct"} ELSE {},
           IF curr.bavail # prev.bavail THEN {"bavail", "availSize", "availPct"} ELSE {},
           IF curr.files # prev.files THEN {"files"} ELSE {},
           IF curr.ffree # prev.ffree THEN {"ffree"} ELSE {}}

\* generateMetrics after statfs was called for the lines marked: those of ok have
\* the results res, the others are out of scope.  New lines start with the cycle
\* numbers first.
Generate(marked, ok, res, first) ==
    LET buf(l)   == IF l \in DOMAIN statfsInfo THEN statfsInfo[l].buf ELSE <<Nil, Nil>>
        cycle(l) == IF l \in DOMAIN statfsInfo THEN statfsInfo[l].cycle ELSE first[l]
        prev(l)  == buf(l)[2 - currIndex]
        all      == {l \in ok : AllMetrics(res[l], prev(l), cycle(l))}
    IN  /\ statfsInfo' = [l \in ok |->
               [cycle |-> NextCycle(cycle(l)),
                buf   |-> [buf(l) EXCEPT ![currIndex + 1] = res[l]]]]
        /\ last' = [l \in Lines |->
               IF l \in all THEN Samples(res[l])
               ELSE IF l \in ok
               THEN [x \in DOMAIN last[l] |->
                        IF x \in ChangedMetrics(res[l], prev(l)) THEN Samples(res[l])[x]
                        ELSE last[l][x]]
               ELSE last[l]]
        /\ present' = (present \cup all) \ ((DOMAIN statfsInfo \cup marked) \ ok)
        /\ since' = [l \in Lines |-> IF l \in ok \ all THEN since[l] + 1 ELSE 0]
        /\ failed' = (failed \ marked) \cup (marked \ ok)

\* Execute, when the mount table is t and statfs gives res for the lines of ok.
Execute(t, ok, res) ==
    LET changed == mountinfo = Nil \/ mountinfo'.changed
        marked  == Marked(mountinfo'.lines, changed)
    IN  /\ active
        /\ mountinfo' = ReadMountinfo(t)
        /\ mountCycle' = NextCycle(mountCycle)
        /\ ok \subseteq marked
        /\ \E first \in [marked \ DOMAIN statfsInfo -> InitialCycleNums] :
              Generate(marked, ok, res, first)
        /\ currIndex' = 1 - currIndex
        /\ table' = t
        /\ lag' = IF t # table THEN 0 ELSE IF lag < FullPeriod THEN lag + 1 ELSE lag
        /\ UNCHANGED active

\* Execute when the mount table cannot be parsed: the task is not run again.
ExecuteFails ==
    /\ active
    /\ mountinfo = Nil \/ mountCycle = 0
    /\ active' = FALSE
    /\ UNCHANGED <<statfsInfo, currIndex, mountinfo, mountCycle, histVars>>

Next ==
    \/ ExecuteFails
    \/ \E t \in Tables, ok \in SUBSET Lines : \E res \in [ok -> Stats] : Execute(t, ok, res)

Spec == Init /\ [][Next]_vars
------------------------------------------------------------------------------
TypeOK ==
    /\ active \in BOOLEAN
    /\ currIndex \in 0..1
    /\ mountinfo = Nil \/ mountinfo \in [lines : Tables, changed : BOOLEAN]
    /\ mountCycle \in InitialCycleNums
    /\ DOMAIN statfsInfo \subseteq Lines
    /\ \A l \in DOMAIN statfsInfo : statfsInfo[l].cycle \in InitialCycleNums

\* The receiver's last samples of every filesystem that has metrics are those of
\* the last statfs, the sizes and percentages that are computed from two values
\* included, although only what changed is sent between full sets and the block
\* size may change under the others (statfs_metrics.go:280-380).
LastSentIsCurrent ==
    \A l \in DOMAIN statfsInfo : last[l] = Samples(statfsInfo[l].buf[2 - currIndex])

\* The filesystems shown as present are those of the table as last read for which
\* statfs works: nothing that was unmounted, excluded or failed is left, nothing
\* else is missing.  A table that is in place for a cycle has been read
\* (statfs_metrics.go:439-448, 487-510, 266-275).
PresenceIsCurrent ==
    mountinfo # Nil =>
        /\ present = FirstMounts(mountinfo.lines) \ failed
        /\ lag >= FullPeriod - 1 => mountinfo.lines = table

\* A filesystem that is mounted several times is reported once, also while its
\* first mount comes and goes (statfs_metrics.go:468-472).
OneMount == \A k, l \in present : k.fs = l.fs => k = l

\* As long as a filesystem has metrics, it has a full set of them once in
\* full_metrics_factor scans (docs/internals.md:105).
FullCycleKept == \A l \in Lines : since[l] < FullPeriod
==============================================================================
