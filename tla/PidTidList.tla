----------------------------- MODULE PidTidList ------------------------------
(***************************************************************************)
(* The list of processes and threads in procfs/pid_tid_list.go, shared by  *)
(* the NumPart process metrics tasks.  Each asks for its part of the list; *)
(* the first to find the list older than ValidFor reads the directory      *)
(* again, for all of them, holding the lock.                               *)
(*                                                                         *)
(* An entry is a process or a thread; Key is its number, by which it       *)
(* belongs to a part.  Time passes in ticks, also while the directory is   *)
(* read, which takes at most MaxRead.                                      *)
(***************************************************************************)
EXTENDS Naturals, FiniteSets

CONSTANTS
    NumPart,
    Entries,
    Key,        \* [Entries -> Nat]
    ValidFor,   \* pid_list_cache_valid_interval
    MaxRead,
    Nil

Parts == 0..(NumPart - 1)

\* How old what a task is given may be.
Horizon == ValidFor + MaxRead

VARIABLES
    alive,          \* the entries in the directory
    still,          \* for how long an entry has been there, or not been there
    lists,          \* pidLists
    initialized,
    age,            \* time.Since(retrievedTime)
    holder,         \* the task that holds the lock to refresh, or Nil
    names,          \* what it found in the directory
    readTime,       \* how long ago
    stopped,        \* the tasks that ended, as Execute returned false
    got             \* history: what a task was given last, and what was there

vars == <<alive, still, lists, initialized, age, holder, names, readTime, stopped, got>>

Init ==
    /\ alive \in SUBSET Entries
    /\ still = [e \in Entries |-> Horizon + 1]
    /\ lists = [i \in Parts |-> {}]
    /\ initialized = FALSE
    /\ age = ValidFor + 1
    /\ holder = Nil /\ names = {} /\ readTime = 0
    /\ stopped = {}
    /\ got = Nil

Older(t, max) == IF t < max THEN t + 1 ELSE t

Tick ==
    /\ holder # Nil => readTime < MaxRead
    /\ age' = Older(age, ValidFor + 1)
    /\ still' = [e \in Entries |-> Older(still[e], Horizon + 1)]
    /\ readTime' = IF holder = Nil THEN 0 ELSE readTime + 1
    /\ UNCHANGED <<alive, lists, initialized, holder, names, stopped, got>>

\* A process or thread starts or ends.
ForkOrExit(e) ==
    /\ alive' = IF e \in alive THEN alive \ {e} ELSE alive \cup {e}
    /\ still' = [still EXCEPT ![e] = 0]
    /\ UNCHANGED <<lists, initialized, age, holder, names, readTime, stopped, got>>

------------------------------------------------------------------------------
\* pid & mask when the number of parts is a power of two, else pid % numPart.
PartNo(e) == Key[e] % NumPart

\* What GetPidTidList copies for task i, and what the directory has then.
Served(i) ==
    [part  |-> i,
     list  |-> lists'[i],
     lived |-> {e \in alive : still[e] > Horizon /\ PartNo(e) = i},
     gone  |-> {e \in Entries \ alive : still[e] > Horizon}]

Expired == ~initialized \/ age > ValidFor

\* GetPidTidList while the list is valid.
GetCached(i) ==
    /\ holder = Nil /\ i \notin stopped
    /\ ~Expired
    /\ lists' = lists
    /\ got' = Served(i)
    /\ UNCHANGED <<alive, still, initialized, age, holder, names, readTime, stopped>>

ListsKept == lists

EmptiedFromOne == [j \in 1..NumPart |-> {}]

\* Refresh starts with the lists emptied.
ListsEmptied == [j \in Parts |-> {}]

\* GetPidTidList has to refresh: up to the end of getDirNames.
ReadDir(i) ==
    /\ holder = Nil /\ i \notin stopped
    /\ Expired
    /\ holder' = i
    /\ lists' = ListsEmptied
    /\ names' = alive
    /\ readTime' = 0
    /\ UNCHANGED <<alive, still, initialized, age, stopped, got>>

AgeRestarted == 0

\* retrievedTime after a refresh that failed.
AgeAfterError == age

\* getDirNames fails; so does GetPidTidList, and the task ends.
ReadDirFails(i) ==
    /\ holder = Nil /\ i \notin stopped
    /\ Expired
    /\ lists' = ListsEmptied
    /\ age' = AgeAfterError
    /\ stopped' = stopped \cup {i}
    /\ UNCHANGED <<alive, still, initialized, holder, names, readTime, got>>

\* The rest of Refresh and of GetPidTidList.
EndRefresh(i) ==
    /\ holder = i
    /\ lists' = [j \in Parts |-> lists[j] \cup {e \in names : PartNo(e) = j}]
    /\ initialized' = TRUE
    /\ age' = 0
    /\ holder' = Nil /\ names' = {} /\ readTime' = 0
    /\ got' = Served(i)
    /\ UNCHANGED <<alive, still, stopped>>

Next ==
    \/ Tick
    \/ \E e \in Entries : ForkOrExit(e)
    \/ \E i \in Parts : GetCached(i) \/ ReadDir(i) \/ ReadDirFails(i) \/ EndRefresh(i)

Spec == Init /\ [][Next]_vars
------------------------------------------------------------------------------
TypeOK ==
    /\ alive \subseteq Entries
    /\ still \in [Entries -> 0..(Horizon + 1)]
    /\ lists \in [Parts -> SUBSET Entries]
    /\ initialized \in BOOLEAN
    /\ age \in 0..(ValidFor + 1)
    /\ holder \in Parts \cup {Nil}
    /\ names \subseteq Entries
    /\ readTime \in 0..MaxRead
    /\ stopped \subseteq Parts

\* A task is given every process and thread of its part that has been there for
\* longer than a list is valid and its directory takes to read, whichever task
\* refreshed the list and whether refreshes failed before, and it is given no
\* other task's (pid_tid_list.go:40-42, 119-133, 211-231).
NoneMissed ==
    got # Nil =>
        /\ got.lived \subseteq got.list
        /\ \A e \in got.list : PartNo(e) = got.part

\* A task is not given a process or thread that is gone for longer than that:
\* the lists, whose storage is reused, keep nothing from an earlier refresh
\* (pid_tid_list.go:124-128, 224-229).
NoGhosts == got # Nil => got.list \cap got.gone = {}
==============================================================================
