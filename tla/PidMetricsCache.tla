--------------------------- MODULE PidMetricsCache ---------------------------
(***************************************************************************)
(* The cache of per process state in lsvmi/proc_pid_metrics.go: a map from *)
(* PID/TID to an entry and, through the same entries, a doubly linked list *)
(* in the order of their last scan.  Execute walks the listed PIDs, takes  *)
(* each one's entry off the list and puts it, or a new one, at the tail;   *)
(* what is left at the head by then is outdated and deleted.               *)
(*                                                                         *)
(* An iteration of a loop of Execute is an action.  Entries are Go         *)
(* objects, the members of Nodes, and links are pointers; a dereference of *)
(* nil ends the program ("crashed").                                       *)
(***************************************************************************)
EXTENDS Naturals, FiniteSets

CONSTANTS
    Pids,           \* PID or PID,TID
    Nodes,          \* ProcPidTidMetricsInfo objects
    PidReuse,       \* whether a PID may come back as another process
    Nil

VARIABLES
    pc,         \* "idle", "scan", "clean", "crashed"
    todo,       \* the part of pidTidList that the loop has not seen
    map,        \* pidTidMetricsInfo: [Pids -> Nodes or Nil]
    pidOf,      \* the pidTid of a node
    next, prev,
    head, tail, \* pidTidMetricsInfoHead, pidTidMetricsInfoTail
    fresh,      \* the nodes whose scanNum is that of the current scan
    seen        \* history: the PIDs that the scan parsed without an error

vars == <<pc, todo, map, pidOf, next, prev, head, tail, fresh, seen>>

Init ==
    /\ pc = "idle"
    /\ todo = {}
    /\ map = [p \in Pids |-> Nil]
    /\ pidOf = [n \in Nodes |-> CHOOSE p \in Pids : TRUE]
    /\ next = [n \in Nodes |-> Nil]
    /\ prev = [n \in Nodes |-> Nil]
    /\ head = Nil /\ tail = Nil
    /\ fresh = {}
    /\ seen = {}

\* The nodes in use; the others are free to be allocated.
Cached == {map[p] : p \in Pids} \ {Nil}
Linked == {n \in Nodes : n \in {head, tail} \/ \E m \in Nodes : n \in {next[m], prev[m]}}
Free == Nodes \ (Cached \cup Linked)

------------------------------------------------------------------------------
\* The links as one value, so that the steps on them compose.
Links == [next |-> next, prev |-> prev, head |-> head, tail |-> tail]

\* "Remove from LRU".
Unlinked(l, n) ==
    LET nx == l.next[n]
        pv == l.prev[n]
    IN  [next |-> [m \in Nodes |-> IF m = n THEN Nil ELSE IF m = pv THEN nx ELSE l.next[m]],
         prev |-> [m \in Nodes |-> IF m = n THEN Nil ELSE IF m = nx THEN pv ELSE l.prev[m]],
         head |-> IF pv = Nil THEN nx ELSE l.head,
         tail |-> IF nx = Nil THEN pv ELSE l.tail]

AddedToHead(l, n) ==
    [next |-> [l.next EXCEPT ![n] = l.head],
     prev |-> [m \in Nodes |-> IF m = l.head THEN n ELSE l.prev[m]],
     head |-> n,
     tail |-> IF l.tail = Nil THEN n ELSE l.tail]

\* "(Re)add to the tail of LRU".
Added(l, n) ==
    [next |-> [m \in Nodes |-> IF m = l.tail THEN n ELSE l.next[m]],
     prev |-> IF l.tail = Nil THEN l.prev ELSE [l.prev EXCEPT ![n] = l.tail],
     head |-> IF l.tail = Nil THEN n ELSE l.head,
     tail |-> n]

SetLinks(l) ==
    next' = l.next /\ prev' = l.prev /\ head' = l.head /\ tail' = l.tail

KeptLinked(p) == Links

\* The links as the loop has them once it looked up p.
TakenOut(p) == IF map[p] = Nil THEN Links ELSE Unlinked(Links, map[p])

------------------------------------------------------------------------------
\* Execute up to the loop, for a list of PIDs; no entry has the new scanNum.
BeginScan(list) ==
    /\ pc = "idle"
    /\ pc' = "scan"
    /\ todo' = list
    /\ fresh' = {}
    /\ seen' = {}
    /\ UNCHANGED <<map, pidOf, next, prev, head, tail>>

\* PID/stat cannot be parsed.
StatError(p) ==
    /\ pc = "scan" /\ p \in todo
    /\ todo' = todo \ {p}
    /\ SetLinks(TakenOut(p))
    /\ map' = [map EXCEPT ![p] = Nil]
    /\ UNCHANGED <<pc, pidOf, fresh, seen>>

\* An inactive process in a partial cycle, or metrics are generated: the
\* entry goes to the tail.
Rescanned(p) ==
    /\ pc = "scan" /\ p \in todo /\ map[p] # Nil
    /\ todo' = todo \ {p}
    /\ SetLinks(Added(TakenOut(p), map[p]))
    /\ fresh' = fresh \cup {map[p]}
    /\ seen' = seen \cup {p}
    /\ UNCHANGED <<pc, map, pidOf>>

\* PID/status or PID/cmdline cannot be parsed, the process being the one of
\* the entry.
StatusError(p) ==
    /\ pc = "scan" /\ p \in todo /\ map[p] # Nil
    /\ todo' = todo \ {p}
    /\ SetLinks(TakenOut(p))
    /\ map' = [map EXCEPT ![p] = Nil]
    /\ UNCHANGED <<pc, pidOf, fresh, seen>>

\* No entry, or another starttime than the entry's: hasPrev is false.
NoPrev(p) == map[p] = Nil \/ PidReuse

\* A process found for the first time: its new entry n is stored.
NewProcess(p, n) ==
    /\ pc = "scan" /\ p \in todo /\ NoPrev(p)
    /\ todo' = todo \ {p}
    /\ pidOf' = [pidOf EXCEPT ![n] = p]
    /\ SetLinks(Added(TakenOut(p), n))
    /\ map' = [map EXCEPT ![p] = n]
    /\ fresh' = (fresh \ {map[p]}) \cup {n}
    /\ seen' = seen \cup {p}
    /\ UNCHANGED pc

\* PID/status or PID/cmdline of such a process cannot be parsed: the new entry
\* is dropped; what the map has for p is not touched.
NewProcessError(p) ==
    /\ pc = "scan" /\ p \in todo /\ NoPrev(p)
    /\ todo' = todo \ {p}
    /\ SetLinks(TakenOut(p))
    /\ UNCHANGED <<pc, map, pidOf, fresh, seen>>

EndLoop ==
    /\ pc = "scan" /\ todo = {}
    /\ pc' = "clean"
    /\ UNCHANGED <<todo, map, pidOf, next, prev, head, tail, fresh, seen>>

\* An iteration of "Remove outdated PID, TID's from cache".
RemoveOutdated ==
    /\ pc = "clean" /\ head # Nil /\ head \notin fresh
    /\ map' = [map EXCEPT ![pidOf[head]] = Nil]
    /\ head' = next[head]
    /\ IF next[head] = Nil
       THEN pc' = "crashed" /\ UNCHANGED prev
       ELSE pc' = pc /\ prev' = [prev EXCEPT ![next[head]] = Nil]
    /\ next' = [next EXCEPT ![head] = Nil]  \* the object is garbage
    /\ UNCHANGED <<todo, pidOf, tail, fresh, seen>>

OneMayStay == head # Nil => head \in fresh \/ next[head] = Nil

NothingOutdated == head = Nil \/ head \in fresh

\* The end of the loop and of Execute.
EndScan ==
    /\ pc = "clean" /\ NothingOutdated
    /\ pc' = "idle"
    /\ UNCHANGED <<todo, map, pidOf, next, prev, head, tail, fresh, seen>>

Next ==
    \/ \E list \in SUBSET Pids : BeginScan(list)
    \/ \E p \in Pids :
         \/ StatError(p) \/ Rescanned(p) \/ StatusError(p) \/ NewProcessError(p)
         \/ \E n \in Free : NewProcess(p, n)
    \/ EndLoop
    \/ RemoveOutdated
    \/ EndScan

Spec == Init /\ [][Next]_vars
------------------------------------------------------------------------------
TypeOK ==
    /\ pc \in {"idle", "scan", "clean", "crashed"}
    /\ todo \subseteq Pids
    /\ map \in [Pids -> Nodes \cup {Nil}]
    /\ pidOf \in [Nodes -> Pids]
    /\ next \in [Nodes -> Nodes \cup {Nil}]
    /\ prev \in [Nodes -> Nodes \cup {Nil}]
    /\ head \in Nodes \cup {Nil}
    /\ tail \in Nodes \cup {Nil}
    /\ fresh \subseteq Nodes
    /\ seen \subseteq Pids

\* The list is the cache: following next from the head visits the entries of
\* the map, each once, prev leads back the same way, and the tail is the last.
\* It holds between any two iterations of the loops of Execute
\* (proc_pid_metrics.go:262-267, 1211-1223, 1339-1345).
ListIsCache ==
    pc # "crashed" =>
        /\ (head = Nil) = (Cached = {}) /\ (tail = Nil) = (Cached = {})
        /\ head # Nil => head \in Cached /\ prev[head] = Nil
        /\ tail # Nil => tail \in Cached /\ next[tail] = Nil
        /\ \A n \in Cached :
             /\ n # tail => next[n] \in Cached /\ prev[next[n]] = n
             /\ n # head => prev[n] \in Cached /\ next[prev[n]] = n
        /\ \A p \in Pids : map[p] # Nil => pidOf[map[p]] = p

\* The entries that the current scan has not seen come before those that it
\* has, which is why the removal of the outdated ones may stop at the first
\* that is not (proc_pid_metrics.go:262-265, 1357-1360).
OutdatedFirst ==
    pc # "crashed" => \A n \in Cached \cap fresh : n = tail \/ next[n] \in fresh

\* Between scans the cache has exactly the processes that the last scan parsed:
\* a process that ended leaves no entry behind for its PID's next user and a
\* live one never loses its previous state (proc_pid_metrics.go:276-279).
CacheIsCurrent ==
    pc = "idle" => {p \in Pids : map[p] # Nil} = seen

\* "At the end of the metrics generation, all the cache entries left with an
\* outdated scan# will be deleted" (proc_pid_metrics.go:276-279): the removal
\* deletes them and gets to its end.
OutdatedRemoved == pc # "crashed"
==============================================================================
