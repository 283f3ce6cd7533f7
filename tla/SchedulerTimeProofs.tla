------------------------- MODULE SchedulerTimeProofs -------------------------
(***************************************************************************)
(* Proofs about Scheduler: deadlines, the timer and the pauses.            *)
(***************************************************************************)
EXTENDS SchedulerProofs

\* A task that was executed before is due, and is on its way to a worker, no
\* earlier than the minimum pause after its last execution.
Pauses ==
    /\ \A t \in heap : addedByWorker[t] =>
           deadline[t] >= lastExecuted[t] + MinExecutionPause
    /\ \A t \in Tasks : addedByWorker[t] /\ (dtask = t \/ InTodoQ(t)) =>
           now >= lastExecuted[t] + MinExecutionPause
    /\ MinPauseKept

\* A task that is not waiting in the heap has its deadline behind it; one that
\* is new has none yet.
Deadlines ==
    /\ \A t \in Tasks : t \notin added => deadline[t] = 0 /\ ~addedByWorker[t]
    /\ \A t \in Tasks : InTaskQ(t) /\ ~addedByWorker[t] => deadline[t] = 0
    /\ \A t \in Tasks : InTaskQ(t) \/ InTodoQ(t) \/ dtask = t \/ WithWorker(t) =>
           deadline[t] <= now
    /\ \A w \in Workers : wpc[w] = "requeue" => addedByWorker[wtask[w]]

TimeInv == PlaceInv /\ TimerTracksTop /\ Pauses /\ Deadlines /\ HackNeedsLag

LEMMA PauseType == MinExecutionPause \in Nat \ {0}
  BY GranularityAssumption DEF MinExecutionPause

LEMMA TimeInit == Init => TimeInv
<1> SUFFICES ASSUME Init
             PROVE  TimeInv
  OBVIOUS
<1>1. PlaceInv
  BY TypeInit, PlaceInit DEF PlaceInv
<1>2. TimerTracksTop
  BY DEF Init, TimerTracksTop, Top
<1>3. Pauses
  BY DEF Init, Pauses, MinPauseKept
<1>4. Deadlines
  BY NoTaskAssumption DEF Init, Deadlines, InTaskQ, InTodoQ, WithWorker, Holds
<1>5. HackNeedsLag
  BY DEF Init, HackNeedsLag, NewTaskStats
<1>6. QED
  BY <1>1, <1>2, <1>3, <1>4, <1>5 DEF TimeInv

\* The task that the dispatcher receives is in no other place, is due already
\* and, if new, has no deadline.
LEMMA ReceivedFacts ==
    ASSUME TimeInv, taskQ # <<>>, taskQ' = Tail(taskQ), dpc = "select",
           NEW t, t = Head(taskQ)
    PROVE  /\ t \in Tasks
           /\ t \notin heap /\ ~InTodoQ(t) /\ ~WithWorker(t) /\ dtask = NoTask
           /\ interval[t] \in Nat \ {0}
           /\ deadline[t] \in Nat /\ lastExecuted[t] \in Nat /\ now \in Nat
           /\ deadline[t] <= now
           /\ ~addedByWorker[t] => deadline[t] = 0
           /\ t \in added
           /\ \A u : InTaskQ(u)' <=> InTaskQ(u) /\ u # t
<1>1. /\ t \in Tasks /\ InTaskQ(t) /\ interval[t] \in Nat \ {0}
      /\ \A u : InTaskQ(u) <=> InTaskQ(u)' \/ u = t
      /\ ~InTaskQ(t)'
  BY ReceiveFacts DEF TimeInv, PlaceInv, OnePlace, InTaskQ
<1>2. t \notin heap /\ ~InTodoQ(t) /\ ~WithWorker(t)
  BY <1>1 DEF TimeInv, PlaceInv, OnePlace
<1>3. dtask = NoTask /\ t \in added
  BY <1>1 DEF TimeInv, PlaceInv, TypeInv, Hands, Placed
<1>4. deadline[t] \in Nat /\ lastExecuted[t] \in Nat /\ now \in Nat
  BY <1>1 DEF TimeInv, PlaceInv, TypeInv, TypeOK
<1>5. deadline[t] <= now /\ (~addedByWorker[t] => deadline[t] = 0)
  BY <1>1 DEF TimeInv, Deadlines
<1>6. QED
  BY <1>1, <1>2, <1>3, <1>4, <1>5

\* A push keeps the timer on the top of the heap, stopping it if the new task
\* comes first.
LEMMA TimerPush ==
    ASSUME TimeInv, NEW t \in Tasks, NEW d \in Nat, t \notin heap, PushTask(t, d),
           dpc' = "loop", UNCHANGED currentDeadline
    PROVE  TimerTracksTop'
<1>1. /\ deadline \in [Tasks -> Nat] /\ heap \subseteq Tasks /\ currentDeadline \in Nat
      /\ activeTimer \in BOOLEAN
  BY DEF TimeInv, PlaceInv, TypeInv, TypeOK
<1>2. /\ deadline' = [deadline EXCEPT ![t] = d]
      /\ heap' = heap \cup {t}
      /\ activeTimer' => activeTimer /\ ~(d < currentDeadline)
  BY <1>1, Zenon DEF PushTask
<1>3. ASSUME activeTimer'
      PROVE  \E u \in Top' : currentDeadline' = deadline'[u]
  <2>1. PICK u \in Top : currentDeadline = deadline[u]
    BY <1>2, <1>3 DEF TimeInv, TimerTracksTop
  <2>2. u \in heap /\ u # t /\ \A v \in heap : deadline[u] <= deadline[v]
    BY <2>1 DEF Top
  <2>3. deadline'[u] = deadline[u] /\ deadline'[t] = d
        /\ \A v \in heap : deadline'[v] = deadline[v]
    BY <1>1, <1>2, <2>2
  <2>4. \A v \in heap' : deadline'[u] <= deadline'[v]
    BY <1>1, <1>2, <1>3, <2>1, <2>2, <2>3
  <2>5. u \in Top'
    BY <1>2, <2>2, <2>4 DEF Top
  <2>6. QED
    BY <2>1, <2>3, <2>5
<1>4. QED
  BY <1>3 DEF TimerTracksTop

\* The clock and main.
LEMMA TimeMain ==
    ASSUME TimeInv, Tick \/ Main
    PROVE  TimerTracksTop' /\ Pauses' /\ Deadlines' /\ HackNeedsLag'
<1>1. CASE Tick
  <2>1. /\ now \in Nat /\ now' = now + 1
        /\ lastExecuted \in [Tasks -> Nat] /\ deadline \in [Tasks -> Nat]
        /\ UNCHANGED <<mainVars, taskQ, todoQ, taskVars, dispVars, workVars, statVars>>
    BY <1>1 DEF Tick, TimeInv, PlaceInv, TypeInv, TypeOK
  <2>2. TimerTracksTop' /\ HackNeedsLag'
    BY <2>1 DEF TimeInv, TimerTracksTop, Top, HackNeedsLag, taskVars, dispVars, statVars
  <2>3. MinPauseKept'
    BY <2>1 DEF TimeInv, Pauses, MinPauseKept, taskVars, workVars
  <2>4. Pauses'
    BY <2>1, <2>3, PauseType DEF TimeInv, Pauses, InTodoQ, taskVars, dispVars
  <2>5. Deadlines'
    BY <2>1 DEF TimeInv, Deadlines, InTaskQ, InTodoQ, WithWorker, mainVars, taskVars,
       dispVars, workVars
  <2>6. QED
    BY <2>2, <2>4, <2>5
<1>2. CASE Start
  <2>1. /\ wtask' = wtask /\ wpc' = [w \in Workers |-> "select"] /\ dpc' = "loop"
        /\ UNCHANGED <<now, added, taskQ, todoQ, taskVars, heap, dtask, activeTimer,
                       currentDeadline, startTs, statVars>>
    BY <1>2 DEF Start
  <2>2. TimerTracksTop' /\ HackNeedsLag'
    BY <2>1 DEF TimeInv, TimerTracksTop, Top, HackNeedsLag, taskVars, statVars
  <2>3. Pauses'
    BY <2>1 DEF TimeInv, Pauses, MinPauseKept, InTodoQ, taskVars
  <2>4. Deadlines'
    BY <2>1 DEF TimeInv, Deadlines, InTaskQ, InTodoQ, WithWorker, taskVars
  <2>5. QED
    BY <2>2, <2>3, <2>4
<1>3. CASE Shutdown
  BY <1>3 DEF Shutdown, TimeInv, TimerTracksTop, Top, HackNeedsLag, Pauses,
     MinPauseKept, Deadlines, InTaskQ, InTodoQ, WithWorker, taskVars, dispVars,
     workVars, statVars
<1>4. ASSUME NEW t \in Tasks, AddNewTask(t)
      PROVE  TimerTracksTop' /\ Pauses' /\ Deadlines' /\ HackNeedsLag'
  <2>1. /\ taskQ' = Append(taskQ, t) /\ taskQ \in Seq(Tasks)
        /\ added' = added \cup {t} /\ t \notin added
        /\ addedByWorker' = [addedByWorker EXCEPT ![t] = FALSE]
        /\ addedByWorker \in [Tasks -> BOOLEAN]
        /\ UNCHANGED <<now, todoQ, deadline, lastExecuted, dispVars, workVars, statVars>>
    BY <1>4 DEF AddNewTask, TimeInv, PlaceInv, TypeInv, TypeOK
  <2>2. deadline[t] = 0 /\ ~addedByWorker[t]
    BY <2>1 DEF TimeInv, Deadlines
  <2>3. addedByWorker' = addedByWorker
    BY <2>1, <2>2
  <2>4. \A u : InTaskQ(u)' <=> InTaskQ(u) \/ u = t
    BY <2>1, AppendFacts DEF InTaskQ
  <2>5. TimerTracksTop' /\ HackNeedsLag'
    BY <2>1 DEF TimeInv, TimerTracksTop, Top, HackNeedsLag, dispVars, statVars
  <2>6. Pauses'
    BY <2>1, <2>3 DEF TimeInv, Pauses, MinPauseKept, InTodoQ, dispVars, workVars
  <2>7. now \in Nat
    BY DEF TimeInv, PlaceInv, TypeInv, TypeOK
  <2>8. Deadlines'
    BY <2>1, <2>2, <2>3, <2>4, <2>7
       DEF TimeInv, Deadlines, InTodoQ, WithWorker, dispVars, workVars
  <2>9. QED
    BY <2>5, <2>6, <2>8
<1>5. QED
  BY <1>1, <1>2, <1>3, <1>4 DEF Main

\* The deadline that a task gets when it comes back from a worker.
LEMMA ExecutedDeadline ==
    ASSUME TimeInv, ReceiveExecuted, NEW t, t = Head(taskQ)
    PROVE  \E d \in Nat :
             /\ PushTask(t, d)
             /\ d >= lastExecuted[t] + MinExecutionPause
             /\ d > deadline[t]
             /\ MaxSkew = 0 => stats'[t].hack = stats[t].hack
             /\ \A u \in Tasks \ {t} : stats'[u] = stats[u]
<1>1. taskQ # <<>> /\ taskQ' = Tail(taskQ) /\ dpc = "select"
  BY DEF ReceiveExecuted
<1>2. /\ t \in Tasks /\ interval[t] \in Nat \ {0}
      /\ deadline[t] \in Nat /\ lastExecuted[t] \in Nat /\ now \in Nat
      /\ deadline[t] <= now
  BY <1>1, ReceivedFacts
<1>3. PICK r \in ClockReadings :
        LET multiple == NextMultiple(t, r)
            next     == PastDeadline(t, multiple)
            nearest  == TaskNearestDeadline(t)
            hack     == ~(deadline[t] < multiple)
            delayed  == next < nearest
        IN  /\ PushTask(t, IF delayed THEN nearest ELSE next)
            /\ stats' = [stats EXCEPT ![t] = CountReceived(@, hack, delayed)]
  BY Zenon DEF ReceiveExecuted
<1>4. r \in Nat /\ (MaxSkew = 0 => r = now)
  BY <1>2 DEF ClockReadings
<1> DEFINE multiple == NextMultiple(t, r)
           next     == PastDeadline(t, multiple)
           nearest  == TaskNearestDeadline(t)
           d        == IF next < nearest THEN nearest ELSE next
<1>5. multiple \in Nat /\ multiple > r
  BY <1>2, <1>4, DeadlineFacts
<1>6. next \in Nat /\ next > deadline[t]
  BY <1>2, <1>4, <1>5, DeadlineFacts
<1>7. nearest \in Nat /\ nearest = lastExecuted[t] + MinExecutionPause
  BY <1>2, PauseType DEF TaskNearestDeadline
<1>8. d \in Nat /\ d >= lastExecuted[t] + MinExecutionPause /\ d > deadline[t]
  BY <1>2, <1>6, <1>7
<1>9. PushTask(t, d)
  BY <1>3
<1>10. stats \in [Tasks -> TaskStats]
  BY DEF TimeInv, PlaceInv, TypeInv, TypeOK
<1>11. \A u \in Tasks \ {t} : stats'[u] = stats[u]
  BY <1>2, <1>3, <1>10
<1>12. ASSUME MaxSkew = 0
       PROVE  stats'[t].hack = stats[t].hack
  <2>1. deadline[t] < multiple
    <3>1. r = now
      BY <1>4, <1>12
    <3>2. deadline[t] \in Nat /\ now \in Nat /\ multiple \in Nat
      BY <1>2, <1>5
    <3>3. deadline[t] <= now /\ now < multiple
      BY <1>2, <1>5, <3>1
    <3> HIDE DEF multiple
    <3>4. QED
      BY <3>2, <3>3
  <2>2. stats'[t] = CountReceived(stats[t], FALSE, next < nearest)
    BY <1>2, <1>3, <1>10, <2>1, ZenonT(30)
  <2>3. stats[t] \in TaskStats
    BY <1>2, <1>10
  <2>4. QED
    BY <2>2, <2>3 DEF CountReceived, TaskStats
<1> HIDE DEF d
<1>13. QED
  BY <1>8, <1>9, <1>11, <1>12

\* The dispatcher.
LEMMA TimeDispatcher ==
    ASSUME TimeInv, Dispatcher
    PROVE  TimerTracksTop' /\ Pauses' /\ Deadlines' /\ HackNeedsLag'
<1>0. /\ deadline \in [Tasks -> Nat] /\ lastExecuted \in [Tasks -> Nat]
      /\ addedByWorker \in [Tasks -> BOOLEAN] /\ now \in Nat
      /\ stats \in [Tasks -> TaskStats]
      /\ heap \subseteq Tasks
  BY DEF TimeInv, PlaceInv, TypeInv, TypeOK
<1>1. CASE ArmTimer
  <2>1. UNCHANGED <<now, mainVars, taskQ, todoQ, taskVars, heap, dtask, workVars, statVars>>
    BY <1>1 DEF ArmTimer
  <2>2. TimerTracksTop'
    BY <1>1 DEF ArmTimer, TimeInv, TimerTracksTop, Top, taskVars
  <2>3. Pauses' /\ HackNeedsLag'
    BY <2>1 DEF TimeInv, Pauses, MinPauseKept, HackNeedsLag, InTodoQ, taskVars,
       workVars, statVars
  <2>4. Deadlines'
    BY <2>1 DEF TimeInv, Deadlines, InTaskQ, InTodoQ, WithWorker, mainVars, taskVars,
       workVars
  <2>5. QED
    BY <2>2, <2>3, <2>4
<1>2. CASE DispatcherDone
  BY <1>2 DEF DispatcherDone, TimeInv, TimerTracksTop, Top, Pauses, MinPauseKept,
     Deadlines, HackNeedsLag, InTaskQ, InTodoQ, WithWorker, mainVars, taskVars,
     workVars, statVars
<1>3. CASE ReceiveExecuted
  <2>1. /\ taskQ # <<>> /\ taskQ' = Tail(taskQ) /\ dpc = "select" /\ dpc' = "loop"
        /\ UNCHANGED <<now, mainVars, todoQ, interval, lastExecuted, addedByWorker,
                       dtask, currentDeadline, workVars, statIds>>
    BY <1>3 DEF ReceiveExecuted
  <2>2. PICK t : t = Head(taskQ)
    OBVIOUS
  <2>3. /\ t \in Tasks /\ t \notin heap /\ ~InTodoQ(t) /\ ~WithWorker(t) /\ dtask = NoTask
        /\ t \in added
        /\ \A u : InTaskQ(u)' <=> InTaskQ(u) /\ u # t
    BY <2>1, <2>2, ReceivedFacts
  <2>4. PICK d \in Nat :
          /\ PushTask(t, d)
          /\ d >= lastExecuted[t] + MinExecutionPause
          /\ MaxSkew = 0 => stats'[t].hack = stats[t].hack
          /\ \A u \in Tasks \ {t} : stats'[u] = stats[u]
    BY <1>3, <2>2, ExecutedDeadline
  <2>5. /\ deadline'[t] = d /\ heap' = heap \cup {t}
        /\ \A u \in Tasks \ {t} : deadline'[u] = deadline[u]
    BY <1>0, <2>3, <2>4 DEF PushTask
  <2>6. TimerTracksTop'
    BY <2>1, <2>3, <2>4, TimerPush
  <2>7. HackNeedsLag'
    BY <2>3, <2>4 DEF TimeInv, HackNeedsLag
  <2>8. MinPauseKept'
    BY <2>1 DEF TimeInv, Pauses, MinPauseKept, workVars
  <2>9. Pauses'
    BY <1>0, <2>1, <2>3, <2>4, <2>5, <2>8 DEF TimeInv, Pauses, InTodoQ
  <2>10. Deadlines'
    BY <1>0, <2>1, <2>3, <2>5, NoTaskAssumption
       DEF TimeInv, Deadlines, InTodoQ, WithWorker, mainVars, workVars
  <2>11. QED
    BY <2>6, <2>7, <2>9, <2>10
<1>4. CASE ReceiveNew
  <2>1. /\ taskQ # <<>> /\ taskQ' = Tail(taskQ) /\ dpc = "select"
        /\ UNCHANGED <<now, mainVars, todoQ, interval, lastExecuted, addedByWorker,
                       currentDeadline, workVars>>
    BY <1>4 DEF ReceiveNew
  <2>2. PICK t : t = Head(taskQ)
    OBVIOUS
  <2>3. /\ t \in Tasks /\ t \notin heap /\ ~InTodoQ(t) /\ ~WithWorker(t) /\ dtask = NoTask
        /\ t \in added /\ interval[t] \in Nat \ {0}
        /\ \A u : InTaskQ(u)' <=> InTaskQ(u) /\ u # t
    BY <2>1, <2>2, ReceivedFacts
  <2>4. ~addedByWorker[t]
    BY <1>4, <2>2 DEF ReceiveNew
  <2>5. PICK r \in ClockReadings :
          \/ /\ PushTask(t, NextMultiple(t, r))
             /\ dpc' = "loop"
             /\ UNCHANGED <<dtask, statVars>>
          \/ /\ deadline' = [deadline EXCEPT ![t] = r]
             /\ activeTimer' = FALSE
             /\ Dispatch(t)
             /\ UNCHANGED heap
    BY <1>4, <2>2 DEF ReceiveNew
  <2>6. r \in Nat /\ r <= now
    BY <1>0 DEF ClockReadings
  <2>7. MinPauseKept'
    BY <2>1 DEF TimeInv, Pauses, MinPauseKept, workVars
  <2>8. CASE /\ PushTask(t, NextMultiple(t, r))
             /\ dpc' = "loop"
             /\ UNCHANGED <<dtask, statVars>>
    <3>1. PICK d \in Nat : d = NextMultiple(t, r)
      BY <1>0, <2>3, <2>6, DeadlineFacts
    <3>2. /\ heap' = heap \cup {t}
          /\ \A u \in Tasks \ {t} : deadline'[u] = deadline[u]
      BY <1>0, <2>3, <2>8, <3>1 DEF PushTask
    <3>3. TimerTracksTop'
      BY <2>1, <2>3, <2>8, <3>1, TimerPush
    <3>4. HackNeedsLag'
      BY <2>8 DEF TimeInv, HackNeedsLag, statVars
    <3>5. Pauses'
      BY <1>0, <2>1, <2>3, <2>4, <2>7, <2>8, <3>2 DEF TimeInv, Pauses, InTodoQ
    <3>6. Deadlines'
      BY <1>0, <2>1, <2>3, <2>8, <3>2, NoTaskAssumption, ZenonT(30)
         DEF TimeInv, Deadlines, InTodoQ, WithWorker, mainVars, workVars
    <3>7. QED
      BY <3>3, <3>4, <3>5, <3>6
  <2>9. CASE /\ deadline' = [deadline EXCEPT ![t] = r]
             /\ activeTimer' = FALSE
             /\ Dispatch(t)
             /\ UNCHANGED heap
    <3>1. /\ deadline'[t] = r /\ dtask' = t /\ dpc' = "send"
          /\ \A u \in Tasks \ {t} : deadline'[u] = deadline[u]
      BY <1>0, <2>3, <2>9 DEF Dispatch
    <3>2. TimerTracksTop'
      BY <2>9, <3>1 DEF TimerTracksTop
    <3>3. HackNeedsLag'
      <4>1. stats' = [stats EXCEPT ![t] = CountScheduled(@)]
        BY <2>9 DEF Dispatch
      <4>2. \A u \in Tasks : stats'[u].hack = stats[u].hack
        BY <1>0, <2>3, <4>1 DEF CountScheduled, TaskStats
      <4>3. QED
        BY <4>2 DEF TimeInv, HackNeedsLag
    <3>4. Pauses'
      BY <1>0, <2>1, <2>3, <2>4, <2>7, <2>9, <3>1 DEF TimeInv, Pauses, InTodoQ
    <3>5. Deadlines'
      BY <1>0, <2>1, <2>3, <2>6, <3>1
         DEF TimeInv, Deadlines, InTodoQ, WithWorker, mainVars, workVars
    <3>6. QED
      BY <3>2, <3>3, <3>4, <3>5
  <2>10. QED
    BY <2>5, <2>8, <2>9, Zenon
<1>5. CASE TimerFires
  <2>1. /\ now >= currentDeadline /\ activeTimer /\ activeTimer' = FALSE
        /\ UNCHANGED <<now, mainVars, taskQ, todoQ, taskVars, currentDeadline, workVars>>
    BY <1>5 DEF TimerFires
  <2>2. PICK t \in heap : PopTask(t) /\ Dispatch(t)
    BY <1>5 DEF TimerFires
  <2>3. /\ t \in Tasks /\ t \in Top /\ heap' = heap \ {t}
        /\ dtask' = t /\ dpc' = "send"
        /\ stats' = [stats EXCEPT ![t] = CountScheduled(@)]
    BY <1>0, <2>2 DEF PopTask, Dispatch
  <2>4. deadline[t] <= now
    <3>1. PICK u \in Top : currentDeadline = deadline[u]
      BY <2>1 DEF TimeInv, TimerTracksTop
    <3>2. deadline[t] <= deadline[u]
      BY <2>3, <3>1 DEF Top
    <3>3. u \in Tasks
      BY <1>0, <3>1 DEF Top
    <3>4. QED
      BY <1>0, <2>1, <2>3, <3>1, <3>2, <3>3
  <2>5. TimerTracksTop'
    BY <2>1, <2>3 DEF TimerTracksTop
  <2>6. HackNeedsLag'
    <3>1. \A u \in Tasks : stats'[u].hack = stats[u].hack
      BY <1>0, <2>3 DEF CountScheduled, TaskStats
    <3>2. QED
      BY <3>1 DEF TimeInv, HackNeedsLag
  <2>7. MinPauseKept'
    BY <2>1 DEF TimeInv, Pauses, MinPauseKept, taskVars, workVars
  <2>8. Pauses'
    BY <1>0, <2>1, <2>3, <2>4, <2>7, PauseType
       DEF TimeInv, Pauses, InTodoQ, taskVars
  <2>9. Deadlines'
    BY <2>1, <2>3, <2>4
       DEF TimeInv, Deadlines, InTaskQ, InTodoQ, WithWorker, mainVars, taskVars, workVars
  <2>10. QED
    BY <2>5, <2>6, <2>8, <2>9
<1>6. CASE SendTodo
  <2>1. /\ dtask \in Tasks /\ todoQ \in Seq(Tasks) /\ todoQ' = Append(todoQ, dtask)
        /\ dtask' = NoTask /\ dpc' = "loop"
        /\ UNCHANGED <<now, mainVars, taskQ, taskVars, heap, activeTimer,
                       currentDeadline, workVars, statVars>>
    BY <1>6 DEF SendTodo, TimeInv, PlaceInv, TypeInv, TypeOK, Hands
  <2>2. \A u : InTodoQ(u)' <=> InTodoQ(u) \/ u = dtask
    BY <2>1, AppendFacts DEF InTodoQ
  <2>3. TimerTracksTop' /\ HackNeedsLag'
    BY <2>1 DEF TimeInv, TimerTracksTop, Top, HackNeedsLag, taskVars, statVars
  <2>4. MinPauseKept'
    BY <2>1 DEF TimeInv, Pauses, MinPauseKept, taskVars, workVars
  <2>5. Pauses'
    BY <2>1, <2>2, <2>4, NoTaskAssumption DEF TimeInv, Pauses, taskVars
  <2>6. Deadlines'
    BY <2>1, <2>2, NoTaskAssumption
       DEF TimeInv, Deadlines, InTaskQ, WithWorker, mainVars, taskVars, workVars
  <2>7. QED
    BY <2>3, <2>5, <2>6
<1>7. QED
  BY <1>1, <1>2, <1>3, <1>4, <1>5, <1>6 DEF Dispatcher

\* A worker.
LEMMA TimeWorker ==
    ASSUME TimeInv, NEW w \in Workers, Worker(w)
    PROVE  TimerTracksTop' /\ Pauses' /\ Deadlines' /\ HackNeedsLag'
<1>0. /\ deadline \in [Tasks -> Nat] /\ lastExecuted \in [Tasks -> Nat]
      /\ addedByWorker \in [Tasks -> BOOLEAN] /\ now \in Nat
      /\ stats \in [Tasks -> TaskStats]
      /\ wtask \in [Workers -> Tasks \cup {NoTask}]
      /\ wpc \in [Workers -> {"off", "select", "execute", "requeue", "exited"}]
      /\ startTs \in [Workers -> Nat]
      /\ heap \subseteq Tasks
  BY DEF TimeInv, PlaceInv, TypeInv, TypeOK
<1>1. CASE WorkerDone(w)
  <2>1. /\ wpc' = [wpc EXCEPT ![w] = "exited"]
        /\ UNCHANGED <<now, mainVars, taskQ, todoQ, taskVars, dispVars, wtask, startTs,
                       statVars>>
    BY <1>1 DEF WorkerDone
  <2>2. TimerTracksTop' /\ HackNeedsLag'
    BY <2>1 DEF TimeInv, TimerTracksTop, Top, HackNeedsLag, taskVars, dispVars, statVars
  <2>3. Pauses'
    BY <1>0, <2>1 DEF TimeInv, Pauses, MinPauseKept, InTodoQ, taskVars, dispVars
  <2>4. Deadlines'
    BY <1>0, <2>1 DEF TimeInv, Deadlines, InTaskQ, InTodoQ, WithWorker, mainVars,
       taskVars, dispVars
  <2>5. QED
    BY <2>2, <2>3, <2>4
<1>2. CASE StartExecute(w)
  <2>1. /\ todoQ # <<>> /\ todoQ' = Tail(todoQ)
        /\ wpc' = [wpc EXCEPT ![w] = "execute"]
        /\ startTs' = [startTs EXCEPT ![w] = now]
        /\ UNCHANGED <<now, mainVars, taskQ, taskVars, dispVars, statVars>>
    BY <1>2 DEF StartExecute
  <2>2. PICK t \in Tasks : t = Head(todoQ)
    BY <2>1, TodoFacts DEF TimeInv, PlaceInv
  <2>3. /\ InTodoQ(t)
        /\ \A u : InTodoQ(u) <=> InTodoQ(u)' \/ u = t
    BY <2>1, <2>2, TodoFacts DEF TimeInv, PlaceInv
  <2>4. wtask' = [wtask EXCEPT ![w] = t]
    BY <1>2, <2>2 DEF StartExecute
  <2>5. TimerTracksTop' /\ HackNeedsLag'
    BY <2>1 DEF TimeInv, TimerTracksTop, Top, HackNeedsLag, taskVars, dispVars, statVars
  <2>6. addedByWorker[t] => now >= lastExecuted[t] + MinExecutionPause
    BY <2>3 DEF TimeInv, Pauses
  <2>7. MinPauseKept'
    <3>1. ASSUME NEW v \in Workers, wpc'[v] = "execute", addedByWorker'[wtask'[v]]
          PROVE  startTs'[v] >= lastExecuted'[wtask'[v]] + MinExecutionPause
      <4>1. CASE v = w
        BY <1>0, <2>1, <2>4, <2>6, <3>1, <4>1 DEF taskVars
      <4>2. CASE v # w
        BY <1>0, <2>1, <2>4, <3>1, <4>2 DEF taskVars, TimeInv, Pauses, MinPauseKept
      <4>3. QED
        BY <4>1, <4>2
    <3>2. QED
      BY <3>1 DEF MinPauseKept, MinExecutionPause
  <2>8. Pauses'
    BY <2>1, <2>3, <2>7 DEF TimeInv, Pauses, taskVars, dispVars
  <2>9. Deadlines'
    BY <1>0, <2>1, <2>3, <2>4
       DEF TimeInv, Deadlines, InTaskQ, WithWorker, mainVars, taskVars, dispVars
  <2>10. QED
    BY <2>5, <2>8, <2>9
<1>3. ASSUME NEW reQueue \in BOOLEAN, FinishExecute(w, reQueue)
      PROVE  TimerTracksTop' /\ Pauses' /\ Deadlines' /\ HackNeedsLag'
  <2>1. PICK t \in Tasks : t = wtask[w]
    BY <1>3 DEF FinishExecute, TimeInv, PlaceInv, TypeInv, TypeOK, Hands
  <2>2. PICK r \in Nat : lastExecuted' = [lastExecuted EXCEPT ![t] = r]
    <3>1. PICK r \in ClockReadings : lastExecuted' = [lastExecuted EXCEPT ![t] = r]
      BY <1>3, <2>1, Zenon DEF FinishExecute
    <3>2. r \in Nat
      BY <1>0 DEF ClockReadings
    <3>3. QED
      BY <3>1, <3>2, Zenon
  <2>3. /\ wpc[w] = "execute"
        /\ startTs' = [startTs EXCEPT ![w] = 0]
        /\ UNCHANGED <<now, mainVars, taskQ, todoQ, interval, deadline, dispVars, statIds>>
        /\ stats' = [stats EXCEPT ![t] =
                        CountExecuted(@, now - startTs[w] >= interval[t])]
    BY <1>3, <2>1 DEF FinishExecute
  <2>4. \/ /\ addedByWorker' = [addedByWorker EXCEPT ![t] = TRUE]
           /\ wpc' = [wpc EXCEPT ![w] = "requeue"]
           /\ wtask' = wtask
        \/ /\ addedByWorker' = addedByWorker
           /\ wpc' = [wpc EXCEPT ![w] = "select"]
           /\ wtask' = [wtask EXCEPT ![w] = NoTask]
    BY <1>3, <2>1 DEF FinishExecute
  <2>5. t \notin heap /\ ~InTaskQ(t) /\ ~InTodoQ(t) /\ dtask # t /\ WithWorker(t)
    BY <2>1 DEF TimeInv, PlaceInv, OnePlace, WithWorker
  <2>6. \A v \in Workers \ {w} : wtask[v] # t
    BY <2>1, NoTaskAssumption DEF TimeInv, PlaceInv, OnePlace
  <2>7. \A u \in Tasks \ {t} : /\ lastExecuted'[u] = lastExecuted[u]
                               /\ addedByWorker'[u] = addedByWorker[u]
    BY <1>0, <2>2, <2>4
  <2>8. TimerTracksTop'
    BY <2>3 DEF TimeInv, TimerTracksTop, Top, dispVars
  <2>9. HackNeedsLag'
    <3>1. \A u \in Tasks : stats'[u].hack = stats[u].hack
      BY <1>0, <2>3 DEF CountExecuted, TaskStats
    <3>2. QED
      BY <3>1 DEF TimeInv, HackNeedsLag
  <2>10. MinPauseKept'
    <3>1. ASSUME NEW v \in Workers, wpc'[v] = "execute", addedByWorker'[wtask'[v]]
          PROVE  startTs'[v] >= lastExecuted'[wtask'[v]] + MinExecutionPause
      <4>1. v # w
        BY <1>0, <2>4, <3>1
      <4>2. /\ wpc[v] = "execute" /\ wtask'[v] = wtask[v] /\ wtask[v] # t
            /\ startTs'[v] = startTs[v]
        BY <1>0, <2>3, <2>4, <2>6, <3>1, <4>1
      <4>3. wtask[v] \in Tasks
        BY <1>0, <4>2 DEF TimeInv, PlaceInv, TypeInv, Hands
      <4>4. QED
        BY <2>7, <3>1, <4>2, <4>3 DEF TimeInv, Pauses, MinPauseKept
    <3>2. QED
      BY <3>1 DEF MinPauseKept, MinExecutionPause
  <2>11. Pauses'
    BY <1>0, <2>3, <2>5, <2>7, <2>10, ZenonT(30) DEF TimeInv, Pauses, InTodoQ, dispVars
  <2>12. Deadlines'
    <3>1. /\ t \in added
          /\ \A u \in Tasks : WithWorker(u)' => WithWorker(u)
      BY <1>0, <2>4, <2>5, NoTaskAssumption
         DEF TimeInv, PlaceInv, TypeInv, Hands, Placed, WithWorker
    <3>2. \A v \in Workers : wpc'[v] = "requeue" => addedByWorker'[wtask'[v]]
      <4>1. ASSUME NEW v \in Workers, wpc'[v] = "requeue"
            PROVE  addedByWorker'[wtask'[v]]
        <5>1. CASE v = w
          BY <1>0, <2>1, <2>4, <4>1, <5>1
        <5>2. CASE v # w
          <6>1. wpc[v] = "requeue" /\ wtask'[v] = wtask[v] /\ wtask[v] # t
            BY <1>0, <2>4, <2>6, <4>1, <5>2
          <6>2. wtask[v] \in Tasks
            BY <1>0, <6>1 DEF TimeInv, PlaceInv, TypeInv, Hands
          <6>3. QED
            BY <2>7, <6>1, <6>2 DEF TimeInv, Deadlines
        <5>3. QED
          BY <5>1, <5>2
      <4>2. QED
        BY <4>1
    <3>3. QED
      BY <2>3, <2>5, <2>7, <3>1, <3>2, ZenonT(30)
         DEF TimeInv, Deadlines, InTaskQ, InTodoQ, mainVars, dispVars
  <2>13. QED
    BY <2>8, <2>9, <2>11, <2>12
<1>4. CASE ReQueue(w)
  <2>1. PICK t \in Tasks : t = wtask[w]
    BY <1>4 DEF ReQueue, TimeInv, PlaceInv, TypeInv, TypeOK, Hands
  <2>2. /\ wpc[w] = "requeue" /\ taskQ' = Append(taskQ, t) /\ taskQ \in Seq(Tasks)
        /\ wpc' = [wpc EXCEPT ![w] = "select"]
        /\ wtask' = [wtask EXCEPT ![w] = NoTask]
        /\ UNCHANGED <<now, mainVars, todoQ, taskVars, dispVars, startTs, statVars>>
    BY <1>4, <2>1 DEF ReQueue, TimeInv, PlaceInv, TypeInv, TypeOK
  <2>3. \A u : InTaskQ(u)' <=> InTaskQ(u) \/ u = t
    BY <2>1, <2>2, AppendFacts DEF InTaskQ
  <2>4. addedByWorker[t] /\ WithWorker(t)
    BY <2>1, <2>2 DEF TimeInv, Deadlines, WithWorker
  <2>5. TimerTracksTop' /\ HackNeedsLag'
    BY <2>2, ZenonT(30) DEF TimeInv, TimerTracksTop, Top, HackNeedsLag, taskVars, dispVars, statVars
  <2>6. Pauses'
    BY <1>0, <2>2 DEF TimeInv, Pauses, MinPauseKept, InTodoQ, taskVars, dispVars
  <2>7. Deadlines'
    BY <1>0, <2>2, <2>3, <2>4, NoTaskAssumption
       DEF TimeInv, Deadlines, InTodoQ, WithWorker, mainVars, taskVars, dispVars
  <2>8. QED
    BY <2>5, <2>6, <2>7
<1>5. QED
  BY <1>1, <1>2, <1>3, <1>4 DEF Worker

LEMMA TimeStep ==
    ASSUME TimeInv, [Next]_vars
    PROVE  TimeInv'
<1>1. PlaceInv'
  BY PlaceStep DEF TimeInv
<1>2. TimerTracksTop' /\ Pauses' /\ Deadlines' /\ HackNeedsLag'
  <2>1. CASE UNCHANGED vars
    BY <2>1, ZenonT(30) DEF TimeInv, TimerTracksTop, Top, Pauses, MinPauseKept, Deadlines,
       HackNeedsLag, InTaskQ, InTodoQ, WithWorker, vars, mainVars, taskVars, dispVars,
       workVars, statVars
  <2>2. CASE Next
    BY <2>2, TimeMain, TimeDispatcher, TimeWorker DEF Next
  <2>3. QED
    BY <2>1, <2>2
<1>3. QED
  BY <1>1, <1>2 DEF TimeInv

LEMMA TimeInvariant == Spec => []TimeInv
  BY TimeInit, TimeStep, PTL DEF Spec

\* The dispatcher's single timer is armed for the top of the heap whenever it
\* waits with tasks in the heap.
THEOREM TimerOnTop == Spec => []TimerTracksTop
<1>1. TimeInv => TimerTracksTop
  BY DEF TimeInv
<1>2. QED
  BY <1>1, TimeInvariant, PTL

\* No task starts earlier than the minimum pause after its last execution,
\* however far the clock readings lag.
THEOREM PauseKept == Spec => []MinPauseKept
<1>1. TimeInv => MinPauseKept
  BY DEF TimeInv, Pauses
<1>2. QED
  BY <1>1, TimeInvariant, PTL

\* With a clock that does not lag the deadline hack is never used.
THEOREM NoLagNoHack == Spec => []HackNeedsLag
<1>1. TimeInv => HackNeedsLag
  BY DEF TimeInv
<1>2. QED
  BY <1>1, TimeInvariant, PTL

\* A step changes the deadline of a task, or puts one that was executed on the
\* heap, only with a later deadline.
LEMMA AdvanceStep ==
    ASSUME TimeInv, Next, NEW t \in Tasks,
           deadline'[t] # deadline[t] \/ (addedByWorker[t] /\ t \in heap' \ heap)
    PROVE  deadline'[t] > deadline[t]
<1>1. deadline \in [Tasks -> Nat]
  BY DEF TimeInv, PlaceInv, TypeInv, TypeOK
<1>2. CASE ReceiveExecuted
  <2>1. /\ taskQ # <<>> /\ taskQ' = Tail(taskQ) /\ dpc = "select"
    BY <1>2, ZenonT(30) DEF ReceiveExecuted
  <2>2. PICK u : u = Head(taskQ)
    BY ZenonT(30)
  <2>3. u \in Tasks
    BY <2>1, <2>2, ReceivedFacts
  <2>4. PICK d \in Nat : PushTask(u, d) /\ d > deadline[u]
    BY <1>2, <2>2, ExecutedDeadline
  <2>5. QED
    BY <1>1, <2>3, <2>4 DEF PushTask
<1>3. CASE ReceiveNew
  <2>1. /\ taskQ # <<>> /\ taskQ' = Tail(taskQ) /\ dpc = "select"
    BY <1>3 DEF ReceiveNew
  <2>2. PICK u : u = Head(taskQ)
    OBVIOUS
  <2>3. ~addedByWorker[u]
    BY <1>3, <2>2 DEF ReceiveNew
  <2>4. u \in Tasks /\ deadline[u] = 0 /\ interval[u] \in Nat \ {0} /\ now \in Nat
    BY <2>1, <2>2, <2>3, ReceivedFacts
  <2>5. PICK r \in ClockReadings :
          \/ PushTask(u, NextMultiple(u, r))
          \/ deadline' = [deadline EXCEPT ![u] = r]
    BY <1>3, <2>2 DEF ReceiveNew
  <2>6. r \in Nat
    BY <2>4 DEF ClockReadings
  <2>7. NextMultiple(u, r) \in Nat
    BY <2>4, <2>6, DeadlineFacts
  <2>8. PICK d \in Nat : deadline' = [deadline EXCEPT ![u] = d]
    BY <2>5, <2>6, <2>7 DEF PushTask
  <2>9. heap' \subseteq heap \cup {u}
    BY <1>3, <2>2 DEF ReceiveNew, PushTask
  <2>10. deadline'[t] # deadline[t]
    BY <2>3, <2>9
  <2>11. QED
    BY <1>1, <2>4, <2>8, <2>10
<1>4. CASE UNCHANGED deadline /\ heap' \subseteq heap
  BY <1>4
<1>5. CASE Tick \/ Main
  BY <1>4, <1>5 DEF Tick, Main, Start, Shutdown, AddNewTask, taskVars, dispVars
<1>6. CASE ArmTimer \/ DispatcherDone \/ SendTodo
  BY <1>4, <1>6 DEF ArmTimer, DispatcherDone, SendTodo, taskVars
<1>7. CASE TimerFires
  BY <1>4, <1>7, ZenonT(30) DEF TimerFires, PopTask, taskVars
<1>8. CASE \E w \in Workers : Worker(w)
  BY <1>4, <1>8, ZenonT(30) DEF Worker, WorkerDone, StartExecute, FinishExecute, ReQueue, taskVars, dispVars
<1>9. QED
  BY <1>2, <1>3, <1>5, <1>6, <1>7, <1>8 DEF Next, Dispatcher

\* The deadlines given to one task only move forward, even when the clock goes
\* backwards in between.
THEOREM DeadlinesOnlyAdvance == Spec => DeadlinesAdvance
<1>1. TimeInv /\ [Next]_vars =>
          [\A t \in Tasks :
             deadline'[t] # deadline[t] \/ (addedByWorker[t] /\ t \in heap' \ heap) =>
                 deadline'[t] > deadline[t]]_vars
  BY AdvanceStep
<1>2. QED
  BY <1>1, TimeInvariant, PTL DEF Spec, DeadlinesAdvance
==============================================================================
