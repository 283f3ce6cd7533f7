--------------------------- MODULE SchedulerProofs ---------------------------
(***************************************************************************)
(* Proofs about Scheduler, for any tasks, workers, intervals, queue        *)
(* lengths and clock lag: types, and that a task is in one place.          *)
(***************************************************************************)
EXTENDS Scheduler, TLAPS

------------------------------------------------------------------------------
(* The queues as sequences.                                                  *)

\* What a send does to a channel of tasks.
LEMMA AppendFacts ==
    ASSUME NEW S, NEW q \in Seq(S), NEW e \in S
    PROVE  /\ Append(q, e) \in Seq(S)
           /\ Len(Append(q, e)) = Len(q) + 1
           /\ \A t : Holds(Append(q, e), t) <=> Holds(q, t) \/ t = e
           /\ NoRepeats(q) /\ ~Holds(q, e) => NoRepeats(Append(q, e))
<1>1. /\ Append(q, e) \in Seq(S)
      /\ Len(q) \in Nat
      /\ Len(Append(q, e)) = Len(q) + 1
      /\ \A i \in 1..Len(q) : Append(q, e)[i] = q[i]
      /\ Append(q, e)[Len(q) + 1] = e
  OBVIOUS
<1>2. ASSUME NEW t
      PROVE  Holds(Append(q, e), t) <=> Holds(q, t) \/ t = e
  <2>1. Holds(Append(q, e), t) => Holds(q, t) \/ t = e
    BY <1>1 DEF Holds
  <2>2. Holds(q, t) => Holds(Append(q, e), t)
    <3>1. 1..Len(q) \subseteq 1..(Len(q) + 1)
      BY <1>1
    <3>2. QED
      BY <1>1, <3>1 DEF Holds
  <2>3. t = e => Holds(Append(q, e), t)
    <3>1. Len(q) + 1 \in 1..(Len(q) + 1)
      BY <1>1
    <3>2. QED
      BY <1>1, <3>1 DEF Holds
  <2>4. QED
    BY <2>1, <2>2, <2>3
<1>3. NoRepeats(q) /\ ~Holds(q, e) => NoRepeats(Append(q, e))
  BY <1>1 DEF Holds, NoRepeats
<1>4. QED
  BY <1>1, <1>2, <1>3

\* What a receive does to a channel of tasks.
LEMMA TailFacts ==
    ASSUME NEW S, NEW q \in Seq(S), q # <<>>
    PROVE  /\ Tail(q) \in Seq(S)
           /\ Head(q) \in S
           /\ Len(Tail(q)) <= Len(q)
           /\ Holds(q, Head(q))
           /\ \A t : Holds(q, t) <=> Holds(Tail(q), t) \/ t = Head(q)
           /\ NoRepeats(q) => NoRepeats(Tail(q)) /\ ~Holds(Tail(q), Head(q))
<1>1. /\ Tail(q) \in Seq(S)
      /\ Len(q) \in Nat \ {0}
      /\ Len(Tail(q)) = Len(q) - 1
      /\ Head(q) = q[1]
      /\ Head(q) \in S
      /\ \A i \in 1..(Len(q) - 1) : Tail(q)[i] = q[i + 1]
  OBVIOUS
<1>2. Holds(q, Head(q))
  BY <1>1 DEF Holds
<1>3. ASSUME NEW t
      PROVE  Holds(q, t) <=> Holds(Tail(q), t) \/ t = Head(q)
  <2>1. ASSUME Holds(q, t), t # Head(q)
        PROVE  Holds(Tail(q), t)
    <3>1. PICK i \in 1..Len(q) : q[i] = t
      BY <2>1 DEF Holds
    <3>2. i - 1 \in 1..(Len(q) - 1) /\ Tail(q)[i - 1] = t
      BY <1>1, <2>1, <3>1
    <3>3. QED
      BY <1>1, <3>2 DEF Holds
  <2>2. ASSUME Holds(Tail(q), t)
        PROVE  Holds(q, t)
    <3>1. PICK i \in 1..(Len(q) - 1) : Tail(q)[i] = t
      BY <1>1, <2>2 DEF Holds
    <3>2. i + 1 \in 1..Len(q) /\ q[i + 1] = t
      BY <1>1, <3>1
    <3>3. QED
      BY <3>2 DEF Holds
  <2>3. QED
    BY <1>2, <2>1, <2>2
<1>4. ASSUME NoRepeats(q)
      PROVE  NoRepeats(Tail(q)) /\ ~Holds(Tail(q), Head(q))
  <2>1. ASSUME NEW i \in 1..(Len(q) - 1), NEW j \in 1..(Len(q) - 1),
               Tail(q)[i] = Tail(q)[j]
        PROVE  i = j
    <3>1. i + 1 \in 1..Len(q) /\ j + 1 \in 1..Len(q) /\ q[i + 1] = q[j + 1]
      BY <1>1, <2>1
    <3>2. i + 1 = j + 1
      BY <1>4, <3>1 DEF NoRepeats
    <3>3. QED
      BY <3>2
  <2>2. ASSUME NEW i \in 1..(Len(q) - 1)
        PROVE  Tail(q)[i] # Head(q)
    <3>1. i + 1 \in 1..Len(q) /\ 1 \in 1..Len(q) /\ Tail(q)[i] = q[i + 1]
      BY <1>1, <2>2
    <3>2. q[i + 1] # q[1]
      BY <1>4, <3>1 DEF NoRepeats
    <3>3. QED
      BY <1>1, <3>1, <3>2
  <2>3. QED
    BY <1>1, <2>1, <2>2 DEF NoRepeats, Holds
<1>5. QED
  BY <1>1, <1>2, <1>3, <1>4

------------------------------------------------------------------------------
(* Rounding.                                                                 *)

\* time.Truncate: the multiple at or below, less than a period away.
LEMMA TruncateFacts ==
    ASSUME NEW n \in Nat, NEW p \in Nat \ {0}
    PROVE  /\ Truncate(n, p) \in Nat
           /\ Truncate(n, p) <= n
           /\ n < Truncate(n, p) + p
<1>1. n % p \in 0..(p - 1)
  OBVIOUS
<1>2. n = p * (n \div p) + (n % p) /\ n \div p \in Int
  OBVIOUS
<1>3. n % p <= n
  <2>1. n \div p >= 0
    OBVIOUS
  <2>2. p * (n \div p) >= 0
    BY <1>2, <2>1
  <2>3. QED
    BY <1>1, <1>2, <2>2
<1>4. QED
  BY <1>1, <1>3 DEF Truncate

\* Every task runs at an interval of at least the minimum pause.
LEMMA IntervalFacts ==
    ASSUME NEW i \in Nat
    PROVE  /\ CompliantTaskInterval(i) \in Nat
           /\ CompliantTaskInterval(i) >= MinExecutionPause
           /\ MinExecutionPause \in Nat \ {0}
<1>1. Truncate(i, Granularity) \in Nat
  BY TruncateFacts, GranularityAssumption
<1>2. QED
  BY <1>1, GranularityAssumption DEF CompliantTaskInterval, MinExecutionPause

\* The deadline computed for a task lies after the clock reading, and the hack
\* puts it after the previous one.
LEMMA DeadlineFacts ==
    ASSUME NEW t, interval[t] \in Nat \ {0}, deadline[t] \in Nat, NEW r \in Nat
    PROVE  /\ NextMultiple(t, r) \in Nat
           /\ NextMultiple(t, r) > r
           /\ \A n \in Nat : /\ PastDeadline(t, n) \in Nat
                              /\ PastDeadline(t, n) > deadline[t]
                              /\ PastDeadline(t, n) >= n
<1>1. NextMultiple(t, r) \in Nat /\ NextMultiple(t, r) > r
  <2>1. Truncate(r, interval[t]) \in Nat /\ r < Truncate(r, interval[t]) + interval[t]
    BY TruncateFacts
  <2>2. QED
    BY <2>1 DEF NextMultiple
<1>2. ASSUME NEW n \in Nat
      PROVE  /\ PastDeadline(t, n) \in Nat
             /\ PastDeadline(t, n) > deadline[t]
             /\ PastDeadline(t, n) >= n
  <2>1. CASE deadline[t] < n
    BY <2>1 DEF PastDeadline
  <2>2. CASE ~(deadline[t] < n)
    <3>1. deadline[t] - n \in Nat
      BY <2>2
    <3>2. Truncate(deadline[t] - n, interval[t]) \in Nat
          /\ Truncate(deadline[t] - n, interval[t]) <= deadline[t] - n
          /\ deadline[t] - n < Truncate(deadline[t] - n, interval[t]) + interval[t]
      BY <3>1, TruncateFacts
    <3>3. (deadline[t] - n) % interval[t] \in Int
      BY <3>1
    <3>4. PastDeadline(t, n) =
              n + Truncate(deadline[t] - n, interval[t]) + interval[t]
      BY <2>2, <3>1, <3>3 DEF PastDeadline, Truncate
    <3>5. QED
      BY <3>2, <3>4
  <2>3. QED
    BY <2>1, <2>2
<1>3. QED
  BY <1>1, <1>2

------------------------------------------------------------------------------
(* Types.                                                                    *)

\* The locals of the goroutines hold a task exactly at the points of their
\* loops where they use it, and only tasks that were added circulate.
Hands ==
    /\ dpc = "send" <=> dtask # NoTask
    /\ \A w \in Workers : wpc[w] \in {"execute", "requeue"} <=> wtask[w] # NoTask
    /\ \A t \in Tasks : Placed(t) => t \in added
    /\ state = "Created" => dpc = "off" /\ wpc = [w \in Workers |-> "off"]

TypeInv == TypeOK /\ Hands

\* A task in the scheduler has a compliant interval.
LEMMA AddedInterval ==
    ASSUME TypeInv, NEW t \in Tasks, Placed(t)
    PROVE  interval[t] \in Nat \ {0} /\ interval[t] >= MinExecutionPause
<1>1. t \in added /\ interval[t] \in Nat /\ interval[t] >= MinExecutionPause
  BY DEF TypeInv, TypeOK, Hands
<1>2. MinExecutionPause \in Nat \ {0}
  BY GranularityAssumption DEF MinExecutionPause
<1>3. QED
  BY <1>1, <1>2

LEMMA TypeInit == Init => TypeInv
<1>1. ASSUME Init
      PROVE  TypeOK
  <2>1. <<>> \in Seq(Tasks) /\ Len(<<>>) = 0
    OBVIOUS
  <2>2. NewTaskStats \in TaskStats
    BY DEF NewTaskStats, TaskStats
  <2>3. stats \in [Tasks -> TaskStats]
    BY <1>1, <2>2 DEF Init
  <2>4. /\ taskQ \in Seq(Tasks) /\ Len(taskQ) <= TaskQLen
        /\ todoQ \in Seq(Tasks) /\ Len(todoQ) <= TodoQLen
    BY <1>1, <2>1, QueueAssumption DEF Init
  <2>5. QED
    BY <1>1, <2>3, <2>4, IntervalAssumption, Zenon DEF Init, TypeOK
<1>2. ASSUME Init
      PROVE  Hands
  BY <1>2, NoTaskAssumption
     DEF Init, Hands, Placed, InTaskQ, InTodoQ, WithWorker, Holds
<1>3. QED
  BY <1>1, <1>2 DEF TypeInv

\* The steps of main and of the clock.
LEMMA TypeMain ==
    ASSUME TypeInv, Tick \/ Main
    PROVE  TypeInv'
<1> USE DEF TypeInv
<1>1. CASE Tick
  BY <1>1 DEF Tick, mainVars, taskVars, dispVars, workVars, statVars, TypeOK, Hands,
     Placed, InTaskQ, InTodoQ, WithWorker, Holds
<1>2. CASE Start
  BY <1>2, Zenon DEF Start, taskVars, statVars, TypeOK, Hands, Placed, InTaskQ, InTodoQ,
     WithWorker, Holds
<1>3. CASE Shutdown
  BY <1>3 DEF Shutdown, taskVars, dispVars, workVars, statVars, TypeOK, Hands,
     Placed, InTaskQ, InTodoQ, WithWorker, Holds
<1>4. ASSUME NEW t \in Tasks, AddNewTask(t)
      PROVE  TypeInv'
  <2>1. /\ taskQ' \in Seq(Tasks) /\ Len(taskQ') <= TaskQLen
        /\ \A u : InTaskQ(u)' <=> InTaskQ(u) \/ u = t
    <3>1. /\ taskQ \in Seq(Tasks) /\ Len(taskQ) \in Nat
          /\ Len(taskQ) < TaskQLen /\ taskQ' = Append(taskQ, t)
      BY <1>4 DEF AddNewTask, TypeOK
    <3>2. /\ taskQ' \in Seq(Tasks) /\ Len(taskQ') = Len(taskQ) + 1
          /\ \A u : Holds(taskQ', u) <=> Holds(taskQ, u) \/ u = t
      BY <3>1, AppendFacts
    <3>3. QED
      BY <3>1, <3>2, QueueAssumption DEF InTaskQ
  <2>2. CompliantTaskInterval(interval[t]) \in Nat
        /\ CompliantTaskInterval(interval[t]) >= MinExecutionPause
    BY IntervalFacts DEF TypeOK
  <2>3. TypeOK'
    BY <1>4, <2>1, <2>2, Zenon
       DEF AddNewTask, TypeOK, dispVars, workVars, statVars, MinExecutionPause
  <2>4. Hands'
    BY <1>4, <2>1 DEF AddNewTask, TypeOK, Hands, Placed, InTodoQ, WithWorker,
       dispVars, workVars
  <2>5. QED
    BY <2>3, <2>4
<1>5. QED
  BY <1>1, <1>2, <1>3, <1>4 DEF Main

\* Counters remain counters.
LEMMA CountFacts ==
    ASSUME NEW s \in TaskStats
    PROVE  /\ \A hack, delayed : CountReceived(s, hack, delayed) \in TaskStats
           /\ CountScheduled(s) \in TaskStats
           /\ \A overrun : CountExecuted(s, overrun) \in TaskStats
<1>1. \A n \in {s.scheduled, s.delayed, s.overrun, s.executed, s.hack} :
        n \in Nat /\ n + 1 \in Nat
  BY DEF TaskStats
<1>2. ASSUME NEW m \in Nat, NEW n \in Nat
      PROVE  /\ [s EXCEPT !.hack = m, !.delayed = n] \in TaskStats
             /\ [s EXCEPT !.overrun = m, !.executed = n] \in TaskStats
             /\ [s EXCEPT !.scheduled = m] \in TaskStats
  BY Zenon DEF TaskStats
<1>3. ASSUME NEW hack, NEW delayed
      PROVE  CountReceived(s, hack, delayed) \in TaskStats
  BY <1>1, <1>2, ZenonT(30) DEF CountReceived
<1>4. CountScheduled(s) \in TaskStats
  BY <1>1, <1>2, ZenonT(30) DEF CountScheduled
<1>5. ASSUME NEW overrun
      PROVE  CountExecuted(s, overrun) \in TaskStats
  BY <1>1, <1>2, Zenon DEF CountExecuted
<1>6. QED
  BY <1>3, <1>4, <1>5

\* The receive of a task by the dispatcher: what it knows of it.
LEMMA ReceiveFacts ==
    ASSUME TypeInv, taskQ # <<>>, taskQ' = Tail(taskQ)
    PROVE  /\ Head(taskQ) \in Tasks
           /\ InTaskQ(Head(taskQ))
           /\ interval[Head(taskQ)] \in Nat \ {0}
           /\ taskQ' \in Seq(Tasks) /\ Len(taskQ') <= TaskQLen
           /\ \A u : InTaskQ(u) <=> InTaskQ(u)' \/ u = Head(taskQ)
           /\ NoRepeats(taskQ) => NoRepeats(taskQ') /\ ~Holds(taskQ', Head(taskQ))
<1>1. taskQ \in Seq(Tasks) /\ Len(taskQ) <= TaskQLen
  BY DEF TypeInv, TypeOK
<1>2. /\ Head(taskQ) \in Tasks
      /\ InTaskQ(Head(taskQ))
      /\ taskQ' \in Seq(Tasks) /\ Len(taskQ') <= Len(taskQ)
      /\ \A u : InTaskQ(u) <=> InTaskQ(u)' \/ u = Head(taskQ)
      /\ NoRepeats(taskQ) => NoRepeats(taskQ') /\ ~Holds(taskQ', Head(taskQ))
  BY <1>1, TailFacts DEF InTaskQ
<1>3. Len(taskQ') <= TaskQLen
  BY <1>1, <1>2, QueueAssumption
<1>4. interval[Head(taskQ)] \in Nat \ {0}
  BY <1>2, AddedInterval DEF Placed
<1>5. QED
  BY <1>2, <1>3, <1>4

\* The steps of the dispatcher.
LEMMA TypeDispatcher ==
    ASSUME TypeInv, Dispatcher
    PROVE  TypeInv'
<1> USE DEF TypeInv
<1>0. MinExecutionPause \in Nat
  BY GranularityAssumption DEF MinExecutionPause
<1>1. CASE ArmTimer
  <2>1. TypeOK'
    BY <1>1, ZenonT(30) DEF ArmTimer, TypeOK, mainVars, taskVars, workVars, statVars, Top
  <2>2. Hands'
    BY <1>1 DEF ArmTimer, Hands, Placed, InTaskQ, InTodoQ, WithWorker, mainVars,
       workVars
  <2>3. QED
    BY <2>1, <2>2
<1>2. CASE DispatcherDone
  BY <1>2 DEF DispatcherDone, TypeOK, Hands, Placed, InTaskQ, InTodoQ, WithWorker,
     mainVars, taskVars, workVars, statVars
<1>3. CASE ReceiveExecuted
  <2>1. /\ dpc = "select" /\ taskQ # <<>> /\ taskQ' = Tail(taskQ) /\ dpc' = "loop"
        /\ UNCHANGED <<now, mainVars, todoQ, interval, lastExecuted, addedByWorker,
                       dtask, currentDeadline, workVars, statIds>>
    BY <1>3 DEF ReceiveExecuted
  <2> DEFINE t == Head(taskQ)
  <2>2. /\ t \in Tasks /\ InTaskQ(t) /\ interval[t] \in Nat \ {0}
        /\ taskQ' \in Seq(Tasks) /\ Len(taskQ') <= TaskQLen
        /\ \A u : InTaskQ(u) <=> InTaskQ(u)' \/ u = t
    BY <2>1, ReceiveFacts
  <2>3. PICK r \in ClockReadings :
          LET multiple == NextMultiple(t, r)
              next     == PastDeadline(t, multiple)
              nearest  == TaskNearestDeadline(t)
              hack     == ~(deadline[t] < multiple)
              delayed  == next < nearest
          IN  /\ PushTask(t, IF delayed THEN nearest ELSE next)
              /\ stats' = [stats EXCEPT ![t] = CountReceived(@, hack, delayed)]
    BY <1>3, Zenon DEF ReceiveExecuted
  <2>4. r \in Nat /\ deadline[t] \in Nat /\ lastExecuted[t] \in Nat
    BY <2>2 DEF ClockReadings, TypeOK
  <2>5. PICK d \in Nat : PushTask(t, d)
    <3>1. PastDeadline(t, NextMultiple(t, r)) \in Nat
      BY <2>2, <2>4, DeadlineFacts, Zenon
    <3>2. TaskNearestDeadline(t) \in Nat
      BY <1>0, <2>4 DEF TaskNearestDeadline
    <3>3. QED
      BY <2>3, <3>1, <3>2
  <2>6. stats' \in [Tasks -> TaskStats]
    BY <2>2, <2>3, CountFacts, Zenon DEF TypeOK
  <2>7. TypeOK'
    BY <2>1, <2>2, <2>5, <2>6, Zenon DEF TypeOK, PushTask, mainVars, workVars
  <2>8. Hands'
    BY <2>1, <2>2, <2>5 DEF Hands, Placed, PushTask, InTodoQ, WithWorker, mainVars,
       workVars
  <2>9. QED
    BY <2>7, <2>8
<1>4. CASE ReceiveNew
  <2>1. /\ dpc = "select" /\ taskQ # <<>> /\ taskQ' = Tail(taskQ)
        /\ UNCHANGED <<now, mainVars, todoQ, interval, lastExecuted, addedByWorker,
                       currentDeadline, workVars>>
    BY <1>4 DEF ReceiveNew
  <2> DEFINE t == Head(taskQ)
  <2>2. /\ t \in Tasks /\ InTaskQ(t) /\ interval[t] \in Nat \ {0}
        /\ taskQ' \in Seq(Tasks) /\ Len(taskQ') <= TaskQLen
        /\ \A u : InTaskQ(u) <=> InTaskQ(u)' \/ u = t
    BY <2>1, ReceiveFacts
  <2>3. PICK r \in ClockReadings :
          \/ /\ PushTask(t, NextMultiple(t, r))
             /\ dpc' = "loop"
             /\ UNCHANGED <<dtask, statVars>>
          \/ /\ deadline' = [deadline EXCEPT ![t] = r]
             /\ activeTimer' = FALSE
             /\ Dispatch(t)
             /\ UNCHANGED heap
    BY <1>4 DEF ReceiveNew
  <2>4. r \in Nat /\ NextMultiple(t, r) \in Nat
    <3>1. r \in Nat /\ deadline[t] \in Nat
      BY <2>2 DEF ClockReadings, TypeOK
    <3>2. QED
      BY <2>2, <3>1, DeadlineFacts
  <2>5. stats' \in [Tasks -> TaskStats]
    <3>1. stats \in [Tasks -> TaskStats]
      BY DEF TypeOK
    <3>2. [stats EXCEPT ![t] = CountScheduled(@)] \in [Tasks -> TaskStats]
      BY <2>2, <3>1, CountFacts
    <3>3. QED
      BY <2>3, <3>1, <3>2 DEF Dispatch, statVars
  <2>6. TypeOK'
    <3>1. deadline' \in [Tasks -> Nat]
      BY <2>2, <2>3, <2>4, Zenon DEF TypeOK, PushTask
    <3>2. activeTimer' \in BOOLEAN
      BY <2>3, Zenon DEF TypeOK, PushTask
    <3>3. heap' \in SUBSET Tasks
      BY <2>2, <2>3 DEF TypeOK, PushTask
    <3>4. /\ dpc' \in {"loop", "send"}
          /\ dtask' \in Tasks \cup {NoTask}
          /\ statIds' \in SUBSET Tasks
      BY <2>2, <2>3 DEF TypeOK, Dispatch, statVars
    <3>5. QED
      BY <2>1, <2>2, <2>5, <3>1, <3>2, <3>3, <3>4, Zenon DEF TypeOK, mainVars, workVars
  <2>7. Hands'
    BY <2>1, <2>2, <2>3, NoTaskAssumption
       DEF Hands, Placed, PushTask, Dispatch, InTodoQ, WithWorker, mainVars, workVars
  <2>8. QED
    BY <2>6, <2>7
<1>5. CASE TimerFires
  <2>1. PICK t \in heap : PopTask(t) /\ Dispatch(t)
    BY <1>5 DEF TimerFires
  <2>2. t \in Tasks /\ Placed(t)
    BY DEF TypeOK, Placed
  <2>3. stats' \in [Tasks -> TaskStats]
    BY <2>1, <2>2, CountFacts DEF TypeOK, Dispatch
  <2>4. TypeOK'
    BY <1>5, <2>1, <2>2, <2>3, Zenon
       DEF TimerFires, TypeOK, PopTask, Dispatch, mainVars, taskVars, workVars
  <2>5. Hands'
    BY <1>5, <2>1, <2>2, NoTaskAssumption
       DEF TimerFires, Hands, Placed, PopTask, Dispatch, InTaskQ, InTodoQ,
       WithWorker, mainVars, workVars
  <2>6. QED
    BY <2>4, <2>5
<1>6. CASE SendTodo
  <2>1. dtask \in Tasks /\ Placed(dtask)
    BY <1>6 DEF SendTodo, TypeOK, Hands, Placed
  <2>2. /\ todoQ \in Seq(Tasks) /\ Len(todoQ) \in Nat
        /\ Len(todoQ) < TodoQLen /\ todoQ' = Append(todoQ, dtask)
    BY <1>6 DEF SendTodo, TypeOK
  <2>3. /\ todoQ' \in Seq(Tasks) /\ Len(todoQ') = Len(todoQ) + 1
        /\ \A u : InTodoQ(u)' <=> InTodoQ(u) \/ u = dtask
    BY <2>1, <2>2, AppendFacts DEF InTodoQ
  <2>4. Len(todoQ') <= TodoQLen
    BY <2>2, <2>3, QueueAssumption
  <2>5. TypeOK'
    BY <1>6, <2>3, <2>4
       DEF SendTodo, TypeOK, mainVars, taskVars, workVars, statVars
  <2>6. Hands'
    BY <1>6, <2>1, <2>3, NoTaskAssumption
       DEF SendTodo, Hands, Placed, InTaskQ, WithWorker, mainVars, workVars
  <2>7. QED
    BY <2>5, <2>6
<1>7. QED
  BY <1>1, <1>2, <1>3, <1>4, <1>5, <1>6 DEF Dispatcher

\* The receive of a task by a worker.
LEMMA TodoFacts ==
    ASSUME TypeInv, todoQ # <<>>, todoQ' = Tail(todoQ)
    PROVE  /\ Head(todoQ) \in Tasks
           /\ InTodoQ(Head(todoQ))
           /\ todoQ' \in Seq(Tasks) /\ Len(todoQ') <= TodoQLen
           /\ \A u : InTodoQ(u) <=> InTodoQ(u)' \/ u = Head(todoQ)
           /\ NoRepeats(todoQ) => NoRepeats(todoQ') /\ ~Holds(todoQ', Head(todoQ))
<1>1. todoQ \in Seq(Tasks) /\ Len(todoQ) <= TodoQLen
  BY DEF TypeInv, TypeOK
<1>2. /\ Head(todoQ) \in Tasks
      /\ InTodoQ(Head(todoQ))
      /\ todoQ' \in Seq(Tasks) /\ Len(todoQ') <= Len(todoQ)
      /\ \A u : InTodoQ(u) <=> InTodoQ(u)' \/ u = Head(todoQ)
      /\ NoRepeats(todoQ) => NoRepeats(todoQ') /\ ~Holds(todoQ', Head(todoQ))
  BY <1>1, TailFacts DEF InTodoQ
<1>3. Len(todoQ') <= TodoQLen
  BY <1>1, <1>2, QueueAssumption
<1>4. QED
  BY <1>2, <1>3

\* The steps of a worker.
LEMMA TypeWorker ==
    ASSUME TypeInv, NEW w \in Workers, Worker(w)
    PROVE  TypeInv'
<1> USE DEF TypeInv
<1>1. CASE WorkerDone(w)
  BY <1>1 DEF WorkerDone, TypeOK, Hands, Placed, InTaskQ, InTodoQ, WithWorker,
     mainVars, taskVars, dispVars, statVars
<1>2. CASE StartExecute(w)
  <2> DEFINE t == Head(todoQ)
  <2>1. /\ t \in Tasks /\ InTodoQ(t) /\ Placed(t)
        /\ todoQ' \in Seq(Tasks) /\ Len(todoQ') <= TodoQLen
        /\ \A u : InTodoQ(u) <=> InTodoQ(u)' \/ u = t
    BY <1>2, TodoFacts DEF StartExecute, Placed
  <2>2. TypeOK'
    BY <1>2, <2>1, ZenonT(30) DEF StartExecute, TypeOK, mainVars, taskVars, dispVars, statVars
  <2>3. Hands'
    BY <1>2, <2>1, NoTaskAssumption
       DEF StartExecute, TypeOK, Hands, Placed, InTaskQ, WithWorker, mainVars, dispVars
  <2>4. QED
    BY <2>2, <2>3
<1>3. ASSUME NEW reQueue \in BOOLEAN, FinishExecute(w, reQueue)
      PROVE  TypeInv'
  <2> DEFINE t == wtask[w]
  <2>1. t \in Tasks
    BY <1>3 DEF FinishExecute, TypeOK, Hands
  <2>2. stats' \in [Tasks -> TaskStats]
    <3>1. stats \in [Tasks -> TaskStats]
      BY DEF TypeOK
    <3>2. stats' = [stats EXCEPT ![t] =
                        CountExecuted(@, now - startTs[w] >= interval[t])]
      BY <1>3, ZenonT(30) DEF FinishExecute
    <3>3. QED
      BY <2>1, <3>1, <3>2, CountFacts
  <2>3. lastExecuted' \in [Tasks -> Nat]
    BY <1>3, <2>1 DEF FinishExecute, TypeOK, ClockReadings
  <2>4. addedByWorker' \in [Tasks -> BOOLEAN]
    BY <1>3, <2>1, Zenon DEF FinishExecute, TypeOK
  <2>5. /\ wpc' \in [Workers -> {"off", "select", "execute", "requeue", "exited"}]
        /\ wtask' \in [Workers -> Tasks \cup {NoTask}]
        /\ startTs' \in [Workers -> Nat]
    BY <1>3, <2>1, ZenonT(30) DEF FinishExecute, TypeOK
  <2>6. TypeOK'
    BY <1>3, <2>2, <2>3, <2>4, <2>5 DEF FinishExecute, TypeOK, mainVars, dispVars
  <2>7. Hands'
    <3>1. \A u \in Tasks : WithWorker(u)' => WithWorker(u)
      BY <1>3, NoTaskAssumption DEF FinishExecute, WithWorker, TypeOK
    <3>2. \A v \in Workers : wpc'[v] \in {"execute", "requeue"} <=> wtask'[v] # NoTask
      BY <1>3, <2>1, NoTaskAssumption DEF FinishExecute, Hands, TypeOK
    <3>3. state # "Created"
      BY <1>3, ZenonT(30) DEF FinishExecute, Hands
    <3>4. QED
      BY <1>3, <3>1, <3>2, <3>3, ZenonT(30)
         DEF FinishExecute, Hands, Placed, InTaskQ, InTodoQ, mainVars, dispVars
  <2>8. QED
    BY <2>6, <2>7
<1>4. CASE ReQueue(w)
  <2>1. wtask[w] \in Tasks /\ WithWorker(wtask[w])
    BY <1>4 DEF ReQueue, TypeOK, Hands, WithWorker
  <2>2. /\ taskQ \in Seq(Tasks) /\ Len(taskQ) \in Nat
        /\ Len(taskQ) < TaskQLen /\ taskQ' = Append(taskQ, wtask[w])
    BY <1>4 DEF ReQueue, TypeOK
  <2>3. /\ taskQ' \in Seq(Tasks) /\ Len(taskQ') = Len(taskQ) + 1
        /\ \A u : InTaskQ(u)' <=> InTaskQ(u) \/ u = wtask[w]
    BY <2>1, <2>2, AppendFacts DEF InTaskQ
  <2>4. Len(taskQ') <= TaskQLen
    BY <2>2, <2>3, QueueAssumption
  <2>5. TypeOK'
    BY <1>4, <2>3, <2>4 DEF ReQueue, TypeOK, mainVars, taskVars, dispVars, statVars
  <2>6. Hands'
    BY <1>4, <2>1, <2>3, NoTaskAssumption
       DEF ReQueue, TypeOK, Hands, Placed, InTodoQ, WithWorker, mainVars, dispVars
  <2>7. QED
    BY <2>5, <2>6
<1>5. QED
  BY <1>1, <1>2, <1>3, <1>4 DEF Worker

LEMMA TypeStutter ==
    ASSUME TypeInv, UNCHANGED vars
    PROVE  TypeInv'
  BY DEF TypeInv, vars, TypeOK, Hands, Placed, InTaskQ, InTodoQ, WithWorker,
     mainVars, taskVars, dispVars, workVars, statVars

LEMMA TypeStep ==
    ASSUME TypeInv, [Next]_vars
    PROVE  TypeInv'
  BY TypeMain, TypeDispatcher, TypeWorker, TypeStutter DEF Next

\* Type correctness: in particular every circulating task has an interval of at
\* least the minimum pause and neither channel exceeds its capacity.
THEOREM TypeCorrect == Spec => []TypeOK
<1>1. Init => TypeInv
  BY TypeInit
<1>2. TypeInv /\ [Next]_vars => TypeInv'
  BY TypeStep
<1>3. TypeInv => TypeOK
  BY DEF TypeInv
<1>4. QED
  BY <1>1, <1>2, <1>3, PTL DEF Spec

------------------------------------------------------------------------------
(* A task is in one place at a time.                                         *)

PlaceInv == TypeInv /\ OnePlace

LEMMA PlaceUnchanged ==
    ASSUME OnePlace, UNCHANGED <<taskQ, todoQ, heap, dtask, wtask>>
    PROVE  OnePlace'
  BY DEF OnePlace, InTaskQ, InTodoQ, WithWorker

\* Main's steps, and those that leave the tasks where they are.
LEMMA PlaceMain ==
    ASSUME PlaceInv, Tick \/ Main
    PROVE  OnePlace'
<1>1. CASE Tick \/ Start \/ Shutdown
  BY <1>1, PlaceUnchanged DEF PlaceInv, Tick, Start, Shutdown, dispVars, workVars
<1>2. ASSUME NEW t \in Tasks, AddNewTask(t)
      PROVE  OnePlace'
  <2>1. ~Placed(t) /\ taskQ \in Seq(Tasks)
    BY <1>2 DEF AddNewTask, PlaceInv, TypeInv, TypeOK, Hands
  <2>2. /\ \A u : InTaskQ(u)' <=> InTaskQ(u) \/ u = t
        /\ NoRepeats(taskQ')
    BY <1>2, <2>1, AppendFacts DEF AddNewTask, InTaskQ, Placed, PlaceInv, OnePlace
  <2>3. UNCHANGED <<todoQ, heap, dtask, wtask>>
    BY <1>2 DEF AddNewTask, dispVars, workVars
  <2>4. QED
    BY <2>1, <2>2, <2>3 DEF PlaceInv, OnePlace, InTodoQ, WithWorker, Placed
<1>3. QED
  BY <1>1, <1>2 DEF Main

\* From the task queue into the heap or the dispatcher's hands, from the heap
\* into its hands, and from there into the TODO queue.
LEMMA PlaceDispatcher ==
    ASSUME PlaceInv, Dispatcher
    PROVE  OnePlace'
<1> USE DEF PlaceInv
<1>1. CASE ArmTimer \/ DispatcherDone
  BY <1>1, PlaceUnchanged DEF ArmTimer, DispatcherDone, workVars
<1>2. CASE ReceiveExecuted \/ ReceiveNew
  <2> DEFINE t == Head(taskQ)
  <2>1. /\ taskQ # <<>> /\ taskQ' = Tail(taskQ)
        /\ UNCHANGED <<todoQ, wtask>>
        /\ dpc = "select"
    BY <1>2 DEF ReceiveExecuted, ReceiveNew, workVars
  <2>2. /\ t \in Tasks /\ InTaskQ(t)
        /\ \A u : InTaskQ(u) <=> InTaskQ(u)' \/ u = t
        /\ NoRepeats(taskQ') /\ ~Holds(taskQ', t)
    BY <2>1, ReceiveFacts DEF OnePlace
  <2>3. \/ heap' = heap \cup {t} /\ dtask' = dtask
        \/ heap' = heap /\ dtask' = t
    BY <1>2 DEF ReceiveExecuted, ReceiveNew, PushTask, Dispatch
  <2>4. dtask = NoTask
    BY <2>1 DEF TypeInv, Hands
  <2>5. ASSUME NEW u \in Tasks
        PROVE  /\ InTaskQ(u)' => u # t /\ InTaskQ(u)
               /\ u \in heap' => u \in heap \/ u = t
               /\ dtask' = u => u = t
               /\ ~(t \in heap' /\ dtask' = t)
    BY <2>2, <2>3, <2>4, NoTaskAssumption DEF InTaskQ, OnePlace
  <2>6. QED
    BY <2>1, <2>2, <2>5 DEF OnePlace, InTodoQ, WithWorker
<1>3. CASE TimerFires
  <2>1. PICK t \in heap : PopTask(t) /\ Dispatch(t)
    BY <1>3 DEF TimerFires
  <2>2. /\ t \in Tasks
        /\ heap' = heap \ {t} /\ dtask' = t
        /\ UNCHANGED <<taskQ, todoQ, wtask>>
    BY <1>3, <2>1 DEF TimerFires, PopTask, Dispatch, workVars, TypeInv, TypeOK
  <2>3. QED
    BY <2>2 DEF OnePlace, InTaskQ, InTodoQ, WithWorker
<1>4. CASE SendTodo
  <2>1. /\ dtask \in Tasks /\ todoQ \in Seq(Tasks)
        /\ todoQ' = Append(todoQ, dtask) /\ dtask' = NoTask
        /\ UNCHANGED <<taskQ, heap, wtask>>
    BY <1>4 DEF SendTodo, TypeInv, TypeOK, Hands, workVars
  <2>2. ~InTodoQ(dtask)
    BY <2>1 DEF OnePlace
  <2>3. /\ \A u : InTodoQ(u)' <=> InTodoQ(u) \/ u = dtask
        /\ NoRepeats(todoQ')
    BY <2>1, <2>2, AppendFacts DEF InTodoQ, OnePlace
  <2>4. QED
    BY <2>1, <2>3, NoTaskAssumption DEF OnePlace, InTaskQ, WithWorker
<1>5. QED
  BY <1>1, <1>2, <1>3, <1>4 DEF Dispatcher

\* From the TODO queue into a worker's hands and from there into the task queue.
LEMMA PlaceWorker ==
    ASSUME PlaceInv, NEW w \in Workers, Worker(w)
    PROVE  OnePlace'
<1> USE DEF PlaceInv
<1>1. CASE WorkerDone(w)
  BY <1>1, PlaceUnchanged DEF WorkerDone, dispVars
<1>2. CASE StartExecute(w)
  <2>1. todoQ # <<>> /\ todoQ' = Tail(todoQ)
    BY <1>2 DEF StartExecute
  <2>2. PICK t \in Tasks : t = Head(todoQ)
    BY <2>1, TodoFacts
  <2>3. /\ wtask' = [wtask EXCEPT ![w] = t]
        /\ UNCHANGED <<taskQ, heap, dtask>>
    BY <1>2, <2>2 DEF StartExecute, dispVars
  <2>4. /\ InTodoQ(t)
        /\ \A u : InTodoQ(u) <=> InTodoQ(u)' \/ u = t
        /\ NoRepeats(todoQ') /\ ~InTodoQ(t)'
    BY <2>1, <2>2, TodoFacts DEF OnePlace, InTodoQ
  <2>5. wtask \in [Workers -> Tasks \cup {NoTask}]
    BY DEF TypeInv, TypeOK
  <2>6. \A u \in Tasks : WithWorker(u)' => u = t \/ WithWorker(u)
    BY <2>3, <2>5 DEF WithWorker
  <2>7. \A v, x \in Workers : wtask'[v] = wtask'[x] /\ wtask'[v] # NoTask => v = x
    BY <2>3, <2>4, <2>5 DEF OnePlace, WithWorker
  <2>8. QED
    BY <2>3, <2>4, <2>6, <2>7 DEF OnePlace, InTaskQ
<1>3. ASSUME NEW reQueue \in BOOLEAN, FinishExecute(w, reQueue)
      PROVE  OnePlace'
  <2>1. /\ wtask' = wtask \/ wtask' = [wtask EXCEPT ![w] = NoTask]
        /\ UNCHANGED <<taskQ, todoQ, heap, dtask>>
    BY <1>3 DEF FinishExecute, dispVars
  <2>2. \A v \in Workers : wtask'[v] # NoTask => wtask'[v] = wtask[v]
    BY <2>1 DEF TypeInv, TypeOK
  <2>3. QED
    BY <2>1, <2>2, NoTaskAssumption DEF OnePlace, InTaskQ, InTodoQ, WithWorker
<1>4. CASE ReQueue(w)
  <2> DEFINE t == wtask[w]
  <2>1. /\ t \in Tasks /\ taskQ \in Seq(Tasks)
        /\ taskQ' = Append(taskQ, t)
        /\ wtask' = [wtask EXCEPT ![w] = NoTask]
        /\ UNCHANGED <<todoQ, heap, dtask>>
    BY <1>4 DEF ReQueue, TypeInv, TypeOK, Hands, dispVars
  <2>2. WithWorker(t) /\ ~InTaskQ(t) /\ ~InTodoQ(t) /\ t \notin heap /\ dtask # t
    BY <2>1 DEF OnePlace, WithWorker
  <2>3. /\ \A u : InTaskQ(u)' <=> InTaskQ(u) \/ u = t
        /\ NoRepeats(taskQ')
    BY <2>1, <2>2, AppendFacts DEF InTaskQ, OnePlace
  <2>4. wtask \in [Workers -> Tasks \cup {NoTask}]
    BY DEF TypeInv, TypeOK
  <2>5. /\ \A u \in Tasks : WithWorker(u)' => u # t /\ WithWorker(u)
        /\ \A v, x \in Workers : wtask'[v] = wtask'[x] /\ wtask'[v] # NoTask => v = x
    BY <2>1, <2>4, NoTaskAssumption DEF OnePlace, WithWorker
  <2>6. QED
    BY <2>1, <2>2, <2>3, <2>5, ZenonT(30) DEF OnePlace, InTodoQ
<1>5. QED
  BY <1>1, <1>2, <1>3, <1>4 DEF Worker

LEMMA PlaceInit == Init => OnePlace
  BY NoTaskAssumption DEF Init, OnePlace, InTaskQ, InTodoQ, WithWorker, Holds, NoRepeats

LEMMA PlaceStep ==
    ASSUME PlaceInv, [Next]_vars
    PROVE  PlaceInv'
<1>1. TypeInv'
  BY TypeStep DEF PlaceInv
<1>2. OnePlace'
  <2>1. CASE UNCHANGED vars
    BY <2>1, PlaceUnchanged DEF PlaceInv, vars, dispVars, workVars
  <2>2. CASE Next
    BY <2>2, PlaceMain, PlaceDispatcher, PlaceWorker DEF Next
  <2>3. QED
    BY <2>1, <2>2
<1>3. QED
  BY <1>1, <1>2 DEF PlaceInv

\* A task is handed from goroutine to goroutine: it never is in two queue slots,
\* the heap or two goroutines' hands at once, so its fields need no lock.
THEOREM TaskInOnePlace == Spec => []OnePlace
<1>1. Init => PlaceInv
  BY TypeInit, PlaceInit DEF PlaceInv
<1>2. PlaceInv /\ [Next]_vars => PlaceInv'
  BY PlaceStep
<1>3. PlaceInv => OnePlace
  BY DEF PlaceInv
<1>4. QED
  BY <1>1, <1>2, <1>3, PTL DEF Spec
==============================================================================
