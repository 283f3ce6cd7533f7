----------------------- MODULE SchedulerContractProofs -----------------------
(***************************************************************************)
(* Proofs about Scheduler: it implements TaskContract.                     *)
(***************************************************************************)
EXTENDS SchedulerTimeProofs

Running == {t \in Tasks : Executing(t)}
HasRun == {t \in Tasks : addedByWorker[t]}
Retired == {t \in added : ~Placed(t)}

LEMMA ContractInit == Init => Contract!Init
<1> SUFFICES ASSUME Init
             PROVE  Contract!Init
  OBVIOUS
<1>1. {t \in Tasks : Executing(t)} = {}
  BY NoTaskAssumption DEF Init, Executing
<1>2. {t \in Tasks : addedByWorker[t]} = {}
  BY DEF Init
<1>3. {t \in added : ~Placed(t)} = {}
  BY DEF Init
<1>4. now = 0 /\ lastExecuted = [t \in Tasks |-> 0]
  BY DEF Init
<1>5. QED
  BY <1>1, <1>2, <1>3, <1>4 DEF Contract!Init

\* A step that starts and ends no execution and keeps every task in the
\* scheduler is invisible to the contract.
LEMMA ContractStutter ==
    ASSUME added \subseteq Tasks, UNCHANGED <<now, lastExecuted, addedByWorker>>,
           \A t \in Tasks : Executing(t)' <=> Executing(t),
           \A t \in Tasks : Placed(t)' <=> Placed(t),
           added' = added \/ \E t \in Tasks : added' = added \cup {t} /\ Placed(t)'
    PROVE  UNCHANGED Contract!vars
<1>1. Running' = Running
  BY DEF Running
<1>2. HasRun' = HasRun
  BY DEF HasRun
<1>3. Retired' = Retired
  <2>1. \A u \in added' : ~Placed(u)' => u \in added /\ u \in Tasks
    OBVIOUS
  <2>2. added \subseteq added'
    OBVIOUS
  <2>3. \A u \in Tasks : u \in added' /\ ~Placed(u)' <=> u \in added /\ ~Placed(u)
    BY <2>1, <2>2
  <2>4. QED
    BY <2>1, <2>2, <2>3 DEF Retired
<1>4. QED
  BY <1>1, <1>2, <1>3 DEF Contract!vars, Running, HasRun, Retired

\* The clock and main.
LEMMA ContractMain ==
    ASSUME TimeInv, Tick \/ Main
    PROVE  [Contract!Next]_(Contract!vars)
<1>0. added \subseteq Tasks
  BY DEF TimeInv, PlaceInv, TypeInv, TypeOK
<1>1. CASE Tick
  <2>1. now' = now + 1
        /\ UNCHANGED <<mainVars, taskQ, todoQ, taskVars, dispVars, workVars, statVars>>
    BY <1>1 DEF Tick
  <2>2. Running' = Running /\ HasRun' = HasRun /\ Retired' = Retired
    BY <2>1 DEF Running, HasRun, Retired, Executing, Placed, InTaskQ, InTodoQ,
       WithWorker, mainVars, taskVars, dispVars, workVars
  <2>3. Contract!Tick
    BY <2>1, <2>2 DEF Contract!Tick, Running, HasRun, Retired, taskVars
  <2>4. QED
    BY <2>3 DEF Contract!Next
<1>2. CASE Start
  <2>1. /\ UNCHANGED <<now, added, taskQ, todoQ, taskVars, heap, dtask, wtask>>
        /\ \A w \in Workers : wpc[w] = "off" /\ wpc'[w] = "select"
    BY <1>2 DEF Start, TimeInv, PlaceInv, TypeInv, Hands
  <2>2. \A t \in Tasks : Executing(t)' <=> Executing(t)
    BY <2>1 DEF Executing
  <2>3. \A t \in Tasks : Placed(t)' <=> Placed(t)
    BY <2>1 DEF Placed, InTaskQ, InTodoQ, WithWorker
  <2>4. QED
    BY <1>0, <2>1, <2>2, <2>3, ContractStutter DEF taskVars
<1>3. CASE Shutdown
  <2>1. UNCHANGED <<now, added, taskQ, todoQ, taskVars, dispVars, workVars>>
    BY <1>3 DEF Shutdown
  <2>2. \A t \in Tasks : (Executing(t)' <=> Executing(t)) /\ (Placed(t)' <=> Placed(t))
    BY <2>1 DEF Executing, Placed, InTaskQ, InTodoQ, WithWorker, dispVars, workVars
  <2>3. QED
    BY <1>0, <2>1, <2>2, ContractStutter DEF taskVars
<1>4. ASSUME NEW t \in Tasks, AddNewTask(t)
      PROVE  UNCHANGED Contract!vars
  <2>1. /\ taskQ' = Append(taskQ, t) /\ taskQ \in Seq(Tasks)
        /\ added' = added \cup {t} /\ t \notin added
        /\ addedByWorker' = [addedByWorker EXCEPT ![t] = FALSE]
        /\ addedByWorker \in [Tasks -> BOOLEAN]
        /\ UNCHANGED <<now, todoQ, lastExecuted, dispVars, workVars>>
    BY <1>4 DEF AddNewTask, TimeInv, PlaceInv, TypeInv, TypeOK
  <2>2. ~addedByWorker[t] /\ ~Placed(t)
    BY <2>1 DEF TimeInv, Deadlines, PlaceInv, TypeInv, Hands
  <2>3. addedByWorker' = addedByWorker
    BY <2>1, <2>2
  <2>4. \A u : InTaskQ(u)' <=> InTaskQ(u) \/ u = t
    BY <2>1, AppendFacts DEF InTaskQ
  <2>5. \A u \in Tasks : Placed(u)' <=> Placed(u) \/ u = t
    BY <2>1, <2>4 DEF Placed, InTodoQ, WithWorker, dispVars, workVars
  <2>6. Running' = Running
    BY <2>1 DEF Running, Executing, workVars
  <2>7. HasRun' = HasRun
    BY <2>3 DEF HasRun
  <2>8. Retired' = Retired
    <3>1. \A u \in Tasks : u \in added' /\ ~Placed(u)' <=> u \in added /\ ~Placed(u)
      BY <2>1, <2>2, <2>5
    <3>2. added' \subseteq Tasks
      BY <1>0, <2>1
    <3>3. QED
      BY <1>0, <3>1, <3>2 DEF Retired
  <2>9. QED
    BY <2>1, <2>6, <2>7, <2>8 DEF Contract!vars, Running, HasRun, Retired
<1>5. QED
  BY <1>1, <1>2, <1>3, <1>4 DEF Main

\* The dispatcher only moves tasks.
LEMMA ContractDispatcher ==
    ASSUME TimeInv, Dispatcher
    PROVE  UNCHANGED Contract!vars
<1>0. added \subseteq Tasks
  BY DEF TimeInv, PlaceInv, TypeInv, TypeOK
<1>1. UNCHANGED <<now, added, lastExecuted, addedByWorker, wpc, wtask>>
  BY DEF Dispatcher, ArmTimer, DispatcherDone, ReceiveExecuted, ReceiveNew,
     TimerFires, SendTodo, mainVars, taskVars, workVars
<1>2. \A t \in Tasks : Executing(t)' <=> Executing(t)
  BY <1>1 DEF Executing
<1>3. \A t \in Tasks : Placed(t)' <=> Placed(t)
  <2>1. CASE ArmTimer \/ DispatcherDone
    BY <1>1, <2>1
       DEF ArmTimer, DispatcherDone, Placed, InTaskQ, InTodoQ, WithWorker
  <2>2. CASE ReceiveExecuted \/ ReceiveNew
    <3>1. /\ taskQ # <<>> /\ taskQ' = Tail(taskQ) /\ dpc = "select" /\ todoQ' = todoQ
      BY <2>2 DEF ReceiveExecuted, ReceiveNew
    <3>2. PICK t : t = Head(taskQ)
      OBVIOUS
    <3>3. /\ t \in Tasks /\ dtask = NoTask
          /\ \A u : InTaskQ(u)' <=> InTaskQ(u) /\ u # t
      BY <3>1, <3>2, ReceivedFacts
    <3>4. InTaskQ(t)
      BY <3>1, <3>2, ReceiveFacts DEF TimeInv, PlaceInv
    <3>5. \/ heap' = heap \cup {t} /\ dtask' = dtask
          \/ heap' = heap /\ dtask' = t
      BY <2>2, <3>2 DEF ReceiveExecuted, ReceiveNew, PushTask, Dispatch
    <3>6. QED
      BY <1>1, <3>1, <3>3, <3>4, <3>5, NoTaskAssumption DEF Placed, InTodoQ, WithWorker
  <2>3. CASE TimerFires
    <3>1. PICK t \in heap : PopTask(t) /\ Dispatch(t)
      BY <2>3 DEF TimerFires
    <3>2. heap' = heap \ {t} /\ dtask' = t /\ UNCHANGED <<taskQ, todoQ>>
      BY <2>3, <3>1 DEF TimerFires, PopTask, Dispatch
    <3>3. dtask = NoTask
      BY <2>3 DEF TimerFires, TimeInv, PlaceInv, TypeInv, Hands
    <3>4. QED
      BY <1>1, <3>1, <3>2, <3>3, NoTaskAssumption
         DEF Placed, InTaskQ, InTodoQ, WithWorker
  <2>4. CASE SendTodo
    <3>1. /\ dtask \in Tasks /\ todoQ \in Seq(Tasks) /\ todoQ' = Append(todoQ, dtask)
          /\ dtask' = NoTask /\ UNCHANGED <<taskQ, heap>>
      BY <2>4 DEF SendTodo, TimeInv, PlaceInv, TypeInv, TypeOK, Hands
    <3>2. \A u : InTodoQ(u)' <=> InTodoQ(u) \/ u = dtask
      BY <3>1, AppendFacts DEF InTodoQ
    <3>3. QED
      BY <1>1, <3>1, <3>2, NoTaskAssumption DEF Placed, InTaskQ, WithWorker
  <2>5. QED
    BY <2>1, <2>2, <2>3, <2>4 DEF Dispatcher
<1>4. QED
  BY <1>0, <1>1, <1>2, <1>3, ContractStutter

\* The workers start and end executions.
LEMMA ContractWorker ==
    ASSUME TimeInv, NEW w \in Workers, Worker(w)
    PROVE  [Contract!Next]_(Contract!vars)
<1>0. /\ added \subseteq Tasks /\ now \in Nat
      /\ wtask \in [Workers -> Tasks \cup {NoTask}]
      /\ wpc \in [Workers -> {"off", "select", "execute", "requeue", "exited"}]
      /\ lastExecuted \in [Tasks -> Nat]
      /\ addedByWorker \in [Tasks -> BOOLEAN]
  BY DEF TimeInv, PlaceInv, TypeInv, TypeOK
<1>1. CASE WorkerDone(w)
  <2>1. /\ wpc[w] = "select" /\ wpc' = [wpc EXCEPT ![w] = "exited"]
        /\ UNCHANGED <<now, mainVars, taskQ, todoQ, taskVars, dispVars, wtask>>
    BY <1>1 DEF WorkerDone
  <2>2. \A t \in Tasks : Executing(t)' <=> Executing(t)
    BY <1>0, <2>1 DEF Executing
  <2>3. \A t \in Tasks : Placed(t)' <=> Placed(t)
    BY <2>1 DEF Placed, InTaskQ, InTodoQ, WithWorker, dispVars
  <2>4. QED
    BY <1>0, <2>1, <2>2, <2>3, ContractStutter DEF mainVars, taskVars
<1>2. CASE StartExecute(w)
  <2>1. /\ wpc[w] = "select" /\ todoQ # <<>> /\ todoQ' = Tail(todoQ)
        /\ wpc' = [wpc EXCEPT ![w] = "execute"]
        /\ UNCHANGED <<now, mainVars, taskQ, taskVars, dispVars>>
    BY <1>2 DEF StartExecute
  <2>2. PICK t \in Tasks : t = Head(todoQ)
    BY <2>1, TodoFacts DEF TimeInv, PlaceInv
  <2>3. /\ InTodoQ(t)
        /\ \A u : InTodoQ(u) <=> InTodoQ(u)' \/ u = t
    BY <2>1, <2>2, TodoFacts DEF TimeInv, PlaceInv
  <2>4. wtask' = [wtask EXCEPT ![w] = t] /\ wtask[w] = NoTask
    BY <1>0, <1>2, <2>1, <2>2 DEF StartExecute, TimeInv, PlaceInv, TypeInv, Hands
  <2>5. ~WithWorker(t) /\ Placed(t)
    BY <2>3 DEF TimeInv, PlaceInv, OnePlace, Placed
  <2>6. t \notin Running /\ t \notin Retired
    BY <2>5 DEF Running, Executing, WithWorker, Retired
  <2>7. \A u \in Tasks : Executing(u)' <=> Executing(u) \/ u = t
    BY <1>0, <2>1, <2>4, NoTaskAssumption DEF Executing
  <2>8. Running' = Running \cup {t}
    BY <2>7 DEF Running
  <2>9. \A u \in Tasks : WithWorker(u)' <=> WithWorker(u) \/ u = t
    BY <1>0, <2>4, NoTaskAssumption DEF WithWorker
  <2>10. \A u \in Tasks : Placed(u)' <=> Placed(u)
    BY <2>1, <2>3, <2>9 DEF Placed, InTaskQ, dispVars
  <2>11. Retired' = Retired
    BY <1>0, <2>1, <2>10 DEF Retired, mainVars
  <2>12. HasRun' = HasRun
    BY <2>1 DEF HasRun, taskVars
  <2>13. t \in HasRun => now >= lastExecuted[t] + MinExecutionPause
    BY <2>3 DEF TimeInv, Pauses, HasRun
  <2>14. Contract!Begin(t)
    BY <2>1, <2>6, <2>8, <2>11, <2>12, <2>13
       DEF Contract!Begin, Running, Retired, HasRun, taskVars
  <2>15. QED
    BY <2>14 DEF Contract!Next
<1>3. ASSUME NEW reQueue \in BOOLEAN, FinishExecute(w, reQueue)
      PROVE  Contract!Next
  <2>1. PICK t \in Tasks : t = wtask[w]
    BY <1>3 DEF FinishExecute, TimeInv, PlaceInv, TypeInv, TypeOK, Hands
  <2>2. PICK r \in ClockReadings : lastExecuted' = [lastExecuted EXCEPT ![t] = r]
    BY <1>3, <2>1, Zenon DEF FinishExecute
  <2>3. r \in 0..now /\ r <= now
    BY <1>0 DEF ClockReadings
  <2>4. /\ wpc[w] = "execute"
        /\ UNCHANGED <<now, mainVars, taskQ, todoQ, dispVars>>
        /\ IF reQueue
           THEN /\ addedByWorker' = [addedByWorker EXCEPT ![t] = TRUE]
                /\ wpc' = [wpc EXCEPT ![w] = "requeue"]
                /\ wtask' = wtask
           ELSE /\ addedByWorker' = addedByWorker
                /\ wpc' = [wpc EXCEPT ![w] = "select"]
                /\ wtask' = [wtask EXCEPT ![w] = NoTask]
    BY <1>3, <2>1 DEF FinishExecute
  <2>5. \A v \in Workers \ {w} : wtask[v] # t
    BY <2>1, NoTaskAssumption DEF TimeInv, PlaceInv, OnePlace
  <2>6. t \in Running
    BY <2>1, <2>4 DEF Running, Executing
  <2>7. \A u \in Tasks : Executing(u)' <=> Executing(u) /\ u # t
    <3>1. \A v \in Workers \ {w} : wtask'[v] = wtask[v] /\ wpc'[v] = wpc[v]
      BY <1>0, <2>4
    <3>2. wpc'[w] # "execute"
      BY <1>0, <2>4
    <3>3. QED
      BY <2>1, <2>5, <3>1, <3>2 DEF Executing
  <2>8. Running' = Running \ {t}
    BY <2>7 DEF Running
  <2>9. CASE reQueue
    <3>1. HasRun' = HasRun \cup {t}
      BY <1>0, <2>4, <2>9 DEF HasRun
    <3>2. Retired' = Retired
      BY <2>4, <2>9 DEF Retired, Placed, InTaskQ, InTodoQ, WithWorker, mainVars, dispVars
    <3>3. Contract!End(t, r, TRUE)
      BY <2>2, <2>3, <2>4, <2>6, <2>8, <3>1, <3>2
         DEF Contract!End, Running, HasRun, Retired
    <3>4. QED
      BY <2>3, <3>3, Zenon DEF Contract!Next
  <2>10. CASE ~reQueue
    <3>1. HasRun' = HasRun
      BY <2>4, <2>10 DEF HasRun
    <3>2. /\ WithWorker(t) /\ ~InTaskQ(t) /\ ~InTodoQ(t) /\ t \notin heap /\ dtask # t
          /\ t \in added
      BY <2>1 DEF TimeInv, PlaceInv, TypeInv, Hands, OnePlace, WithWorker, Placed
    <3>3. \A u \in Tasks : WithWorker(u)' <=> WithWorker(u) /\ u # t
      BY <1>0, <2>1, <2>4, <2>5, <2>10, NoTaskAssumption DEF WithWorker
    <3>4. \A u \in Tasks : Placed(u)' <=> Placed(u) /\ u # t
      BY <2>4, <3>2, <3>3 DEF Placed, InTaskQ, InTodoQ, dispVars
    <3>5. Retired' = Retired \cup {t}
      BY <1>0, <2>4, <3>2, <3>4 DEF Retired, mainVars
    <3>6. Contract!End(t, r, FALSE)
      BY <2>2, <2>3, <2>4, <2>6, <2>8, <3>1, <3>5
         DEF Contract!End, Running, HasRun, Retired
    <3>7. QED
      BY <2>3, <3>6, Zenon DEF Contract!Next
  <2>11. QED
    BY <2>9, <2>10
<1>4. CASE ReQueue(w)
  <2>1. PICK t \in Tasks : t = wtask[w]
    BY <1>4 DEF ReQueue, TimeInv, PlaceInv, TypeInv, TypeOK, Hands
  <2>2. /\ wpc[w] = "requeue" /\ taskQ' = Append(taskQ, t) /\ taskQ \in Seq(Tasks)
        /\ wpc' = [wpc EXCEPT ![w] = "select"]
        /\ wtask' = [wtask EXCEPT ![w] = NoTask]
        /\ UNCHANGED <<now, mainVars, todoQ, taskVars, dispVars>>
    BY <1>4, <2>1 DEF ReQueue, TimeInv, PlaceInv, TypeInv, TypeOK
  <2>3. \A u : InTaskQ(u)' <=> InTaskQ(u) \/ u = t
    BY <2>1, <2>2, AppendFacts DEF InTaskQ
  <2>4. \A u \in Tasks : Executing(u)' <=> Executing(u)
    BY <1>0, <2>2 DEF Executing
  <2>5. WithWorker(t) /\ \A u \in Tasks : u # t => (WithWorker(u)' <=> WithWorker(u))
    BY <1>0, <2>1, <2>2, NoTaskAssumption DEF WithWorker
  <2>6. \A u \in Tasks : Placed(u)' <=> Placed(u)
    BY <2>2, <2>3, <2>5 DEF Placed, InTodoQ, dispVars
  <2>7. QED
    BY <1>0, <2>2, <2>4, <2>6, ContractStutter DEF mainVars, taskVars
<1>5. QED
  BY <1>1, <1>2, <1>3, <1>4 DEF Worker

LEMMA ContractStep ==
    ASSUME TimeInv, [Next]_vars
    PROVE  [Contract!Next]_(Contract!vars)
<1>1. CASE UNCHANGED vars
  BY <1>1 DEF vars, mainVars, taskVars, dispVars, workVars, Contract!vars, Executing,
     Placed, InTaskQ, InTodoQ, WithWorker
<1>2. CASE Next
  BY <1>2, ContractMain, ContractDispatcher, ContractWorker DEF Next
<1>3. QED
  BY <1>1, <1>2

\* The scheduler implements its contract: no two workers execute a task at
\* once, none executes it too soon after the last time, and a task leaves the
\* scheduler only when its Execute says so.
THEOREM SchedulerKeepsContract == Spec => ContractKept
<1>1. Init => Contract!Init
  BY ContractInit
<1>2. TimeInv /\ [Next]_vars => [Contract!Next]_(Contract!vars)
  BY ContractStep
<1>3. QED
  BY <1>1, <1>2, TimeInvariant, PTL DEF Spec, ContractKept, Contract!Spec
==============================================================================
