------------------------------ MODULE Scheduler ------------------------------
(***************************************************************************)
(* The task scheduler of lsvmi/scheduler.go: main hands the tasks over     *)
(* (AddNewTask), the dispatcher goroutine keeps the waiting ones in a heap *)
(* ordered by deadline and arms one timer for the heap's top, and a pool   *)
(* of worker goroutines executes what the dispatcher puts in the TODO      *)
(* queue and sends each task back through the task queue.                  *)
(*                                                                         *)
(* Time is counted in ticks, Granularity of them to a scheduler granule.   *)
(* A reading of the wall clock may lag behind the real time `now' by up to *)
(* MaxSkew, which stands for the clock "going backwards" that the          *)
(* dispatcher's deadline hack is there for.                                *)
(***************************************************************************)
EXTENDS Integers, Sequences, FiniteSets

CONSTANTS
    Tasks,      \* the tasks main builds and adds
    Workers,    \* the worker goroutines
    Interval,   \* [Tasks -> Nat]: the configured interval of every task
    Granularity,\* SCHEDULER_GRANULARITY, in ticks
    TaskQLen,   \* SCHEDULER_TASK_Q_LEN
    TodoQLen,   \* SCHEDULER_TODO_Q_LEN
    MaxSkew,    \* how far behind `now' a clock reading may be
    MaxTime,    \* bound on `now'
    NoTask      \* the nil *Task

ASSUME IntervalAssumption == Interval \in [Tasks -> Nat]
ASSUME GranularityAssumption == Granularity \in Nat \ {0}
ASSUME QueueAssumption == TaskQLen \in Nat \ {0} /\ TodoQLen \in Nat \ {0}
ASSUME TimeAssumption == MaxSkew \in Nat /\ MaxTime \in Nat
ASSUME NoTaskAssumption == NoTask \notin Tasks

VARIABLES
    now,            \* the real time
    state,          \* Scheduler.state
    added,          \* the tasks main has passed to AddNewTask
    interval,       \* Task.interval
    taskQ, todoQ,   \* the two channels
    heap,           \* Scheduler.tasks, the Next Task Heap
    deadline,       \* Task.deadline
    lastExecuted,   \* Task.lastExecuted
    addedByWorker,  \* Task.addedByWorker
    dpc,            \* where the dispatcher is in its loop
    dtask,          \* the dispatcher's local `task'
    activeTimer,    \* the dispatcher's local `activeTimer'
    currentDeadline,\* the dispatcher's local `currentDeadline'
    wpc,            \* where each worker is in its loop
    wtask,          \* each worker's local `task'
    startTs,        \* each worker's local `startTs', 0 outside of its scope
    statIds,        \* the keys of Scheduler.stats
    stats           \* Scheduler.stats

mainVars  == <<state, added>>
taskVars  == <<interval, deadline, lastExecuted, addedByWorker>>
dispVars  == <<heap, dpc, dtask, activeTimer, currentDeadline>>
workVars  == <<wpc, wtask, startTs>>
statVars  == <<statIds, stats>>
vars == <<now, mainVars, taskQ, todoQ, taskVars, dispVars, workVars, statVars>>

\* SCHEDULER_TASK_MIN_EXECUTION_PAUSE
MinExecutionPause == 2 * Granularity

\* Truncate(p) of package time: the multiple of p at or below t.
Truncate(t, p) == t - (t % p)

IntervalRounded(i) == Truncate(i + Granularity \div 2, Granularity)

\* Rounded to the nearest granule, and at least the minimum pause.
CompliantTaskInterval(i) ==
    LET down    == Truncate(i, Granularity)
        nearest == IF 2 * (i - down) >= Granularity THEN down + Granularity ELSE down
    IN  IF nearest < MinExecutionPause THEN MinExecutionPause ELSE nearest

\* What time.Now() may return.
ClockReadings == {r \in 0..now : now - r <= MaxSkew}

\* The tasks that are at the top of the heap: container/heap keeps a minimum of
\* Less there, and which one of several equal deadlines depends on its layout.
Top == {t \in heap : \A u \in heap : deadline[t] <= deadline[u]}

\* The counters of one task, updated as it is received, scheduled, executed.
CountReceived(s, hack, delayed) ==
    [s EXCEPT !.hack = IF hack THEN @ + 1 ELSE @,
              !.delayed = IF delayed THEN @ + 1 ELSE @]
CountScheduled(s) == [s EXCEPT !.scheduled = @ + 1]
CountExecuted(s, overrun) ==
    [s EXCEPT !.overrun = IF overrun THEN @ + 1 ELSE @, !.executed = @ + 1]
------------------------------------------------------------------------------
NewTaskStats ==
    [scheduled |-> 0, delayed |-> 0, overrun |-> 0, executed |-> 0, hack |-> 0]

\* NewScheduler, and the tasks as NewTask builds them.
Init ==
    /\ now = 0
    /\ state = "Created"
    /\ added = {}
    /\ interval = Interval
    /\ taskQ = <<>> /\ todoQ = <<>>
    /\ heap = {}
    /\ deadline = [t \in Tasks |-> 0]
    /\ lastExecuted = [t \in Tasks |-> 0]
    /\ addedByWorker = [t \in Tasks |-> FALSE]
    /\ dpc = "off" /\ dtask = NoTask
    /\ activeTimer = FALSE /\ currentDeadline = 0
    /\ wpc = [w \in Workers |-> "off"]
    /\ wtask = [w \in Workers |-> NoTask]
    /\ startTs = [w \in Workers |-> 0]
    /\ statIds = {}
    /\ stats = [t \in Tasks |-> NewTaskStats]

Tick ==
    /\ now < MaxTime
    /\ now' = now + 1
    /\ UNCHANGED <<mainVars, taskQ, todoQ, taskVars, dispVars, workVars, statVars>>

------------------------------------------------------------------------------
(* The main goroutine: Start, AddNewTask for every task, then Shutdown.      *)

Start ==
    /\ state = "Created"
    /\ state' = "Running"
    /\ dpc' = "loop"
    /\ wpc' = [w \in Workers |-> "select"]
    /\ UNCHANGED <<now, added, taskQ, todoQ, taskVars, heap, dtask, activeTimer,
                   currentDeadline, wtask, startTs, statVars>>

AddNewTask(t) ==
    /\ state = "Running"
    /\ t \notin added
    /\ Len(taskQ) < TaskQLen
    /\ added' = added \cup {t}
    /\ addedByWorker' = [addedByWorker EXCEPT ![t] = FALSE]
    /\ interval' = [interval EXCEPT ![t] = CompliantTaskInterval(@)]
    /\ taskQ' = Append(taskQ, t)
    /\ UNCHANGED <<now, state, todoQ, deadline, lastExecuted, dispVars, workVars,
                   statVars>>

\* A signal arrived: cancel the context and wait for every goroutine to return.
Shutdown ==
    /\ state = "Running"
    /\ added = Tasks
    /\ state' = "Stopped"
    /\ UNCHANGED <<now, added, taskQ, todoQ, taskVars, dispVars, workVars, statVars>>

------------------------------------------------------------------------------
(* The dispatcher goroutine.                                                 *)

ArmTimerOnce ==
    /\ dpc = "loop"
    /\ dpc' = "select"
    /\ IF ~activeTimer /\ heap # {} /\ currentDeadline = 0
       THEN /\ activeTimer' = TRUE
            /\ \E t \in Top : currentDeadline' = deadline[t]
       ELSE UNCHANGED <<activeTimer, currentDeadline>>
    /\ UNCHANGED <<now, mainVars, taskQ, todoQ, taskVars, heap, dtask, workVars,
                   statVars>>

\* Top of the loop: arm the timer for the top of the heap.
ArmTimer ==
    /\ dpc = "loop"
    /\ dpc' = "select"
    /\ IF ~activeTimer /\ heap # {}
       THEN /\ activeTimer' = TRUE
            /\ \E t \in Top : currentDeadline' = deadline[t]
       ELSE UNCHANGED <<activeTimer, currentDeadline>>
    /\ UNCHANGED <<now, mainVars, taskQ, todoQ, taskVars, heap, dtask, workVars,
                   statVars>>

\* `case <-ctx.Done()', with the deferred timer.Stop.
DispatcherDone ==
    /\ dpc = "select"
    /\ state = "Stopped"
    /\ dpc' = "exited"
    /\ UNCHANGED <<now, mainVars, taskQ, todoQ, taskVars, heap, dtask, activeTimer,
                   currentDeadline, workVars, statVars>>

\* The deadline of a task received at clock reading r, before any adjustment.
NextMultiple(t, r) == Truncate(r, interval[t]) + interval[t]

NoHack(t, n) == n

\* The hack: n advanced by interval until it is past the previous deadline.
PastDeadline(t, n) ==
    IF deadline[t] < n
    THEN n
    ELSE deadline[t] - ((deadline[t] - n) % interval[t]) + interval[t]

\* The earliest deadline that keeps the minimum pause since the last execution.
TaskNearestDeadline(t) == lastExecuted[t] + MinExecutionPause

PushKeepsTimer(t, d) ==
    /\ deadline' = [deadline EXCEPT ![t] = d]
    /\ heap' = heap \cup {t}
    /\ UNCHANGED activeTimer

\* Push t on the heap with deadline d; stop the timer if d comes before it.
PushTask(t, d) ==
    /\ deadline' = [deadline EXCEPT ![t] = d]
    /\ heap' = heap \cup {t}
    /\ activeTimer' = (activeTimer /\ ~(d < currentDeadline))

\* `case task = <-taskQ' for a task that a worker sent back.
ReceiveExecuted ==
    /\ dpc = "select"
    /\ taskQ # <<>>
    /\ addedByWorker[Head(taskQ)]
    /\ taskQ' = Tail(taskQ)
    /\ \E r \in ClockReadings :
         LET t        == Head(taskQ)
             multiple == NextMultiple(t, r)
             next     == PastDeadline(t, multiple)
             nearest  == TaskNearestDeadline(t)
             hack     == ~(deadline[t] < multiple)
             delayed  == next < nearest
         IN  /\ PushTask(t, IF delayed THEN nearest ELSE next)
             /\ stats' = [stats EXCEPT ![t] = CountReceived(@, hack, delayed)]
    /\ dpc' = "loop"
    /\ UNCHANGED <<now, mainVars, todoQ, interval, lastExecuted, addedByWorker,
                   dtask, currentDeadline, workVars, statIds>>

\* Hand t over for execution: count it, then block until todoQ takes it.
Dispatch(t) ==
    /\ dtask' = t
    /\ dpc' = "send"
    /\ statIds' = statIds \cup {t}
    /\ stats' = [stats EXCEPT ![t] = CountScheduled(@)]

\* `case task = <-taskQ' for a new task: wait for a deadline that is near,
\* else execute at once.
ReceiveNew ==
    /\ dpc = "select"
    /\ taskQ # <<>>
    /\ ~addedByWorker[Head(taskQ)]
    /\ taskQ' = Tail(taskQ)
    /\ \E r \in ClockReadings :
         LET t    == Head(taskQ)
             next == NextMultiple(t, r)
         IN  IF next - r < MinExecutionPause
             THEN /\ PushTask(t, next)
                  /\ dpc' = "loop"
                  /\ UNCHANGED <<dtask, statVars>>
             ELSE /\ deadline' = [deadline EXCEPT ![t] = r]
                  /\ activeTimer' = FALSE
                  /\ Dispatch(t)
                  /\ UNCHANGED heap
    /\ UNCHANGED <<now, mainVars, todoQ, interval, lastExecuted, addedByWorker,
                   currentDeadline, workVars>>

PeekTask(t) == t \in heap /\ UNCHANGED heap

\* heap.Pop
PopTask(t) == t \in Top /\ heap' = heap \ {t}

\* `case <-timer.C': the timer never fires before its deadline.
TimerFires ==
    /\ dpc = "select"
    /\ activeTimer
    /\ now >= currentDeadline
    /\ activeTimer' = FALSE
    /\ \E t \in heap : PopTask(t) /\ Dispatch(t)
    /\ UNCHANGED <<now, mainVars, taskQ, todoQ, taskVars, currentDeadline, workVars>>

SendTodoOrDrop ==
    /\ dpc = "send"
    /\ todoQ' = IF Len(todoQ) < TodoQLen THEN Append(todoQ, dtask) ELSE todoQ
    /\ dtask' = NoTask
    /\ dpc' = "loop"
    /\ UNCHANGED <<now, mainVars, taskQ, taskVars, heap, activeTimer,
                   currentDeadline, workVars, statVars>>

\* `todoQ <- task'
SendTodo ==
    /\ dpc = "send"
    /\ Len(todoQ) < TodoQLen
    /\ todoQ' = Append(todoQ, dtask)
    /\ dtask' = NoTask
    /\ dpc' = "loop"
    /\ UNCHANGED <<now, mainVars, taskQ, taskVars, heap, activeTimer,
                   currentDeadline, workVars, statVars>>

------------------------------------------------------------------------------
(* A worker goroutine.                                                       *)

WorkerDoneWhenIdle(w) ==
    /\ wpc[w] = "select"
    /\ state = "Stopped"
    /\ todoQ = <<>> /\ taskQ = <<>>
    /\ wpc' = [wpc EXCEPT ![w] = "exited"]
    /\ UNCHANGED <<now, mainVars, taskQ, todoQ, taskVars, dispVars, wtask, startTs,
                   statVars>>

\* `case <-ctx.Done()'
WorkerDone(w) ==
    /\ wpc[w] = "select"
    /\ state = "Stopped"
    /\ wpc' = [wpc EXCEPT ![w] = "exited"]
    /\ UNCHANGED <<now, mainVars, taskQ, todoQ, taskVars, dispVars, wtask, startTs,
                   statVars>>

StartExecute(w) ==
    /\ wpc[w] = "select"
    /\ todoQ # <<>>
    /\ todoQ' = Tail(todoQ)
    /\ wpc' = [wpc EXCEPT ![w] = "execute"]
    /\ wtask' = [wtask EXCEPT ![w] = Head(todoQ)]
    /\ startTs' = [startTs EXCEPT ![w] = now]
    /\ UNCHANGED <<now, mainVars, taskQ, taskVars, dispVars, statVars>>

\* Execute returned; reQueue is its result.
FinishExecute(w, reQueue) ==
    LET t == wtask[w] IN
    /\ wpc[w] = "execute"
    /\ \E r \in ClockReadings : lastExecuted' = [lastExecuted EXCEPT ![t] = r]
    /\ stats' = [stats EXCEPT ![t] = CountExecuted(@, now - startTs[w] >= interval[t])]
    /\ IF reQueue
       THEN /\ addedByWorker' = [addedByWorker EXCEPT ![t] = TRUE]
            /\ wpc' = [wpc EXCEPT ![w] = "requeue"]
            /\ UNCHANGED wtask
       ELSE /\ wpc' = [wpc EXCEPT ![w] = "select"]
            /\ wtask' = [wtask EXCEPT ![w] = NoTask]
            /\ UNCHANGED addedByWorker
    /\ startTs' = [startTs EXCEPT ![w] = 0]
    /\ UNCHANGED <<now, mainVars, taskQ, todoQ, interval, deadline, dispVars,
                   statIds>>

\* `taskQ <- task'
ReQueue(w) ==
    /\ wpc[w] = "requeue"
    /\ Len(taskQ) < TaskQLen
    /\ taskQ' = Append(taskQ, wtask[w])
    /\ wpc' = [wpc EXCEPT ![w] = "select"]
    /\ wtask' = [wtask EXCEPT ![w] = NoTask]
    /\ UNCHANGED <<now, mainVars, todoQ, taskVars, dispVars, startTs, statVars>>

------------------------------------------------------------------------------
Main == Start \/ Shutdown \/ \E t \in Tasks : AddNewTask(t)

Dispatcher ==
    \/ ArmTimer
    \/ DispatcherDone
    \/ ReceiveExecuted
    \/ ReceiveNew
    \/ TimerFires
    \/ SendTodo

Worker(w) ==
    \/ WorkerDone(w)
    \/ StartExecute(w)
    \/ \E reQueue \in BOOLEAN : FinishExecute(w, reQueue)
    \/ ReQueue(w)

Next == Tick \/ Main \/ Dispatcher \/ \E w \in Workers : Worker(w)

Spec == Init /\ [][Next]_vars

\* The goroutines are scheduled by the Go runtime, time passes and Execute
\* returns.  select picks a ready case at random, so a cancelled context is
\* noticed although other cases keep being ready: strong fairness.
Fairness ==
    /\ WF_vars(Tick)
    /\ WF_vars(Start)
    /\ \A t \in Tasks : WF_vars(AddNewTask(t))
    /\ WF_vars(Dispatcher)
    /\ SF_vars(DispatcherDone)
    /\ SF_vars(TimerFires)
    /\ \A w \in Workers : WF_vars(Worker(w)) /\ SF_vars(WorkerDone(w))

FairSpec == Spec /\ Fairness
------------------------------------------------------------------------------
TaskStats ==
    [scheduled : Nat, delayed : Nat, overrun : Nat, executed : Nat, hack : Nat]

TypeOK ==
    /\ now \in Nat
    /\ state \in {"Created", "Running", "Stopped"}
    /\ added \in SUBSET Tasks
    /\ interval \in [Tasks -> Nat]
    /\ \A t \in added : interval[t] >= MinExecutionPause
    /\ taskQ \in Seq(Tasks) /\ Len(taskQ) <= TaskQLen
    /\ todoQ \in Seq(Tasks) /\ Len(todoQ) <= TodoQLen
    /\ heap \in SUBSET Tasks
    /\ deadline \in [Tasks -> Nat]
    /\ lastExecuted \in [Tasks -> Nat]
    /\ addedByWorker \in [Tasks -> BOOLEAN]
    /\ dpc \in {"off", "loop", "select", "send", "exited"}
    /\ dtask \in Tasks \cup {NoTask}
    /\ activeTimer \in BOOLEAN
    /\ currentDeadline \in Nat
    /\ wpc \in [Workers -> {"off", "select", "execute", "requeue", "exited"}]
    /\ wtask \in [Workers -> Tasks \cup {NoTask}]
    /\ startTs \in [Workers -> Nat]
    /\ statIds \in SUBSET Tasks
    /\ stats \in [Tasks -> TaskStats]

Holds(q, t) == \E i \in 1..Len(q) : q[i] = t
NoRepeats(q) == \A i, j \in 1..Len(q) : q[i] = q[j] => i = j

InTaskQ(t) == Holds(taskQ, t)
InTodoQ(t) == Holds(todoQ, t)
WithWorker(t) == \E w \in Workers : wtask[w] = t
Executing(t) == \E w \in Workers : wtask[w] = t /\ wpc[w] = "execute"

\* Somewhere in the scheduler, as opposed to not added yet or dropped.
Placed(t) == InTaskQ(t) \/ InTodoQ(t) \/ t \in heap \/ dtask = t \/ WithWorker(t)

\* A *Task is handed from goroutine to goroutine through the channels and the
\* heap without a lock on its fields: at any time it is in one queue slot, in
\* the heap, or in the hands of one goroutine, never in two of these
\* (scheduler.go:375-376, 419, 429, 449, 468).
OnePlace ==
    /\ NoRepeats(taskQ)
    /\ NoRepeats(todoQ)
    /\ \A v, w \in Workers : wtask[v] = wtask[w] /\ wtask[v] # NoTask => v = w
    /\ \A t \in Tasks :
         /\ InTaskQ(t) => ~InTodoQ(t) /\ t \notin heap /\ dtask # t /\ ~WithWorker(t)
         /\ InTodoQ(t) => t \notin heap /\ dtask # t /\ ~WithWorker(t)
         /\ t \in heap => dtask # t /\ ~WithWorker(t)
         /\ dtask = t => ~WithWorker(t)

\* The dispatcher's one timer is always for the nearest deadline: while it
\* waits with tasks in the heap the timer is armed, an armed timer has the
\* deadline of the heap's top, and it never fires over an empty heap
\* (scheduler.go:332-336, 380-385, 397-402, 419).
TimerTracksTop ==
    /\ activeTimer => \E t \in Top : currentDeadline = deadline[t]
    /\ dpc = "select" /\ heap # {} => activeTimer

\* A task that was executed before starts again no earlier than its recorded
\* last execution plus SCHEDULER_TASK_MIN_EXECUTION_PAUSE, whatever time its
\* execution, the queues and the clock's lag took (scheduler.go:80-81, 360-364).
MinPauseKept ==
    \A w \in Workers :
        wpc[w] = "execute" /\ addedByWorker[wtask[w]] =>
            startTs[w] >= lastExecuted[wtask[w]] + MinExecutionPause

\* With a clock that never lags, a re-added task's next multiple of its
\* interval is past its previous deadline: the hack never applies
\* (scheduler.go:348-357).
HackNeedsLag == MaxSkew = 0 => \A t \in Tasks : stats[t].hack = 0

\* The deadlines given to one task only move forward, even when the clock goes
\* backwards between two of them: a task that comes back from a worker never
\* gets the deadline that it was just executed for (scheduler.go:348-364).
DeadlinesAdvance ==
    [][\A t \in Tasks :
         deadline'[t] # deadline[t] \/ (addedByWorker[t] /\ t \in heap' \ heap) =>
             deadline'[t] > deadline[t]]_vars

\* The refinement mapping onto what the scheduler promises.
Contract == INSTANCE TaskContract WITH
    MinPause <- MinExecutionPause,
    clock    <- now,
    running  <- {t \in Tasks : Executing(t)},
    hasRun   <- {t \in Tasks : addedByWorker[t]},
    lastEnd  <- lastExecuted,
    retired  <- {t \in added : ~Placed(t)}

\* The scheduler implements the contract: no task is executed by two workers
\* at once, none is executed again too soon and none gets lost on its way
\* between queues, heap and goroutines (scheduler.go:306-472).
ContractKept == Contract!Spec

\* A task that is due is executed, unless the scheduler is stopped
\* (scheduler.go:47-58).
DueTasksRun ==
    \A t \in Tasks :
        t \in heap /\ deadline[t] <= MaxTime ~> Executing(t) \/ state = "Stopped"

\* Shutdown returns: when either queue holds every task, no worker can be stuck
\* sending to a dispatcher that is gone, nor the dispatcher to workers that are
\* (scheduler.go:429, 468, 538-539).
ShutdownCompletes ==
    Cardinality(Tasks) <= TaskQLen /\ Cardinality(Tasks) <= TodoQLen =>
        (state = "Stopped" ~> dpc = "exited" /\ \A w \in Workers : wpc[w] = "exited")
==============================================================================
