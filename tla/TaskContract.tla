---------------------------- MODULE TaskContract -----------------------------
(***************************************************************************)
(* What the scheduler promises to a metrics generator, without its queues, *)
(* heap, timer and goroutines: Execute of one task is never entered twice  *)
(* at the same time, between the end of one execution and the start of the *)
(* next there are at least MinPause ticks, and a task leaves the scheduler *)
(* only when its own Execute asks for it.  The generators keep their state *)
(* without a lock, so they depend on the first of these.                   *)
(***************************************************************************)
EXTENDS Integers

CONSTANTS Tasks, MinPause

VARIABLES
    clock,      \* the time
    running,    \* the tasks that are inside Execute
    hasRun,     \* the tasks executed before
    lastEnd,    \* when the last execution of each of them ended, as recorded
    retired     \* the tasks that asked not to be queued again

vars == <<clock, running, hasRun, lastEnd, retired>>

Init ==
    /\ clock = 0
    /\ running = {}
    /\ hasRun = {}
    /\ lastEnd = [t \in Tasks |-> 0]
    /\ retired = {}

Begin(t) ==
    /\ t \notin running \cup retired
    /\ t \in hasRun => clock >= lastEnd[t] + MinPause
    /\ running' = running \cup {t}
    /\ UNCHANGED <<clock, hasRun, lastEnd, retired>>

\* The end of an execution, recorded with a clock that may lag.
End(t, recorded, again) ==
    /\ t \in running
    /\ recorded <= clock
    /\ running' = running \ {t}
    /\ lastEnd' = [lastEnd EXCEPT ![t] = recorded]
    /\ IF again
       THEN hasRun' = hasRun \cup {t} /\ UNCHANGED retired
       ELSE retired' = retired \cup {t} /\ UNCHANGED hasRun
    /\ UNCHANGED clock

Tick ==
    /\ clock' = clock + 1
    /\ UNCHANGED <<running, hasRun, lastEnd, retired>>

Next ==
    \/ Tick
    \/ \E t \in Tasks : Begin(t)
    \/ \E t \in Tasks, recorded \in 0..clock, again \in BOOLEAN : End(t, recorded, again)

Spec == Init /\ [][Next]_vars
==============================================================================
