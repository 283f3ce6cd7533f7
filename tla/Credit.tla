------------------------------- MODULE Credit --------------------------------
(***************************************************************************)
(* The credit based rate limiter of lsvmi/rate_controller.go.  A           *)
(* replenisher goroutine adds to the credit once per period and wakes all  *)
(* waiters; GetCredit takes between the acceptable minimum and the desired *)
(* amount, waiting on the condition variable while there is less.  The     *)
(* users are the CreditReaders of requests under way: each Read asks for   *)
(* the size of the chunk, with the reader's fixed minimum.                 *)
(***************************************************************************)
EXTENDS Integers, FiniteSetsExt

CONSTANTS
    Users,
    Requests,       \* the amounts desired by a single call
    MinC,           \* CreditReader.minC; 0 is CREDIT_EXACT_MATCH
    ReplenishValue, \* Credit.replenishValue
    MaxParams,      \* the max passed to NewCredit; 0 is CREDIT_NO_LIMIT
    MaxPeriods      \* bound on the replenishments, when they are counted

ASSUME RequestsAssumption == Requests \subseteq Nat \ {0}
ASSUME CreditAssumption == {MinC, ReplenishValue, MaxPeriods} \cup MaxParams \subseteq Nat

VARIABLES
    max,        \* Credit.max
    current,    \* Credit.current
    counting,   \* whether the totals are kept
    periods,    \* total: how many times it was replenished
    granted,    \* total: the sum of all the results of GetCredit
    cancelled,  \* whether cancelFunc was called
    rpc,        \* where the replenisher is in its loop
    upc,        \* where each user is in GetCredit
    desired,    \* its argument
    got         \* its last result

settings == <<max, counting>>
creditVars == <<settings, current, periods, granted, cancelled, rpc>>
vars == <<creditVars, upc, desired, got>>

\* NewCredit: a max below the replenish value is raised to it.
NewMax(m) == IF m # 0 /\ m < ReplenishValue THEN ReplenishValue ELSE m

AcceptableExact(d) == d

\* minAcceptable, for a desired amount d.
Acceptable(d) == IF MinC = 0 \/ MinC > d THEN d ELSE MinC

\* NewCredit and startReplenish.  The totals are kept at will, but always where
\* nothing else bounds the credit.
Init ==
    /\ \E m \in MaxParams : max = NewMax(m)
    /\ counting \in BOOLEAN /\ (max = 0 => counting)
    /\ current = ReplenishValue
    /\ periods = 0
    /\ granted = 0
    /\ cancelled = FALSE
    /\ rpc = "check"
    /\ upc = [u \in Users |-> "idle"]
    /\ desired = [u \in Users |-> 0]
    /\ got = [u \in Users |-> 0]

------------------------------------------------------------------------------
(* The replenisher goroutine.                                                *)

\* `case <-ctx.Done()', or by default the pause until the next period.
CheckDone ==
    /\ rpc = "check"
    /\ rpc' = IF cancelled THEN "stopped" ELSE "pause"
    /\ UNCHANGED <<settings, current, periods, granted, cancelled, upc, desired, got>>

Signal ==
    IF \E u \in Users : upc[u] = "wait"
    THEN \E u \in Users : upc[u] = "wait" /\ upc' = [upc EXCEPT ![u] = "retry"]
    ELSE UNCHANGED upc

\* cond.Broadcast: every waiter is to try again.
Broadcast == upc' = [u \in Users |-> IF upc[u] = "wait" THEN "retry" ELSE upc[u]]

Capped(n) == IF max # 0 /\ n > max THEN max ELSE n

\* The end of a period: the credit grows, up to max.
Replenish ==
    /\ rpc = "pause"
    /\ counting => periods < MaxPeriods
    /\ rpc' = "check"
    /\ periods' = IF counting THEN periods + 1 ELSE periods
    /\ current' = Capped(current + ReplenishValue)
    /\ Broadcast
    /\ UNCHANGED <<settings, granted, cancelled, desired, got>>

\* StopReplenish
StopReplenish ==
    /\ ~cancelled
    /\ cancelled' = TRUE
    /\ UNCHANGED <<settings, current, periods, granted, rpc, upc, desired, got>>

------------------------------------------------------------------------------
(* GetCredit, called by user u.                                              *)

GetCredit(u, d) ==
    /\ upc[u] = "idle"
    /\ desired' = [desired EXCEPT ![u] = d]
    /\ upc' = [upc EXCEPT ![u] = "retry"]
    /\ got' = [got EXCEPT ![u] = 0]
    /\ UNCHANGED creditVars

\* Lock held: too little credit, cond.Wait.
Wait(u) ==
    /\ upc[u] = "retry"
    /\ current < Acceptable(desired[u])
    /\ upc' = [upc EXCEPT ![u] = "wait"]
    /\ UNCHANGED <<creditVars, desired, got>>

\* What a user gets.
Grant(u) == IF current >= desired[u] THEN desired[u] ELSE current

LessAcceptable(u) == current - Acceptable(desired[u])

\* What is left of the credit then.
LessGrant(u) == current - Grant(u)

\* Lock held: enough credit.
Take(u) ==
    /\ upc[u] = "retry"
    /\ current >= Acceptable(desired[u])
    /\ got' = [got EXCEPT ![u] = Grant(u)]
    /\ current' = LessGrant(u)
    /\ granted' = IF counting THEN granted + Grant(u) ELSE granted
    /\ upc' = [upc EXCEPT ![u] = "idle"]
    /\ UNCHANGED <<settings, periods, cancelled, rpc, desired>>

------------------------------------------------------------------------------
Next ==
    \/ CheckDone
    \/ Replenish
    \/ StopReplenish
    \/ \E u \in Users : Wait(u) \/ Take(u) \/ \E d \in Requests : GetCredit(u, d)

Spec == Init /\ [][Next]_vars

\* The replenisher keeps running and a goroutine that was woken gets the lock;
\* that it is before others took the credit again is not assumed.
Fairness ==
    /\ WF_vars(CheckDone) /\ WF_vars(Replenish)
    /\ \A u \in Users : WF_vars(Wait(u)) /\ WF_vars(Take(u))

FairSpec == Spec /\ Fairness
------------------------------------------------------------------------------
TypeOK ==
    /\ {max, current, periods, granted} \subseteq Nat
    /\ {counting, cancelled} \subseteq BOOLEAN
    /\ rpc \in {"check", "pause", "stopped"}
    /\ upc \in [Users -> {"idle", "wait", "retry"}]
    /\ desired \in [Users -> Nat]
    /\ got \in [Users -> Nat]

\* All that was ever granted and what is left is covered by the initial credit
\* and the replenishments: over n periods at most n + 1 times the replenish
\* value is used, whatever the users interleave (rate_controller.go:3-6,
\* 133-139, 160-172).
RateLimited == counting => granted + current <= ReplenishValue * (periods + 1)

\* The credit never exceeds the burst limit (rate_controller.go:4-6, 135-137).
BurstLimited == max # 0 => current <= max

\* Nobody sleeps while there is credit for them: a waiter is woken by every
\* replenishment and checks again under the lock (rate_controller.go:138, 163).
NoSleepWithCredit ==
    \A u \in Users : upc[u] = "wait" => current < Acceptable(desired[u])

\* A call returns no more than desired and no less than acceptable
\* (rate_controller.go:8-11).
GrantInRange ==
    \A u \in Users :
        upc[u] = "idle" /\ desired[u] > 0 =>
            Acceptable(desired[u]) <= got[u] /\ got[u] <= desired[u]

\* The calls of GetCredit under way.
Calling == {u \in Users : upc[u] # "idle"}

\* While the credit is being replenished the calls under way do not all wait
\* forever: the set of them changes, and as it cannot always grow, calls return,
\* provided a single replenishment covers the acceptable minimum
\* (rate_controller.go:163-165).
CreditGranted ==
    \A S \in SUBSET Users \ {{}} : ~counting /\ Calling = S ~> Calling # S \/ cancelled

==============================================================================
