----------------------------- MODULE MCScheduler -----------------------------
(* Instances of Scheduler for TLC.                                           *)
EXTENDS Scheduler, TLC

CONSTANTS a, b, w1, w2

\* One task configured below the minimum interval of two granules, to which
\* CompliantTaskInterval raises it, and a slower one.
FastAndSlow == a :> 1 @@ b :> 3

\* The workers are alike; used where every property is one of states or steps.
WorkerSymmetry == Permutations(Workers)
==============================================================================
