----------------------------- MODULE MCScheduling -----------------------------
(* Instances of Scheduling for TLC.                                          *)
EXTENDS SchedulingInvariant, TLC

(* Workers are interchangeable, and so are tasks of a kind that no constant  *)
(* singles out.                                                              *)
Symmetry == Permutations(Workers) \union Permutations(Fibers)
              \union Permutations(Actors)

(* Only schedules in which the yielders do nothing but yield, and the rest   *)
(* runs under the fairness of Scheduling.                                    *)
YieldSpec == FairSpec /\ YieldFairness
=============================================================================
