-------------------------- MODULE MCLearningLedger --------------------------
(* Instances of LearningLedger for TLC. *)
EXTENDS LearningLedger, TLC

CONSTANTS w1, w2, s1, s2

Explore(candidates, sweepers, promotes, rollbacks, budget) ==
  [candidates |-> candidates, sweepers |-> sweepers,
   keys |-> [promote |-> promotes, rollback |-> rollbacks],
   budget |-> budget @@ [f \in Faults |-> 0]]

AllWorlds == {
  \* calls race with each other and with the review
  Explore({1}, {}, 2, 2, "edit" :> 2 @@ "raise" :> 1),
  \* a death leaves an intent, the operator settles it
  Explore({1}, {s1}, 2, 1, "edit" :> 1 @@ "raise" :> 1 @@ "crash" :> 1),
  \* two candidates, two workers
  Explore({1, 2}, {s1, s2}, 1, 0, "edit" :> 2 @@ "raise" :> 2 @@ "stall" :> 1),
  Explore({1, 2}, {s1}, 1, 0, "edit" :> 2 @@ "raise" :> 2 @@ "defer" :> 1 @@ "crash" :> 1),
  \* without care
  Explore({1}, {s1}, 1, 1, "edit" :> 1 @@ "late" :> 1 @@ "hasty" :> 1),
  Explore({1}, {s1}, 1, 1, "edit" :> 1 @@ "raise" :> 1 @@ "retry" :> 1)}
=============================================================================
