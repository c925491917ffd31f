---------------------------- MODULE MCScheduler ----------------------------
(* Instances of Scheduler for TLC. *)
EXTENDS Scheduler, Sequences, TLC

CONSTANTS j1, j2, w1, w2

Queue == [group |-> j1, overlap |-> "queue", misfire |-> "fire_once", grace |-> 1,
          every |-> 1, retries |-> 0, jitter |-> FALSE]
Skip     == [Queue EXCEPT !.overlap = "skip"]
CatchUp  == [Queue EXCEPT !.misfire = "catch_up"]
Misses   == [Queue EXCEPT !.misfire = "skip"]
Again(d) == [d EXCEPT !.retries = 1]
Slow(d)  == [d EXCEPT !.every = 2]

\* j1, or j1 and j2, defined alike in every revision
Explore(defs, last, ends, budget) ==
  [jobs |-> {<<j1, j2>>[i] : i \in DOMAIN defs},
   def |-> (j1 :> [r \in Revisions |-> defs[1]] @@
            j2 :> [r \in Revisions |-> defs[Len(defs)]]),
   last |-> last, ends |-> ends, budget |-> budget @@ [f \in Faults |-> 0]]

AllWorlds == {
  Explore(<<Again(Queue), Slow(Queue)>>, 2, {"completed", "failed"}, "crash" :> 1),
  Explore(<<Queue, Slow(Skip)>>, 2, {"completed", "stuck"}, "cancel" :> 1),
  Explore(<<Again(Queue)>>, 1, {"failed", "stuck"}, "cancel" :> 1),
  Explore(<<Slow(CatchUp), Skip>>, 2, {"completed"}, "stall" :> 1),
  Explore(<<[CatchUp EXCEPT !.jitter = TRUE]>>, 3, {"completed", "dead"}, "edit" :> 2),
  Explore(<<Misses>>, 4, {"completed"}, "cancel" :> 1),
  Explore(<<Again(Skip)>>, 2, {"completed", "failed"}, "refuse" :> 1 @@ "manual" :> 1),
  Explore(<<Again(Queue), Queue>>, 1, {"completed"}, "input" :> 1),
  Explore(<<Queue>>, 1, {"completed"}, "manual" :> 1 @@ "cancel" :> 1),
  [Explore(<<Queue, Queue>>, 2, {"completed"}, "edit" :> 1)
     EXCEPT !.def[j1][2] = [Queue EXCEPT !.group = j2]]}

CrashWorlds == {Explore(<<Queue>>, 1, {"completed"}, "crash" :> 1)}
=============================================================================
