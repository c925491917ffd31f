------------------------------ MODULE SyncStream ------------------------------
(***************************************************************************)
(* A blocking iterator over the live events of one run.  The worker of the *)
(* run, the pump that serves the iterator and the shutdown of the harness  *)
(* are tasks of one event loop, which a coordinator keeps on a thread of   *)
(* its own; the consumer, whoever closes the iterator or the harness, and  *)
(* the calls of the store are other threads.  Two bounded queues lie       *)
(* between worker and consumer: the presentation, inside the loop, and the *)
(* queue of the iterator, between threads.                                 *)
(*                                                                         *)
(* A step of the loop lasts from one suspension of a task to the next.     *)
(* Where the pump empties the queue of the iterator the consumer can come  *)
(* in between, so that is a step per item, during which no other task runs.*)
(*                                                                         *)
(* Definitions named ...Mutant are faulty variants of the definition that  *)
(* follows them.  No other definition refers to them; they show that the   *)
(* properties notice the fault.                                            *)
(***************************************************************************)
EXTENDS Integers, Sequences

CONSTANTS
  Events,          \* bound: events the worker has
  PresCapacity,    \* of the presentation
  Capacity,        \* of the iterator
  Detached,        \* RunPresentationDetached
  Finished,        \* _FINISHED of the presentation
  End              \* _END of the iterator

ASSUME CapacitiesArePositive ==
  Events \in Nat /\ PresCapacity \in Nat \ {0} /\ Capacity \in Nat \ {0}
ASSUME MarkersAreNoEvents ==
  /\ {Detached, Finished, End} \cap (1..Events) = {}
  /\ Detached # Finished /\ Detached # End /\ Finished # End

VARIABLES
  run,        \* state of the run: its record, then its worker
  published,  \* events the worker has handed to publish
  pres,       \* the LiveRunPresentation
  pump,       \* the task: where it is, its store call, a cancellation to deliver
  queue,      \* of the iterator
  error,      \* _error is set
  closed,     \* _closed of the iterator
  closer,     \* a thread in close() of the iterator
  consumer,   \* the thread that iterates
  received,   \* history: what it got
  harness,    \* close() of the harness
  loop        \* the coordinator's, and does it still wait for the worker

vars == <<run, published, pres, pump, queue, error, closed, closer, consumer,
          received, harness, loop>>
runVars == <<run, published>>
userVars == <<closed, closer, consumer, received>>

Working == {"live", "settling"}
Terminal == {"completed", "failed"}

Init ==
  /\ run = "none" /\ published = 0
  /\ pres = [queue |-> <<>>, closed |-> FALSE]
  /\ pump = [at |-> "submitted", call |-> "none", cancel |-> FALSE]
  /\ queue = <<>> /\ error = FALSE /\ closed = FALSE
  /\ closer = "no" /\ consumer = "idle" /\ received = <<>>
  /\ harness = "open"
  /\ loop = [at |-> "running", gathers |-> FALSE]

\* A task may take a step: no other is in the middle of one.
LoopIsFree == loop.at # "closed" /\ pump.at \notin {"drain", "end", "spin"}

-----------------------------------------------------------------------------
(***************************************************************************)
(* LiveRunPresentation.                                                    *)
(***************************************************************************)
Detach(p) == IF p.closed THEN p ELSE [queue |-> <<Detached>>, closed |-> TRUE]

Put(p, item) ==
  IF p.closed THEN p
  ELSE IF Len(p.queue) < PresCapacity THEN [p EXCEPT !.queue = Append(@, item)]
  ELSE Detach(p)

Publish(p, event) == Put(p, event)

Finish(p) == [Put(p, Finished) EXCEPT !.closed = TRUE]

-----------------------------------------------------------------------------
(***************************************************************************)
(* The worker: execute_presented_model_request inside _execute_runtime_run.*)
(***************************************************************************)
WorkerPublishes ==
  /\ LoopIsFree /\ run = "live" /\ published < Events
  /\ published' = published + 1
  /\ pres' = Publish(pres, published + 1)
  /\ UNCHANGED <<run, pump, queue, error, userVars, harness, loop>>

\* The stream of the model is over or raised: finish() comes in any case.
WorkerFinishes ==
  /\ LoopIsFree /\ run = "live"
  /\ run' = "settling"
  /\ pres' = Finish(pres)
  /\ UNCHANGED <<published, pump, queue, error, userVars, harness, loop>>

\* Only a stream that was read to its end completes the run.
WorkerSettles ==
  /\ LoopIsFree /\ run = "settling"
  /\ \/ run' = "completed" /\ published = Events
     \/ run' = "failed"
  /\ UNCHANGED <<published, pres, pump, queue, error, userVars, harness, loop>>

-----------------------------------------------------------------------------
(***************************************************************************)
(* SyncLifecycleStream._pump, with start() in the opener.                  *)
(***************************************************************************)
\* The task is created and started; a close() that came before cancels it at
\* its first suspension.  A harness that closes admits no new run.
PumpStarts ==
  /\ LoopIsFree /\ pump.at = "submitted"
  /\ \/ /\ harness = "open"
        /\ pump' = [pump EXCEPT !.at = "create", !.call = "working"]
        /\ UNCHANGED error
     \/ /\ harness # "open"
        /\ pump' = [pump EXCEPT !.at = "end"]
        /\ error' = TRUE
  /\ UNCHANGED <<runVars, pres, queue, userVars, harness, loop>>

\* The store call of _store_off_loop, on a thread: create_run, then the
\* transition to queued.
StoreCall ==
  /\ pump.call = "working"
  /\ \/ /\ run' = IF run = "none" THEN "created" ELSE "queued"
        /\ pump' = [pump EXCEPT !.call = "done"]
     \/ /\ pump' = [pump EXCEPT !.call = "failed"]
        /\ UNCHANGED run
  /\ UNCHANGED <<published, pres, queue, error, userVars, harness, loop>>

\* start() goes on: the next call, or the worker is launched and the
\* presentation bound.
StoreReturns ==
  /\ LoopIsFree /\ pump.at \in {"create", "queue"}
  /\ \/ /\ pump.call = "done" /\ pump.at = "create"
        /\ pump' = [pump EXCEPT !.at = "queue", !.call = "working"]
        /\ UNCHANGED <<run, error>>
     \/ /\ pump.call = "done" /\ pump.at = "queue"
        /\ pump' = [pump EXCEPT !.at = "read", !.call = "none"]
        /\ run' = "live"
        /\ UNCHANGED error
     \/ /\ pump.call = "failed"
        /\ pump' = [pump EXCEPT !.at = "end", !.call = "none"]
        /\ error' = TRUE
        /\ UNCHANGED run
  /\ UNCHANGED <<published, pres, queue, userVars, harness, loop>>

\* An event of the presentation, when there is room or when there is not
Reads(item, then) ==
  /\ LoopIsFree /\ pump.at = "read" /\ pres.queue # <<>>
  /\ item = Head(pres.queue)
  /\ pres' = [pres EXCEPT !.queue = Tail(@)]
  /\ pump' = [pump EXCEPT !.at = then]
  /\ UNCHANGED <<runVars, error, userVars, harness, loop>>

PumpForwards ==
  \E item \in (1..Events) \cup {Detached} :
    /\ Len(queue) < Capacity
    /\ Reads(item, "read")
    /\ queue' = Append(queue, item)

PumpOverflows ==
  \E item \in (1..Events) \cup {Detached} :
    /\ Len(queue) >= Capacity
    /\ Reads(item, "drain")
    /\ UNCHANGED queue

PumpSeesFinished == Reads(Finished, "wait") /\ UNCHANGED queue

\* After a detachment nothing comes any more.
PumpSeesDetached ==
  /\ LoopIsFree /\ pump.at = "read" /\ pres.closed /\ pres.queue = <<>>
  /\ pump' = [pump EXCEPT !.at = "wait"]
  /\ UNCHANGED <<runVars, pres, queue, error, userVars, harness, loop>>

PumpDrains ==
  /\ pump.at = "drain" /\ queue # <<>>
  /\ queue' = Tail(queue)
  /\ UNCHANGED <<runVars, pres, pump, error, userVars, harness, loop>>

\* The notice; leaving the loop closes the source, which detaches its
\* presentation.
NoticeMutant == <<>>
Notice == <<Detached>>

PumpGivesUp ==
  /\ pump.at = "drain" /\ queue = <<>>
  /\ queue' = Notice
  /\ pres' = Detach(pres)
  /\ pump' = [pump EXCEPT !.at = "end"]
  /\ UNCHANGED <<runVars, error, userVars, harness, loop>>

\* _lifecycle_raw_events ends with run.wait(), which raises for a failed run.
PumpWaits ==
  /\ LoopIsFree /\ pump.at = "wait" /\ run \in Terminal
  /\ error' = (run = "failed")
  /\ pump' = [pump EXCEPT !.at = "end"]
  /\ UNCHANGED <<runVars, pres, queue, userVars, harness, loop>>

\* A cancellation is delivered at a suspension and swallowed; that of a store
\* call keeps it for the next one.
DeliveredAtMutant == {"create", "queue", "read", "wait"}
DeliveredAt == {"read", "wait"}

PumpCancelled ==
  /\ LoopIsFree /\ pump.cancel /\ pump.at \in DeliveredAt
  /\ pump' = [pump EXCEPT !.at = "end"]
  /\ pres' = IF pump.at = "read" THEN Detach(pres) ELSE pres
  /\ UNCHANGED <<runVars, queue, error, userVars, harness, loop>>

\* The marker has a slot of its own; put_nowait raises where there is none.
QueueSizeMutant == Capacity
QueueSize == Capacity + 1

PumpEnds ==
  /\ pump.at = "end"
  /\ queue' = IF Len(queue) < QueueSize THEN Append(queue, End) ELSE queue
  /\ pump' = [pump EXCEPT !.at = "over", !.cancel = FALSE]
  /\ UNCHANGED <<runVars, pres, error, userVars, harness, loop>>

-----------------------------------------------------------------------------
(***************************************************************************)
(* The consumer and close().                                               *)
(***************************************************************************)
\* __next__: the check, under the lock, then the blocking get
NextCalled ==
  /\ consumer = "idle"
  /\ consumer' = IF closed THEN "refused" ELSE "blocked"
  /\ UNCHANGED <<runVars, pres, pump, queue, error, closed, closer, received, harness, loop>>

NextReturns ==
  /\ consumer = "blocked" /\ queue # <<>>
  /\ queue' = Tail(queue)
  /\ IF Head(queue) = End
       THEN /\ closed' = TRUE
            /\ consumer' = IF error THEN "raised" ELSE "exhausted"
            /\ UNCHANGED received
       ELSE /\ consumer' = "idle"
            /\ received' = Append(received, Head(queue))
            /\ UNCHANGED closed
  /\ UNCHANGED <<runVars, pres, pump, error, closer, harness, loop>>

CloseCalled ==
  /\ closer = "no" /\ ~closed
  /\ closed' = TRUE /\ closer' = "closing"
  /\ UNCHANGED <<runVars, pres, pump, queue, error, consumer, received, harness, loop>>

\* future.cancel(), outside the lock
CloseCancels ==
  /\ closer = "closing"
  /\ closer' = "closed"
  /\ pump' = [pump EXCEPT !.cancel = pump.at \notin {"over", "lost"}]
  /\ UNCHANGED <<runVars, pres, queue, error, closed, consumer, received, harness, loop>>

-----------------------------------------------------------------------------
(***************************************************************************)
(* close() of the harness, on the loop, and stop() of the coordinator.     *)
(***************************************************************************)
\* It waits for the runs that are live now; a start() under way is none yet.
HarnessCloses ==
  /\ LoopIsFree /\ harness = "open" /\ loop.at = "running"
  /\ harness' = IF run \in Working THEN "draining" ELSE "released"
  /\ UNCHANGED <<runVars, pres, pump, queue, error, userVars, loop>>

HarnessDrained ==
  /\ LoopIsFree /\ harness = "draining" /\ run \in Terminal
  /\ harness' = "released"
  /\ UNCHANGED <<runVars, pres, pump, queue, error, userVars, loop>>

\* The thread leaves run_forever and cancels every task, also the one that
\* carries a store call: the loop of drain_thread_call then never suspends
\* again.  A pump that has not started never will.
CoordinatorStops ==
  /\ LoopIsFree /\ harness = "released" /\ loop.at = "running"
  /\ loop' = [at |-> "stopping", gathers |-> run \in Working]
  /\ pump' = CASE pump.at = "submitted" -> [pump EXCEPT !.at = "lost"]
               [] pump.call = "working" -> [pump EXCEPT !.at = "spin"]
               [] OTHER -> [pump EXCEPT !.cancel = pump.at # "over"]
  /\ UNCHANGED <<runVars, pres, queue, error, userVars, harness>>

LoopCloses ==
  /\ LoopIsFree /\ loop.at = "stopping"
  /\ pump.at \in {"over", "lost"}
  /\ loop.gathers => run \in Terminal
  /\ loop' = [loop EXCEPT !.at = "closed"]
  /\ UNCHANGED <<runVars, pres, pump, queue, error, userVars, harness>>

-----------------------------------------------------------------------------
Worker == WorkerPublishes \/ WorkerFinishes \/ WorkerSettles
PumpRuns == PumpStarts \/ StoreReturns \/ PumpForwards \/ PumpOverflows \/ PumpSeesFinished
            \/ PumpSeesDetached \/ PumpDrains \/ PumpGivesUp \/ PumpWaits \/ PumpEnds
Next ==
  \/ Worker \/ PumpRuns \/ PumpCancelled \/ StoreCall
  \/ NextCalled \/ NextReturns \/ CloseCalled \/ CloseCancels
  \/ HarnessCloses \/ HarnessDrained \/ CoordinatorStops \/ LoopCloses

\* The loop serves each of its tasks, the threads of the store and of close()
\* go on, and get() returns what is there.  Nobody has to consume or to close.
Fairness ==
  /\ WF_vars(Worker) /\ WF_vars(PumpRuns) /\ WF_vars(PumpCancelled)
  /\ WF_vars(StoreCall) /\ WF_vars(NextReturns) /\ WF_vars(CloseCancels)
  /\ WF_vars(LoopCloses)

Spec == Init /\ [][Next]_vars /\ Fairness

-----------------------------------------------------------------------------
(***************************************************************************)
(* Properties.                                                             *)
(***************************************************************************)
InOrder(s) ==
  \A i, j \in DOMAIN s : i < j /\ {s[i], s[j]} \subseteq 1..Events => s[i] < s[j]

\* The iterator of a consumer who neither closed it nor the harness ends
\* without an error only after every event, in order, of a run that
\* completed, or after a notice that the display was detached, which is the
\* last thing it yields; also where the queue is emptied under its hands.
CleanEndIsTruth ==
  /\ InOrder(received)
  /\ consumer = "exhausted" /\ closer = "no" /\ loop.at = "running" =>
       \/ run = "completed" /\ received = [i \in 1..Events |-> i]
       \/ received # <<>> /\ received[Len(received)] = Detached

\* While the loop runs, a consumer in __next__ returns: the marker comes
\* however the pump ends, into a full queue and when another thread closes.
ConsumerReturns ==
  (consumer = "blocked") ~> (consumer # "blocked" \/ loop.at # "running")

\* Closing or ignoring the display is no cancellation: a run that was
\* recorded is launched and settles, unless its own start failed or the loop
\* was stopped, also when close() comes in the middle of start().
RunGoesOn == (run = "created") ~> (run \in Terminal \/ error \/ loop.at # "running")

\* docs/operations-and-recovery.md says that close() and aclose() drain the
\* loop before they release owned resources; stop() says it joins the
\* coordinator after harness shutdown completes.
StopCompletes == (loop.at = "stopping") ~> (loop.at = "closed")
=============================================================================
