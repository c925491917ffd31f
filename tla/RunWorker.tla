------------------------------ MODULE RunWorker ------------------------------
(***************************************************************************)
(* One run and the harness processes that work on it: the background task  *)
(* that executes it under a lease, the lease heartbeat, cancellation from  *)
(* any harness, crashes, recovery of a stranded run and reconciliation of  *)
(* its model operation.                                                    *)
(*                                                                         *)
(* Every store call is one transaction.  A method that reads the run and   *)
(* then writes against the revision it read is one action: the store       *)
(* refuses the write when the revision moved, and the caller, or the       *)
(* exception handler around it, reads again.                               *)
(*                                                                         *)
(* Definitions named ...Mutant are faulty variants of the definition that  *)
(* follows them.  No other definition refers to them; they show that the   *)
(* properties notice the fault.                                            *)
(***************************************************************************)
EXTENDS RunLifecycle, FiniteSets

CONSTANTS
  Workers,     \* worker ids: one per harness; a restarted process is another
  First,       \* the harness that started the run
  Team,        \* the harness processes of each world to explore, see world
  MaxStalls,   \* bound on the leases that live workers let expire
  MaxFence     \* bound: no recovery or reconciliation at this op fence or above

Worlds == DOMAIN Team
ASSUME WorldsKnown == Worlds \subseteq {"orderly", "crowded", "stalling"}
ASSUME FirstIsWorker == \A deployment \in Worlds : First \in Team[deployment] /\ Team[deployment] \subseteq Workers
ASSUME BoundsAreNat == MaxStalls \in Nat /\ MaxFence \in Nat

VARIABLES
  world,       \* orderly: one harness at a time works on the run;
               \* crowded: several start or recover it; stalling: a live
               \* worker may also be too slow to renew its lease
  loop,        \* how the model operation is run: legacy (one non_repeatable
               \* operation) or durable (a read_only one around provider operations)
  run,         \* state of the run
  cancelTid,   \* who decided the transition id "<run>:cancel-request"
  progress,    \* steering open, closed, or request checkpoint persisted
  op,          \* state and dispatch fence of "<run>:model:1"
  nested,      \* the task with an unsettled provider operation of its durable loop
  lease,       \* the run lease: its claim and status
  alive,       \* harness processes that have not crashed
  pc,          \* where the task of each harness is
  fence,       \* the dispatch fence the task works with
  lost,        \* the heartbeat reported a lost lease to the task
  ctl,         \* a cancel() call waits for its local task
  stalls,      \* leases of live workers that expired
  rec,         \* where a recover_run() call of each harness is
  dispatches   \* legacy model requests handed to the provider, at most 2 counted

vars == <<world, loop, run, cancelTid, progress, op, nested, lease, alive,
          pc, fence, lost, ctl, stalls, rec, dispatches>>

-----------------------------------------------------------------------------

WFR == "waiting_for_reconciliation"
Terminal == run \in TerminalRunStates
Parked == run = WFR

Task(w)     == [kind |-> "task", worker |-> w]
Recovery(w) == [kind |-> "recovery", worker |-> w]
NoClaim     == [kind |-> None, worker |-> None]

Holds(claim) == lease.claim = claim /\ lease.status = "held"

\* A task reads PAUSED, CANCELLING and so on in these places only; elsewhere
\* it is inside its try block and any await may raise CancelledError.
InLane == {"leased", "started", "closed", "checkpointed", "planned", "calling", "finishing"}
Handling == {"cancelled", "failing", "releasing", "escaping", "outside", "aborted"}

Init ==
  /\ world \in Worlds
  /\ loop = None
  /\ run = "queued" /\ cancelTid = None /\ progress = "open"
  /\ op = [state |-> "absent", fence |-> 0]
  /\ nested = None
  /\ lease = [claim |-> NoClaim, status |-> "free"]
  /\ alive = Team[world]
  /\ pc = [w \in Workers |-> IF w = First THEN "acquiring" ELSE "none"]
  /\ fence = [w \in Workers |-> 0]
  /\ lost = [w \in Workers |-> FALSE]
  /\ ctl = [w \in Workers |-> FALSE]
  /\ stalls = 0
  /\ rec = [w \in Workers |-> "none"]
  /\ dispatches = 0

Goto(w, label) == pc' = [pc EXCEPT ![w] = label]

runVars  == <<run, cancelTid>>
opVars   == <<op, nested, dispatches>>
taskVars == <<fence, lost>>
fixed    == <<world, loop, stalls>>

-----------------------------------------------------------------------------
(***************************************************************************)
(* Settlements.  Each is enabled when the store accepts it.                *)
(***************************************************************************)
\* model_operation_has_unknown_effects.
InDoubt ==
  \/ op.state = "unknown"
  \/ op.state = "dispatching" /\ loop = "legacy"
  \/ nested # None

\* wait_for_model_operation_reconciliation.
ParkRefused == ~Terminal /\ ~Parked /\ ~AllowedFrom("wait_for_reconciliation", run)
Park ==
  /\ ~ParkRefused
  /\ run' = IF Terminal THEN run ELSE WFR
  /\ UNCHANGED cancelTid

\* _settle_runtime_failed.
FailRun ==
  /\ run' = IF Terminal THEN run ELSE "failed"
  /\ UNCHANGED cancelTid

\* _settle_runtime_cancel.  The fixed id "<run>:cancel-request" can be decided
\* once: the second request answers with an old revision or conflicts.
CancelRun ==
  \/ (Terminal \/ Parked) /\ UNCHANGED runVars
  \/ run = "cancelling" /\ run' = "cancelled" /\ UNCHANGED cancelTid
  \/ AllowedFrom("request_cancel", run) /\ ~Parked /\ run # "cancelling"
     /\ cancelTid = None /\ cancelTid' = "worker" /\ run' = "cancelled"

CancelRefused ==
  /\ ~Terminal /\ ~Parked /\ run # "cancelling" /\ cancelTid # None
  /\ UNCHANGED runVars

\* It requests and confirms in two transactions: the second one may fail, or
\* find that another harness moved the run.
CancelHalfway ==
  /\ AllowedFrom("request_cancel", run) /\ ~Parked /\ run # "cancelling"
  /\ cancelTid = None /\ cancelTid' = "worker" /\ run' = "cancelling"

\* settle_operation by a task: only under the fence it dispatched with.
OwnsDispatch(w) == op.state = "dispatching" /\ op.fence = fence[w]
SettleOp(w, state) == op' = IF OwnsDispatch(w) THEN [op EXCEPT !.state = state] ELSE op

-----------------------------------------------------------------------------
(***************************************************************************)
(* The task: lease, start, model operation, completion.                    *)
(***************************************************************************)
\* start() repeated with its idempotency key on another harness.
StartAgain(w) ==
  /\ world # "orderly" /\ w \in alive /\ run = "queued" /\ pc[w] = "none"
  /\ Goto(w, "acquiring")
  /\ UNCHANGED <<fixed, runVars, progress, opVars, lease, alive, taskVars, ctl, rec>>

\* acquire_run_lease with a fresh claim id; retried while the lease is held.
Acquire(w) ==
  /\ pc[w] = "acquiring"
  /\ \/ Terminal /\ Goto(w, "none") /\ UNCHANGED lease
     \/ ~Terminal /\ lease.status # "held"
        /\ Goto(w, "leased") /\ lease' = [claim |-> Task(w), status |-> "held"]
  /\ UNCHANGED <<fixed, runVars, progress, opVars, alive, taskVars, ctl, rec>>

\* A paused run waits for resume; one that is cancelling is settled at once.
Start(w) ==
  /\ pc[w] = "leased" /\ run # "paused"
  /\ \/ run \in {"queued", "running"} /\ Goto(w, "started")
        /\ run' = "running" /\ UNCHANGED cancelTid
     \/ run = "cancelling" /\ CancelRun /\ Goto(w, "releasing")
     \/ run \notin {"queued", "running", "cancelling"} /\ Goto(w, "failing") /\ UNCHANGED runVars
  /\ UNCHANGED <<fixed, progress, opVars, lease, alive, taskVars, ctl, rec>>

\* CLOSE_STEERING under a fixed id: once decided it is answered from the
\* decision table, whatever state the run is in by now.
CloseSteering(w) ==
  /\ pc[w] = "started"
  /\ \/ (progress # "open" \/ run = "running") /\ Goto(w, "closed")
        /\ progress' = IF progress = "open" THEN "closed" ELSE progress
     \/ progress = "open" /\ run # "running" /\ UNCHANGED progress
        /\ Goto(w, IF run = "cancelling" THEN "cancelled" ELSE "failing")
  /\ UNCHANGED <<fixed, runVars, opVars, lease, alive, taskVars, ctl, rec>>

PersistCheckpoint(w) ==
  /\ pc[w] = "closed"
  /\ Goto(w, "checkpointed")
  /\ progress' = "checkpointed"
  /\ UNCHANGED <<fixed, runVars, opVars, lease, alive, taskVars, ctl, rec>>

\* OperationGateway.execute: prepare.  An operation that succeeded before is
\* answered with its value; any other that is past planning raises, and so does
\* one that was prepared for the other kind of loop.
Prepare(w) ==
  /\ pc[w] = "checkpointed"
  /\ \/ op.state = "absent" /\ ~Terminal /\ loop' \in {"legacy", "durable"}
        /\ op' = [op EXCEPT !.state = "planned"] /\ Goto(w, "planned")
     \/ op.state = "planned" /\ Goto(w, "planned") /\ UNCHANGED <<loop, op>>
     \/ op.state = "succeeded" /\ Goto(w, "finishing") /\ UNCHANGED <<loop, op>>
     \/ (op.state # "absent" \/ Terminal)
        /\ Goto(w, "failing") /\ UNCHANGED <<loop, op>>
  /\ fence' = [fence EXCEPT ![w] = op.fence]
  /\ UNCHANGED <<world, stalls, runVars, progress, nested, lease, alive, lost, ctl, rec, dispatches>>

\* Begin under the fence after the one that was read, and dispatch.
CanBegin(w) == op.state = "planned" /\ op.fence = fence[w]

Begin(w) ==
  /\ pc[w] = "planned"
  /\ IF CanBegin(w)
       THEN /\ op' = [state |-> "dispatching", fence |-> op.fence + 1]
            /\ fence' = [fence EXCEPT ![w] = @ + 1]
            /\ dispatches' = IF loop = "legacy" /\ dispatches < 2 THEN dispatches + 1 ELSE dispatches
            /\ Goto(w, "calling")
       ELSE Goto(w, "failing") /\ UNCHANGED <<op, fence, dispatches>>
  /\ UNCHANGED <<fixed, runVars, progress, nested, lease, alive, lost, ctl, rec>>

\* A provider operation inside the durable loop starts or settles.  One that
\* was prepared before the run settled may still begin after it.
ProviderCall(w) ==
  /\ pc[w] = "calling" /\ loop = "durable"
  /\ \/ nested = None /\ nested' = w
     \/ nested = w /\ nested' = None
  /\ UNCHANGED <<fixed, runVars, progress, op, lease, alive, pc, taskVars, ctl, rec, dispatches>>

\* The model loop returned.  A durable loop that leaves a provider operation
\* in doubt is deferred: its own operation stays dispatching.
Return(w) ==
  /\ pc[w] = "calling"
  /\ \/ nested = None /\ SettleOp(w, "succeeded")
        /\ Goto(w, IF OwnsDispatch(w) THEN "finishing" ELSE "failing")
     \/ nested # None /\ Goto(w, "failing") /\ UNCHANGED op
  /\ UNCHANGED <<fixed, runVars, progress, nested, lease, alive, taskVars, ctl, rec, dispatches>>

\* It raised: a legacy request may have taken effect.
Raise(w) ==
  /\ pc[w] = "calling"
  /\ SettleOp(w, IF loop = "legacy" THEN "unknown" ELSE "failed")
  /\ Goto(w, "failing")
  /\ UNCHANGED <<fixed, runVars, progress, nested, lease, alive, taskVars, ctl, rec, dispatches>>

\* Complete the run, unless it is being cancelled.
Finish(w) ==
  /\ pc[w] = "finishing"
  /\ \/ run = "running" /\ run' = "completed" /\ Goto(w, "releasing") /\ UNCHANGED cancelTid
     \/ run = "cancelling" /\ CancelRun /\ Goto(w, "releasing")
     \/ run \notin {"running", "cancelling"} /\ Goto(w, "failing") /\ UNCHANGED runVars
  /\ UNCHANGED <<fixed, progress, opVars, lease, alive, taskVars, ctl, rec>>

-----------------------------------------------------------------------------
(***************************************************************************)
(* How a task ends: the except clauses of the lane and, when they raise or *)
(* the lease was never claimed, those around it.                           *)
(***************************************************************************)
AfterHandler(w) == IF pc[w] = "aborted" THEN "none" ELSE "releasing"
AfterRefusal(w) == IF pc[w] \in {"aborted", "outside"} THEN "none" ELSE "escaping"

\* _settle_runtime_cancel_or_unknown.
HandleCancelMutant(w) ==
  /\ pc[w] \in {"cancelled", "aborted"}
  /\ \/ (IF lost[w] THEN FailRun ELSE CancelRun) /\ Goto(w, AfterHandler(w))
     \/ ~lost[w] /\ (CancelRefused \/ CancelHalfway) /\ Goto(w, AfterRefusal(w))
  /\ lost' = [lost EXCEPT ![w] = FALSE]
  /\ UNCHANGED <<fixed, progress, opVars, lease, alive, fence, ctl, rec>>
HandleCancel(w) ==
  /\ pc[w] \in {"cancelled", "aborted"}
  /\ \/ /\ \/ InDoubt /\ Park
           \/ ~InDoubt /\ lost[w] /\ FailRun
           \/ ~InDoubt /\ ~lost[w] /\ CancelRun
        /\ Goto(w, AfterHandler(w))
     \/ /\ \/ InDoubt /\ ParkRefused /\ UNCHANGED runVars
           \/ ~InDoubt /\ ~lost[w] /\ (CancelRefused \/ CancelHalfway)
        /\ Goto(w, AfterRefusal(w))
  /\ lost' = [lost EXCEPT ![w] = FALSE]
  /\ UNCHANGED <<fixed, progress, opVars, lease, alive, fence, ctl, rec>>

\* Any other exception.
HandleFailure(w) ==
  /\ pc[w] \in {"failing", "outside"}
  /\ \/ /\ IF InDoubt THEN Park ELSE FailRun
        /\ Goto(w, IF pc[w] = "outside" THEN "none" ELSE "releasing")
     \/ InDoubt /\ ParkRefused /\ UNCHANGED runVars /\ Goto(w, AfterRefusal(w))
  /\ UNCHANGED <<fixed, progress, opVars, lease, alive, taskVars, ctl, rec>>

\* release_run_lease; a claim that is no longer current is left alone.
Released(claim) ==
  lease' = IF Holds(claim) THEN [lease EXCEPT !.status = "released"] ELSE lease

\* A cancellation that cancel() delivers meanwhile is raised when it is done.
Release(w) ==
  /\ pc[w] \in {"releasing", "escaping"}
  /\ Released(Task(w))
  /\ \/ Goto(w, IF pc[w] = "escaping" THEN "outside" ELSE "none")
     \/ ctl[w] /\ Goto(w, "aborted")
  /\ lost' = [lost EXCEPT ![w] = FALSE]
  /\ UNCHANGED <<fixed, runVars, progress, opVars, alive, fence, ctl, rec>>

-----------------------------------------------------------------------------
(***************************************************************************)
(* Interruption: task.cancel() by the heartbeat or by cancel().            *)
(***************************************************************************)
\* Around the ledger's commits the gateway settles what it knows: a claimed
\* but undispatched operation as cancelled, a legacy request on its way as
\* unknown.  A settlement that is refused raises in place of the cancellation.
Interrupt(w) ==
  \/ pc[w] = "acquiring" /\ Goto(w, "aborted") /\ UNCHANGED opVars
  \/ pc[w] \in InLane \ {"planned", "calling"} /\ Goto(w, "cancelled") /\ UNCHANGED opVars
  \/ pc[w] = "planned" /\ UNCHANGED <<nested, dispatches>>
     /\ IF CanBegin(w)
          THEN op' = [op EXCEPT !.state = "cancelled"] /\ Goto(w, "cancelled")
          ELSE Goto(w, "failing") /\ UNCHANGED op
  \/ pc[w] = "calling" /\ UNCHANGED <<nested, dispatches>>
     /\ IF loop = "legacy"
          THEN SettleOp(w, "unknown") /\ Goto(w, IF OwnsDispatch(w) THEN "cancelled" ELSE "failing")
          ELSE Goto(w, "cancelled") /\ UNCHANGED op

\* The lease could not be renewed, or renewing it or reading the run raised.
HeartbeatLost(w) ==
  /\ pc[w] \in InLane
  /\ Interrupt(w)
  /\ lost' = [lost EXCEPT ![w] = TRUE]
  /\ UNCHANGED <<fixed, runVars, progress, lease, alive, fence, ctl, rec>>

\* It was renewed and the run was found cancelling.
HeartbeatCancelMutant(w) ==
  /\ pc[w] \in InLane \ {"calling"} /\ Holds(Task(w)) /\ run = "cancelling"
  /\ Interrupt(w)
  /\ UNCHANGED <<fixed, runVars, progress, lease, alive, taskVars, ctl, rec>>
HeartbeatCancel(w) ==
  /\ pc[w] \in InLane /\ Holds(Task(w)) /\ run = "cancelling"
  /\ Interrupt(w)
  /\ UNCHANGED <<fixed, runVars, progress, lease, alive, taskVars, ctl, rec>>

\* cancel() on any harness that has a handle of the run.  It interrupts the
\* task of this harness, if there is one, and waits for it to end.
Cancel(w) ==
  /\ w \in alive /\ ~ctl[w] /\ ~Terminal /\ ~Parked
  /\ \/ run = "cancelling" /\ UNCHANGED runVars
     \/ run # "cancelling" /\ cancelTid = None /\ cancelTid' = "user" /\ run' = "cancelling"
     \/ run # "cancelling" /\ cancelTid = "user" /\ UNCHANGED runVars
  /\ \/ pc[w] = "none" /\ UNCHANGED <<pc, opVars, ctl>>
     \/ pc[w] \in Handling /\ ctl' = [ctl EXCEPT ![w] = TRUE] /\ UNCHANGED <<pc, opVars>>
     \/ Interrupt(w) /\ ctl' = [ctl EXCEPT ![w] = TRUE]
  /\ UNCHANGED <<fixed, progress, lease, alive, taskVars, rec>>

\* The task ended.  What it left cancelling is confirmed by the caller.
CancelReturns(w) ==
  /\ ctl[w] /\ pc[w] = "none"
  /\ IF run = "cancelling" THEN CancelRun ELSE UNCHANGED runVars
  /\ ctl' = [ctl EXCEPT ![w] = FALSE]
  /\ UNCHANGED <<fixed, progress, opVars, lease, alive, pc, taskVars, rec>>

\* pause and resume are taken by the harness whose task waits to start.
Pause(w) ==
  /\ pc[w] \in {"acquiring", "leased"} /\ run = "queued" /\ ~ctl[w]
  /\ run' = "paused"
  /\ UNCHANGED <<fixed, cancelTid, progress, opVars, lease, alive, pc, taskVars, ctl, rec>>
Resume(w) ==
  /\ pc[w] # "none" /\ run = "paused" /\ ~ctl[w]
  /\ run' = "running"
  /\ UNCHANGED <<fixed, cancelTid, progress, opVars, lease, alive, pc, taskVars, ctl, rec>>

-----------------------------------------------------------------------------
(***************************************************************************)
(* Crashes, leases that expire, recovery and reconciliation.               *)
(***************************************************************************)
Crash(w) ==
  /\ w \in alive /\ alive # {w}
  /\ alive' = alive \ {w}
  /\ Goto(w, "none")
  /\ fence' = [fence EXCEPT ![w] = 0]
  /\ lost' = [lost EXCEPT ![w] = FALSE]
  /\ ctl' = [ctl EXCEPT ![w] = FALSE]
  /\ rec' = [rec EXCEPT ![w] = "none"]
  /\ \/ UNCHANGED runVars
     \/ CancelHalfway
        /\ ((pc[w] \in {"cancelled", "aborted"} /\ ~InDoubt /\ ~lost[w]) \/ rec[w] = "cancel")
  /\ UNCHANGED <<fixed, progress, opVars, lease>>

\* A live holder renews in time, unless its process stalls.
LeaseExpires ==
  /\ lease.status = "held"
  /\ \/ lease.claim.worker \notin alive /\ UNCHANGED stalls
     \/ lease.claim.worker \in alive /\ world = "stalling"
        /\ stalls < MaxStalls /\ stalls' = stalls + 1
  /\ lease' = [lease EXCEPT !.status = "expired"]
  /\ UNCHANGED <<world, loop, runVars, progress, opVars, alive, pc, taskVars, ctl, rec>>

\* recover_run: settled, paused and waiting runs are left alone.  The claim id
\* is the same in every call on this harness, and the store refuses a claim id
\* that it has seen released or expired.
Recover(w) ==
  /\ w \in alive /\ rec[w] = "none"
  /\ world = "orderly" => \A x \in Workers : pc[x] = "none" /\ rec[x] = "none"
  /\ ~Terminal /\ run # "paused"
  /\ lease.status # "held" /\ lease.claim # Recovery(w)
  /\ lease' = [claim |-> Recovery(w), status |-> "held"]
  /\ rec' = [rec EXCEPT ![w] = "inspecting"]
  /\ UNCHANGED <<fixed, runVars, progress, opVars, alive, pc, taskVars, ctl>>

\* What to do with the run, from what the ledger says of its operation.  A
\* dispatching durable loop is put back to planned under the next fence.
ReclaimableMutant == op.state = "dispatching"
Reclaimable == ~InDoubt /\ op.state = "dispatching" /\ loop = "durable"

PlanMutant ==
  IF Reclaimable THEN "restart"
  ELSE CASE op.state = "dispatching"           -> "park"
         [] op.state \in {"absent", "planned"} -> "restart"
         [] op.state = "cancelled"             -> "cancel"
         [] op.state \in {"failed", "unknown"} -> "fail"
         [] op.state = "succeeded"             -> "complete"
Plan ==
  IF Reclaimable THEN "restart"
  ELSE IF InDoubt THEN "park"
  ELSE CASE op.state \in {"absent", "planned"} -> "restart"
         [] op.state = "cancelled"             -> "cancel"
         [] op.state = "failed"                -> "fail"
         [] op.state = "succeeded"             -> "complete"

Inspect(w) ==
  /\ rec[w] = "inspecting"
  /\ \/ (Terminal \/ run = "paused") /\ UNCHANGED op
        /\ rec' = [rec EXCEPT ![w] = "releasing"]
     \/ ~Terminal /\ run # "paused" /\ (Reclaimable => op.fence < MaxFence)
        /\ rec' = [rec EXCEPT ![w] = Plan]
        /\ op' = IF Reclaimable THEN [state |-> "planned", fence |-> op.fence + 1] ELSE op
     \* putting it back to planned raised
     \/ ~Terminal /\ run # "paused" /\ Reclaimable /\ UNCHANGED op
        /\ rec' = [rec EXCEPT ![w] = "fail"]
  /\ UNCHANGED <<fixed, runVars, progress, nested, lease, alive, pc, taskVars, ctl, dispatches>>

\* The settlement that was planned.  When the store refuses it, recover_run
\* raises; the lease is released either way.
Resettle(w) ==
  /\ \/ rec[w] = "park" /\ (Park \/ (ParkRefused /\ UNCHANGED runVars))
     \/ rec[w] = "cancel" /\ (CancelRun \/ CancelRefused \/ CancelHalfway)
     \/ rec[w] = "fail" /\ FailRun
     \* the result artifact is missing or cannot be read
     \/ rec[w] = "complete" /\ FailRun
     \/ rec[w] = "complete" /\ run # WFR
        /\ IF run = "running" THEN run' = "completed" /\ UNCHANGED cancelTid ELSE UNCHANGED runVars
     \/ rec[w] = "restart" /\ run = "cancelling" /\ CancelRun
     \* there is no checkpoint, it cannot be read, or it is not of this request
     \/ rec[w] = "restart" /\ run # "cancelling" /\ FailRun
  /\ rec' = [rec EXCEPT ![w] = "releasing"]
  /\ UNCHANGED <<fixed, progress, opVars, lease, alive, pc, taskVars, ctl>>

\* A run that waited for reconciliation resumes before it completes, under a
\* fixed id.  Where that was decided before, the answer carries the revision
\* of then, and recover_run raises when it completes the run against it.
ResumeReconciled(w) ==
  /\ rec[w] = "complete" /\ Parked
  /\ \/ run' = "running" /\ UNCHANGED <<cancelTid, rec>>
     \/ rec' = [rec EXCEPT ![w] = "releasing"] /\ UNCHANGED runVars
  /\ UNCHANGED <<fixed, progress, opVars, lease, alive, pc, taskVars, ctl>>

\* From its checkpoint the run is restarted, once the recovery claim is released.
Restart(w) ==
  /\ rec[w] = "restart" /\ run # "cancelling" /\ progress = "checkpointed"
  /\ rec' = [rec EXCEPT ![w] = "relaunching"]
  /\ UNCHANGED <<fixed, runVars, progress, opVars, lease, alive, pc, taskVars, ctl>>

RecoverReturns(w) ==
  /\ rec[w] \in {"releasing", "relaunching"}
  /\ Released(Recovery(w))
  /\ rec' = [rec EXCEPT ![w] = "none"]
  /\ IF rec[w] = "relaunching" /\ pc[w] = "none" THEN Goto(w, "acquiring") ELSE UNCHANGED pc
  /\ UNCHANGED <<fixed, runVars, progress, opVars, alive, taskVars, ctl>>

\* Evidence settles an operation in doubt while the run is parked, and fences
\* off whoever dispatched it.  The recovery that follows is Recover again.
Reconcile ==
  /\ Parked
  /\ \/ /\ op.state = "unknown" \/ (op.state = "dispatching" /\ loop = "legacy")
        /\ op.fence < MaxFence
        /\ \E verdict \in {"succeeded", "failed"} :
             op' = [state |-> verdict, fence |-> op.fence + 1]
        /\ UNCHANGED nested
     \/ nested # None /\ nested' = None /\ UNCHANGED op
  /\ UNCHANGED <<fixed, runVars, progress, dispatches, lease, alive, pc, taskVars, ctl, rec>>

Next ==
  \/ \E w \in Workers :
       \/ StartAgain(w) \/ Acquire(w) \/ Start(w) \/ CloseSteering(w) \/ PersistCheckpoint(w)
       \/ Prepare(w) \/ Begin(w) \/ ProviderCall(w) \/ Return(w) \/ Raise(w) \/ Finish(w)
       \/ HandleCancel(w) \/ HandleFailure(w) \/ Release(w)
       \/ HeartbeatLost(w) \/ HeartbeatCancel(w)
       \/ Cancel(w) \/ CancelReturns(w) \/ Pause(w) \/ Resume(w)
       \/ Crash(w) \/ Recover(w) \/ Inspect(w) \/ Resettle(w) \/ ResumeReconciled(w)
       \/ Restart(w) \/ RecoverReturns(w)
  \/ LeaseExpires \/ Reconcile

Spec == Init /\ [][Next]_vars

\* The event loop of a live harness keeps running its task, its heartbeat and
\* the calls under way.  Nothing forces a call, a crash or a recovery to begin.
TaskStep(w) ==
  \/ Acquire(w) \/ Start(w) \/ CloseSteering(w) \/ PersistCheckpoint(w) \/ Prepare(w)
  \/ Begin(w) \/ Finish(w) \/ HandleCancel(w) \/ HandleFailure(w) \/ Release(w)
RecoveryStep(w) ==
  Inspect(w) \/ Resettle(w) \/ ResumeReconciled(w) \/ Restart(w) \/ RecoverReturns(w)
Fairness ==
  \A w \in Workers :
    /\ WF_vars(TaskStep(w)) /\ WF_vars(RecoveryStep(w)) /\ WF_vars(CancelReturns(w))
    /\ WF_vars(HeartbeatCancel(w)) /\ WF_vars(~Holds(Task(w)) /\ HeartbeatLost(w))
FairSpec == Spec /\ Fairness

-----------------------------------------------------------------------------
(***************************************************************************)
(* Invariants.                                                             *)
(***************************************************************************)
\* However often the run is interrupted, recovered, restarted, cancelled and
\* reconciled, and whoever holds the lease meanwhile, its legacy model
\* request is handed to the provider at most once.
DispatchedOnce == dispatches <= 1

\* What the run ended as is known to be true.  A completed run completed over
\* an operation that is known to have succeeded and, unless a stalled worker
\* still acts, leaves no provider operation in doubt.  And while one harness at
\* a time works on the run, no run is settled over an effect in doubt:
\* cancellation, failure, crash and recovery all park it first.
OutcomesAreKnown ==
  /\ run = "completed" => op.state = "succeeded" /\ (world # "stalling" => nested = None)
  /\ world = "orderly" /\ Terminal => ~InDoubt

(***************************************************************************)
(* Action properties.                                                      *)
(***************************************************************************)
\* A run parked on an unknown effect stays parked until evidence settled it,
\* unless a stalled recovery still acts on what it read.
ParkedUntilEvidence ==
  [][world # "stalling" /\ Parked /\ ~Parked' => ~InDoubt]_vars

(***************************************************************************)
(* Liveness.                                                               *)
(***************************************************************************)
\* Cancellation from any harness reaches the task that works on the run and
\* settles the run, as long as no process dies, no live lease runs out and no
\* recovery steps in.
Disturbed == alive # Team[world] \/ stalls > 0 \/ \E w \in Workers : rec[w] # "none"
CancelSettles ==
  run = "cancelling" /\ (\E w \in Workers : pc[w] # "none") ~> run # "cancelling" \/ Disturbed
=============================================================================
