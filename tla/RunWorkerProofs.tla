--------------------------- MODULE RunWorkerProofs ---------------------------
(***************************************************************************)
(* Proofs about one run and the harnesses that work on it, for any number  *)
(* of harnesses, any deployments of the three worlds and any bounds.       *)
(*                                                                         *)
(* The invariant is layered.  LoopInv says how the operation of the run    *)
(* and the kind of its loop go together; KnownInv what is known wherever   *)
(* a run may be completed; EndInv how a task leaves the run.  LeaseInv,    *)
(* for the worlds in which no live worker loses its lease, says that who   *)
(* works on the run holds it, and EffectInv what follows for provider      *)
(* operations and recoveries; OrderlyInv is about one harness at a time.   *)
(***************************************************************************)
EXTENDS RunWorker, TLAPS

-----------------------------------------------------------------------------
(***************************************************************************)
(* Types.                                                                  *)
(***************************************************************************)
Label    == {"none", "acquiring"} \cup InLane \cup Handling
Plans    == {"park", "restart", "cancel", "fail", "complete"}
RecLabel == {"none", "inspecting", "releasing", "relaunching"} \cup Plans
OpState  == {"absent", "planned", "dispatching", "succeeded", "failed", "cancelled", "unknown"}
Claim    == [kind : {"task", "recovery", None}, worker : Workers \cup {None}]

TypeOK ==
  /\ world \in Worlds
  /\ loop \in {None, "legacy", "durable"}
  /\ run \in RunState
  /\ cancelTid \in {None, "user", "worker"}
  /\ progress \in {"open", "closed", "checkpointed"}
  /\ op \in [state : OpState, fence : Nat]
  /\ nested \in Workers \cup {None}
  /\ lease \in [claim : Claim, status : {"free", "held", "expired", "released"}]
  /\ alive \subseteq Workers
  /\ pc \in [Workers -> Label]
  /\ fence \in [Workers -> Nat]
  /\ lost \in [Workers -> BOOLEAN]
  /\ ctl \in [Workers -> BOOLEAN]
  /\ stalls \in Nat
  /\ rec \in [Workers -> RecLabel]
  /\ dispatches \in 0..2

\* The operation is of the kind its loop was prepared for: a legacy request
\* is counted when it leaves planned, which it never returns to; only a
\* durable loop has provider operations, and it is never itself unknown.
LoopInv ==
  /\ op.state = "absent" <=> loop = None
  /\ loop # "durable" => nested = None
  /\ loop # "legacy" => dispatches = 0 /\ op.state # "unknown"
  /\ op.state \in {"absent", "planned"} => dispatches = 0
  /\ dispatches <= 1

StateInv == TypeOK /\ LoopInv

-----------------------------------------------------------------------------
\* The initial state is well typed and has no operation.
LEMMA InitState == Init => StateInv
<1>1. ASSUME Init PROVE /\ op = [state |-> "absent", fence |-> 0]
                        /\ lease = [claim |-> NoClaim, status |-> "free"]
  BY <1>1 DEF Init
<1>2. ASSUME Init PROVE alive \subseteq Workers /\ world \in Worlds
  BY <1>2, FirstIsWorker DEF Init
<1> QED
  BY <1>1, <1>2 DEF Init, StateInv, TypeOK, LoopInv, Label, RecLabel, OpState, Claim, NoClaim,
     None, RunState, LiveRunStates, TerminalRunStates, InLane, Handling

\* A settlement leaves the run in a state of the lifecycle.
LEMMA SettlementTypes ==
  ASSUME TypeOK, Park \/ FailRun \/ CancelRun
  PROVE  run' \in RunState /\ cancelTid' \in {None, "user", "worker"}
BY DEF TypeOK, Park, FailRun, CancelRun, Terminal, Parked, WFR, runVars, RunState,
   LiveRunStates, TerminalRunStates, None

\* A cancellation that was only requested leaves a live run cancelling.
LEMMA HalfwayMoves ==
  ASSUME TypeOK, CancelHalfway
  PROVE  /\ ~Terminal /\ ~Parked /\ ~Terminal'
         /\ cancelTid = None /\ cancelTid' = "worker"
         /\ run' = "cancelling" /\ run' \in RunState
BY DEF TypeOK, CancelHalfway, AllowedFrom, Terminal, Parked, WFR, RunState, LiveRunStates, TerminalRunStates

\* What a settlement writes into the operation is one of its states.
LEMMA SettleOpTypes ==
  ASSUME TypeOK, NEW w \in Workers, NEW s \in OpState, SettleOp(w, s)
  PROVE  /\ op' \in [state : OpState, fence : Nat]
         /\ op'.fence = op.fence
         /\ op'.state = IF OwnsDispatch(w) THEN s ELSE op.state
<1>1. op \in [state : OpState, fence : Nat]
  BY DEF TypeOK
<1>2. op' = IF OwnsDispatch(w) THEN [op EXCEPT !.state = s] ELSE op
  BY DEF SettleOp
<1> QED
  BY <1>1, <1>2

\* An interruption moves the task to its handlers and settles what it knows:
\* a planned operation as cancelled, a legacy request on its way as unknown.
LEMMA InterruptShape ==
  ASSUME TypeOK, NEW w \in Workers, Interrupt(w)
  PROVE  /\ UNCHANGED <<nested, dispatches>>
         /\ pc[w] \in InLane \cup {"acquiring"}
         /\ \E label \in {"aborted", "cancelled", "failing"} :
              /\ pc' = [pc EXCEPT ![w] = label]
              /\ label = "aborted" <=> pc[w] = "acquiring"
         /\ op' \in [state : OpState, fence : Nat]
         /\ \/ op' = op
            \/ pc[w] = "planned" /\ op.state = "planned" /\ op'.state = "cancelled"
            \/ /\ pc[w] = "calling" /\ loop = "legacy"
               /\ op.state = "dispatching" /\ op'.state = "unknown"
<1>1. op \in [state : OpState, fence : Nat]
  BY DEF TypeOK
<1>2. CASE pc[w] = "acquiring" /\ Goto(w, "aborted") /\ UNCHANGED opVars
  BY <1>1, <1>2 DEF Goto, opVars
<1>3. CASE pc[w] \in InLane \ {"planned", "calling"} /\ Goto(w, "cancelled") /\ UNCHANGED opVars
  BY <1>1, <1>3 DEF Goto, opVars, InLane
<1>4. CASE /\ pc[w] = "planned" /\ UNCHANGED <<nested, dispatches>>
           /\ CanBegin(w) /\ op' = [op EXCEPT !.state = "cancelled"] /\ Goto(w, "cancelled")
  BY <1>1, <1>4 DEF Goto, CanBegin, InLane, OpState
<1>5. CASE /\ pc[w] = "planned" /\ UNCHANGED <<nested, dispatches>>
           /\ Goto(w, "failing") /\ UNCHANGED op
  BY <1>1, <1>5 DEF Goto, InLane
<1>6. CASE /\ pc[w] = "calling" /\ UNCHANGED <<nested, dispatches>>
           /\ loop = "legacy" /\ SettleOp(w, "unknown")
           /\ Goto(w, IF OwnsDispatch(w) THEN "cancelled" ELSE "failing")
  <2>1. "unknown" \in OpState
    BY DEF OpState
  <2>2. op' = IF OwnsDispatch(w) THEN [op EXCEPT !.state = "unknown"] ELSE op
    BY <1>6 DEF SettleOp
  <2>3. pc[w] \in InLane
    BY <1>6 DEF InLane
  <2>4. CASE OwnsDispatch(w)
    BY <1>1, <1>6, <2>1, <2>2, <2>3, <2>4 DEF Goto, OwnsDispatch
  <2>5. CASE ~OwnsDispatch(w)
    BY <1>1, <1>6, <2>2, <2>3, <2>5 DEF Goto
  <2> QED
    BY <2>4, <2>5
<1>7. CASE /\ pc[w] = "calling" /\ UNCHANGED <<nested, dispatches>>
           /\ Goto(w, "cancelled") /\ UNCHANGED op
  BY <1>1, <1>7 DEF Goto, InLane
<1> QED
  BY <1>2, <1>3, <1>4, <1>5, <1>6, <1>7 DEF Interrupt

-----------------------------------------------------------------------------
(***************************************************************************)
(* Every step keeps the types and LoopInv.                                 *)
(***************************************************************************)
\* The steps of a task up to its operation.
LEMMA StateTask ==
  ASSUME StateInv, NEW w \in Workers,
         \/ StartAgain(w) \/ Acquire(w) \/ Start(w) \/ CloseSteering(w)
         \/ PersistCheckpoint(w) \/ Finish(w)
  PROVE  StateInv'
<1> USE DEF StateInv, TypeOK, Goto, fixed, runVars, opVars, taskVars
<1>1. CASE StartAgain(w)
  BY <1>1 DEF StartAgain, Label, LoopInv
<1>2. CASE Acquire(w)
  BY <1>2 DEF Acquire, Label, LoopInv, InLane, Claim, Task
<1>3. CASE Start(w)
  <2>1. CASE CancelRun
    BY <1>3, <2>1, SettlementTypes DEF Start, Label, LoopInv, InLane, Handling
  <2>2. CASE ~CancelRun
    BY <1>3, <2>2 DEF Start, Label, LoopInv, InLane, Handling, RunState, LiveRunStates
  <2> QED
    BY <2>1, <2>2
<1>4. CASE CloseSteering(w)
  BY <1>4 DEF CloseSteering, Label, LoopInv, InLane, Handling
<1>5. CASE PersistCheckpoint(w)
  BY <1>5 DEF PersistCheckpoint, Label, LoopInv, InLane
<1>6. CASE Finish(w)
  <2>1. CASE CancelRun
    BY <1>6, <2>1, SettlementTypes DEF Finish, Label, LoopInv, InLane, Handling
  <2>2. CASE ~CancelRun
    BY <1>6, <2>2 DEF Finish, Label, LoopInv, Handling, RunState, TerminalRunStates
  <2> QED
    BY <2>1, <2>2
<1> QED
  BY <1>1, <1>2, <1>3, <1>4, <1>5, <1>6

\* The steps on its operation.
LEMMA StateOperation ==
  ASSUME StateInv, NEW w \in Workers,
         Prepare(w) \/ Begin(w) \/ ProviderCall(w) \/ Return(w) \/ Raise(w)
  PROVE  StateInv'
<1> USE DEF StateInv, TypeOK, Goto, fixed, runVars, opVars, taskVars
<1>1. CASE Prepare(w)
  <2>1. \/ op.state = "absent" /\ op' = [op EXCEPT !.state = "planned"] /\ loop' \in {"legacy", "durable"}
        \/ op' = op /\ loop' = loop
    BY <1>1 DEF Prepare
  <2>2. /\ op' \in [state : OpState, fence : Nat]
        /\ op'.state = op.state \/ (op.state = "absent" /\ op'.state = "planned")
    BY <2>1 DEF OpState
  <2>3. LoopInv'
    BY <1>1, <2>1, <2>2 DEF Prepare, LoopInv, None
  <2> QED
    BY <1>1, <2>1, <2>2, <2>3 DEF Prepare, Label, InLane, Handling
<1>2. CASE Begin(w)
  <2>1. CASE CanBegin(w)
    <3>1. /\ op' = [state |-> "dispatching", fence |-> op.fence + 1]
          /\ fence' = [fence EXCEPT ![w] = @ + 1]
          /\ op.state = "planned"
      BY <1>2, <2>1 DEF Begin, CanBegin
    <3>2. LoopInv'
      BY <1>2, <2>1, <3>1 DEF Begin, LoopInv, None
    <3>3. dispatches' \in 0..2
      BY <1>2, <2>1 DEF Begin
    <3> QED
      BY <1>2, <2>1, <3>1, <3>2, <3>3 DEF Begin, Label, InLane, OpState
  <2>2. CASE ~CanBegin(w)
    BY <1>2, <2>2 DEF Begin, Label, Handling, LoopInv
  <2> QED
    BY <2>1, <2>2
<1>3. CASE ProviderCall(w)
  BY <1>3 DEF ProviderCall, LoopInv
<1>4. CASE Return(w)
  <2>1. "succeeded" \in OpState /\ "finishing" \in Label /\ "failing" \in Label
    BY DEF OpState, Label, InLane, Handling
  <2>2. CASE SettleOp(w, "succeeded")
    <3>1. /\ op' \in [state : OpState, fence : Nat]
          /\ op'.state = op.state \/ (op.state = "dispatching" /\ op'.state = "succeeded")
      BY <2>1, <2>2, SettleOpTypes DEF OwnsDispatch
    <3>2. LoopInv'
      BY <1>4, <3>1 DEF Return, LoopInv
    <3> QED
      BY <1>4, <2>1, <3>1, <3>2 DEF Return
  <2>3. CASE op' = op
    BY <1>4, <2>1, <2>3 DEF Return, LoopInv
  <2> QED
    BY <1>4, <2>2, <2>3 DEF Return
<1>5. CASE Raise(w)
  <2> DEFINE verdict == IF loop = "legacy" THEN "unknown" ELSE "failed"
  <2>1. verdict \in OpState /\ SettleOp(w, verdict)
    BY <1>5 DEF Raise, OpState
  <2>2. /\ op' \in [state : OpState, fence : Nat]
        /\ op'.state = op.state \/ (op.state = "dispatching" /\ op'.state = verdict)
    BY <2>1, SettleOpTypes DEF OwnsDispatch
  <2>3. LoopInv'
    BY <1>5, <2>2 DEF Raise, LoopInv
  <2> QED
    BY <1>5, <2>2, <2>3 DEF Raise, Label, Handling
<1> QED
  BY <1>1, <1>2, <1>3, <1>4, <1>5

\* The end of a task, and its interruptions.
LEMMA StateEnd ==
  ASSUME StateInv, NEW w \in Workers,
         \/ HandleCancel(w) \/ HandleFailure(w) \/ Release(w)
         \/ HeartbeatLost(w) \/ HeartbeatCancel(w) \/ Cancel(w) \/ CancelReturns(w)
  PROVE  StateInv'
<1> USE DEF StateInv, TypeOK, Goto, fixed, runVars, opVars, taskVars
<1>1. CASE HandleCancel(w)
  <2>1. run' \in RunState /\ cancelTid' \in {None, "user", "worker"}
    BY <1>1, SettlementTypes, HalfwayMoves DEF HandleCancel, CancelRefused
  <2> QED
    BY <1>1, <2>1 DEF HandleCancel, AfterHandler, AfterRefusal, Label, Handling, LoopInv
<1>2. CASE HandleFailure(w)
  <2>1. run' \in RunState /\ cancelTid' \in {None, "user", "worker"}
    BY <1>2, SettlementTypes DEF HandleFailure
  <2> QED
    BY <1>2, <2>1 DEF HandleFailure, AfterRefusal, Label, Handling, LoopInv
<1>3. CASE Release(w)
  <2>1. lease' = lease \/ lease' = [lease EXCEPT !.status = "released"]
    BY <1>3 DEF Release, Released
  <2> QED
    BY <1>3, <2>1 DEF Release, Label, Handling, LoopInv
<1>4. CASE HeartbeatLost(w) \/ HeartbeatCancel(w) \/ Cancel(w)
  <2>1. CASE Interrupt(w)
    <3>1. /\ op' \in [state : OpState, fence : Nat] /\ UNCHANGED <<nested, dispatches>>
          /\ pc' \in [Workers -> Label]
      BY <2>1, InterruptShape DEF Label, Handling, InLane
    <3>2. LoopInv'
      BY <1>4, <2>1, InterruptShape DEF LoopInv, HeartbeatLost, HeartbeatCancel, Cancel
    <3> QED
      BY <1>4, <3>1, <3>2 DEF HeartbeatLost, HeartbeatCancel, Cancel, RunState, LiveRunStates
  <2>2. CASE UNCHANGED <<pc, opVars>>
    BY <1>4, <2>2 DEF HeartbeatLost, HeartbeatCancel, Cancel, RunState, LiveRunStates, LoopInv
  <2> QED
    BY <1>4, <2>1, <2>2 DEF HeartbeatLost, HeartbeatCancel, Cancel
<1>5. CASE CancelReturns(w)
  <2>1. run' \in RunState /\ cancelTid' \in {None, "user", "worker"}
    BY <1>5, SettlementTypes DEF CancelReturns
  <2> QED
    BY <1>5, <2>1 DEF CancelReturns, LoopInv
<1> QED
  BY <1>1, <1>2, <1>3, <1>4, <1>5

\* What the ledger says of the operation leads to one of five plans.
LEMMA PlanIsPlan == StateInv => Plan \in Plans
BY DEF StateInv, TypeOK, LoopInv, Plan, Plans, Reclaimable, InDoubt, OpState, None

\* Pauses, crashes, recoveries and reconciliation.
LEMMA StateRecovery ==
  ASSUME StateInv, NEW w \in Workers,
         \/ Pause(w) \/ Resume(w) \/ Crash(w) \/ Recover(w) \/ Inspect(w) \/ Resettle(w)
         \/ ResumeReconciled(w) \/ Restart(w) \/ RecoverReturns(w)
  PROVE  StateInv'
<1> USE DEF StateInv, TypeOK, Goto, fixed, runVars, opVars, taskVars
<1>1. CASE Pause(w)
  BY <1>1 DEF Pause, RunState, LiveRunStates, LoopInv
<1>2. CASE Resume(w)
  BY <1>2 DEF Resume, RunState, LiveRunStates, LoopInv
<1>3. CASE Crash(w)
  BY <1>3, HalfwayMoves DEF Crash, Label, RecLabel, LoopInv
<1>4. CASE Recover(w)
  BY <1>4 DEF Recover, RecLabel, LoopInv, Recovery, Claim
<1>5. CASE Inspect(w)
  <2>1. CASE op' = op
    <3>1. \E label \in {"releasing", "fail", Plan} : rec' = [rec EXCEPT ![w] = label]
      BY <1>5 DEF Inspect
    <3>2. rec' \in [Workers -> RecLabel]
      BY <3>1, PlanIsPlan DEF RecLabel, Plans
    <3> QED
      BY <1>5, <2>1, <3>2 DEF Inspect, LoopInv
  <2>2. CASE op' # op
    <3>1. /\ Reclaimable
          /\ op' = [state |-> "planned", fence |-> op.fence + 1]
          /\ rec' = [rec EXCEPT ![w] = Plan]
      BY <1>5, <2>2 DEF Inspect
    <3>2. LoopInv'
      BY <1>5, <3>1 DEF Inspect, LoopInv, Reclaimable, None
    <3> QED
      BY <1>5, <3>1, <3>2, PlanIsPlan DEF Inspect, RecLabel, OpState
  <2> QED
    BY <2>1, <2>2
<1>6. CASE Resettle(w)
  <2>1. CASE Park \/ FailRun \/ CancelRun
    BY <1>6, <2>1, SettlementTypes DEF Resettle, RecLabel, LoopInv
  <2>2. CASE ~(Park \/ FailRun \/ CancelRun)
    BY <1>6, <2>2, HalfwayMoves DEF Resettle, CancelRefused, RecLabel, LoopInv, RunState, TerminalRunStates
  <2> QED
    BY <2>1, <2>2
<1>7. CASE ResumeReconciled(w)
  <2>1. CASE rec' = rec
    BY <1>7, <2>1 DEF ResumeReconciled, RunState, LiveRunStates, LoopInv
  <2>2. CASE rec' # rec
    BY <1>7, <2>2 DEF ResumeReconciled, RecLabel, LoopInv
  <2> QED
    BY <2>1, <2>2
<1>8. CASE Restart(w)
  BY <1>8 DEF Restart, RecLabel, LoopInv
<1>9. CASE RecoverReturns(w)
  <2>1. lease' = lease \/ lease' = [lease EXCEPT !.status = "released"]
    BY <1>9 DEF RecoverReturns, Released
  <2> QED
    BY <1>9, <2>1 DEF RecoverReturns, RecLabel, Label, LoopInv
<1> QED
  BY <1>1, <1>2, <1>3, <1>4, <1>5, <1>6, <1>7, <1>8, <1>9

LEMMA StateWorld ==
  ASSUME StateInv, LeaseExpires \/ Reconcile
  PROVE  StateInv'
<1> USE DEF StateInv, TypeOK, runVars, opVars, taskVars, fixed
<1>1. CASE LeaseExpires
  <2>1. lease' = [lease EXCEPT !.status = "expired"]
    BY <1>1 DEF LeaseExpires
  <2> QED
    BY <1>1, <2>1 DEF LeaseExpires, LoopInv
<1>2. CASE Reconcile
  <2>1. CASE nested' = nested
    <3>1. PICK verdict \in {"succeeded", "failed"} :
            op' = [state |-> verdict, fence |-> op.fence + 1]
      BY <1>2, <2>1 DEF Reconcile
    <3>2. LoopInv'
      BY <1>2, <2>1, <3>1 DEF Reconcile, LoopInv, None
    <3> QED
      BY <1>2, <2>1, <3>1, <3>2 DEF Reconcile, OpState
  <2>2. CASE nested' = None /\ op' = op
    BY <1>2, <2>2 DEF Reconcile, LoopInv
  <2> QED
    BY <1>2, <2>1, <2>2 DEF Reconcile
<1> QED
  BY <1>1, <1>2

LEMMA StateStep == StateInv /\ [Next]_vars => StateInv'
<1> SUFFICES ASSUME StateInv, [Next]_vars PROVE StateInv'
  OBVIOUS
<1>1. CASE \E w \in Workers :
         \/ StartAgain(w) \/ Acquire(w) \/ Start(w) \/ CloseSteering(w)
         \/ PersistCheckpoint(w) \/ Finish(w)
  BY <1>1, StateTask
<1>2. CASE \E w \in Workers :
         Prepare(w) \/ Begin(w) \/ ProviderCall(w) \/ Return(w) \/ Raise(w)
  BY <1>2, StateOperation
<1>3. CASE \E w \in Workers :
         \/ HandleCancel(w) \/ HandleFailure(w) \/ Release(w)
         \/ HeartbeatLost(w) \/ HeartbeatCancel(w) \/ Cancel(w) \/ CancelReturns(w)
  BY <1>3, StateEnd
<1>4. CASE \E w \in Workers :
         \/ Pause(w) \/ Resume(w) \/ Crash(w) \/ Recover(w) \/ Inspect(w) \/ Resettle(w)
         \/ ResumeReconciled(w) \/ Restart(w) \/ RecoverReturns(w)
  BY <1>4, StateRecovery
<1>5. CASE LeaseExpires \/ Reconcile
  BY <1>5, StateWorld
<1>6. CASE UNCHANGED vars
  BY <1>6 DEF vars, StateInv, TypeOK, LoopInv
<1> QED
  BY <1>1, <1>2, <1>3, <1>4, <1>5, <1>6 DEF Next

-----------------------------------------------------------------------------
(***************************************************************************)
(* What a step does to the run and to its operation.                       *)
(***************************************************************************)
\* A settlement ends or parks the run, completes nothing and leaves an ended
\* run as it is.
LEMMA SettlementEnds ==
  ASSUME TypeOK, Park \/ FailRun \/ CancelRun
  PROVE  /\ (Terminal \/ Parked)'
         /\ Terminal => run' = run
         /\ run' = "completed" => run = "completed"
<1> USE DEF Terminal, Parked, WFR, TerminalRunStates
<1>1. CASE Park
  BY <1>1 DEF Park
<1>2. CASE FailRun
  BY <1>2 DEF FailRun
<1>3. CASE CancelRun
  BY <1>3 DEF CancelRun, runVars, AllowedFrom, WaitKinds, Waiting, LiveRunStates
<1> QED
  BY <1>1, <1>2, <1>3

\* The steps of a task, of an interruption and of a recovery, as the lemmas
\* about steps group them.
TaskMoves(w) ==
  \/ StartAgain(w) \/ Acquire(w) \/ Start(w) \/ CloseSteering(w)
  \/ PersistCheckpoint(w) \/ Finish(w)
OperationMoves(w) ==
  Prepare(w) \/ Begin(w) \/ ProviderCall(w) \/ Return(w) \/ Raise(w)
HandlerMoves(w) ==
  HandleCancel(w) \/ HandleFailure(w) \/ Release(w) \/ CancelReturns(w)
Interruptions(w) ==
  HeartbeatLost(w) \/ HeartbeatCancel(w) \/ Cancel(w)
OwnerMoves(w) ==
  Pause(w) \/ Resume(w) \/ Crash(w)
RecoveryMoves(w) ==
  \/ Recover(w) \/ Inspect(w) \/ Resettle(w) \/ ResumeReconciled(w)
  \/ Restart(w) \/ RecoverReturns(w)

LEMMA Moves ==
  ASSUME [Next]_vars
  PROVE  \/ \E w \in Workers :
              \/ TaskMoves(w) \/ OperationMoves(w) \/ HandlerMoves(w)
              \/ Interruptions(w) \/ OwnerMoves(w) \/ RecoveryMoves(w)
         \/ LeaseExpires \/ Reconcile \/ UNCHANGED vars
BY DEF Next, TaskMoves, OperationMoves, HandlerMoves, Interruptions, OwnerMoves, RecoveryMoves

\* An interruption, as the three steps that contain it see it: what the task
\* was doing, where it goes and what becomes of the operation.
LEMMA InterruptionShape ==
  ASSUME TypeOK, NEW w \in Workers, Interruptions(w)
  PROVE  /\ UNCHANGED <<world, loop, progress, lease, alive, rec, nested, dispatches>>
         /\ Terminal => run' = run
         /\ Parked => run' = run
         /\ run' \in {run, "cancelling"}
         /\ \/ UNCHANGED <<pc, op>> /\ ctl'[w] /\ pc[w] \in Handling
               /\ \A v \in Workers \ {w} : ctl'[v] = ctl[v]
            \/ UNCHANGED <<pc, op, ctl>>
            \/ /\ pc[w] \in InLane \cup {"acquiring"}
               /\ \E label \in {"aborted", "cancelled", "failing"} :
                    /\ pc' = [pc EXCEPT ![w] = label]
                    /\ label = "aborted" <=> pc[w] = "acquiring"
               /\ \A v \in Workers \ {w} : ctl'[v] = ctl[v]
               /\ \/ op' = op
                  \/ pc[w] = "planned" /\ op.state = "planned" /\ op'.state = "cancelled"
                  \/ /\ pc[w] = "calling" /\ loop = "legacy"
                     /\ op.state = "dispatching" /\ op'.state = "unknown"
<1> USE DEF TypeOK, fixed, runVars, opVars, taskVars
<1>1. /\ UNCHANGED <<world, loop, progress, lease, alive, rec>>
      /\ run' \in {run, "cancelling"}
      /\ Terminal \/ Parked => run' = run
      /\ \A v \in Workers \ {w} : ctl'[v] = ctl[v]
  BY DEF Interruptions, HeartbeatLost, HeartbeatCancel, Cancel
<1>2. CASE Interrupt(w)
  BY <1>1, <1>2, InterruptShape
<1>3. CASE ~Interrupt(w)
  BY <1>1, <1>3 DEF Interruptions, HeartbeatLost, HeartbeatCancel, Cancel
<1> QED
  BY <1>2, <1>3

\* An operation that succeeded stays so.
LEMMA SuccessIsFinal ==
  ASSUME StateInv, [Next]_vars, op.state = "succeeded"
  PROVE  op'.state = "succeeded"
<1> USE DEF opVars
<1>1. CASE \E w \in Workers : TaskMoves(w) \/ HandlerMoves(w) \/ OwnerMoves(w)
  BY <1>1 DEF TaskMoves, HandlerMoves, OwnerMoves, StartAgain, Acquire, Start, CloseSteering,
     PersistCheckpoint, Finish, HandleCancel, HandleFailure, Release, CancelReturns, Pause, Resume, Crash
<1>2. CASE \E w \in Workers : OperationMoves(w)
  BY <1>2 DEF OperationMoves, Prepare, Begin, CanBegin, ProviderCall, Return, Raise, SettleOp, OwnsDispatch
<1>3. CASE \E w \in Workers : Interruptions(w)
  BY <1>3, InterruptionShape DEF StateInv
<1>4. CASE \E w \in Workers : RecoveryMoves(w)
  BY <1>4 DEF RecoveryMoves, Recover, Inspect, Reclaimable, Resettle, ResumeReconciled, Restart, RecoverReturns
<1>5. CASE LeaseExpires \/ Reconcile \/ UNCHANGED vars
  BY <1>5 DEF LeaseExpires, Reconcile, vars
<1> QED
  BY <1>1, <1>2, <1>3, <1>4, <1>5, Moves

-----------------------------------------------------------------------------
(***************************************************************************)
(* What is known wherever a run may be completed.                          *)
(***************************************************************************)
KnownInv ==
  /\ \A w \in Workers : pc[w] = "finishing" \/ rec[w] = "complete" => op.state = "succeeded"
  /\ run = "completed" => op.state = "succeeded"

LEMMA KnownStep ==
  ASSUME StateInv, KnownInv, [Next]_vars
  PROVE  KnownInv'
<1> USE DEF StateInv, TypeOK, Goto, runVars, opVars, taskVars
<1>1. CASE \E w \in Workers : TaskMoves(w)
  <2>1. PICK w \in Workers : TaskMoves(w)
    BY <1>1
  <2>2. op' = op /\ rec' = rec
    BY <2>1 DEF TaskMoves, StartAgain, Acquire, Start, CloseSteering, PersistCheckpoint, Finish
  <2>3. \A v \in Workers : pc'[v] = "finishing" => pc[v] = "finishing"
    BY <2>1 DEF TaskMoves, StartAgain, Acquire, Start, CloseSteering, PersistCheckpoint, Finish
  <2>4. run' = "completed" => run = "completed" \/ pc[w] = "finishing"
    BY <2>1, SettlementEnds DEF TaskMoves, StartAgain, Acquire, Start, CloseSteering, PersistCheckpoint, Finish
  <2> QED
    BY <2>2, <2>3, <2>4 DEF KnownInv
<1>2. CASE \E w \in Workers : OperationMoves(w)
  <2>1. PICK w \in Workers : OperationMoves(w)
    BY <1>2
  <2>2. run' = run /\ rec' = rec
    BY <2>1 DEF OperationMoves, Prepare, Begin, ProviderCall, Return, Raise
  <2>3. \A v \in Workers : pc'[v] = "finishing" => pc[v] = "finishing" \/ op'.state = "succeeded"
    BY <2>1 DEF OperationMoves, Prepare, Begin, ProviderCall, Return, Raise, SettleOp, OwnsDispatch
  <2> QED
    BY <2>2, <2>3, SuccessIsFinal DEF KnownInv
<1>3. CASE \E w \in Workers : HandlerMoves(w) \/ OwnerMoves(w)
  <2>1. PICK w \in Workers : HandlerMoves(w) \/ OwnerMoves(w)
    BY <1>3
  <2>2. op' = op /\ \A v \in Workers : rec'[v] \in {rec[v], "none"}
    BY <2>1 DEF HandlerMoves, OwnerMoves, HandleCancel, HandleFailure, Release, CancelReturns, Pause, Resume, Crash
  <2>3. \A v \in Workers : pc'[v] = "finishing" => pc[v] = "finishing"
    BY <2>1 DEF HandlerMoves, OwnerMoves, HandleCancel, HandleFailure, Release, CancelReturns, Pause, Resume, Crash,
       AfterHandler, AfterRefusal
  <2>4. run' = "completed" => run = "completed"
    BY <2>1, SettlementEnds, HalfwayMoves DEF HandlerMoves, OwnerMoves, HandleCancel, HandleFailure, Release,
       CancelReturns, CancelRefused, Pause, Resume, Crash
  <2> QED
    BY <2>2, <2>3, <2>4 DEF KnownInv
<1>4. CASE \E w \in Workers : Interruptions(w)
  <2>1. PICK w \in Workers : Interruptions(w)
    BY <1>4
  <2>2. /\ rec' = rec /\ run' \in {run, "cancelling"}
        /\ \A v \in Workers : pc'[v] = "finishing" => pc[v] = "finishing"
    BY <2>1, InterruptionShape
  <2> QED
    BY <2>2, SuccessIsFinal DEF KnownInv
<1>5. CASE \E w \in Workers : RecoveryMoves(w)
  <2>1. PICK w \in Workers : RecoveryMoves(w)
    BY <1>5
  <2>2. \A v \in Workers : pc'[v] = "finishing" => pc[v] = "finishing"
    BY <2>1 DEF RecoveryMoves, Recover, Inspect, Resettle, ResumeReconciled, Restart, RecoverReturns
  <2>3. \A v \in Workers : rec'[v] = "complete" => rec[v] = "complete" \/ op'.state = "succeeded"
    <3>1. CASE Inspect(w)
      BY <3>1, PlanIsPlan DEF Inspect, Plan, Plans, Reclaimable, InDoubt, LoopInv, OpState
    <3>2. CASE ~Inspect(w)
      BY <2>1, <3>2 DEF RecoveryMoves, Recover, Resettle, ResumeReconciled, Restart, RecoverReturns
    <3> QED
      BY <3>1, <3>2
  <2>4. run' = "completed" => run = "completed" \/ rec[w] = "complete"
    BY <2>1, SettlementEnds, HalfwayMoves DEF RecoveryMoves, Recover, Inspect, Resettle, CancelRefused,
       ResumeReconciled, Restart, RecoverReturns
  <2> QED
    BY <2>2, <2>3, <2>4, SuccessIsFinal DEF KnownInv
<1>6. CASE LeaseExpires \/ Reconcile \/ UNCHANGED vars
  <2>1. run' = run /\ pc' = pc /\ rec' = rec
    BY <1>6 DEF LeaseExpires, Reconcile, vars
  <2> QED
    BY <2>1, SuccessIsFinal DEF KnownInv
<1> QED
  BY <1>1, <1>2, <1>3, <1>4, <1>5, <1>6, Moves

-----------------------------------------------------------------------------
(***************************************************************************)
(* How a task leaves the run.                                              *)
(***************************************************************************)
Settled == Terminal \/ Parked \/ op.state = "succeeded"

\* A cancellation that was asked for is pending or has settled the run; a
\* task that released its lease, or ended under a cancel() call, left the run
\* settled.
AskedInv ==
  cancelTid # None \/ (\E w \in Workers : ctl[w]) => run = "cancelling" \/ Settled

EndInv ==
  /\ AskedInv
  /\ \A w \in Workers : pc[w] = "releasing" \/ (ctl[w] /\ pc[w] = "none") => Settled

\* A run that is settled in this sense stays so: it leaves its wait for
\* reconciliation to end, or because its operation is known to have succeeded.
LEMMA SettledStays ==
  ASSUME StateInv, KnownInv, [Next]_vars, Settled
  PROVE  Settled'
<1> USE DEF Settled, StateInv
<1>0. CASE op.state = "succeeded"
  BY <1>0, SuccessIsFinal
<1> SUFFICES ASSUME Terminal \/ Parked PROVE Settled'
  BY <1>0
<1> USE DEF runVars, Terminal, Parked, WFR, TerminalRunStates
<1>1. CASE \E w \in Workers : TaskMoves(w) \/ HandlerMoves(w) \/ OwnerMoves(w)
  BY <1>1, SettlementEnds, HalfwayMoves DEF TaskMoves, HandlerMoves, OwnerMoves, StartAgain, Acquire, Start,
     CloseSteering, PersistCheckpoint, Finish, HandleCancel, CancelRefused, HandleFailure, Release, CancelReturns,
     Pause, Resume, Crash
<1>2. CASE \E w \in Workers : OperationMoves(w)
  BY <1>2 DEF OperationMoves, Prepare, Begin, ProviderCall, Return, Raise
<1>3. CASE \E w \in Workers : Interruptions(w)
  BY <1>3, InterruptionShape
<1>4. CASE \E w \in Workers : RecoveryMoves(w)
  BY <1>4, SettlementEnds, HalfwayMoves, SuccessIsFinal DEF RecoveryMoves, Recover, Inspect, Resettle,
     CancelRefused, ResumeReconciled, Restart, RecoverReturns, KnownInv
<1>5. CASE LeaseExpires \/ Reconcile \/ UNCHANGED vars
  BY <1>5 DEF LeaseExpires, Reconcile, vars
<1> QED
  BY <1>1, <1>2, <1>3, <1>4, <1>5, Moves

\* What leaves the state cancelling settles the run.
LEMMA AskedStep ==
  ASSUME StateInv, KnownInv, AskedInv, [Next]_vars
  PROVE  AskedInv'
<1> USE DEF StateInv, TypeOK, Goto, runVars, taskVars
<1>0. ASSUME \/ cancelTid' = cancelTid /\ (\A v \in Workers : ctl'[v] => ctl[v])
                /\ (run' = run \/ (Terminal \/ Parked)' \/ run # "cancelling")
             \/ (Terminal \/ Parked)' \/ run' = "cancelling"
      PROVE  AskedInv'
  BY <1>0, SettledStays DEF AskedInv, Settled
<1>1. ASSUME NEW w \in Workers, TaskMoves(w) PROVE AskedInv'
  BY <1>0, <1>1, SettlementEnds DEF TaskMoves, StartAgain, Acquire, Start, CloseSteering,
     PersistCheckpoint, Finish
<1>2. ASSUME NEW w \in Workers, OperationMoves(w) PROVE AskedInv'
  BY <1>0, <1>2 DEF OperationMoves, Prepare, Begin, ProviderCall, Return, Raise
<1>3. ASSUME NEW w \in Workers, HandlerMoves(w) PROVE AskedInv'
  BY <1>0, <1>3, SettlementEnds, HalfwayMoves
     DEF HandlerMoves, HandleCancel, CancelRefused, HandleFailure, Release, CancelReturns
<1>4. ASSUME NEW w \in Workers, Interruptions(w) PROVE AskedInv'
  <2>1. CASE Cancel(w)
    <3>1. CASE run = "cancelling" \/ run' = "cancelling"
      BY <1>0, <2>1, <3>1 DEF Cancel
    <3>2. CASE run # "cancelling" /\ run' # "cancelling"
      BY <2>1, <3>2, SettledStays DEF Cancel, AskedInv, None
    <3> QED
      BY <3>1, <3>2
  <2>2. CASE ~Cancel(w)
    BY <1>0, <1>4, <2>2 DEF Interruptions, HeartbeatLost, HeartbeatCancel
  <2> QED
    BY <2>1, <2>2
<1>5. ASSUME NEW w \in Workers, OwnerMoves(w) \/ RecoveryMoves(w) PROVE AskedInv'
  BY <1>0, <1>5, SettlementEnds, HalfwayMoves DEF OwnerMoves, Pause, Resume, Crash, RecoveryMoves, Recover, Inspect,
     Resettle, CancelRefused, ResumeReconciled, Restart, RecoverReturns, Parked, WFR
<1>6. CASE LeaseExpires \/ Reconcile \/ UNCHANGED vars
  BY <1>0, <1>6 DEF LeaseExpires, Reconcile, vars
<1> QED
  BY <1>1, <1>2, <1>3, <1>4, <1>5, <1>6, Moves

\* A refused settlement leaves a run that is settled already, if a cancel()
\* call waits for its task.
LEMMA RefusalIsLate ==
  ASSUME StateInv, AskedInv, CancelRefused \/ ParkRefused
  PROVE  \/ Settled
         \/ ParkRefused /\ cancelTid = None /\ \A w \in Workers : ~ctl[w]
<1>1. run # "cancelling"
  BY DEF CancelRefused, ParkRefused, AllowedFrom
<1> QED
  BY <1>1 DEF AskedInv, CancelRefused

LEMMA EndStep ==
  ASSUME StateInv, KnownInv, EndInv, [Next]_vars
  PROVE  EndInv'
<1> DEFINE Ended(v) == pc[v] = "releasing" \/ (ctl[v] /\ pc[v] = "none")
<1>a. AskedInv'
  BY AskedStep DEF EndInv
<1>0. ASSUME \A v \in Workers : Ended(v)' => Ended(v) \/ Settled \/ (Terminal \/ Parked)'
      PROVE  EndInv'
  <2> SUFFICES ASSUME NEW v \in Workers, Ended(v)' PROVE Settled'
    BY <1>a DEF EndInv
  <2>1. CASE Ended(v) \/ Settled
    BY <2>1, SettledStays DEF EndInv
  <2>2. CASE (Terminal \/ Parked)'
    BY <2>2 DEF Settled
  <2> QED
    BY <1>0, <2>1, <2>2
<1> USE DEF StateInv, TypeOK, Goto, runVars, taskVars
<1>1. ASSUME NEW w \in Workers, TaskMoves(w) PROVE EndInv'
  <2>1. \A v \in Workers : Ended(v)' => Ended(v) \/ (Terminal \/ Parked)'
    BY <1>1, SettlementEnds DEF TaskMoves, StartAgain, Acquire, Start, CloseSteering, PersistCheckpoint, Finish,
       Terminal, TerminalRunStates
  <2> QED
    BY <2>1, <1>0
<1>2. ASSUME NEW w \in Workers, OperationMoves(w) PROVE EndInv'
  <2>1. \A v \in Workers : Ended(v)' => Ended(v)
    BY <1>2 DEF OperationMoves, Prepare, Begin, ProviderCall, Return, Raise
  <2> QED
    BY <2>1, <1>0
<1>3. ASSUME NEW w \in Workers, HandlerMoves(w) PROVE EndInv'
  <2>1. CASE HandleCancel(w) \/ HandleFailure(w)
    <3>1. /\ \A v \in Workers \ {w} : pc'[v] = pc[v]
          /\ ctl' = ctl
      BY <2>1 DEF HandleCancel, HandleFailure
    <3>2. CASE Park \/ FailRun \/ CancelRun
      <4>1. (Terminal \/ Parked)'
        BY <3>2, SettlementEnds
      <4> QED
        BY <1>0, <4>1
    <3>3. CASE CancelRefused \/ ParkRefused
      <4>1. CASE ~(Park \/ FailRun \/ CancelRun)
        <5>1. pc'[w] \in {"none", "escaping"}
          BY <2>1, <4>1 DEF HandleCancel, HandleFailure, AfterRefusal
        <5>2. Ended(w)' => Settled
          BY <3>1, <3>3, <5>1, RefusalIsLate DEF EndInv
        <5> QED
          BY <1>0, <3>1, <5>2
      <4> QED
        BY <3>2, <4>1
    <3>4. CASE CancelHalfway
      <4>1. ASSUME NEW v \in Workers, ctl[v] PROVE Settled
        <5>1. run # "cancelling" /\ ~Terminal /\ ~Parked
          BY <3>4, HalfwayMoves DEF CancelHalfway
        <5>2. run = "cancelling" \/ Settled
          BY <4>1 DEF EndInv, AskedInv
        <5> QED
          BY <5>1, <5>2
      <4>2. pc'[w] # "releasing" \/ (Terminal \/ Parked)'
        BY <2>1, <3>4, HalfwayMoves, SettlementEnds DEF HandleCancel, HandleFailure, AfterRefusal, CancelRefused
      <4> QED
        BY <1>0, <3>1, <4>1, <4>2
    <3> QED
      BY <2>1, <3>2, <3>3, <3>4 DEF HandleCancel, HandleFailure
  <2>2. CASE Release(w)
    <3>1. \A v \in Workers : Ended(v)' => Ended(v)
      BY <2>2 DEF Release
    <3> QED
      BY <3>1, <1>0
  <2>3. CASE CancelReturns(w)
    <3>1. \A v \in Workers : Ended(v)' => Ended(v)
      BY <2>3 DEF CancelReturns
    <3> QED
      BY <3>1, <1>0
  <2> QED
    BY <1>3, <2>1, <2>2, <2>3 DEF HandlerMoves
<1>4. ASSUME NEW w \in Workers, Interruptions(w) PROVE EndInv'
  <2>1. \A v \in Workers : Ended(v)' => Ended(v)
    BY <1>4, InterruptionShape DEF InLane, Handling
  <2> QED
    BY <2>1, <1>0
<1>5. ASSUME NEW w \in Workers, OwnerMoves(w) \/ RecoveryMoves(w) PROVE EndInv'
  <2>1. \A v \in Workers : Ended(v)' => Ended(v)
    BY <1>5 DEF OwnerMoves, Pause, Resume, Crash, RecoveryMoves, Recover, Inspect, Resettle, ResumeReconciled,
       Restart, RecoverReturns
  <2> QED
    BY <2>1, <1>0
<1>6. CASE LeaseExpires \/ Reconcile \/ UNCHANGED vars
  <2>1. pc' = pc /\ ctl' = ctl
    BY <1>6 DEF LeaseExpires, Reconcile, vars
  <2> QED
    BY <2>1, <1>0
<1> QED
  BY <1>1, <1>2, <1>3, <1>4, <1>5, <1>6, Moves

-----------------------------------------------------------------------------
(***************************************************************************)
(* Who works on the run holds its lease, unless workers stall.             *)
(***************************************************************************)
LEMMA WorldStays ==
  ASSUME StateInv, [Next]_vars
  PROVE  world' = world
<1>1. CASE \E w \in Workers : TaskMoves(w) \/ OperationMoves(w) \/ HandlerMoves(w)
  BY <1>1 DEF TaskMoves, OperationMoves, HandlerMoves, StartAgain, Acquire, Start, CloseSteering, PersistCheckpoint,
     Finish, Prepare, Begin, ProviderCall, Return, Raise, HandleCancel, HandleFailure, Release, CancelReturns, fixed
<1>2. CASE \E w \in Workers : Interruptions(w)
  BY <1>2, InterruptionShape DEF StateInv
<1>3. CASE \E w \in Workers : OwnerMoves(w) \/ RecoveryMoves(w)
  BY <1>3 DEF OwnerMoves, Pause, Resume, Crash, RecoveryMoves, Recover, Inspect, Resettle, ResumeReconciled,
     Restart, RecoverReturns, fixed
<1>4. CASE LeaseExpires \/ Reconcile \/ UNCHANGED vars
  BY <1>4 DEF LeaseExpires, Reconcile, fixed, vars
<1> QED
  BY <1>1, <1>2, <1>3, <1>4, Moves

\* The positions of a task that claimed the lease and did not release it.
Leased == InLane \cup {"cancelled", "failing", "releasing", "escaping"}

AliveInv == \A w \in Workers : pc[w] # "none" \/ rec[w] # "none" => w \in alive

HolderInv ==
  \A w \in Workers :
    /\ pc[w] \in Leased => Holds(Task(w))
    /\ rec[w] # "none" => Holds(Recovery(w))

LeaseInv == AliveInv /\ (world # "stalling" => HolderInv)

\* Only one holds: two tasks, two recoveries or one of each exclude each other.
LEMMA OneHolder ==
  ASSUME TypeOK, HolderInv, NEW v \in Workers, NEW w \in Workers
  PROVE  /\ pc[v] \in Leased /\ pc[w] \in Leased => v = w
         /\ rec[v] # "none" /\ rec[w] # "none" => v = w
         /\ ~(pc[v] \in Leased /\ rec[w] # "none")
<1>1. Task(v) = Task(w) => v = w
  BY DEF Task
<1>2. Recovery(v) = Recovery(w) => v = w
  BY DEF Recovery
<1>3. Task(v) # Recovery(w)
  BY DEF Task, Recovery
<1> QED
  BY <1>1, <1>2, <1>3 DEF HolderInv, Holds

LEMMA AliveStep ==
  ASSUME StateInv, AliveInv, [Next]_vars
  PROVE  AliveInv'
<1> USE DEF StateInv, TypeOK, Goto, fixed, runVars, opVars, taskVars
<1>1. ASSUME NEW w \in Workers, TaskMoves(w) PROVE AliveInv'
  BY <1>1 DEF TaskMoves, AliveInv, StartAgain, Acquire, Start, CloseSteering, PersistCheckpoint, Finish
<1>2. ASSUME NEW w \in Workers, OperationMoves(w) PROVE AliveInv'
  BY <1>2 DEF OperationMoves, AliveInv, Prepare, Begin, ProviderCall, Return, Raise
<1>3. ASSUME NEW w \in Workers, HandlerMoves(w) PROVE AliveInv'
  BY <1>3 DEF HandlerMoves, AliveInv, HandleCancel, HandleFailure, Release, CancelReturns
<1>4. ASSUME NEW w \in Workers, Interruptions(w) PROVE AliveInv'
  BY <1>4, InterruptionShape DEF AliveInv, InLane
<1>5. ASSUME NEW w \in Workers, OwnerMoves(w) PROVE AliveInv'
  BY <1>5 DEF OwnerMoves, AliveInv, Pause, Resume, Crash
<1>6. ASSUME NEW w \in Workers, RecoveryMoves(w) PROVE AliveInv'
  BY <1>6 DEF RecoveryMoves, AliveInv, Recover, Inspect, Resettle, ResumeReconciled, Restart, RecoverReturns
<1>7. CASE LeaseExpires \/ Reconcile \/ UNCHANGED vars
  BY <1>7 DEF AliveInv, LeaseExpires, Reconcile, vars
<1> QED
  BY <1>1, <1>2, <1>3, <1>4, <1>5, <1>6, <1>7, Moves

\* Leases are taken when nobody holds one, and only the lease of a dead
\* process expires.
LEMMA HolderStep ==
  ASSUME StateInv, AliveInv, HolderInv, [Next]_vars, world # "stalling"
  PROVE  HolderInv'
\* A step that leaves the lease and lets no task or recovery claim to have it.
<1>0. ASSUME lease' = lease,
             \A v \in Workers : /\ pc'[v] \in Leased => pc[v] \in Leased
                                /\ rec'[v] # "none" => rec[v] # "none"
      PROVE  HolderInv'
  <2>1. ASSUME NEW v \in Workers, pc'[v] \in Leased PROVE Holds(Task(v))'
    BY <1>0, <2>1 DEF HolderInv, Holds, Task
  <2>2. ASSUME NEW v \in Workers, rec'[v] # "none" PROVE Holds(Recovery(v))'
    BY <1>0, <2>2 DEF HolderInv, Holds, Recovery
  <2> QED
    BY <2>1, <2>2 DEF HolderInv
<1> USE DEF StateInv, TypeOK, Goto, fixed, runVars, opVars, taskVars
<1>1. ASSUME NEW w \in Workers, TaskMoves(w) PROVE HolderInv'
  <2>1. CASE lease' = lease
    <3>1. \A v \in Workers : /\ pc'[v] \in Leased => pc[v] \in Leased
                             /\ rec'[v] # "none" => rec[v] # "none"
      BY <1>1, <2>1 DEF TaskMoves, Leased, InLane, StartAgain, Acquire, Start, CloseSteering, PersistCheckpoint,
         Finish, Task, Holds
    <3> QED
      BY <2>1, <3>1, <1>0
  <2>2. CASE lease' # lease
    <3>1. /\ lease.status # "held" /\ lease' = [claim |-> Task(w), status |-> "held"]
          /\ pc' = [pc EXCEPT ![w] = "leased"] /\ rec' = rec
      BY <1>1, <2>2 DEF TaskMoves, StartAgain, Acquire, Start, CloseSteering, PersistCheckpoint, Finish
    <3> QED
      BY <3>1 DEF HolderInv, Holds
  <2> QED
    BY <2>1, <2>2
<1>2. ASSUME NEW w \in Workers, OperationMoves(w) PROVE HolderInv'
  <2>1. lease' = lease /\ rec' = rec
    BY <1>2 DEF OperationMoves, Prepare, Begin, ProviderCall, Return, Raise
  <2>2. \A v \in Workers : pc'[v] \in Leased => pc[v] \in Leased
    BY <1>2 DEF OperationMoves, Prepare, Begin, ProviderCall, Return, Raise, Leased, InLane
  <2> QED
    BY <2>1, <2>2, <1>0
<1>3. ASSUME NEW w \in Workers, HandlerMoves(w) PROVE HolderInv'
  <2>1. CASE Release(w)
    <3>1. /\ lease' = IF Holds(Task(w)) THEN [lease EXCEPT !.status = "released"] ELSE lease
          /\ rec' = rec /\ pc[w] \in Leased
          /\ \A v \in Workers : pc'[v] \in Leased => v # w /\ pc[v] \in Leased
      BY <2>1 DEF Release, Released, Leased, InLane
    <3>2. Holds(Task(w))
      BY <3>1 DEF HolderInv
    <3> QED
      BY <3>1, <3>2, OneHolder DEF HolderInv
  <2>2. CASE ~Release(w)
    <3>1. lease' = lease /\ rec' = rec
      BY <1>3, <2>2 DEF HandlerMoves, HandleCancel, HandleFailure, CancelReturns
    <3>2. \A v \in Workers : pc'[v] \in Leased => pc[v] \in Leased
      BY <1>3, <2>2 DEF HandlerMoves, HandleCancel, HandleFailure, CancelReturns, AfterHandler, AfterRefusal,
         Leased, InLane
    <3> QED
      BY <3>1, <3>2, <1>0
  <2> QED
    BY <2>1, <2>2
<1>4. ASSUME NEW w \in Workers, Interruptions(w) PROVE HolderInv'
  BY <1>4, <1>0, InterruptionShape DEF Leased, InLane
<1>5. ASSUME NEW w \in Workers, OwnerMoves(w) PROVE HolderInv'
  BY <1>5, <1>0 DEF OwnerMoves, Pause, Resume, Crash, Leased, InLane
<1>6. ASSUME NEW w \in Workers, RecoveryMoves(w) PROVE HolderInv'
  <2>1. CASE Recover(w)
    <3>1. /\ lease.status # "held" /\ lease' = [claim |-> Recovery(w), status |-> "held"]
          /\ rec' = [rec EXCEPT ![w] = "inspecting"] /\ pc' = pc
      BY <2>1 DEF Recover
    <3> QED
      BY <3>1 DEF HolderInv, Holds
  <2>2. CASE RecoverReturns(w)
    <3>1. /\ lease' = IF Holds(Recovery(w)) THEN [lease EXCEPT !.status = "released"] ELSE lease
          /\ rec[w] # "none" /\ rec' = [rec EXCEPT ![w] = "none"]
          /\ \A v \in Workers : pc'[v] \in Leased => pc[v] \in Leased
      BY <2>2 DEF RecoverReturns, Released, Leased, InLane
    <3>2. Holds(Recovery(w))
      BY <3>1 DEF HolderInv
    <3> QED
      BY <3>1, <3>2, OneHolder DEF HolderInv
  <2>3. CASE ~Recover(w) /\ ~RecoverReturns(w)
    BY <1>6, <2>3, <1>0 DEF RecoveryMoves, Inspect, Resettle, ResumeReconciled, Restart
  <2> QED
    BY <2>1, <2>2, <2>3
<1>7. CASE LeaseExpires
  <2>1. lease.status = "held" /\ lease.claim.worker \notin alive /\ pc' = pc /\ rec' = rec
    BY <1>7 DEF LeaseExpires
  <2>2. \A v \in Workers : pc[v] \notin Leased /\ rec[v] = "none"
    BY <2>1 DEF HolderInv, Holds, Task, Recovery, AliveInv, Leased, InLane
  <2> QED
    BY <2>1, <2>2 DEF HolderInv
<1>8. CASE Reconcile \/ UNCHANGED vars
  BY <1>8, <1>0 DEF Reconcile, vars
<1> QED
  BY <1>1, <1>2, <1>3, <1>4, <1>5, <1>6, <1>7, <1>8, Moves

-----------------------------------------------------------------------------
(***************************************************************************)
(* What a holder knows of the effects, unless workers stall: nothing is    *)
(* dispatched while a recovery works, and a durable loop that is under way *)
(* has not been settled.                                                   *)
(***************************************************************************)
Sure == (Plans \ {"park"}) \cup {"relaunching"}

EffectInv ==
  /\ op.state = "succeeded" => nested = None
  /\ \A w \in Workers : pc[w] = "calling" /\ loop = "durable" => op.state = "dispatching"
  /\ \A w \in Workers : rec[w] \in Sure => ~InDoubt

\* An effect comes to be in doubt by a task that dispatches.
LEMMA DoubtArises ==
  ASSUME StateInv, [Next]_vars, InDoubt', ~InDoubt
  PROVE  \E w \in Workers : pc[w] \in {"planned", "calling"} /\ (Begin(w) \/ ProviderCall(w))
<1> USE DEF StateInv, InDoubt, opVars, fixed
<1>1. CASE \E w \in Workers : TaskMoves(w) \/ HandlerMoves(w) \/ OwnerMoves(w)
  BY <1>1 DEF TaskMoves, HandlerMoves, OwnerMoves, StartAgain, Acquire, Start, CloseSteering,
     PersistCheckpoint, Finish, HandleCancel, HandleFailure, Release, CancelReturns, Pause, Resume, Crash
<1>2. CASE \E w \in Workers : OperationMoves(w)
  <2>1. PICK w \in Workers : OperationMoves(w)
    BY <1>2
  <2>2. CASE Begin(w) \/ ProviderCall(w)
    BY <2>2 DEF Begin, ProviderCall
  <2>3. CASE Prepare(w)
    <3>1. (op' = op /\ loop' = loop) \/ op' = [op EXCEPT !.state = "planned"]
      BY <2>3 DEF Prepare
    <3> QED
      BY <2>3, <3>1 DEF Prepare, TypeOK
  <2>4. CASE Return(w) \/ Raise(w)
    <3>1. \/ op' = op
          \/ OwnsDispatch(w) /\ op' = [op EXCEPT !.state = "succeeded"]
          \/ loop = "legacy" /\ OwnsDispatch(w)
          \/ OwnsDispatch(w) /\ op' = [op EXCEPT !.state = "failed"]
      BY <2>4 DEF Return, Raise, SettleOp
    <3> QED
      BY <2>4, <3>1 DEF Return, Raise, TypeOK, OwnsDispatch
  <2> QED
    BY <2>1, <2>2, <2>3, <2>4 DEF OperationMoves
<1>3. CASE \E w \in Workers : Interruptions(w)
  BY <1>3, InterruptionShape
<1>4. CASE \E w \in Workers : RecoveryMoves(w)
  BY <1>4 DEF RecoveryMoves, Recover, Inspect, Reclaimable, Resettle, ResumeReconciled, Restart, RecoverReturns
<1>5. CASE LeaseExpires \/ Reconcile \/ UNCHANGED vars
  BY <1>5 DEF LeaseExpires, Reconcile, vars
<1> QED
  BY <1>1, <1>2, <1>3, <1>4, <1>5, Moves

\* The operation leaves dispatching by its task, by a recovery that reclaims
\* it, or as a legacy request.
LEMMA DispatchEnds ==
  ASSUME StateInv, [Next]_vars, op.state = "dispatching", op'.state # "dispatching"
  PROVE  \/ loop = "legacy"
         \/ \E w \in Workers :
              \/ pc[w] = "calling" /\ pc'[w] # "calling" /\ (Return(w) \/ Raise(w))
              \/ rec[w] = "inspecting" /\ Inspect(w)
<1> USE DEF StateInv, TypeOK, opVars, fixed, Goto
<1>1. CASE \E w \in Workers : TaskMoves(w) \/ HandlerMoves(w) \/ OwnerMoves(w)
  BY <1>1 DEF TaskMoves, HandlerMoves, OwnerMoves, StartAgain, Acquire, Start, CloseSteering,
     PersistCheckpoint, Finish, HandleCancel, HandleFailure, Release, CancelReturns, Pause, Resume, Crash
<1>2. CASE \E w \in Workers : OperationMoves(w)
  <2>1. PICK w \in Workers : OperationMoves(w)
    BY <1>2
  <2>2. CASE Return(w) \/ Raise(w)
    BY <2>2 DEF Return, Raise
  <2>3. CASE ~(Return(w) \/ Raise(w))
    BY <2>1, <2>3 DEF OperationMoves, Prepare, Begin, CanBegin, ProviderCall
  <2> QED
    BY <2>2, <2>3
<1>3. CASE \E w \in Workers : Interruptions(w)
  BY <1>3, InterruptionShape
<1>4. CASE \E w \in Workers : RecoveryMoves(w)
  BY <1>4 DEF RecoveryMoves, Recover, Inspect, Resettle, ResumeReconciled, Restart, RecoverReturns
<1>5. CASE LeaseExpires \/ Reconcile \/ UNCHANGED vars
  BY <1>5 DEF LeaseExpires, Reconcile, vars
<1> QED
  BY <1>1, <1>2, <1>3, <1>4, <1>5, Moves

\* Who comes to call the provider dispatched the operation just now.
LEMMA CallBegins ==
  ASSUME StateInv, [Next]_vars, NEW v \in Workers, pc'[v] = "calling", pc[v] # "calling"
  PROVE  op'.state = "dispatching"
<1> USE DEF StateInv, TypeOK, Goto
<1>1. ASSUME NEW w \in Workers, TaskMoves(w) PROVE FALSE
  BY <1>1 DEF TaskMoves, StartAgain, Acquire, Start, CloseSteering, PersistCheckpoint, Finish
<1>2. ASSUME NEW w \in Workers, OperationMoves(w) PROVE op'.state = "dispatching"
  BY <1>2 DEF OperationMoves, Prepare, Begin, ProviderCall, Return, Raise
<1>3. ASSUME NEW w \in Workers, HandlerMoves(w) PROVE FALSE
  BY <1>3 DEF HandlerMoves, HandleCancel, HandleFailure, Release, CancelReturns, AfterHandler, AfterRefusal
<1>4. ASSUME NEW w \in Workers, Interruptions(w) PROVE FALSE
  BY <1>4, InterruptionShape
<1>5. ASSUME NEW w \in Workers, OwnerMoves(w) \/ RecoveryMoves(w) PROVE FALSE
  BY <1>5 DEF OwnerMoves, Pause, Resume, Crash, RecoveryMoves, Recover, Inspect, Resettle, ResumeReconciled,
     Restart, RecoverReturns
<1>6. CASE LeaseExpires \/ Reconcile \/ UNCHANGED vars
  BY <1>6 DEF LeaseExpires, Reconcile, vars
<1> QED
  BY <1>1, <1>2, <1>3, <1>4, <1>5, <1>6, Moves

\* The loop of the run is chosen once, by a task.
LEMMA LoopChosen ==
  ASSUME StateInv, [Next]_vars, loop' # loop
  PROVE  \E w \in Workers : pc[w] = "checkpointed" /\ Prepare(w)
<1>1. CASE \E w \in Workers : TaskMoves(w) \/ OperationMoves(w) \/ HandlerMoves(w)
  BY <1>1 DEF TaskMoves, OperationMoves, HandlerMoves, StartAgain, Acquire, Start, CloseSteering, PersistCheckpoint,
     Finish, Prepare, Begin, ProviderCall, Return, Raise, HandleCancel, HandleFailure, Release, CancelReturns, fixed
<1>2. CASE \E w \in Workers : Interruptions(w)
  BY <1>2, InterruptionShape DEF StateInv
<1>3. CASE \E w \in Workers : OwnerMoves(w) \/ RecoveryMoves(w)
  BY <1>3 DEF OwnerMoves, Pause, Resume, Crash, RecoveryMoves, Recover, Inspect, Resettle, ResumeReconciled,
     Restart, RecoverReturns, fixed
<1>4. CASE LeaseExpires \/ Reconcile \/ UNCHANGED vars
  BY <1>4 DEF LeaseExpires, Reconcile, fixed, vars
<1> QED
  BY <1>1, <1>2, <1>3, <1>4, Moves

\* An operation comes to have succeeded while no provider operation is open.
LEMMA SuccessIsClean ==
  ASSUME StateInv, [Next]_vars, op'.state = "succeeded", op.state # "succeeded"
  PROVE  nested = None /\ nested' = None
<1> USE DEF StateInv, TypeOK, opVars, fixed
<1>1. CASE \E w \in Workers : TaskMoves(w) \/ HandlerMoves(w) \/ OwnerMoves(w)
  BY <1>1 DEF TaskMoves, HandlerMoves, OwnerMoves, StartAgain, Acquire, Start, CloseSteering,
     PersistCheckpoint, Finish, HandleCancel, HandleFailure, Release, CancelReturns, Pause, Resume, Crash
<1>2. CASE \E w \in Workers : OperationMoves(w)
  <2>1. PICK w \in Workers : OperationMoves(w)
    BY <1>2
  <2>2. CASE Return(w)
    BY <2>2 DEF Return
  <2>3. CASE Raise(w)
    <3>1. \/ op' = op
          \/ op' = [op EXCEPT !.state = "unknown"]
          \/ op' = [op EXCEPT !.state = "failed"]
      BY <2>3 DEF Raise, SettleOp
    <3> QED
      BY <3>1
  <2>4. CASE Prepare(w) \/ Begin(w) \/ ProviderCall(w)
    <3>1. op' = op \/ op' = [op EXCEPT !.state = "planned"] \/ op'.state = "dispatching"
      BY <2>4 DEF Prepare, Begin, ProviderCall
    <3> QED
      BY <3>1
  <2> QED
    BY <2>1, <2>2, <2>3, <2>4 DEF OperationMoves
<1>3. CASE \E w \in Workers : Interruptions(w)
  BY <1>3, InterruptionShape
<1>4. CASE \E w \in Workers : RecoveryMoves(w)
  BY <1>4 DEF RecoveryMoves, Recover, Inspect, Resettle, ResumeReconciled, Restart, RecoverReturns
<1>5. CASE LeaseExpires \/ Reconcile \/ UNCHANGED vars
  BY <1>5 DEF LeaseExpires, Reconcile, vars, LoopInv
<1> QED
  BY <1>1, <1>2, <1>3, <1>4, <1>5, Moves

\* A recovery has a plan other than to park the run only where it has found
\* nothing in doubt.
LEMMA PlanIsSure ==
  ASSUME StateInv, [Next]_vars, NEW v \in Workers, rec'[v] \in Sure, rec[v] \notin Sure
  PROVE  ~InDoubt /\ Inspect(v)
<1> USE DEF StateInv, TypeOK, Sure, Plans
<1>1. ASSUME NEW w \in Workers, TaskMoves(w) \/ OperationMoves(w) \/ HandlerMoves(w) PROVE FALSE
  BY <1>1 DEF TaskMoves, OperationMoves, HandlerMoves, StartAgain, Acquire, Start, CloseSteering, PersistCheckpoint,
     Finish, Prepare, Begin, ProviderCall, Return, Raise, HandleCancel, HandleFailure, Release, CancelReturns
<1>2. ASSUME NEW w \in Workers, Interruptions(w) PROVE FALSE
  BY <1>2, InterruptionShape
<1>3. ASSUME NEW w \in Workers, OwnerMoves(w) PROVE FALSE
  BY <1>3 DEF OwnerMoves, Pause, Resume, Crash
<1>4. ASSUME NEW w \in Workers, RecoveryMoves(w) PROVE ~InDoubt /\ Inspect(v)
  <2>1. CASE Inspect(w)
    <3>1. \/ rec' = [rec EXCEPT ![w] = "releasing"]
          \/ rec' = [rec EXCEPT ![w] = Plan]
          \/ rec' = [rec EXCEPT ![w] = "fail"] /\ Reclaimable
      BY <2>1 DEF Inspect
    <3>2. w = v /\ (rec'[v] = Plan \/ Reclaimable)
      BY <3>1
    <3>3. Plan \in Sure => ~InDoubt
      BY PlanIsPlan DEF Plan, Reclaimable
    <3> QED
      BY <2>1, <3>2, <3>3 DEF Reclaimable
  <2>2. CASE ~Inspect(w)
    BY <1>4, <2>2 DEF RecoveryMoves, Recover, Resettle, ResumeReconciled, Restart, RecoverReturns
  <2> QED
    BY <2>1, <2>2
<1>5. CASE LeaseExpires \/ Reconcile \/ UNCHANGED vars
  BY <1>5 DEF LeaseExpires, Reconcile, vars
<1> QED
  BY <1>1, <1>2, <1>3, <1>4, <1>5, Moves

LEMMA EffectStep ==
  ASSUME StateInv, HolderInv, EffectInv, [Next]_vars
  PROVE  EffectInv'
<1>1. ASSUME op'.state = "succeeded" PROVE nested' = None
  <2>1. CASE op.state = "succeeded" /\ nested' # None
    <3>1. nested = None /\ ~InDoubt /\ InDoubt'
      BY <1>1, <2>1 DEF EffectInv, InDoubt
    <3>2. PICK w \in Workers : pc[w] \in {"planned", "calling"} /\ (Begin(w) \/ ProviderCall(w))
      BY <3>1, DoubtArises
    <3>3. nested' # nested => loop = "durable" /\ pc[w] = "calling"
      BY <3>2 DEF Begin, ProviderCall
    <3> QED
      BY <2>1, <3>1, <3>2, <3>3 DEF EffectInv
  <2> QED
    BY <1>1, <2>1, SuccessIsClean
<1>2. ASSUME NEW v \in Workers, pc'[v] = "calling", loop' = "durable"
      PROVE  op'.state = "dispatching"
  <2>1. CASE pc[v] # "calling"
    BY <1>2, <2>1, CallBegins
  <2>2. CASE pc[v] = "calling" /\ op'.state # "dispatching"
    <3>1. \A w \in Workers : pc[w] \in Leased => w = v
      BY <2>2, OneHolder DEF Leased, InLane, StateInv
    <3>2. loop = "durable"
      BY <1>2, <2>2, <3>1, LoopChosen DEF Leased, InLane
    <3>3. op.state = "dispatching"
      BY <2>2, <3>2 DEF EffectInv
    <3>4. PICK w \in Workers :
            \/ pc[w] = "calling" /\ pc'[w] # "calling" /\ (Return(w) \/ Raise(w))
            \/ rec[w] = "inspecting" /\ Inspect(w)
      BY <2>2, <3>2, <3>3, DispatchEnds
    <3>5. CASE pc[w] = "calling" /\ pc'[w] # "calling"
      BY <1>2, <3>1, <3>5 DEF Leased, InLane
    <3>6. CASE rec[w] = "inspecting"
      BY <2>2, <3>6, OneHolder DEF Leased, InLane, StateInv
    <3> QED
      BY <3>4, <3>5, <3>6
  <2> QED
    BY <2>1, <2>2
<1>3. ASSUME NEW v \in Workers, rec'[v] \in Sure PROVE ~InDoubt'
  <2>1. ~InDoubt
    BY <1>3, PlanIsSure DEF EffectInv
  <2>2. SUFFICES ASSUME InDoubt' PROVE FALSE
    OBVIOUS
  <2>3. PICK w \in Workers : pc[w] \in {"planned", "calling"} /\ (Begin(w) \/ ProviderCall(w))
    BY <2>1, <2>2, DoubtArises
  <2>4. rec[v] # "none" /\ pc[w] \in Leased
    <3>1. rec' = rec
      BY <2>3 DEF Begin, ProviderCall
    <3> QED
      BY <1>3, <2>3, <3>1 DEF Sure, Plans, Leased, InLane
  <2> QED
    BY <2>4, OneHolder DEF StateInv
<1> QED
  BY <1>1, <1>2, <1>3 DEF EffectInv

-----------------------------------------------------------------------------
(***************************************************************************)
(* One harness at a time.                                                  *)
(***************************************************************************)
\* One task or one recovery is under way, and no more.
SingleInv ==
  \A v, w \in Workers :
    /\ pc[v] # "none" /\ pc[w] # "none" => v = w
    /\ rec[v] # "none" /\ rec[w] # "none" => v = w
    /\ ~(pc[v] # "none" /\ rec[w] # "none")

\* Before it dispatches, and after it returned, a task leaves nothing in doubt.
Calm == {"acquiring", "leased", "started", "closed", "checkpointed", "planned", "finishing"}
CalmInv == \A w \in Workers : pc[w] \in Calm => ~InDoubt

\* A run that ended has no effect in doubt and no task that could leave one.
Busy == {"started", "closed", "checkpointed", "planned", "calling"}
QuietInv ==
  Terminal => /\ ~InDoubt
              /\ op.state = "succeeded" \/ \A w \in Workers : pc[w] \notin Busy

OrderlyInv == SingleInv /\ CalmInv /\ QuietInv

LEMMA SingleStep ==
  ASSUME StateInv, SingleInv, [Next]_vars, world = "orderly"
  PROVE  SingleInv'
<1>0. ASSUME \A v \in Workers : /\ pc'[v] # "none" => pc[v] # "none"
                                /\ rec'[v] # "none" => rec[v] # "none"
      PROVE  SingleInv'
  BY <1>0 DEF SingleInv
<1> USE DEF StateInv, TypeOK, Goto
<1>1. ASSUME NEW w \in Workers, TaskMoves(w) PROVE SingleInv'
  BY <1>0, <1>1 DEF TaskMoves, StartAgain, Acquire, Start, CloseSteering, PersistCheckpoint, Finish
<1>2. ASSUME NEW w \in Workers, OperationMoves(w) PROVE SingleInv'
  BY <1>0, <1>2 DEF OperationMoves, Prepare, Begin, ProviderCall, Return, Raise
<1>3. ASSUME NEW w \in Workers, HandlerMoves(w) PROVE SingleInv'
  BY <1>0, <1>3 DEF HandlerMoves, HandleCancel, HandleFailure, Release, CancelReturns
<1>4. ASSUME NEW w \in Workers, Interruptions(w) PROVE SingleInv'
  BY <1>0, <1>4, InterruptionShape DEF InLane
<1>5. ASSUME NEW w \in Workers, OwnerMoves(w) PROVE SingleInv'
  BY <1>0, <1>5 DEF OwnerMoves, Pause, Resume, Crash
<1>6. ASSUME NEW w \in Workers, RecoveryMoves(w) PROVE SingleInv'
  <2>1. CASE Recover(w)
    <3>1. /\ \A v \in Workers : pc[v] = "none" /\ rec[v] = "none"
          /\ pc' = pc /\ rec' = [rec EXCEPT ![w] = "inspecting"]
      BY <2>1 DEF Recover
    <3> QED
      BY <3>1 DEF SingleInv
  <2>2. CASE RecoverReturns(w)
    <3>1. /\ rec[w] # "none" /\ rec' = [rec EXCEPT ![w] = "none"]
          /\ \A v \in Workers \ {w} : pc'[v] = pc[v]
      BY <2>2 DEF RecoverReturns
    <3> QED
      BY <3>1 DEF SingleInv
  <2>3. CASE ~Recover(w) /\ ~RecoverReturns(w)
    BY <1>0, <1>6, <2>3 DEF RecoveryMoves, Inspect, Resettle, ResumeReconciled, Restart
  <2> QED
    BY <2>1, <2>2, <2>3
<1>7. CASE LeaseExpires \/ Reconcile \/ UNCHANGED vars
  BY <1>0, <1>7 DEF LeaseExpires, Reconcile, vars
<1> QED
  BY <1>1, <1>2, <1>3, <1>4, <1>5, <1>6, <1>7, Moves

\* A task becomes calm by a recovery that relaunches it, or by a success.
LEMMA CalmArises ==
  ASSUME StateInv, [Next]_vars, world = "orderly",
         NEW v \in Workers, pc'[v] \in Calm, pc[v] \notin Calm
  PROVE  \/ rec[v] = "relaunching" /\ RecoverReturns(v)
         \/ op'.state = "succeeded"
<1> USE DEF StateInv, TypeOK, Goto, Calm
<1>1. ASSUME NEW w \in Workers, TaskMoves(w) PROVE FALSE
  BY <1>1 DEF TaskMoves, StartAgain, Acquire, Start, CloseSteering, PersistCheckpoint, Finish
<1>2. ASSUME NEW w \in Workers, OperationMoves(w) PROVE op'.state = "succeeded"
  BY <1>2 DEF OperationMoves, Prepare, Begin, ProviderCall, Return, Raise, SettleOp, OwnsDispatch
<1>3. ASSUME NEW w \in Workers, HandlerMoves(w) PROVE FALSE
  BY <1>3 DEF HandlerMoves, HandleCancel, HandleFailure, Release, CancelReturns, AfterHandler, AfterRefusal
<1>4. ASSUME NEW w \in Workers, Interruptions(w) PROVE FALSE
  BY <1>4, InterruptionShape
<1>5. ASSUME NEW w \in Workers, OwnerMoves(w) PROVE FALSE
  BY <1>5 DEF OwnerMoves, Pause, Resume, Crash
<1>6. ASSUME NEW w \in Workers, RecoveryMoves(w)
      PROVE  rec[v] = "relaunching" /\ RecoverReturns(v)
  BY <1>6 DEF RecoveryMoves, Recover, Inspect, Resettle, ResumeReconciled, Restart, RecoverReturns
<1>7. CASE LeaseExpires \/ Reconcile \/ UNCHANGED vars
  BY <1>7 DEF LeaseExpires, Reconcile, vars
<1> QED
  BY <1>1, <1>2, <1>3, <1>4, <1>5, <1>6, <1>7, Moves

\* A success without an open provider operation leaves nothing in doubt.
LEMMA SuccessIsSure ==
  ASSUME EffectInv, op.state = "succeeded"
  PROVE  ~InDoubt
BY DEF EffectInv, InDoubt

LEMMA SuccessIsSureThen ==
  ASSUME EffectInv', op'.state = "succeeded"
  PROVE  ~InDoubt'
BY DEF EffectInv, InDoubt

LEMMA CalmStep ==
  ASSUME StateInv, EffectInv, EffectInv', SingleInv, CalmInv, [Next]_vars, world = "orderly"
  PROVE  CalmInv'
<1> SUFFICES ASSUME NEW v \in Workers, pc'[v] \in Calm, InDoubt' PROVE FALSE
  BY DEF CalmInv
<1>1. op'.state # "succeeded"
  BY SuccessIsSureThen
<1>2. CASE pc[v] \in Calm
  <2>1. ~InDoubt
    BY <1>2 DEF CalmInv
  <2>2. PICK w \in Workers : pc[w] \in {"planned", "calling"} /\ (Begin(w) \/ ProviderCall(w))
    BY <2>1, DoubtArises
  <2>3. w = v
    BY <1>2, <2>2 DEF SingleInv, Calm
  <2> QED
    BY <1>2, <2>2, <2>3 DEF Begin, ProviderCall, Goto, Calm, StateInv, TypeOK
<1>3. CASE pc[v] \notin Calm
  <2>1. rec[v] = "relaunching" /\ RecoverReturns(v)
    BY <1>1, <1>3, CalmArises
  <2>2. ~InDoubt /\ (InDoubt' <=> InDoubt)
    BY <2>1 DEF EffectInv, Sure, RecoverReturns, InDoubt, opVars, fixed
  <2> QED
    BY <2>2
<1> QED
  BY <1>2, <1>3

\* Nobody starts on a run that ended.
LEMMA BusyArises ==
  ASSUME StateInv, [Next]_vars, Terminal, NEW v \in Workers, pc'[v] \in Busy
  PROVE  pc[v] \in Busy
<1> USE DEF StateInv, TypeOK, Goto, Busy
<1>1. ASSUME NEW w \in Workers, TaskMoves(w) PROVE pc[v] \in Busy
  BY <1>1 DEF TaskMoves, StartAgain, Acquire, Start, CloseSteering, PersistCheckpoint, Finish, Terminal,
     TerminalRunStates
<1>2. ASSUME NEW w \in Workers, OperationMoves(w) PROVE pc[v] \in Busy
  BY <1>2 DEF OperationMoves, Prepare, Begin, ProviderCall, Return, Raise
<1>3. ASSUME NEW w \in Workers, HandlerMoves(w) PROVE pc[v] \in Busy
  BY <1>3 DEF HandlerMoves, HandleCancel, HandleFailure, Release, CancelReturns, AfterHandler, AfterRefusal
<1>4. ASSUME NEW w \in Workers, Interruptions(w) PROVE pc[v] \in Busy
  BY <1>4, InterruptionShape
<1>5. ASSUME NEW w \in Workers, OwnerMoves(w) \/ RecoveryMoves(w) PROVE pc[v] \in Busy
  BY <1>5 DEF OwnerMoves, Pause, Resume, Crash, RecoveryMoves, Recover, Inspect, Resettle, ResumeReconciled,
     Restart, RecoverReturns
<1>6. CASE LeaseExpires \/ Reconcile \/ UNCHANGED vars
  BY <1>6 DEF LeaseExpires, Reconcile, vars
<1> QED
  BY <1>1, <1>2, <1>3, <1>4, <1>5, <1>6, Moves

\* A run ends where nothing is in doubt: a task ends it before or after its
\* operation, or in a handler that has looked; a recovery by its plan; and a
\* cancel() call whose task left the run settled.
LEMMA EndsInCalm ==
  ASSUME StateInv, EndInv, EffectInv, SingleInv, CalmInv, [Next]_vars, ~Terminal, Terminal'
  PROVE  /\ ~InDoubt /\ (InDoubt' <=> InDoubt) /\ op' = op
         /\ op.state = "succeeded" \/ \A v \in Workers : pc'[v] \notin Busy
<1> USE DEF StateInv, TypeOK, Goto, fixed, runVars, opVars, taskVars
<1>1. ASSUME NEW w \in Workers, TaskMoves(w)
      PROVE  /\ ~InDoubt /\ (InDoubt' <=> InDoubt) /\ op' = op
             /\ \A v \in Workers : pc'[v] \notin Busy
  <2>1. pc[w] \in {"leased", "finishing"} /\ (Start(w) \/ Finish(w)) /\ pc'[w] = "releasing"
    BY <1>1 DEF TaskMoves, StartAgain, Acquire, Start, CloseSteering, PersistCheckpoint, Finish, Terminal,
       TerminalRunStates
  <2>2. \A v \in Workers \ {w} : pc'[v] = pc[v]
    BY <2>1 DEF Start, Finish
  <2>3. \A v \in Workers \ {w} : pc[v] = "none"
    BY <2>1 DEF SingleInv
  <2>4. op' = op /\ nested' = nested /\ loop' = loop
    BY <2>1 DEF Start, Finish
  <2> QED
    BY <2>1, <2>2, <2>3, <2>4 DEF CalmInv, Calm, InDoubt, Busy
<1>2. ASSUME NEW w \in Workers, OperationMoves(w) PROVE FALSE
  BY <1>2 DEF OperationMoves, Prepare, Begin, ProviderCall, Return, Raise, Terminal
<1>3. ASSUME NEW w \in Workers, HandlerMoves(w)
      PROVE  /\ ~InDoubt /\ (InDoubt' <=> InDoubt) /\ op' = op
             /\ op.state = "succeeded" \/ \A v \in Workers : pc'[v] \notin Busy
  <2>0. (InDoubt' <=> InDoubt) /\ op' = op
    BY <1>3 DEF HandlerMoves, HandleCancel, HandleFailure, Release, CancelReturns, InDoubt
  <2>1. CASE HandleCancel(w) \/ HandleFailure(w)
    <3>1. ~InDoubt
      BY <2>1 DEF HandleCancel, HandleFailure, Park, Terminal, WFR, TerminalRunStates
    <3>2. pc[w] # "none" /\ pc'[w] \notin Busy /\ \A v \in Workers \ {w} : pc'[v] = pc[v]
      BY <2>1 DEF HandleCancel, HandleFailure, AfterHandler, AfterRefusal, Busy
    <3> QED
      BY <2>0, <3>1, <3>2 DEF SingleInv, Busy
  <2>2. CASE CancelReturns(w)
    <3>1. run = "cancelling"
      BY <2>2 DEF CancelReturns, Terminal
    <3>2. op.state = "succeeded"
      BY <2>2, <3>1 DEF CancelReturns, EndInv, Settled, Terminal, Parked, WFR, TerminalRunStates
    <3> QED
      BY <2>0, <3>2, SuccessIsSure
  <2>3. CASE Release(w)
    BY <2>3 DEF Release, Terminal
  <2> QED
    BY <1>3, <2>1, <2>2, <2>3 DEF HandlerMoves
<1>4. ASSUME NEW w \in Workers, Interruptions(w) PROVE FALSE
  BY <1>4, InterruptionShape DEF Terminal, TerminalRunStates
<1>5. ASSUME NEW w \in Workers, OwnerMoves(w) PROVE FALSE
  BY <1>5, HalfwayMoves DEF OwnerMoves, Pause, Resume, Crash, Terminal, TerminalRunStates
<1>6. ASSUME NEW w \in Workers, RecoveryMoves(w)
      PROVE  /\ ~InDoubt /\ (InDoubt' <=> InDoubt) /\ op' = op
             /\ \A v \in Workers : pc'[v] \notin Busy
  <2>1. Resettle(w)
    BY <1>6 DEF RecoveryMoves, Recover, Inspect, ResumeReconciled, Restart, RecoverReturns, Terminal,
       TerminalRunStates
  <2>2. rec[w] \in Sure
    BY <2>1 DEF Resettle, Park, Terminal, WFR, TerminalRunStates, Sure, Plans
  <2>3. /\ op' = op /\ nested' = nested /\ loop' = loop
        /\ pc' = pc /\ \A v \in Workers : pc[v] = "none"
    BY <2>1, <2>2 DEF Resettle, SingleInv, Sure, Plans
  <2> QED
    BY <2>2, <2>3 DEF EffectInv, InDoubt, Busy
<1>7. CASE LeaseExpires \/ Reconcile \/ UNCHANGED vars
  BY <1>7 DEF LeaseExpires, Reconcile, vars, Terminal
<1> QED
  BY <1>1, <1>2, <1>3, <1>4, <1>5, <1>6, <1>7, Moves

LEMMA QuietStep ==
  ASSUME StateInv, EndInv, EffectInv, EffectInv', SingleInv, CalmInv, QuietInv, [Next]_vars
  PROVE  QuietInv'
<1> SUFFICES ASSUME Terminal'
             PROVE  /\ ~InDoubt'
                    /\ op'.state = "succeeded" \/ \A w \in Workers : pc'[w] \notin Busy
  BY DEF QuietInv
<1>1. CASE ~Terminal
  BY <1>1, EndsInCalm
<1>2. CASE Terminal /\ op.state = "succeeded"
  BY <1>2, SuccessIsFinal, SuccessIsSureThen
<1>3. CASE Terminal /\ op.state # "succeeded"
  <2>1. ~InDoubt /\ \A w \in Workers : pc[w] \notin Busy
    BY <1>3 DEF QuietInv
  <2>2. \A w \in Workers : pc'[w] \notin Busy
    BY <1>3, <2>1, BusyArises
  <2>3. ~InDoubt'
    BY <2>1, DoubtArises DEF Busy
  <2> QED
    BY <2>2, <2>3
<1> QED
  BY <1>1, <1>2, <1>3

-----------------------------------------------------------------------------
(***************************************************************************)
(* The invariant and the theorems.                                         *)
(***************************************************************************)
Inv ==
  /\ StateInv
  /\ KnownInv
  /\ EndInv
  /\ AliveInv
  /\ world # "stalling" => HolderInv /\ EffectInv
  /\ world = "orderly" => OrderlyInv

LEMMA InitInv == Init => Inv
<1> SUFFICES ASSUME Init PROVE Inv
  OBVIOUS
<1>1. StateInv
  BY InitState
<1>2. /\ run = "queued" /\ cancelTid = None /\ op.state = "absent" /\ nested = None
      /\ \A w \in Workers : /\ pc[w] \in {"none", "acquiring"} /\ (pc[w] # "none" => w = First)
                            /\ rec[w] = "none" /\ ~ctl[w]
      /\ First \in alive
  BY FirstIsWorker DEF Init
<1>3. ~InDoubt /\ ~Terminal
  BY <1>2 DEF InDoubt, Terminal, TerminalRunStates
<1>4. KnownInv /\ EndInv /\ AliveInv
  BY <1>2 DEF KnownInv, EndInv, AskedInv, AliveInv
<1>5. HolderInv /\ EffectInv
  BY <1>2, <1>3 DEF HolderInv, EffectInv, Leased, InLane, Sure, Plans
<1>6. OrderlyInv
  BY <1>2, <1>3 DEF OrderlyInv, SingleInv, CalmInv, QuietInv
<1> QED
  BY <1>1, <1>4, <1>5, <1>6 DEF Inv

LEMMA InvStep == Inv /\ [Next]_vars => Inv'
<1> SUFFICES ASSUME Inv, [Next]_vars PROVE Inv'
  OBVIOUS
<1>1. StateInv /\ StateInv' /\ world' = world
  BY StateStep, WorldStays DEF Inv
<1>2. KnownInv' /\ EndInv' /\ AliveInv'
  BY <1>1, KnownStep, EndStep, AliveStep DEF Inv
<1>3. world # "stalling" => HolderInv' /\ EffectInv'
  BY <1>1, HolderStep, EffectStep DEF Inv
<1>4. ASSUME world = "orderly" PROVE OrderlyInv'
  <2>1. EffectInv /\ EffectInv' /\ SingleInv /\ CalmInv /\ QuietInv /\ EndInv
    BY <1>3, <1>4 DEF Inv, OrderlyInv
  <2>2. SingleInv'
    BY <1>1, <1>4, <2>1, SingleStep
  <2>3. CalmInv'
    BY <1>1, <1>4, <2>1, CalmStep
  <2>4. QuietInv'
    BY <1>1, <2>1, QuietStep
  <2> QED
    BY <2>2, <2>3, <2>4 DEF OrderlyInv
<1> QED
  BY <1>1, <1>2, <1>3, <1>4 DEF Inv

LEMMA Invariance == Spec => []Inv
<1> QED
  BY InitInv, InvStep, PTL DEF Spec

\* Every reachable state of the run and its harnesses is well typed.
THEOREM TypeCorrect == Spec => []TypeOK
<1>1. Inv => TypeOK
  BY DEF Inv, StateInv
<1> QED
  BY <1>1, Invariance, PTL

\* The legacy model request of a run is handed to the provider at most once,
\* for any number of harnesses, however they crash, stall, recover, restart,
\* cancel and reconcile.
THEOREM OneDispatchPerRun == Spec => []DispatchedOnce
<1>1. Inv => DispatchedOnce
  BY DEF Inv, StateInv, LoopInv, DispatchedOnce
<1> QED
  BY <1>1, Invariance, PTL

\* A completed run completed over an operation known to have succeeded, with
\* no provider operation in doubt unless a stalled worker still acts; and
\* where one harness at a time works on it, no run ends over an effect in
\* doubt.
THEOREM EndsAreKnown == Spec => []OutcomesAreKnown
<1>1. Inv => OutcomesAreKnown
  <2> SUFFICES ASSUME Inv PROVE OutcomesAreKnown
    OBVIOUS
  <2>1. run = "completed" => op.state = "succeeded"
    BY DEF Inv, KnownInv
  <2>2. run = "completed" /\ world # "stalling" => nested = None
    BY <2>1 DEF Inv, EffectInv
  <2>3. world = "orderly" /\ Terminal => ~InDoubt
    BY DEF Inv, OrderlyInv, QuietInv
  <2> QED
    BY <2>1, <2>2, <2>3 DEF OutcomesAreKnown
<1> QED
  BY <1>1, Invariance, PTL

\* While a recovery acts on its plan nothing comes to be in doubt, so that
\* what it ends or resumes is settled.
LEMMA LeavesParked ==
  ASSUME Inv, [Next]_vars, world # "stalling", Parked, ~Parked'
  PROVE  ~InDoubt
<1>0. EffectInv /\ StateInv /\ TypeOK
  BY DEF Inv, StateInv
<1> USE DEF Parked, WFR, runVars
<1>1. ASSUME NEW w \in Workers, TaskMoves(w) PROVE FALSE
  BY <1>1 DEF TaskMoves, StartAgain, Acquire, Start, CloseSteering, PersistCheckpoint, Finish
<1>2. ASSUME NEW w \in Workers, OperationMoves(w) PROVE FALSE
  BY <1>2 DEF OperationMoves, Prepare, Begin, ProviderCall, Return, Raise
<1>3. ASSUME NEW w \in Workers, HandlerMoves(w) PROVE ~InDoubt
  BY <1>3 DEF HandlerMoves, HandleCancel, HandleFailure, Release, CancelReturns, Park, Terminal, TerminalRunStates
<1>4. ASSUME NEW w \in Workers, Interruptions(w) PROVE FALSE
  BY <1>0, <1>4, InterruptionShape
<1>5. ASSUME NEW w \in Workers, OwnerMoves(w) PROVE FALSE
  BY <1>5 DEF OwnerMoves, Pause, Resume, Crash, CancelHalfway
<1>6. ASSUME NEW w \in Workers, RecoveryMoves(w) PROVE ~InDoubt
  <2>1. rec[w] \in Sure
    BY <1>6 DEF RecoveryMoves, Recover, Inspect, Resettle, ResumeReconciled, Restart, RecoverReturns, Park,
       Terminal, TerminalRunStates, Sure, Plans
  <2> QED
    BY <1>0, <2>1 DEF EffectInv
<1>7. CASE LeaseExpires \/ Reconcile \/ UNCHANGED vars
  BY <1>7 DEF LeaseExpires, Reconcile, vars
<1> QED
  BY <1>1, <1>2, <1>3, <1>4, <1>5, <1>6, <1>7, Moves

\* A run parked on an unknown effect stays parked until evidence settled it,
\* in the worlds in which no live worker loses its lease.
THEOREM ParkedRunsWait == Spec => ParkedUntilEvidence
<1>1. Inv /\ [Next]_vars => [world # "stalling" /\ Parked /\ ~Parked' => ~InDoubt]_vars
  BY LeavesParked
<1> QED
  BY <1>1, Invariance, PTL DEF Spec, ParkedUntilEvidence

-----------------------------------------------------------------------------
(***************************************************************************)
(* No lease is leaked.  In every world, also where workers stall, whoever  *)
(* waits for the lease waits for a process that died, or for a task or a   *)
(* recovery that is under way and releases it when it ends.  The model     *)
(* lets a live holder renew for ever, which harms nobody for this reason;  *)
(* CancelSettles rests on it.                                              *)
(***************************************************************************)
LeaseInUse ==
  lease.status = "held" =>
    \/ lease.claim.worker \notin alive
    \/ \E w \in alive : \/ lease.claim = Task(w) /\ pc[w] \in Leased
                        \/ lease.claim = Recovery(w) /\ rec[w] # "none"

\* A step that leaves the lease and takes no live holder from its work.
LEMMA UseStays ==
  ASSUME TypeOK, LeaseInUse, lease' = lease, alive' \subseteq alive,
         \A v \in alive' : /\ pc[v] \in Leased => pc'[v] \in Leased
                           /\ rec[v] # "none" => rec'[v] # "none"
  PROVE  LeaseInUse'
<1> SUFFICES ASSUME lease.status = "held", lease.claim.worker \in alive'
    PROVE \E w \in alive' : \/ lease.claim = Task(w) /\ pc'[w] \in Leased
                            \/ lease.claim = Recovery(w) /\ rec'[w] # "none"
  BY DEF LeaseInUse, Task, Recovery
<1>1. PICK w \in alive : \/ lease.claim = Task(w) /\ pc[w] \in Leased
                         \/ lease.claim = Recovery(w) /\ rec[w] # "none"
  BY DEF LeaseInUse
<1>2. w = lease.claim.worker
  BY <1>1 DEF Task, Recovery
<1> QED BY <1>1, <1>2

LEMMA UseStep ==
  ASSUME StateInv, AliveInv, LeaseInUse, [Next]_vars
  PROVE  LeaseInUse'
<1> USE DEF StateInv, TypeOK, Goto, fixed, runVars, opVars, taskVars
<1>1. ASSUME NEW w \in Workers, TaskMoves(w) PROVE LeaseInUse'
  <2>1. CASE Acquire(w) /\ lease' # lease
    <3>1. /\ lease' = [claim |-> Task(w), status |-> "held"] /\ w \in alive' /\ w \in Workers
          /\ pc' = [pc EXCEPT ![w] = "leased"]
      BY <2>1 DEF Acquire, AliveInv
    <3> QED BY <3>1 DEF LeaseInUse, Leased, InLane
  <2>2. CASE ~(Acquire(w) /\ lease' # lease)
    <3>1. lease' = lease /\ alive' = alive /\ rec' = rec
      BY <1>1, <2>2 DEF TaskMoves, StartAgain, Acquire, Start, CloseSteering, PersistCheckpoint, Finish
    <3>2. \A v \in Workers : pc[v] \in Leased => pc'[v] \in Leased
      BY <1>1, <2>2 DEF TaskMoves, Leased, InLane, StartAgain, Acquire, Start, CloseSteering,
         PersistCheckpoint, Finish
    <3> QED BY <3>1, <3>2, UseStays
  <2> QED BY <2>1, <2>2
<1>2. ASSUME NEW w \in Workers, OperationMoves(w) PROVE LeaseInUse'
  <2>1. lease' = lease /\ alive' = alive /\ rec' = rec
    BY <1>2 DEF OperationMoves, Prepare, Begin, ProviderCall, Return, Raise
  <2>2. \A v \in Workers : pc[v] \in Leased => pc'[v] \in Leased
    BY <1>2 DEF OperationMoves, Prepare, Begin, ProviderCall, Return, Raise, Leased, InLane
  <2> QED BY <2>1, <2>2, UseStays
<1>3. ASSUME NEW w \in Workers, HandlerMoves(w) PROVE LeaseInUse'
  <2>1. CASE Release(w) /\ Holds(Task(w))
    <3>1. lease'.status = "released"
      BY <2>1 DEF Release, Released
    <3> QED BY <3>1 DEF LeaseInUse
  <2>2. CASE Release(w) /\ ~Holds(Task(w))
    <3>1. lease' = lease /\ alive' = alive /\ rec' = rec
      BY <2>2 DEF Release, Released
    <3>2. \A v \in Workers \ {w} : pc'[v] = pc[v]
      BY <2>2 DEF Release
    <3>3. SUFFICES ASSUME lease.status = "held", lease.claim.worker \in alive
          PROVE \E v \in alive : \/ lease.claim = Task(v) /\ pc'[v] \in Leased
                                 \/ lease.claim = Recovery(v) /\ rec[v] # "none"
      BY <3>1 DEF LeaseInUse, Task, Recovery
    <3>4. PICK v \in alive : \/ lease.claim = Task(v) /\ pc[v] \in Leased
                             \/ lease.claim = Recovery(v) /\ rec[v] # "none"
      BY <3>3 DEF LeaseInUse
    <3>5. lease.claim = Task(v) => v # w
      BY <2>2, <3>3 DEF Holds
    <3> QED BY <3>2, <3>4, <3>5
  <2>3. CASE ~Release(w)
    <3>1. lease' = lease /\ alive' = alive /\ rec' = rec
      BY <1>3, <2>3 DEF HandlerMoves, HandleCancel, HandleFailure, CancelReturns
    <3>2. \A v \in Workers : pc[v] \in Leased => pc'[v] \in Leased
      BY <1>3, <2>3 DEF HandlerMoves, HandleCancel, HandleFailure, CancelReturns, AfterHandler,
         AfterRefusal, Leased, InLane
    <3> QED BY <3>1, <3>2, UseStays
  <2> QED BY <2>1, <2>2, <2>3
<1>4. ASSUME NEW w \in Workers, Interruptions(w) PROVE LeaseInUse'
  <2>1. lease' = lease /\ alive' = alive /\ rec' = rec
    BY <1>4, InterruptionShape
  <2>2. \A v \in Workers : pc[v] \in Leased => pc'[v] \in Leased
    BY <1>4, InterruptionShape DEF Leased, InLane
  <2> QED BY <2>1, <2>2, UseStays
<1>5. ASSUME NEW w \in Workers, OwnerMoves(w) PROVE LeaseInUse'
  <2>1. lease' = lease /\ alive' \subseteq alive
    BY <1>5 DEF OwnerMoves, Pause, Resume, Crash
  <2>2. \A v \in alive' : pc'[v] = pc[v] /\ rec'[v] = rec[v]
    BY <1>5 DEF OwnerMoves, Pause, Resume, Crash
  <2> QED BY <2>1, <2>2, UseStays
<1>6. ASSUME NEW w \in Workers, RecoveryMoves(w) PROVE LeaseInUse'
  <2>1. CASE Recover(w)
    <3>1. /\ lease' = [claim |-> Recovery(w), status |-> "held"] /\ w \in alive'
          /\ rec' = [rec EXCEPT ![w] = "inspecting"]
      BY <2>1 DEF Recover
    <3> QED BY <3>1 DEF LeaseInUse
  <2>2. CASE RecoverReturns(w) /\ Holds(Recovery(w))
    <3>1. lease'.status = "released"
      BY <2>2 DEF RecoverReturns, Released
    <3> QED BY <3>1 DEF LeaseInUse
  <2>3. CASE RecoverReturns(w) /\ ~Holds(Recovery(w))
    <3>1. lease' = lease /\ alive' = alive
      BY <2>3 DEF RecoverReturns, Released
    <3>2. /\ \A v \in Workers \ {w} : rec'[v] = rec[v]
          /\ \A v \in Workers : pc[v] \in Leased => pc'[v] \in Leased
      BY <2>3 DEF RecoverReturns, Leased, InLane
    <3>3. SUFFICES ASSUME lease.status = "held", lease.claim.worker \in alive
          PROVE \E v \in alive : \/ lease.claim = Task(v) /\ pc'[v] \in Leased
                                 \/ lease.claim = Recovery(v) /\ rec'[v] # "none"
      BY <3>1 DEF LeaseInUse, Task, Recovery
    <3>4. PICK v \in alive : \/ lease.claim = Task(v) /\ pc[v] \in Leased
                             \/ lease.claim = Recovery(v) /\ rec[v] # "none"
      BY <3>3 DEF LeaseInUse
    <3>5. lease.claim = Recovery(v) => v # w
      BY <2>3, <3>3 DEF Holds
    <3> QED BY <3>2, <3>4, <3>5
  <2>4. CASE ~Recover(w) /\ ~RecoverReturns(w)
    <3>1. lease' = lease /\ alive' = alive /\ pc' = pc
      BY <1>6, <2>4 DEF RecoveryMoves, Inspect, Resettle, ResumeReconciled, Restart
    <3>2. \A v \in Workers : rec[v] # "none" => rec'[v] # "none"
      BY <1>6, <2>4, PlanIsPlan DEF RecoveryMoves, Inspect, Resettle, ResumeReconciled, Restart, Plans
    <3> QED BY <3>1, <3>2, UseStays
  <2> QED BY <2>1, <2>2, <2>3, <2>4
<1>7. CASE LeaseExpires
  <2>1. lease'.status = "expired"
    BY <1>7 DEF LeaseExpires
  <2> QED BY <2>1 DEF LeaseInUse
<1>8. CASE Reconcile \/ UNCHANGED vars
  <2>1. UNCHANGED <<lease, alive, pc, rec>>
    BY <1>8 DEF Reconcile, vars
  <2> QED BY <2>1, UseStays
<1> QED
  BY <1>1, <1>2, <1>3, <1>4, <1>5, <1>6, <1>7, <1>8, Moves

\* A lease that is held is held by a process that died, so it runs out, or by
\* somebody at work, who releases it (the finally clauses around a task and a
\* recovery): it is never left behind by a live harness, whatever
\* cancellations, refusals, losses and restarts it went through.
THEOREM LeasesAreInUse == Spec => []LeaseInUse
<1>1. Init => LeaseInUse
  BY DEF Init, LeaseInUse
<1>2. Inv /\ LeaseInUse /\ [Next]_vars => LeaseInUse'
  BY UseStep DEF Inv
<1> QED
  BY <1>1, <1>2, Invariance, PTL DEF Spec

=============================================================================
