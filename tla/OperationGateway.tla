-------------------------- MODULE OperationGateway --------------------------
(***************************************************************************)
(* One durable operation (a model or capability call with an external      *)
(* effect): its ledger record in the store, the concurrent execute() calls *)
(* that share it, recovery and reconciliation.                             *)
(*                                                                         *)
(* A ledger mutation is one transaction and one action.  Between two       *)
(* actions of a call anything may happen: other calls, a recovery, the     *)
(* death of the process.  Commits are shielded, so a caller's cancellation *)
(* is only seen after the commit it arrived in.  The external provider is  *)
(* outside: a request sent to it may take effect at any later time, also   *)
(* after its caller timed out, was cancelled or died.                      *)
(*                                                                         *)
(* Definitions named ...Mutant are faulty variants of the definition that  *)
(* follows them.  No other definition refers to them; they show that the   *)
(* properties notice the fault.                                            *)
(***************************************************************************)
EXTENDS Naturals, FiniteSets

CONSTANTS
  Calls,       \* execute() calls of the operation
  Workers,     \* worker ids; every harness process makes its own
  Placements,  \* the ways calls may be spread over the workers' gateways
  MaxFence     \* bound on recoveries: none is started at this fence or above

ASSUME PlacementsOfCalls == Placements \subseteq [Calls -> Workers]
ASSUME CallsFinite == IsFiniteSet(Calls)
ASSUME MaxFenceNat == MaxFence \in Nat

VARIABLES
  workerOf,    \* the worker id of the gateway each call goes through
  effectClass, \* OperationIntent.effect_class; idempotent ones carry a key
  op,          \* the authoritative OperationRecord
  begun,       \* dispatch rows of runtime_operation_mutations
  pc,          \* where each call is in execute()
  seen,        \* the record each call works from
  target,      \* the settlement a call is about to commit
  sent,        \* calls whose request reached the provider
  landed,      \* those whose external effect happened
  lost,        \* those whose external effect will never happen
  evidence     \* a reconciler's observation, not yet committed

gatewayVars == <<workerOf, effectClass, op, begun, pc, seen, target, sent, landed, lost, evidence>>
setup == <<workerOf, effectClass>>
callVars == <<pc, seen, target>>
worldVars == <<sent, landed, lost>>

-----------------------------------------------------------------------------

EffectClass == {"read_only", "idempotent", "compensatable", "non_repeatable"}

\* Failure and cancellation leave the effect of these classes in doubt.
Ambiguous == effectClass \in {"compensatable", "non_repeatable"}

\* recovery_action of a dispatching record: retry these, reconcile the rest.
RetryableMutant == effectClass # "non_repeatable"
Retryable == effectClass \in {"read_only", "idempotent"}

Settled == {"succeeded", "failed", "cancelled", "unknown"}
OperationState == {"absent", "planned", "dispatching"} \cup Settled

NoRecord == [state |-> "absent", revision |-> 0, fence |-> 0, attempt |-> 0]
NoEvidence == [verdict |-> "none", revision |-> 0]

GatewayInit ==
  /\ workerOf \in Placements
  /\ effectClass \in EffectClass
  /\ op = NoRecord
  /\ begun = {}
  /\ pc = [c \in Calls |-> "idle"]
  /\ seen = [c \in Calls |-> NoRecord]
  /\ target = [c \in Calls |-> "none"]
  /\ sent = {} /\ landed = {} /\ lost = {}
  /\ evidence = NoEvidence

Goto(c, label) == pc' = [pc EXCEPT ![c] = label]

-----------------------------------------------------------------------------
(***************************************************************************)
(* The ledger's reducers.                                                  *)
(***************************************************************************)
Planned == [state |-> "planned", revision |-> 0, fence |-> 0, attempt |-> 0]

Dispatched(rec, fence) ==
  [rec EXCEPT !.state = "dispatching", !.revision = rec.revision + 1,
              !.attempt = rec.attempt + 1, !.fence = fence]

SettledAs(rec, state) == [rec EXCEPT !.state = state, !.revision = rec.revision + 1]

\* Recovery and reconciliation fence off whoever dispatched before.
Refenced(rec, state) ==
  [rec EXCEPT !.state = state, !.revision = rec.revision + 1, !.fence = rec.fence + 1]

\* settle_operation accepts the settlement of a call: the revision it read is
\* current, the record is dispatching (or planned, for a cancellation) and the
\* fence is the one the call holds.
MaySettleMutant(rec, state) == op.fence = rec.fence
MaySettle(rec, state) ==
  /\ op.revision = rec.revision
  /\ \/ op.state = "dispatching"
     \/ op.state = "planned" /\ state = "cancelled"
  /\ op.fence = rec.fence

-----------------------------------------------------------------------------
(***************************************************************************)
(* execute(), one call.                                                    *)
(***************************************************************************)
\* prepare_operation: the first call plans the operation, later ones get the
\* record as it is.  A call cancelled meanwhile cancels a planned operation;
\* otherwise a record that is already past planning ends the call.
Prepare(c) ==
  /\ pc[c] = "idle"
  /\ LET rec == IF op.state = "absent" THEN Planned ELSE op
     IN /\ op' = rec
        /\ seen' = [seen EXCEPT ![c] = rec]
        /\ \/ rec.state = "planned" /\ Goto(c, "planned") /\ UNCHANGED target
           \/ rec.state = "planned" /\ Goto(c, "settling")
              /\ target' = [target EXCEPT ![c] = "cancelled"]
           \/ rec.state = "succeeded" /\ Goto(c, "completed") /\ UNCHANGED target
           \/ rec.state # "planned" /\ Goto(c, "raised") /\ UNCHANGED target
  /\ UNCHANGED <<setup, begun, worldVars, evidence>>

\* begin_operation, keyed by the attempt and fence that follow the record the
\* call read.
DispatchRow(c) ==
  [attempt |-> seen[c].attempt + 1, fence |-> seen[c].fence + 1,
   revision |-> seen[c].revision, worker |-> workerOf[c]]

SameKey(a, b) == a.attempt = b.attempt /\ a.fence = b.fence

\* After the commit the call goes on to dispatch, or finds that it was
\* cancelled, or its pre-dispatch check fails: both settle as known outcomes.
Fenced(c) ==
  /\ seen' = [seen EXCEPT ![c] = Dispatched(seen[c], seen[c].fence + 1)]
  /\ \/ Goto(c, "fenced") /\ UNCHANGED target
     \/ \E state \in {"cancelled", "failed"} :
          Goto(c, "settling") /\ target' = [target EXCEPT ![c] = state]

\* The key is new, the revision is current and the operation is planned: the
\* dispatch is claimed.
MayBegin(c) == op.revision = seen[c].revision /\ op.state = "planned"

BeginApplied(c) ==
  /\ pc[c] = "planned"
  /\ \A b \in begun : ~SameKey(b, DispatchRow(c))
  /\ MayBegin(c)
  /\ op' = Dispatched(op, seen[c].fence + 1)
  /\ begun' = begun \cup {DispatchRow(c)}
  /\ Fenced(c)
  /\ UNCHANGED <<setup, worldVars, evidence>>

\* The same key with the same digest: the store answers with the historic
\* decision and the call goes on exactly as if it had made it.
BeginReplayed(c) ==
  /\ pc[c] = "planned"
  /\ DispatchRow(c) \in begun
  /\ Fenced(c)
  /\ UNCHANGED <<setup, op, begun, worldVars, evidence>>

\* The same key from another worker is an idempotency conflict; a stale
\* revision raises, or returns the value that was settled meanwhile.
BeginRefused(c) ==
  /\ pc[c] = "planned"
  /\ DispatchRow(c) \notin begun
  /\ \/ (\E b \in begun : SameKey(b, DispatchRow(c))) /\ Goto(c, "raised")
     \/ (\A b \in begun : ~SameKey(b, DispatchRow(c)))
        /\ ~MayBegin(c)
        /\ \/ Goto(c, "raised")
           \/ op.state = "succeeded" /\ Goto(c, "completed")
  /\ UNCHANGED <<setup, op, begun, seen, target, worldVars, evidence>>

\* dispatch() hands the request to the provider.
Dispatch(c) ==
  /\ pc[c] = "fenced"
  /\ Goto(c, "calling")
  /\ sent' = sent \cup {c}
  /\ UNCHANGED <<setup, op, begun, seen, target, landed, lost, evidence>>

\* The provider answered and the result is staged: commit success.
DispatchReturns(c) ==
  /\ pc[c] = "calling" /\ c \in landed
  /\ Goto(c, "settling")
  /\ target' = [target EXCEPT ![c] = "succeeded"]
  /\ UNCHANGED <<setup, op, begun, seen, worldVars, evidence>>

\* The dispatch, its timeout or the staging of its result raised.
OutcomeOfErrorMutant == "failed"
OutcomeOfError == IF Ambiguous THEN "unknown" ELSE "failed"

DispatchRaises(c) ==
  /\ pc[c] = "calling"
  /\ Goto(c, "settling")
  /\ target' = [target EXCEPT ![c] = OutcomeOfError]
  /\ UNCHANGED <<setup, op, begun, seen, worldVars, evidence>>

\* The call was cancelled while the provider worked: an effect in doubt is
\* recorded as unknown, the other classes stay dispatching for a recovery.
DispatchCancelled(c) ==
  /\ pc[c] = "calling"
  /\ IF Ambiguous
       THEN Goto(c, "settling") /\ target' = [target EXCEPT ![c] = "unknown"]
       ELSE Goto(c, "raised") /\ UNCHANGED target
  /\ UNCHANGED <<setup, op, begun, seen, worldVars, evidence>>

\* A nested durable operation owns the doubt: this one stays dispatching.
DispatchDeferred(c) ==
  /\ pc[c] = "calling"
  /\ Goto(c, "raised")
  /\ UNCHANGED <<setup, op, begun, seen, target, worldVars, evidence>>

\* settle_operation under the fence the call holds.  A call whose fence or
\* revision is gone gets an error.  A caller cancelled during the commit of a
\* success raises although the success is durable.
SettleOperationMutant(c) ==
  /\ pc[c] = "settling"
  /\ op' = IF MaySettle(seen[c], target[c]) THEN SettledAs(op, target[c]) ELSE op
  /\ Goto(c, IF target[c] = "succeeded" THEN "completed" ELSE "raised")
  /\ UNCHANGED <<setup, begun, seen, target, worldVars, evidence>>

SettleOperation(c) ==
  /\ pc[c] = "settling"
  /\ IF MaySettle(seen[c], target[c])
       THEN /\ op' = SettledAs(op, target[c])
            /\ \/ Goto(c, "raised")
               \/ target[c] = "succeeded" /\ Goto(c, "completed")
       ELSE Goto(c, "raised") /\ UNCHANGED op
  /\ UNCHANGED <<setup, begun, seen, target, worldVars, evidence>>

\* The process dies: all calls through its worker id stop where they are.
Crash(w) ==
  /\ \E c \in Calls : workerOf[c] = w /\ pc[c] \notin {"idle", "completed", "raised", "dead"}
  /\ pc' = [c \in Calls |->
       IF workerOf[c] = w /\ pc[c] \notin {"completed", "raised"} THEN "dead" ELSE pc[c]]
  /\ UNCHANGED <<setup, op, begun, seen, target, worldVars, evidence>>

-----------------------------------------------------------------------------
(***************************************************************************)
(* The provider, recovery and reconciliation.                              *)
(***************************************************************************)
EffectLands(c) ==
  /\ c \in sent \ (landed \cup lost)
  /\ landed' = landed \cup {c}
  /\ UNCHANGED <<setup, op, begun, callVars, sent, lost, evidence>>

RequestLost(c) ==
  /\ c \in sent \ (landed \cup lost)
  /\ lost' = lost \cup {c}
  /\ UNCHANGED <<setup, op, begun, callVars, sent, landed, evidence>>

\* recover_interrupted puts a dispatching operation that may be repeated back
\* to planned under the next fence.  The revision it read pins the record, so
\* reading and writing are one step.
RecoverInterrupted ==
  /\ op.state = "dispatching" /\ Retryable
  /\ op.fence < MaxFence
  /\ op' = Refenced(op, "planned")
  /\ UNCHANGED <<setup, begun, callVars, worldVars, evidence>>

NeedsReconciliation ==
  op.state = "unknown" \/ (op.state = "dispatching" /\ ~Retryable)

\* The host's observer looks at the external system for the record it was
\* given.  Absence is a proof: no request on its way can take effect later.
Observe ==
  /\ NeedsReconciliation
  /\ evidence = NoEvidence
  /\ \/ landed # {} /\ evidence' = [verdict |-> "succeeded", revision |-> op.revision]
     \/ landed = {} /\ sent = lost
        /\ evidence' = [verdict |-> "effect_absent", revision |-> op.revision]
  /\ UNCHANGED <<setup, op, begun, callVars, worldVars>>

\* reconcile_operation: bound to the observed revision, under the next fence.
Reconcile ==
  /\ evidence # NoEvidence
  /\ evidence' = NoEvidence
  /\ IF op.revision = evidence.revision /\ NeedsReconciliation
       THEN op' = Refenced(op, IF evidence.verdict = "succeeded" THEN "succeeded" ELSE "failed")
       ELSE UNCHANGED op
  /\ UNCHANGED <<setup, begun, callVars, worldVars>>

GatewayNext ==
  \/ \E c \in Calls :
       \/ Prepare(c) \/ BeginApplied(c) \/ BeginReplayed(c) \/ BeginRefused(c)
       \/ Dispatch(c) \/ DispatchReturns(c) \/ DispatchRaises(c)
       \/ DispatchCancelled(c) \/ DispatchDeferred(c) \/ SettleOperation(c)
       \/ EffectLands(c) \/ RequestLost(c)
  \/ \E w \in Workers : Crash(w)
  \/ RecoverInterrupted \/ Observe \/ Reconcile

GatewaySpec == GatewayInit /\ [][GatewayNext]_gatewayVars

-----------------------------------------------------------------------------
Label == {"idle", "planned", "fenced", "calling", "settling", "completed", "raised", "dead"}
Record == [state : OperationState, revision : Nat, fence : Nat, attempt : Nat]

GatewayTypeOK ==
  /\ workerOf \in [Calls -> Workers]
  /\ effectClass \in EffectClass
  /\ op \in Record
  /\ begun \subseteq [attempt : Nat, fence : Nat, revision : Nat, worker : Workers]
  /\ pc \in [Calls -> Label]
  /\ seen \in [Calls -> Record]
  /\ target \in [Calls -> Settled \cup {"none"}]
  /\ sent \subseteq Calls /\ landed \subseteq sent /\ lost \subseteq sent \ landed
  /\ evidence \in [verdict : {"none", "succeeded", "effect_absent"}, revision : Nat]

(***************************************************************************)
(* Invariants.                                                             *)
(***************************************************************************)
\* "Execute once", by worker id: only one worker id ever hands an effect that
\* is in doubt after a failure to the provider, whatever is cancelled, crashed,
\* retried, recovered or reconciled; one call only, where no two calls share
\* an id.  Overlapping calls of one id may both dispatch: execute() does not
\* look at whether begin_operation applied or replayed.
OneDispatcher ==
  Ambiguous => \A c, d \in sent : workerOf[c] = workerOf[d]

\* What the ledger says of an effect is true of the provider: a succeeded
\* operation took effect, a cancelled one never reached the provider, and one
\* that failed by the gateway's own account (its dispatch fence is still the
\* current one) never did either, unless its class tolerates repetition.  Of
\* calls that share a worker id only the first is promised.
GatewaySettled == \E b \in begun : b.fence = op.fence
OneWorkerPerCall == \A c, d \in Calls : workerOf[c] = workerOf[d] => c = d

SettlementsAreTrue ==
  /\ op.state = "succeeded" => landed # {}
  /\ Ambiguous /\ OneWorkerPerCall =>
       /\ op.state = "cancelled" => sent = {}
       /\ op.state = "failed" /\ GatewaySettled => sent = {}

\* A call that returned a value returned it from a durable success.
CompletedIsDurable ==
  \A c \in Calls : pc[c] = "completed" => op.state = "succeeded"

\* No settled record changes again, except an unknown one, and that only by
\* reconciliation under a new fence.
SettledStays ==
  [][op.state \in Settled /\ op' # op =>
       op.state = "unknown" /\ op'.state \in {"succeeded", "failed"}
         /\ op'.fence > op.fence]_gatewayVars
=============================================================================
