--------------------------- MODULE LearningLedger ---------------------------
(***************************************************************************)
(* Governed learning: candidates in the learning ledger, the gateway calls *)
(* that promote them into the knowledge store and roll them back, and the  *)
(* workers that reconcile effects whose outcome is not known.              *)
(*                                                                         *)
(* A ledger call is one transaction and one action.  A promotion commits   *)
(* its intent, calls the adapter and settles, each in a step of its own,   *)
(* so calls of several hosts, reconciliations and deaths come in between.  *)
(* What a caller names a mutation id is a number here, taken in order for  *)
(* each operation and candidate.  Whoever reconciles reads the knowledge   *)
(* store first.                                                            *)
(*                                                                         *)
(* Definitions named ...Mutant are faulty variants of the definition that  *)
(* follows them.  No other definition refers to them; they show that the   *)
(* properties notice the fault.                                            *)
(***************************************************************************)
EXTENDS Naturals, FiniteSets, FiniteSetsExt

CONSTANTS
  Candidates,   \* ids, in the order of the ledger
  Callers,      \* gateway calls that may be under way at once
  Sweepers,     \* reconciliation workers of the one owner
  None,
  Worlds,       \* what happens in an execution: see World
  MaxKeys,      \* mutation ids of each operation on a candidate
  MaxStamp,     \* values of updated_at told apart
  PageLimit     \* page_limit

ASSUME NoneIsNobody == None \notin Callers \cup Sweepers
ASSUME CandidatesAreNumbers ==
  IsFiniteSet(Candidates) /\ Candidates = 1..Cardinality(Candidates)
ASSUME BoundsArePositive ==
  MaxKeys \in Nat \ {0} /\ MaxStamp \in Nat \ {0} /\ PageLimit \in Nat \ {0}

Operations == {"promote", "rollback"}
Keys       == 1..MaxKeys
Requests   == Operations \X Candidates \X Keys

\* CandidateState
Doing   == [promote |-> "promoting", rollback |-> "rolling_back"]
Unknown == [promote |-> "promotion_unknown", rollback |-> "rollback_unknown"]
Done    == [promote |-> "promoted", rollback |-> "rolled_back"]
From    == [promote |-> "qualified", rollback |-> "promoted"]
Undone  == [promote |-> "qualified", rollback |-> "promoted"]
UnknownStates == {Unknown[op] : op \in Operations}
DoubtStates   == UnknownStates \cup {Doing[op] : op \in Operations}
CandidateState == DoubtStates \cup {"captured", "qualified", "rejected", "quarantined",
                                    "promoted", "rolled_back", "deleted"}

Faults == {"edit", "raise", "crash", "stall", "defer", "late", "hasty", "retry"}
World  == [candidates : SUBSET Candidates, sweepers : SUBSET Sweepers,
           keys : [Operations -> Nat], budget : [Faults -> Nat]]

ASSUME WorldsAreWorlds == Worlds \subseteq World

VARIABLES
  world,   \* chosen once
  left,    \* how many steps of each kind of fault or edit are left
  record,  \* learning_candidates
  begun,   \* learning_candidate_mutations: the revision each begin returned
  tried,   \* how many mutation ids callers have used
  effect,  \* whether the knowledge store holds the learning of a candidate
  flying,  \* adapter operations whose caller has given up and which may land
  call,    \* the gateway calls under way
  lease,   \* learning_reconciliation_workers: holder and cursor
  sweep    \* the page each worker is at

vars == <<world, left, record, begun, tried, effect, flying, call, lease, sweep>>
ledger == <<record, begun, tried>>
gateway == <<call, flying>>
workers == <<lease, sweep>>

Idle == [stage |-> "idle", op |-> "promote", c |-> None, key |-> 0, rev |-> 0]
Asleep == [stage |-> "idle", page |-> <<>>, cursor |-> 0]

Init ==
  /\ world \in Worlds
  /\ left = world.budget
  /\ record = [c \in Candidates |-> [state |-> "captured", rev |-> 0, stamp |-> 1,
                                     request |-> [op \in Operations |-> 0]]]
  /\ begun = <<>>
  /\ tried = [op \in Operations |-> [c \in Candidates |-> 0]]
  /\ effect = [c \in Candidates |-> FALSE]
  /\ flying = {}
  /\ call = [w \in Callers |-> Idle]
  /\ lease = [holder |-> None, cursor |-> 0]
  /\ sweep = [s \in Sweepers |-> Asleep]

Spend(f) == left[f] > 0 /\ left' = [left EXCEPT ![f] = @ - 1]

\* _save_mutation: the next revision of a record.
Written(c, state, stamp, request) ==
  record' = [record EXCEPT ![c] = [state |-> state, rev |-> record[c].rev + 1,
                                   stamp |-> stamp, request |-> request]]

\* updated_at comes from the clock of the host.
Saved(c, state) ==
  \E stamp \in (IF state \in UnknownStates THEN 1..MaxStamp ELSE {1}) :
    Written(c, state, stamp, record[c].request)

-----------------------------------------------------------------------------
(***************************************************************************)
(* Review of a candidate: record_evaluation and transition_candidate.      *)
(***************************************************************************)
Judgements == {"qualified", "rejected", "captured"}

Evaluate(c) ==
  /\ record[c].state \in Judgements
  /\ Spend("edit")
  /\ \E state \in Judgements : Saved(c, state)
  /\ UNCHANGED <<world, begun, tried, effect, gateway, workers>>

Transitions(state) ==
  (IF state \in Judgements THEN {"quarantined"} ELSE {}) \cup
  (IF state = "quarantined" THEN {"captured"} ELSE {}) \cup
  (IF state \in Judgements \cup {"quarantined", "rolled_back"} THEN {"deleted"} ELSE {})

Transition(c) ==
  /\ Spend("edit")
  /\ \E state \in Transitions(record[c].state) : Saved(c, state)
  /\ UNCHANGED <<world, begun, tried, effect, gateway, workers>>

-----------------------------------------------------------------------------
(***************************************************************************)
(* LearningGateway.promote and rollback.                                   *)
(***************************************************************************)
\* A mutation id is new, or one a caller repeats.
Named(op, c, k) ==
  IF k <= tried[op][c]
    THEN Spend("retry") /\ UNCHANGED tried
    ELSE /\ k = tried[op][c] + 1 /\ k <= world.keys[op]
         /\ tried' = [tried EXCEPT ![op][c] = k]
         /\ UNCHANGED left

\* The record answers the call: done, or its outcome is unknown.
Answered(op, c, k) ==
  record[c].request[op] = k /\ record[c].state \in {Doing[op], Unknown[op], Done[op]}

Read(w, op, c, k) ==
  /\ call[w].stage = "idle"
  /\ c \in world.candidates
  /\ Named(op, c, k)
  /\ ~Answered(op, c, k)
  /\ call' = [call EXCEPT ![w] = [stage |-> "read", op |-> op, c |-> c, key |-> k,
                                  rev |-> record[c].rev]]
  /\ UNCHANGED <<world, record, begun, effect, flying, workers>>

\* The call goes on to a stage, holding the record at a revision.
Goto(w, stage, rev) ==
  call' = [call EXCEPT ![w] = [stage |-> stage, op |-> call[w].op, c |-> call[w].c,
                               key |-> call[w].key, rev |-> rev]]

Request(w) == <<call[w].op, call[w].c, call[w].key>>

\* begin_promotion and begin_rollback: commit the intent, replay the answer of
\* the same mutation id, or refuse.
MayBeginMutant(w) == record[call[w].c].rev = call[w].rev
MayBegin(w) ==
  /\ record[call[w].c].rev = call[w].rev
  /\ record[call[w].c].state = From[call[w].op]

Intended(w) ==
  LET r == record[call[w].c] IN
  Written(call[w].c, Doing[call[w].op], r.stamp, [r.request EXCEPT ![call[w].op] = call[w].key])

Begin(w) ==
  /\ call[w].stage = "read"
  /\ IF Request(w) \in DOMAIN begun
       THEN /\ Goto(w, "sent", begun[Request(w)])
            /\ UNCHANGED <<record, begun>>
     ELSE IF MayBegin(w)
       THEN /\ Intended(w)
            /\ begun' = [r \in DOMAIN begun \cup {Request(w)} |->
                           IF r = Request(w) THEN record[call[w].c].rev + 1 ELSE begun[r]]
            /\ Goto(w, "sent", record[call[w].c].rev + 1)
       ELSE /\ call' = [call EXCEPT ![w] = Idle]
            /\ UNCHANGED <<record, begun>>
  /\ UNCHANGED <<world, left, tried, effect, flying, workers>>

\* The adapter saves the learning under the title of the candidate, or deletes
\* that title.
Land(op, c) == effect' = [effect EXCEPT ![c] = op = "promote"]

Act(w) ==
  /\ call[w].stage = "sent"
  /\ Land(call[w].op, call[w].c)
  /\ Goto(w, "acted", call[w].rev)
  /\ UNCHANGED <<world, left, ledger, flying, workers>>

\* The adapter raises or the call is cancelled, whether it acted or not, or
\* before it does.
Raise(w) ==
  /\ call[w].stage \in {"sent", "acted"}
  /\ Spend("raise")
  /\ Goto(w, "raised", call[w].rev)
  /\ UNCHANGED <<world, ledger, effect, flying, workers>>

RaiseEarly(w) ==
  /\ call[w].stage = "sent"
  /\ Spend("late")
  /\ flying' = flying \cup {<<call[w].op, call[w].c>>}
  /\ Goto(w, "raised", call[w].rev)
  /\ UNCHANGED <<world, ledger, effect, workers>>

LandLate(op, c) ==
  /\ <<op, c>> \in flying
  /\ Land(op, c)
  /\ flying' = flying \ {<<op, c>>}
  /\ UNCHANGED <<world, left, ledger, call, workers>>

\* settle_promotion and settle_rollback, shielded from cancellation
Outcome(w) == IF call[w].stage = "acted" THEN Done[call[w].op] ELSE Unknown[call[w].op]

Settle(w) ==
  /\ call[w].stage \in {"acted", "raised"}
  /\ LET r == record[call[w].c] IN
     IF r.rev = call[w].rev /\ r.state = Doing[call[w].op]
       THEN Saved(call[w].c, Outcome(w))
       ELSE UNCHANGED record
  /\ call' = [call EXCEPT ![w] = Idle]
  /\ UNCHANGED <<world, left, begun, tried, effect, flying, workers>>

\* The process dies, the content cannot be read or the ledger refuses to
\* settle: the call ends where it is.
CallEnds(w) ==
  /\ call[w].stage # "idle"
  /\ Spend("crash")
  /\ call' = [call EXCEPT ![w] = Idle]
  /\ UNCHANGED <<world, ledger, effect, flying, workers>>

-----------------------------------------------------------------------------
(***************************************************************************)
(* Reconciliation.                                                         *)
(***************************************************************************)
KindOf(state) == IF state \in {Doing["promote"], Unknown["promote"]} THEN "promote" ELSE "rollback"

\* record_reconciliation: the state that evidence leads to
ResolvedMutant(kind, present) == IF present THEN Done[kind] ELSE Undone[kind]
Resolved(kind, present) ==
  IF present = (kind = "promote") THEN Done[kind] ELSE Undone[kind]

InFlight(c) == \E w \in Callers : call[w].stage # "idle" /\ call[w].c = c

\* An operator inspects the store and reconciles whatever the record is then.
\* Hasty is to go by outdated evidence, or while the effect may still happen.
OperatorReconciles(c, present) ==
  /\ record[c].state \in DoubtStates
  /\ IF present = effect[c] /\ ~InFlight(c) THEN UNCHANGED left ELSE Spend("hasty")
  /\ Saved(c, Resolved(KindOf(record[c].state), present))
  /\ UNCHANGED <<world, begun, tried, effect, gateway, workers>>

\* scan_reconciliation_required: unknown effects by updated_at and id
Position(c) == record[c].stamp * (1 + Cardinality(Candidates)) + c
After(cursor) == {c \in Candidates : record[c].state \in UnknownStates /\ Position(c) > cursor}
PageAfter(cursor) ==
  {c \in After(cursor) :
     Cardinality({d \in After(cursor) : Position(d) < Position(c)}) < PageLimit}
LastPosition(page) == Max({Position(c) : c \in page})

NextCursorMutant(cursor) ==
  IF PageAfter(cursor) = {} THEN cursor ELSE LastPosition(PageAfter(cursor))
NextCursor(cursor) ==
  IF PageAfter(cursor) = After(cursor) THEN 0 ELSE LastPosition(PageAfter(cursor))

\* claim_reconciliation_worker
Claim(s) ==
  /\ s \in world.sweepers
  /\ sweep[s].stage = "idle" /\ lease.holder = None
  /\ lease' = [lease EXCEPT !.holder = s]
  /\ sweep' = [sweep EXCEPT ![s] = [stage |-> "scan", page |-> <<>>, cursor |-> lease.cursor]]
  /\ UNCHANGED <<world, left, ledger, effect, gateway>>

Scan(s) ==
  /\ sweep[s].stage = "scan"
  /\ LET from == sweep[s].cursor IN
     sweep' = [sweep EXCEPT ![s] =
       [stage |-> "page", cursor |-> NextCursor(from),
        page |-> [c \in PageAfter(from) |-> [rev |-> record[c].rev, seen |-> "nothing"]]]]
  /\ UNCHANGED <<world, left, ledger, effect, gateway, lease>>

\* The observer inspects the exact title of a candidate.
Observe(s, c) ==
  /\ sweep[s].page[c].seen = "nothing"
  /\ sweep' = [sweep EXCEPT ![s].page[c].seen = IF effect[c] THEN "present" ELSE "absent"]
  /\ UNCHANGED <<world, left, ledger, effect, gateway, lease>>

Processed(s, c) ==
  sweep' = [sweep EXCEPT ![s].page = [d \in DOMAIN @ \ {c} |-> @[d]]]

\* The observer knows nothing yet or fails, or its evidence is rejected.
Defer(s, c) ==
  /\ Spend("defer")
  /\ Processed(s, c)
  /\ UNCHANGED <<world, ledger, effect, gateway, lease>>

\* record_reconciliation against the observed revision; a stale one is refused.
Current(s, c) == record[c].rev = sweep[s].page[c].rev /\ record[c].state \in DoubtStates

Commit(s, c) ==
  /\ sweep[s].page[c].seen # "nothing"
  /\ IF Current(s, c)
       THEN Saved(c, Resolved(KindOf(record[c].state), sweep[s].page[c].seen = "present"))
       ELSE UNCHANGED record
  /\ Processed(s, c)
  /\ UNCHANGED <<world, left, begun, tried, effect, gateway, lease>>

\* checkpoint_reconciliation_worker after a page; the worker goes on, or
\* stops at the end of a sweep or when it is told to.
Checkpoint(s) ==
  /\ sweep[s].stage = "page" /\ sweep[s].page = <<>>
  /\ IF lease.holder = s
       THEN /\ lease' = [lease EXCEPT !.cursor = sweep[s].cursor]
            /\ \E stage \in {"release"} \cup (IF sweep[s].cursor = 0 THEN {} ELSE {"scan"}) :
                 sweep' = [sweep EXCEPT ![s].stage = stage]
       ELSE /\ sweep' = [sweep EXCEPT ![s] = Asleep]
            /\ UNCHANGED lease
  /\ UNCHANGED <<world, left, ledger, effect, gateway>>

\* release_reconciliation_worker
Release(s) ==
  /\ sweep[s].stage = "release"
  /\ lease' = IF lease.holder = s THEN [lease EXCEPT !.holder = None] ELSE lease
  /\ sweep' = [sweep EXCEPT ![s] = Asleep]
  /\ UNCHANGED <<world, left, ledger, effect, gateway>>

\* The renewal of a lost lease fails and cancels the page.
Abort(s) ==
  /\ sweep[s].stage # "idle" /\ lease.holder # s
  /\ sweep' = [sweep EXCEPT ![s] = Asleep]
  /\ UNCHANGED <<world, left, ledger, effect, gateway, lease>>

\* The worker dies, or a store failure ends its sweep and its release.
SweeperDies(s) ==
  /\ sweep[s].stage # "idle"
  /\ Spend("crash")
  /\ sweep' = [sweep EXCEPT ![s] = Asleep]
  /\ UNCHANGED <<world, ledger, effect, gateway, lease>>

\* The holder is gone, or stalls past its lease.
LeaseExpires ==
  /\ lease.holder # None
  /\ IF sweep[lease.holder].stage = "idle" THEN UNCHANGED left ELSE Spend("stall")
  /\ lease' = [lease EXCEPT !.holder = None]
  /\ UNCHANGED <<world, ledger, effect, gateway, sweep>>

-----------------------------------------------------------------------------
Calls(w) ==
  \/ \E op \in Operations, c \in Candidates, k \in Keys : Read(w, op, c, k)
  \/ Begin(w) \/ Act(w) \/ Raise(w) \/ RaiseEarly(w) \/ Settle(w) \/ CallEnds(w)

Sweeps(s) ==
  \/ Claim(s) \/ Scan(s) \/ Checkpoint(s) \/ Release(s) \/ Abort(s)
  \/ \E c \in DOMAIN sweep[s].page : Observe(s, c) \/ Commit(s, c)

Next ==
  \/ \E c \in world.candidates : Evaluate(c) \/ Transition(c)
  \/ \E w \in Callers : Calls(w)
  \/ \E op \in Operations, c \in Candidates : LandLate(op, c)
  \/ \E c \in Candidates, present \in BOOLEAN : OperatorReconciles(c, present)
  \/ \E s \in Sweepers : Sweeps(s) \/ SweeperDies(s)
  \/ \E s \in Sweepers : \E c \in DOMAIN sweep[s].page : Defer(s, c)
  \/ LeaseExpires

\* Workers go on and a lease without a worker ends.
Fairness ==
  /\ \A s \in Sweepers : WF_vars(Sweeps(s))
  /\ WF_vars(LeaseExpires /\ sweep[lease.holder].stage = "idle")

Spec == Init /\ [][Next]_vars /\ Fairness

-----------------------------------------------------------------------------
(***************************************************************************)
(* Properties.                                                             *)
(***************************************************************************)
Stages == {"idle", "read", "sent", "acted", "raised"}

\* Every variable has its type: an intent is begun at a revision that was
\* reached, a cursor is a position.
TypeOK ==
  /\ world \in Worlds
  /\ left \in [Faults -> Nat]
  /\ record \in [Candidates -> [state : CandidateState, rev : Nat, stamp : 1..MaxStamp,
                                request : [Operations -> 0..MaxKeys]]]
  /\ DOMAIN begun \subseteq Requests
  /\ \A r \in DOMAIN begun : begun[r] \in 1..record[r[2]].rev
  /\ tried \in [Operations -> [Candidates -> 0..MaxKeys]]
  /\ effect \in [Candidates -> BOOLEAN]
  /\ flying \subseteq Operations \X Candidates
  /\ call \in [Callers -> [stage : Stages, op : Operations, c : Candidates \cup {None},
                           key : 0..MaxKeys, rev : Nat]]
  /\ \A w \in Callers : call[w].stage # "idle" =>
       call[w].c \in Candidates /\ call[w].key \in Keys /\ call[w].rev <= record[call[w].c].rev
  /\ lease \in [holder : Sweepers \cup {None}, cursor : Nat]
  /\ \A s \in Sweepers :
       /\ sweep[s].stage \in {"idle", "scan", "page", "release"} /\ sweep[s].cursor \in Nat
       /\ DOMAIN sweep[s].page \subseteq Candidates
       /\ \A c \in DOMAIN sweep[s].page :
            /\ sweep[s].page[c].rev \in 1..record[c].rev
            /\ sweep[s].page[c].seen \in {"nothing", "present", "absent"}

\* docs/learning-candidates.md: "The ledger commits PROMOTING or ROLLING_BACK
\* before calling Agno", and "the same mutation is never blindly sent again":
\* while the adapter is called, the record is under the very intent that the
\* call committed.
CallsUnderIntent ==
  \A w \in Callers : call[w].stage \in {"sent", "acted", "raised"} =>
    LET r == record[call[w].c] IN
    /\ r.state = Doing[call[w].op] /\ r.rev = call[w].rev
    /\ r.request[call[w].op] = call[w].key

\* They are, however calls, reviews, reconciliations and deaths interleave,
\* where no mutation id is repeated and nobody reconciles a live call.
CallsUnderIntentOnce ==
  world.budget["retry"] = 0 /\ world.budget["hasty"] = 0 => CallsUnderIntent

\* The ledger tells the truth about the knowledge store: when no effect of a
\* candidate is in doubt, the store holds its learning exactly if the record
\* says promoted; so what is deleted, rejected or qualified again is not in
\* use.  Besides, no effect may land after its call was given up.
LedgerIsTrue ==
  \A c \in Candidates : record[c].state \notin DoubtStates =>
    (effect[c] <=> record[c].state = "promoted")
Careful == \A f \in {"retry", "hasty", "late"} : world.budget[f] = 0
LedgerIsTrueWithCare == Careful => LedgerIsTrue

\* An effect whose outcome is unknown does not stay so while a worker sweeps,
\* whatever the order of pages, crashes, lost leases and clocks.
DoubtIsSettled ==
  \A c \in Candidates :
    (record[c].state \in UnknownStates /\ world.sweepers # {})
      ~> record[c].state \notin UnknownStates
=============================================================================
