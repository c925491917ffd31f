------------------------------ MODULE RunStore ------------------------------
(***************************************************************************)
(* The authoritative run store: run snapshots, the tree of declared child  *)
(* runs, approval requests, terminal records and per-run event sequences.  *)
(* Each store method is one database transaction, so each is one action    *)
(* here, with everything it writes to runs other than its own.             *)
(*                                                                         *)
(* Callers pass a transition id and the revision they read.  A call whose  *)
(* id was already decided answers from the decision table (or raises, when *)
(* its digest differs), and a call holding an old revision raises: neither *)
(* changes anything, so the actions below are the calls that take effect.  *)
(*                                                                         *)
(* Definitions named ...Mutant are faulty variants of the definition that  *)
(* follows them.  No other definition refers to them; they show that the   *)
(* properties notice the fault.                                            *)
(***************************************************************************)
EXTENDS RunLifecycle, FiniteSets

CONSTANTS
  Runs,        \* run ids
  Tids,        \* transition ids a caller may use on a run
  Requests,    \* approval request ids
  Inputs,      \* pending ids of input waits
  MaxDepth,    \* ChildRunBudget.max_depth, the same for every declaration
  MaxFanout    \* ChildRunBudget.max_fanout, the same for every declaration

ASSUME RunsFinite == IsFiniteSet(Runs) /\ None \notin Runs
ASSUME RequestsDistinct ==
  IsFiniteSet(Requests) /\ None \notin Requests \cup Inputs /\ Requests \cap Inputs = {}
ASSUME LimitsNat == MaxDepth \in Nat /\ MaxFanout \in Nat

VARIABLES
  run,         \* runtime_runs: the snapshot of each run
  relation,    \* runtime_children: parent, join policy and all ancestors
  decided,     \* runtime_transitions: the ids decided on each run
  terminal,    \* runtime_terminal_records: the recorded terminal state
  approval,    \* runtime_approval_requests: state and owning run
  overdue,     \* requests whose expires_at has passed
  sequence     \* the last event sequence assigned on each run

vars == <<run, relation, decided, terminal, approval, overdue, sequence>>

-----------------------------------------------------------------------------

Absent == "absent"
JoinPolicy == {"all_success", "collect"}
SettledApproval == {"approved", "denied", "expired", "cancelled"}

NewRun(state) ==
  [state |-> state, revision |-> 0, steering_open |-> TRUE, pending |-> None]

NoRelation == [parent |-> None, join |-> None, ancestors |-> {}]
NoApproval == [state |-> Absent, run |-> None]

Init ==
  /\ run      = [r \in Runs |-> NewRun(Absent)]
  /\ relation = [r \in Runs |-> NoRelation]
  /\ decided  = [r \in Runs |-> {}]
  /\ terminal = [r \in Runs |-> None]
  /\ approval = [q \in Requests |-> NoApproval]
  /\ overdue  = {}
  /\ sequence = [r \in Runs |-> 0]

Terminal(r)    == run[r].state \in TerminalRunStates
Children(p)    == {c \in Runs : relation[c].parent = p}
Descendants(p) == {d \in Runs : p \in relation[d].ancestors}

Count(condition) == IF condition THEN 1 ELSE 0

-----------------------------------------------------------------------------
(***************************************************************************)
(* create_run.  A root run needs nothing; a child needs a running parent   *)
(* with depth and fan-out to spare, and leaves a relation row and an event *)
(* on the parent.  Repeating a start key returns the run that exists.      *)
(***************************************************************************)
CreateRun(r) ==
  /\ run[r].state = Absent
  /\ run' = [run EXCEPT ![r] = NewRun("created")]
  /\ sequence' = [sequence EXCEPT ![r] = 1]
  /\ UNCHANGED <<relation, decided, terminal, approval, overdue>>

ValidParentMutant(p) ==
  run[p].state # Absent /\ Cardinality(relation[p].ancestors) < MaxDepth

ValidParent(p) ==
  /\ run[p].state = "running"
  /\ Cardinality(relation[p].ancestors) < MaxDepth
  /\ Cardinality(Children(p)) < MaxFanout

CreateChild(c, p, join) ==
  /\ run[c].state = Absent
  /\ ValidParent(p)
  /\ run' = [run EXCEPT ![c] = NewRun("created")]
  /\ relation' = [relation EXCEPT ![c] =
       [parent |-> p, join |-> join, ancestors |-> relation[p].ancestors \cup {p}]]
  /\ sequence' = [sequence EXCEPT ![c] = 1, ![p] = @ + 1]
  /\ UNCHANGED <<decided, terminal, approval, overdue>>

-----------------------------------------------------------------------------
(***************************************************************************)
(* apply_transition.                                                       *)
(***************************************************************************)
ChildJoinHoldsMutant(p) ==
  \A c \in Children(p) : relation[c].join = "all_success" => Terminal(c)

\* COMPLETE is refused while a child is unsettled, or when a child declared
\* all_success settled as anything but completed.
ChildJoinHolds(p) ==
  \A c \in Children(p) :
    /\ Terminal(c)
    /\ relation[c].join = "all_success" => run[c].state = "completed"

PropagatingKinds ==
  {"request_cancel", "fail", "fail_with_unknown_effects", "expire"}

\* Grandchildren forgotten.
DirectOnlyMutant(r, kind) ==
  IF kind \in PropagatingKinds
    THEN {d \in Children(r) :
            run[d].state \in LiveRunStates \ {"cancelling", "waiting_for_reconciliation"}}
    ELSE {}
\* Descendants that are settled, already cancelling or parked on an unknown
\* effect are left alone.
CancelledWith(r, kind) ==
  IF kind \in PropagatingKinds
    THEN {d \in Descendants(r) :
            run[d].state \in LiveRunStates \ {"cancelling", "waiting_for_reconciliation"}}
    ELSE {}

PendingId == Requests \cup Inputs \cup {None}

\* The pending id a caller can pass: a wait brings its own, a response names
\* the one it answers, the other kinds carry none.
MayName(r, kind, pid) ==
  \/ kind = "wait_for_input"    /\ pid \in Inputs
  \/ kind = "wait_for_approval" /\ pid \in Requests /\ approval[pid].state = Absent
  \/ kind = "respond"           /\ pid = run[r].pending
  \/ kind \notin WaitKinds \cup {"respond"} /\ pid = None

\* A run waiting for an approval is answered only once the request settled.
ResponseValid(r, kind) ==
  kind = "respond" /\ run[r].state = "waiting_for_approval"
    => approval[run[r].pending].state # "pending"

\* Only the run's own request is cancelled, not those of the swept runs.
CancelledRequestsMutant(r, kind) ==
  {q \in Requests :
     /\ approval[q].state = "pending"
     /\ kind # "respond" /\ run[r].state = "waiting_for_approval" /\ run[r].pending = q}

\* Requests that are cancelled because their run leaves the wait unanswered.
CancelledRequests(r, kind) ==
  {q \in Requests :
     /\ approval[q].state = "pending"
     /\ \E x \in CancelledWith(r, kind) \cup (IF kind = "respond" THEN {} ELSE {r}) :
          run[x].state = "waiting_for_approval" /\ run[x].pending = q}

\* No lookup in the decision table.
UndecidedMutant(r, tid) == TRUE
Undecided(r, tid) == tid \notin decided[r]

\* The id under which a swept run x is cancelled, "<tid>:child:<x>".  It is
\* inserted without a lookup: where it was decided before, the whole
\* transaction fails.
SweepId(tid, x) == <<tid, x>>
SweepsAreNew(r, tid, kind) ==
  \A x \in CancelledWith(r, kind) : SweepId(tid, x) \notin decided[x]

TerminalRecord(s, recorded) ==
  IF s.state \in TerminalRunStates THEN s.state ELSE recorded

ApplyTransition(r, tid, kind, pid) ==
  /\ MayName(r, kind, pid)
  /\ Undecided(r, tid)
  /\ Accepts(run[r], kind, pid)
  /\ ResponseValid(r, kind)
  /\ kind = "complete" => ChildJoinHolds(r)
  /\ SweepsAreNew(r, tid, kind)
  /\ LET after  == Reduce(run[r], kind, pid)
         swept  == CancelledWith(r, kind)
         voided == CancelledRequests(r, kind)
         ends   == after.state \in TerminalRunStates
     IN /\ run' = [x \in Runs |->
             IF x = r THEN after
             ELSE IF x \in swept THEN Reduce(run[x], "request_cancel", None)
             ELSE run[x]]
        /\ decided' = [x \in Runs |->
             IF x = r THEN decided[x] \cup {tid}
             ELSE IF x \in swept THEN decided[x] \cup {SweepId(tid, x)}
             ELSE decided[x]]
        /\ terminal' = [terminal EXCEPT ![r] = TerminalRecord(after, terminal[r])]
        /\ approval' = [q \in Requests |->
             IF q \in voided THEN [approval[q] EXCEPT !.state = "cancelled"]
             ELSE IF kind = "wait_for_approval" /\ q = pid
               THEN [state |-> "pending", run |-> r]
             ELSE approval[q]]
        /\ sequence' = [x \in Runs |->
             sequence[x]
               + Count(x \in swept \cup {r})
               + Count(\E q \in voided : approval[q].run = x)
               + Count(x = r /\ kind = "wait_for_approval")
               + Count(x = relation[r].parent /\ ends)]
  /\ UNCHANGED <<relation, overdue>>

-----------------------------------------------------------------------------
(***************************************************************************)
(* settle_approval and expire_approval: the run must still wait for this   *)
(* very request.  A decision must come before the deadline and an expiry   *)
(* after it; an approval's grant row is written by the same transaction.   *)
(***************************************************************************)
SettleApproval(q, outcome) ==
  /\ approval[q].state = "pending"
  /\ run[approval[q].run].state = "waiting_for_approval"
  /\ run[approval[q].run].pending = q
  /\ (outcome = "expired") <=> (q \in overdue)
  /\ approval' = [approval EXCEPT ![q].state = outcome]
  /\ sequence' = [sequence EXCEPT ![approval[q].run] = @ + 1]
  /\ UNCHANGED <<run, relation, decided, terminal, overdue>>

DeadlinePasses(q) ==
  /\ approval[q].state = "pending"
  /\ q \notin overdue
  /\ overdue' = overdue \cup {q}
  /\ UNCHANGED <<run, relation, decided, terminal, approval, sequence>>

Next ==
  \/ \E r \in Runs : CreateRun(r)
  \/ \E c, p \in Runs, join \in JoinPolicy : CreateChild(c, p, join)
  \/ \E r \in Runs, tid \in Tids, kind \in TransitionKind, pid \in PendingId :
       ApplyTransition(r, tid, kind, pid)
  \/ \E q \in Requests, outcome \in {"approved", "denied", "expired"} :
       SettleApproval(q, outcome)
  \/ \E q \in Requests : DeadlinePasses(q)

Spec == Init /\ [][Next]_vars

-----------------------------------------------------------------------------
Snapshot ==
  [state : RunState \cup {Absent}, revision : Nat, steering_open : BOOLEAN, pending : PendingId]
Relation ==
  [parent : Runs \cup {None}, join : JoinPolicy \cup {None}, ancestors : SUBSET Runs]
ApprovalRequest ==
  [state : {Absent, "pending"} \cup SettledApproval, run : Runs \cup {None}]

TypeOK ==
  /\ run \in [Runs -> Snapshot]
  /\ relation \in [Runs -> Relation]
  /\ decided \in [Runs -> SUBSET (Tids \cup (Tids \X Runs))]
  /\ terminal \in [Runs -> TerminalRunStates \cup {None}]
  /\ approval \in [Requests -> ApprovalRequest]
  /\ overdue \subseteq Requests
  /\ sequence \in [Runs -> Nat]

(***************************************************************************)
(* Invariants.                                                             *)
(***************************************************************************)
\* A request is pending exactly while its run waits for it: whichever way a
\* run leaves the wait (response, pause, failure, expiry, its own or an
\* ancestor's cancellation) no decision is still open behind it, and a run
\* that waits always waits on a request of its own that exists.
ApprovalsTrackWaits ==
  /\ \A q \in Requests : approval[q].state = "pending" =>
       /\ approval[q].run \in Runs
       /\ run[approval[q].run].state = "waiting_for_approval"
       /\ run[approval[q].run].pending = q
  /\ \A r \in Runs : run[r].state = "waiting_for_approval" =>
       /\ run[r].pending \in Requests
       /\ approval[run[r].pending].state # Absent
       /\ approval[run[r].pending].run = r

\* A terminal record exists exactly for a terminal run and names its state,
\* also when the run was swept by an ancestor's cancellation before it ended.
TerminalRecorded ==
  \A r \in Runs : terminal[r] = IF Terminal(r) THEN run[r].state ELSE None

\* The history of a run accounts for its snapshot.  Every revision was made by
\* one decided transition id and every decided id made one revision: no
\* transition is applied twice, and a descendant's cancellation is recorded
\* like one it asked for.  And each committed fact put exactly one event on the
\* stream it belongs to: creation, each revision, each child created and each
\* child settled, each approval requested and each approval decided.
HistoryAccounts ==
  \A r \in Runs : run[r].state # Absent =>
    /\ run[r].revision = Cardinality(decided[r])
    /\ sequence[r] = 1 + run[r].revision
         + Cardinality(Children(r))
         + Cardinality({c \in Children(r) : Terminal(c)})
         + Cardinality({q \in Requests : approval[q].run = r})
         + Cardinality({q \in Requests : approval[q].run = r /\ approval[q].state \in SettledApproval})

\* What a completed run tells its caller: nothing is open below it, now or
\* later.  Its children are settled, those it required completed, and none
\* joins it afterwards.
CompletionCovers ==
  \A p \in Runs : run[p].state = "completed" =>
    \A c \in Children(p) :
      /\ Terminal(c)
      /\ relation[c].join = "all_success" => run[c].state = "completed"

(***************************************************************************)
(* Action properties.                                                      *)
(***************************************************************************)
Abandoned(r) ==
  run[r].state \in {"cancelling"} \cup (TerminalRunStates \ {"completed"})

Quiescing(r) ==
  Terminal(r) \/ run[r].state \in {"cancelling", "waiting_for_reconciliation"}

\* The step in which a run is cancelled, fails or expires leaves none of its
\* descendants, at any depth, free to go on: each is settled, cancelling, or
\* parked on an unknown effect.
AbandonReachesDescendants ==
  [][\A p \in Runs : ~Abandoned(p) /\ Abandoned(p)' =>
       \A d \in Descendants(p) : Quiescing(d)']_vars

(***************************************************************************)
(* Refinement of RunPromise.                                               *)
(***************************************************************************)
PhaseOf(r) ==
  IF Terminal(r) THEN run[r].state ELSE IF run[r].state = Absent THEN Absent ELSE "open"

Promise == INSTANCE RunPromise WITH
  Outcomes  <- TerminalRunStates,
  Completed <- "completed",
  Unopened  <- Absent,
  Open      <- "open",
  phase     <- [r \in Runs |-> PhaseOf(r)],
  children  <- [r \in Runs |-> Children(r)],
  required  <- [r \in Runs |-> {c \in Children(r) : relation[c].join = "all_success"}]

\* The store keeps the promise: no run is reopened or settled twice, no
\* sweep settles a descendant, no child is slipped under a settled parent,
\* and no parent completes over unsettled or (all_success) failed children.
KeepsPromise == Promise!Spec
=============================================================================
