--------------------------- MODULE RunStoreProofs ---------------------------
(***************************************************************************)
(* Theorems about RunStore, for any sets of runs, transition ids, approval *)
(* requests and inputs and any limits on the tree; and about               *)
(* OperationGateway, whose ledger the same store keeps beside its runs.    *)
(***************************************************************************)
EXTENDS RunStore, OperationGateway, FiniteSetTheorems, TLAPS

(***************************************************************************)
(* The reducer.                                                            *)
(***************************************************************************)
LEMMA AcceptsLive ==
  ASSUME NEW s, NEW kind, NEW pid, Accepts(s, kind, pid)
  PROVE  s.state \in LiveRunStates
BY DEF Accepts, AllowedFrom, Waiting, WaitKinds, LiveRunStates

LEMMA TargetIsState ==
  ASSUME NEW s, NEW kind \in TransitionKind, NEW pid, Accepts(s, kind, pid)
  PROVE  /\ TargetState(kind, s.state) \in RunState
         /\ TargetState(kind, s.state) = "waiting_for_approval" => kind = "wait_for_approval"
         /\ kind = "wait_for_approval" => TargetState(kind, s.state) = "waiting_for_approval"
BY DEF TransitionKind, Accepts, AllowedFrom, Waiting, WaitKinds, TargetState, Target, RunState,
       LiveRunStates, TerminalRunStates

LEMMA ReduceSnapshot ==
  ASSUME NEW s \in Snapshot, NEW kind \in TransitionKind, NEW pid \in PendingId,
         TargetState(kind, s.state) \in RunState
  PROVE  /\ Reduce(s, kind, pid) \in Snapshot
         /\ Reduce(s, kind, pid).state = TargetState(kind, s.state)
         /\ Reduce(s, kind, pid).revision = s.revision + 1
         /\ kind = "wait_for_approval" => Reduce(s, kind, pid).pending = pid
<1>1. s.revision + 1 \in Nat
  BY DEF Snapshot
<1>2. (IF kind \in WaitKinds THEN pid ELSE IF kind \in PendingClearers THEN None ELSE s.pending)
        \in PendingId
  BY DEF Snapshot, PendingId
<1>3. (s.steering_open /\ kind \notin SteeringClosers) \in BOOLEAN
  OBVIOUS
<1> QED BY <1>1, <1>2, <1>3 DEF Reduce, Snapshot, WaitKinds

(***************************************************************************)
(* The inductive invariant.  The three facts rest on each other only       *)
(* through types: a request is created when its run starts to wait and is  *)
(* decided or cancelled before or when the run stops waiting; a terminal   *)
(* record is written when a live run turns terminal, and terminal runs     *)
(* accept no transition and are spared by every sweep.                     *)
(***************************************************************************)
StoreInv == TypeOK /\ ApprovalsTrackWaits /\ TerminalRecorded

LEMMA StatesDistinct ==
  /\ Absent \notin RunState
  /\ TerminalRunStates \cap LiveRunStates = {}
  /\ "waiting_for_approval" \in LiveRunStates /\ "cancelling" \in LiveRunStates
  /\ "created" \in LiveRunStates /\ RunState = TerminalRunStates \cup LiveRunStates
BY DEF Absent, RunState, TerminalRunStates, LiveRunStates

LEMMA StoreInit == Init => StoreInv
<1> SUFFICES ASSUME Init PROVE StoreInv
  OBVIOUS
<1>1. NewRun(Absent) \in Snapshot
  BY DEF NewRun, Snapshot, PendingId
<1>2. NoRelation \in Relation /\ NoApproval \in ApprovalRequest
  BY DEF NoRelation, Relation, NoApproval, ApprovalRequest
<1>3. TypeOK
  BY <1>1, <1>2 DEF TypeOK, Init
<1>4. \A r \in Runs : run[r].state = Absent
  BY DEF Init, NewRun
<1>5. ApprovalsTrackWaits
  BY <1>4 DEF ApprovalsTrackWaits, Init, NoApproval, Absent
<1>6. TerminalRecorded
  BY <1>4, StatesDistinct DEF TerminalRecorded, Terminal, Init
<1> QED BY <1>3, <1>5, <1>6 DEF StoreInv

LEMMA CreateRunInv ==
  ASSUME StoreInv, NEW r \in Runs, CreateRun(r) PROVE StoreInv'
<1> USE DEF StoreInv
<1>1. NewRun("created") \in Snapshot
  BY StatesDistinct DEF NewRun, Snapshot, PendingId
<1>2. /\ \A x \in Runs \ {r} : run'[x] = run[x]
      /\ run[r].state = Absent /\ run'[r].state = "created"
      /\ UNCHANGED <<terminal, approval>>
  BY DEF CreateRun, TypeOK, NewRun
<1>3. TypeOK'
  BY <1>1 DEF CreateRun, TypeOK
<1>4. ApprovalsTrackWaits'
  BY <1>2 DEF ApprovalsTrackWaits, Absent
<1>5. TerminalRecorded'
  BY <1>2, StatesDistinct DEF TerminalRecorded, Terminal
<1> QED BY <1>3, <1>4, <1>5

LEMMA CreateChildInv ==
  ASSUME StoreInv, NEW c \in Runs, NEW p \in Runs, NEW join \in JoinPolicy, CreateChild(c, p, join)
  PROVE  StoreInv'
<1> USE DEF StoreInv
<1>1. NewRun("created") \in Snapshot
  BY StatesDistinct DEF NewRun, Snapshot, PendingId
<1>2. /\ \A x \in Runs \ {c} : run'[x] = run[x]
      /\ run[c].state = Absent /\ run'[c].state = "created"
      /\ UNCHANGED <<terminal, approval>>
  BY DEF CreateChild, TypeOK, NewRun
<1>3. TypeOK'
  <2>1. [parent |-> p, join |-> join, ancestors |-> relation[p].ancestors \cup {p}] \in Relation
    BY DEF TypeOK, Relation
  <2>2. sequence' \in [Runs -> Nat]
    BY DEF CreateChild, TypeOK
  <2> QED BY <1>1, <2>1, <2>2 DEF CreateChild, TypeOK
<1>4. ApprovalsTrackWaits'
  BY <1>2 DEF ApprovalsTrackWaits, Absent
<1>5. TerminalRecorded'
  BY <1>2, StatesDistinct DEF TerminalRecorded, Terminal
<1> QED BY <1>3, <1>4, <1>5

LEMMA TransitionInv ==
  ASSUME StoreInv, NEW r \in Runs, NEW tid \in Tids, NEW kind \in TransitionKind,
         NEW pid \in PendingId, ApplyTransition(r, tid, kind, pid)
  PROVE  StoreInv'
<1> USE DEF StoreInv
<1> DEFINE after  == Reduce(run[r], kind, pid)
           swept  == CancelledWith(r, kind)
           voided == CancelledRequests(r, kind)
<1>1. /\ run[r].state \in LiveRunStates
      /\ after \in Snapshot
      /\ after.state \in RunState
      /\ after.state = "waiting_for_approval" <=> kind = "wait_for_approval"
      /\ kind = "wait_for_approval" => after.pending = pid
  <2>1. run[r] \in Snapshot /\ Accepts(run[r], kind, pid)
    BY DEF ApplyTransition, TypeOK
  <2> HIDE DEF after
  <2> QED BY <2>1, AcceptsLive, TargetIsState, ReduceSnapshot DEF after
<1>2. \A x \in swept :
        /\ x \in Runs /\ run[x].state \in LiveRunStates
        /\ Reduce(run[x], "request_cancel", None) \in Snapshot
        /\ Reduce(run[x], "request_cancel", None).state = "cancelling"
  <2>1. SUFFICES ASSUME NEW x \in swept
                 PROVE  /\ x \in Runs /\ run[x].state \in LiveRunStates
                        /\ Reduce(run[x], "request_cancel", None) \in Snapshot
                        /\ Reduce(run[x], "request_cancel", None).state = "cancelling"
    OBVIOUS
  <2>2. x \in Runs /\ run[x].state \in LiveRunStates
    BY DEF CancelledWith, Descendants
  <2>3. /\ TargetState("request_cancel", run[x].state) = "cancelling"
        /\ "request_cancel" \in TransitionKind /\ "cancelling" \in RunState
        /\ None \in PendingId /\ run[x] \in Snapshot
    BY <2>2 DEF TargetState, Target, TransitionKind, RunState, LiveRunStates, PendingId, TypeOK
  <2> QED BY <2>2, <2>3, ReduceSnapshot
<1>3. /\ run' = [x \in Runs |->
             IF x = r THEN after
             ELSE IF x \in swept THEN Reduce(run[x], "request_cancel", None)
             ELSE run[x]]
      /\ terminal' = [terminal EXCEPT ![r] = TerminalRecord(after, terminal[r])]
      /\ approval' = [q \in Requests |->
             IF q \in voided THEN [approval[q] EXCEPT !.state = "cancelled"]
             ELSE IF kind = "wait_for_approval" /\ q = pid THEN [state |-> "pending", run |-> r]
             ELSE approval[q]]
      /\ UNCHANGED <<relation, overdue>>
      /\ MayName(r, kind, pid) /\ ResponseValid(r, kind)
  BY DEF ApplyTransition
<1>4. /\ run'[r] = after
      /\ \A x \in swept \ {r} : run'[x].state = "cancelling"
      /\ \A x \in Runs \ ({r} \cup swept) : run'[x] = run[x]
      /\ run' \in [Runs -> Snapshot]
  <2> HIDE DEF after, swept
  <2> QED BY <1>1, <1>2, <1>3 DEF TypeOK
<1>5. TypeOK'
  <2>1. approval' \in [Requests -> ApprovalRequest]
    <3>1. \A q \in Requests : [approval[q] EXCEPT !.state = "cancelled"] \in ApprovalRequest
      BY DEF TypeOK, ApprovalRequest, SettledApproval
    <3>2. [state |-> "pending", run |-> r] \in ApprovalRequest
      BY DEF ApprovalRequest
    <3> HIDE DEF voided
    <3> QED BY <1>3, <3>1, <3>2 DEF TypeOK
  <2>2. terminal' \in [Runs -> TerminalRunStates \cup {None}]
    <3> HIDE DEF after
    <3> QED BY <1>3 DEF TypeOK, TerminalRecord
  <2>3. sequence' \in [Runs -> Nat]
    <3> DEFINE own(x)       == Count(x \in swept \cup {r})
               void(x)      == Count(\E q \in voided : approval[q].run = x)
               requested(x) == Count(x = r /\ kind = "wait_for_approval")
               child(x)     == Count(x = relation[r].parent /\ after.state \in TerminalRunStates)
               events(x)    == sequence[x] + own(x) + void(x) + requested(x) + child(x)
    <3>3. ASSUME NEW x \in Runs PROVE events(x) \in Nat
      <4>1. own(x) \in Nat /\ void(x) \in Nat
        BY DEF Count
      <4>2. requested(x) \in Nat /\ child(x) \in Nat
        BY DEF Count
      <4>3. sequence[x] \in Nat
        BY DEF TypeOK
      <4> HIDE DEF own, void, requested, child
      <4> QED BY <4>1, <4>2, <4>3
    <3>4. sequence' = [x \in Runs |-> events(x)]
      BY DEF ApplyTransition
    <3> HIDE DEF events
    <3> QED BY <3>3, <3>4
  <2>4. decided' \in [Runs -> SUBSET (Tids \cup (Tids \X Runs))]
    <3> HIDE DEF swept
    <3>1. decided' = [x \in Runs |->
             IF x = r THEN decided[x] \cup {tid}
             ELSE IF x \in swept THEN decided[x] \cup {SweepId(tid, x)}
             ELSE decided[x]]
      BY DEF ApplyTransition, swept
    <3>2. \A x \in Runs : SweepId(tid, x) \in Tids \X Runs
      BY DEF SweepId
    <3> QED BY <3>1, <3>2 DEF TypeOK
  <2> QED BY <1>3, <1>4, <2>1, <2>2, <2>3, <2>4 DEF TypeOK
<1>6. ApprovalsTrackWaits'
  <2> HIDE DEF after, swept
  <2>1. ASSUME NEW q \in Requests, approval'[q].state = "pending"
        PROVE  /\ approval'[q].run \in Runs
               /\ run'[approval'[q].run].state = "waiting_for_approval"
               /\ run'[approval'[q].run].pending = q
    <3>1. q \notin voided
      <4> HIDE DEF voided
      <4>1. q \in voided => approval'[q] = [approval[q] EXCEPT !.state = "cancelled"]
        BY <1>3
      <4> QED BY <2>1, <4>1 DEF TypeOK, ApprovalRequest
    <3>2. CASE kind = "wait_for_approval" /\ q = pid
      <4>1. approval'[q] = [state |-> "pending", run |-> r]
        BY <1>3, <3>1, <3>2
      <4> QED BY <4>1, <3>2, <1>1, <1>4
    <3>3. CASE ~(kind = "wait_for_approval" /\ q = pid)
      <4> DEFINE x == approval[q].run
      <4>1. approval'[q] = approval[q]
        BY <1>3, <3>1, <3>3
      <4>2. x \in Runs /\ run[x].state = "waiting_for_approval" /\ run[x].pending = q
        BY <2>1, <4>1 DEF ApprovalsTrackWaits
      <4>3. x \notin swept
        BY <2>1, <3>1, <4>1, <4>2 DEF voided, CancelledRequests, swept
      <4>4. x # r
        <5>1. kind = "respond" => approval[run[r].pending].state # "pending" \/ x # r
          BY <1>3, <4>2 DEF ResponseValid
        <5>2. kind # "respond" => x # r
          BY <2>1, <3>1, <4>1, <4>2 DEF voided, CancelledRequests
        <5> QED BY <2>1, <4>1, <4>2, <5>1, <5>2
      <4> QED BY <1>4, <4>1, <4>2, <4>3, <4>4
    <3> QED BY <3>2, <3>3
  <2>2. ASSUME NEW x \in Runs, run'[x].state = "waiting_for_approval"
        PROVE  /\ run'[x].pending \in Requests
               /\ approval'[run'[x].pending].state # Absent
               /\ approval'[run'[x].pending].run = x
    <3>1. CASE x = r
      <4>1. kind = "wait_for_approval" /\ run'[x].pending = pid
        BY <2>2, <3>1, <1>1, <1>4
      <4>2. pid \in Requests /\ pid \notin voided
        BY <4>1, <1>3 DEF MayName, voided, CancelledRequests, Absent, WaitKinds
      <4>3. approval'[pid] = [state |-> "pending", run |-> r]
        BY <4>1, <4>2, <1>3
      <4> QED BY <3>1, <4>1, <4>2, <4>3 DEF Absent
    <3>2. CASE x # r
      <4>1. run'[x] = run[x]
        BY <2>2, <3>2, <1>4
      <4> DEFINE q == run[x].pending
      <4>2. q \in Requests /\ approval[q].state # Absent /\ approval[q].run = x
        BY <2>2, <4>1 DEF ApprovalsTrackWaits
      <4>3. ~(kind = "wait_for_approval" /\ q = pid)
        BY <4>2, <1>3 DEF MayName, WaitKinds
      <4>4. approval'[q] \in {approval[q], [approval[q] EXCEPT !.state = "cancelled"]}
        BY <4>2, <4>3, <1>3
      <4>5. approval'[q].state # Absent /\ approval'[q].run = x
        BY <4>2, <4>4 DEF TypeOK, ApprovalRequest, Absent
      <4> QED BY <4>1, <4>2, <4>5
    <3> QED BY <3>1, <3>2
  <2> QED BY <2>1, <2>2 DEF ApprovalsTrackWaits
<1>7. TerminalRecorded'
  <2> SUFFICES ASSUME NEW x \in Runs
               PROVE  terminal'[x] = IF run'[x].state \in TerminalRunStates
                                     THEN run'[x].state ELSE None
    BY DEF TerminalRecorded, Terminal
  <2> HIDE DEF after, swept
  <2>1. run[x].state \in LiveRunStates => terminal[x] = None
    BY StatesDistinct DEF TerminalRecorded, Terminal
  <2>2. CASE x = r
    BY <2>1, <2>2, <1>1, <1>3, <1>4 DEF TypeOK, TerminalRecord
  <2>3. CASE x \in swept \ {r}
    <3>1. terminal'[x] = terminal[x]
      BY <2>3, <1>3 DEF TypeOK
    <3> QED BY <2>1, <2>3, <3>1, <1>2, <1>4, StatesDistinct
  <2>4. CASE x \notin swept \cup {r}
    <3>1. terminal'[x] = terminal[x] /\ run'[x] = run[x]
      BY <2>4, <1>3, <1>4 DEF TypeOK
    <3> QED BY <3>1 DEF TerminalRecorded, Terminal
  <2> QED BY <2>2, <2>3, <2>4
<1> QED BY <1>5, <1>6, <1>7

LEMMA SettleApprovalInv ==
  ASSUME StoreInv, NEW q \in Requests, NEW outcome \in {"approved", "denied", "expired"},
         SettleApproval(q, outcome)
  PROVE  StoreInv'
<1> USE DEF StoreInv
<1>1. /\ approval' = [approval EXCEPT ![q].state = outcome]
      /\ outcome \in SettledApproval /\ approval[q].state = "pending"
      /\ UNCHANGED <<run, relation, decided, terminal, overdue>>
  BY DEF SettleApproval, SettledApproval
<1>2. /\ approval' \in [Requests -> ApprovalRequest]
      /\ approval'[q].state = outcome /\ approval'[q].run = approval[q].run
      /\ \A p \in Requests \ {q} : approval'[p] = approval[p]
  BY <1>1 DEF TypeOK, ApprovalRequest
<1>3. TypeOK'
  <2>1. approval[q].run \in Runs
    BY <1>1 DEF ApprovalsTrackWaits
  <2>2. sequence' \in [Runs -> Nat]
    BY <2>1 DEF SettleApproval, TypeOK
  <2> QED BY <1>1, <1>2, <2>2 DEF TypeOK
<1>4. ApprovalsTrackWaits'
  BY <1>1, <1>2 DEF ApprovalsTrackWaits, SettledApproval, Absent
<1>5. TerminalRecorded'
  BY <1>1 DEF TerminalRecorded, Terminal
<1> QED BY <1>3, <1>4, <1>5

LEMMA StoreStep == StoreInv /\ [Next]_vars => StoreInv'
<1> SUFFICES ASSUME StoreInv, [Next]_vars PROVE StoreInv'
  OBVIOUS
<1>1. ASSUME NEW q \in Requests, DeadlinePasses(q) PROVE StoreInv'
  BY <1>1 DEF DeadlinePasses, StoreInv, TypeOK, ApprovalsTrackWaits, TerminalRecorded, Terminal
<1>2. CASE UNCHANGED vars
  BY <1>2 DEF vars, StoreInv, TypeOK, ApprovalsTrackWaits, TerminalRecorded, Terminal
<1> QED
  BY <1>1, <1>2, CreateRunInv, CreateChildInv, TransitionInv, SettleApprovalInv DEF Next

\* Every row of the run store keeps its type.
THEOREM TypeCorrect == Spec => []TypeOK
BY StoreInit, StoreStep, PTL DEF Spec, StoreInv

\* However a run leaves an approval wait, also when an ancestor's failure
\* sweeps it, no request stays pending behind it, and a run that waits has a
\* request of its own: for any tree of runs and any number of requests.
THEOREM ApprovalsNeverOrphaned == Spec => []ApprovalsTrackWaits
BY StoreInit, StoreStep, PTL DEF Spec, StoreInv

\* A terminal record exists exactly for terminal runs and names their state.
THEOREM TerminalRecordsExact == Spec => []TerminalRecorded
BY StoreInit, StoreStep, PTL DEF Spec, StoreInv

-----------------------------------------------------------------------------
(***************************************************************************)
(* The tree of runs.  A run that was not created has no relation row, and  *)
(* the ancestors of an ancestor are ancestors.                             *)
(***************************************************************************)
TreeInv ==
  /\ \A c \in Runs : run[c].state = Absent => relation[c] = NoRelation
  /\ \A d \in Runs : \A p \in relation[d].ancestors :
       run[p].state # Absent /\ relation[p].ancestors \subseteq relation[d].ancestors

\* What a transition leaves behind: the run it names has its target state,
\* the swept runs are cancelling, all others are as they were.
LEMMA TransitionRuns ==
  ASSUME StoreInv, NEW r \in Runs, NEW tid \in Tids, NEW kind \in TransitionKind,
         NEW pid \in PendingId, ApplyTransition(r, tid, kind, pid)
  PROVE  /\ run[r].state \in LiveRunStates
         /\ AllowedFrom(kind, run[r].state)
         /\ run'[r].state = TargetState(kind, run[r].state)
         /\ run'[r].state \in RunState
         /\ \A x \in CancelledWith(r, kind) \ {r} :
              x \in Runs /\ run[x].state \in LiveRunStates /\ run'[x].state = "cancelling"
         /\ \A x \in Runs \ (CancelledWith(r, kind) \cup {r}) : run'[x] = run[x]
         /\ relation' = relation
<1> DEFINE swept == CancelledWith(r, kind)
           after == Reduce(run[r], kind, pid)
<1> USE DEF StoreInv
<1>1. run[r] \in Snapshot /\ Accepts(run[r], kind, pid) /\ relation' = relation
  BY DEF ApplyTransition, TypeOK
<1>2. run' = [x \in Runs |->
             IF x = r THEN after
             ELSE IF x \in swept THEN Reduce(run[x], "request_cancel", None)
             ELSE run[x]]
  BY DEF ApplyTransition
<1>3. after.state = TargetState(kind, run[r].state) /\ TargetState(kind, run[r].state) \in RunState
  BY <1>1, TargetIsState, ReduceSnapshot
<1>4. \A x \in swept : x \in Runs /\ run[x].state \in LiveRunStates
                          /\ Reduce(run[x], "request_cancel", None).state = "cancelling"
  <2>1. SUFFICES ASSUME NEW x \in swept
                 PROVE  x \in Runs /\ run[x].state \in LiveRunStates
                          /\ Reduce(run[x], "request_cancel", None).state = "cancelling"
    OBVIOUS
  <2>2. x \in Runs /\ run[x].state \in LiveRunStates
    BY DEF CancelledWith, Descendants
  <2>3. /\ TargetState("request_cancel", run[x].state) = "cancelling"
        /\ "request_cancel" \in TransitionKind /\ "cancelling" \in RunState
        /\ None \in PendingId /\ run[x] \in Snapshot
    BY <2>2 DEF TargetState, Target, TransitionKind, RunState, LiveRunStates, PendingId, TypeOK
  <2> QED BY <2>2, <2>3, ReduceSnapshot
<1> HIDE DEF swept, after
<1>5. run[r].state \in LiveRunStates /\ AllowedFrom(kind, run[r].state)
  BY <1>1, AcceptsLive DEF Accepts
<1> QED BY <1>1, <1>2, <1>3, <1>4, <1>5 DEF swept

LEMMA TreeInit == Init => TreeInv
BY DEF Init, TreeInv, NewRun, NoRelation

LEMMA TreeStep == StoreInv /\ TreeInv /\ [Next]_vars => TreeInv'
<1> SUFFICES ASSUME StoreInv, TreeInv, [Next]_vars PROVE TreeInv'
  OBVIOUS
<1> USE DEF StoreInv
<1>0. \A d \in Runs : relation[d] \in Relation /\ relation[d].ancestors \subseteq Runs
  BY DEF TypeOK, Relation
<1>1. ASSUME NEW r \in Runs, CreateRun(r) PROVE TreeInv'
  <2>1. \A x \in Runs : run'[x].state = Absent => run[x].state = Absent
    BY <1>1 DEF CreateRun, TypeOK
  <2>2. \A x \in Runs : run[x].state # Absent => run'[x].state # Absent
    BY <1>1 DEF CreateRun, TypeOK
  <2> QED BY <1>0, <1>1, <2>1, <2>2 DEF CreateRun, TreeInv
<1>2. ASSUME NEW c \in Runs, NEW p \in Runs, NEW join \in JoinPolicy, CreateChild(c, p, join)
      PROVE  TreeInv'
  <2>1. /\ run[c].state = Absent /\ run[p].state # Absent /\ c # p
        /\ run'[c].state # Absent
        /\ \A x \in Runs \ {c} : run'[x] = run[x]
    BY <1>2 DEF CreateChild, ValidParent, TypeOK, NewRun, Absent
  <2>2. /\ relation'[c].ancestors = relation[p].ancestors \cup {p}
        /\ \A x \in Runs \ {c} : relation'[x] = relation[x]
    BY <1>2 DEF CreateChild, TypeOK
  <2>3. \A d \in Runs : c \notin relation[d].ancestors
    BY <2>1 DEF TreeInv
  <2> QED BY <1>0, <2>1, <2>2, <2>3 DEF TreeInv
<1>3. ASSUME NEW r \in Runs, NEW tid \in Tids, NEW kind \in TransitionKind,
             NEW pid \in PendingId, ApplyTransition(r, tid, kind, pid)
      PROVE  TreeInv'
  <2>1. relation' = relation /\ \A x \in Runs : (run'[x].state = Absent) <=> (run[x].state = Absent)
    BY <1>3, TransitionRuns, StatesDistinct
  <2> QED BY <1>0, <2>1 DEF TreeInv
<1>4. ASSUME UNCHANGED <<run, relation>> PROVE TreeInv'
  BY <1>4 DEF TreeInv
<1> QED
  BY <1>1, <1>2, <1>3, <1>4 DEF Next, vars, SettleApproval, DeadlinePasses

LEMMA CoverStep == StoreInv /\ TreeInv /\ CompletionCovers /\ [Next]_vars => CompletionCovers'
<1> SUFFICES ASSUME StoreInv, TreeInv, CompletionCovers, [Next]_vars,
                    NEW p \in Runs, run'[p].state = "completed",
                    NEW c \in Runs, relation'[c].parent = p
             PROVE  /\ run'[c].state \in TerminalRunStates
                    /\ relation'[c].join = "all_success" => run'[c].state = "completed"
  BY DEF CompletionCovers, Children, Terminal
<1> USE DEF StoreInv
<1>0. p # None
  BY RunsFinite
<1>1. ASSUME NEW r \in Runs, CreateRun(r)
      PROVE  run'[p] = run[p] /\ run'[c] = run[c] /\ relation'[c] = relation[c]
  BY <1>0, <1>1 DEF CreateRun, TypeOK, NewRun, TreeInv, NoRelation
<1>2. ASSUME NEW x \in Runs, NEW y \in Runs, NEW join \in JoinPolicy, CreateChild(x, y, join)
      PROVE  run'[p] = run[p] /\ run'[c] = run[c] /\ relation'[c] = relation[c]
  <2>1. /\ run'[x].state = "created" /\ \A z \in Runs \ {x} : run'[z] = run[z]
        /\ relation'[x].parent = y /\ \A z \in Runs \ {x} : relation'[z] = relation[z]
        /\ run[y].state = "running" /\ run[x].state = Absent
    BY <1>2 DEF CreateChild, ValidParent, TypeOK, NewRun
  <2>2. x # p /\ x # y /\ run'[y].state = "running"
    BY <2>1 DEF Absent
  <2> QED BY <2>1, <2>2
<1>3. ASSUME NEW r \in Runs, NEW tid \in Tids, NEW kind \in TransitionKind,
             NEW pid \in PendingId, ApplyTransition(r, tid, kind, pid)
      PROVE  /\ run'[c].state \in TerminalRunStates
             /\ relation'[c].join = "all_success" => run'[c].state = "completed"
  <2>1. /\ relation' = relation
        /\ \A x \in Runs : run[x].state \in TerminalRunStates => run'[x] = run[x]
    BY <1>3, TransitionRuns, StatesDistinct
  <2>2. CASE p = r
    <3>1. kind = "complete"
      BY <1>3, <2>2, TransitionRuns DEF TargetState, Target, TransitionKind, LiveRunStates
    <3> QED BY <1>3, <2>1, <2>2, <3>1 DEF ApplyTransition, ChildJoinHolds, Children, Terminal
  <2>3. CASE p # r
    <3>1. run[p].state = "completed"
      BY <1>3, <2>3, TransitionRuns
    <3> QED BY <2>1, <3>1 DEF CompletionCovers, Children, Terminal
  <2> QED BY <2>2, <2>3
<1>4. ASSUME run'[p] = run[p], run'[c] = run[c], relation'[c] = relation[c]
      PROVE  /\ run'[c].state \in TerminalRunStates
             /\ relation'[c].join = "all_success" => run'[c].state = "completed"
  BY <1>4 DEF CompletionCovers, Children, Terminal
<1>5. ASSUME UNCHANGED <<run, relation>>
      PROVE  run'[p] = run[p] /\ run'[c] = run[c] /\ relation'[c] = relation[c]
  BY <1>5
<1> QED
  BY <1>1, <1>2, <1>3, <1>4, <1>5 DEF Next, vars, SettleApproval, DeadlinePasses

\* A completed run has nothing open below it, and no required child of it
\* settled as anything but completed.
THEOREM CompletionIsCovered == Spec => []CompletionCovers
<1>1. Init => CompletionCovers
  BY DEF Init, CompletionCovers, NewRun, Absent
<1> QED BY <1>1, StoreInit, StoreStep, TreeInit, TreeStep, CoverStep, PTL DEF Spec

LEMMA AbandonStep ==
  StoreInv /\ TreeInv /\ [Next]_vars =>
    \A p \in Runs : ~Abandoned(p) /\ Abandoned(p)' => \A d \in Descendants(p) : Quiescing(d)'
<1> SUFFICES ASSUME StoreInv, TreeInv, [Next]_vars,
                    NEW p \in Runs, ~Abandoned(p), Abandoned(p)',
                    NEW d \in Descendants(p)
             PROVE  Quiescing(d)'
  OBVIOUS
<1> USE DEF StoreInv
<1>0. d \in Runs /\ p \in relation[d].ancestors /\ run[d].state \in RunState
  BY DEF Descendants, TreeInv, NoRelation, TypeOK, Snapshot
<1>1. PICK r \in Runs, tid \in Tids, kind \in TransitionKind, pid \in PendingId :
        ApplyTransition(r, tid, kind, pid)
  <2>1. ASSUME NEW x \in Runs, CreateRun(x) PROVE FALSE
    BY <2>1 DEF CreateRun, TypeOK, NewRun, Abandoned, TerminalRunStates
  <2>2. ASSUME NEW c \in Runs, NEW x \in Runs, NEW join \in JoinPolicy, CreateChild(c, x, join)
        PROVE  FALSE
    BY <2>2 DEF CreateChild, TypeOK, NewRun, Abandoned, TerminalRunStates
  <2> QED BY <2>1, <2>2 DEF Next, vars, SettleApproval, DeadlinePasses, Abandoned
<1> DEFINE swept == CancelledWith(r, kind)
<1>2. kind \in PropagatingKinds /\ (p = r \/ p \in swept)
  <2>1. CASE p = r
    BY <2>1, <1>1, TransitionRuns
       DEF Abandoned, AllowedFrom, TargetState, Target, TransitionKind, PropagatingKinds,
           TerminalRunStates, WaitKinds, Waiting, LiveRunStates
  <2>2. CASE p # r
    BY <2>2, <1>1, TransitionRuns DEF Abandoned, CancelledWith
  <2> QED BY <2>1, <2>2
<1>3. d \in Descendants(r) \/ d = r
  BY <1>0, <1>2 DEF CancelledWith, Descendants, TreeInv
<1>4. CASE d = r
  <2>1. run'[r].state \in {"cancelling"} \cup TerminalRunStates
    BY <1>1, <1>2, TransitionRuns
       DEF PropagatingKinds, TargetState, Target, TerminalRunStates
  <2> QED BY <1>4, <2>1 DEF Quiescing, Terminal
<1>5. CASE d # r /\ d \in swept
  BY <1>1, <1>5, TransitionRuns DEF Quiescing
<1>6. CASE d # r /\ d \notin swept
  <2>1. run'[d] = run[d]
    BY <1>0, <1>1, <1>6, TransitionRuns
  <2>2. run[d].state \in TerminalRunStates \cup {"cancelling", "waiting_for_reconciliation"}
    BY <1>0, <1>2, <1>3, <1>6 DEF CancelledWith, RunState
  <2> QED BY <2>1, <2>2 DEF Quiescing, Terminal
<1> QED BY <1>4, <1>5, <1>6

\* The step in which a run is cancelled, fails or expires leaves no live
\* descendant to go on, however deep the tree.
THEOREM AbandonmentReachesAll == Spec => AbandonReachesDescendants
BY StoreInit, StoreStep, TreeInit, TreeStep, AbandonStep, PTL DEF Spec, AbandonReachesDescendants

-----------------------------------------------------------------------------
(***************************************************************************)
(* Refinement: every step of the store is a step of RunPromise or leaves   *)
(* its variables alone.                                                    *)
(***************************************************************************)
Required(p) == {c \in Children(p) : relation[c].join = "all_success"}

\* Steps that touch neither phases nor relations are stutters of the promise.
LEMMA PromiseStutter ==
  ASSUME \A r \in Runs : PhaseOf(r)' = PhaseOf(r), relation' = relation
  PROVE  UNCHANGED Promise!promiseVars
BY DEF Promise!promiseVars, Children

LEMMA PromiseInit == Init => Promise!Init
<1> SUFFICES ASSUME Init PROVE Promise!Init
  OBVIOUS
<1>1. \A r \in Runs : PhaseOf(r) = Absent
  BY StatesDistinct DEF Init, PhaseOf, Terminal, NewRun
<1>2. \A r \in Runs : Children(r) = {}
  BY RunsFinite DEF Init, Children, NoRelation
<1> QED BY <1>1, <1>2 DEF Promise!Init

LEMMA PromiseStep ==
  StoreInv /\ TreeInv /\ [Next]_vars => [Promise!Next]_(Promise!promiseVars)
<1> SUFFICES ASSUME StoreInv, TreeInv, [Next]_vars
             PROVE  Promise!Next \/ UNCHANGED Promise!promiseVars
  OBVIOUS
<1> USE DEF StoreInv
<1>1. ASSUME NEW r \in Runs, CreateRun(r) PROVE Promise!OpenRoot(r)
  <2>1. relation' = relation /\ run[r].state = Absent /\ run'[r].state = "created"
        /\ \A x \in Runs \ {r} : run'[x] = run[x]
    BY <1>1 DEF CreateRun, TypeOK, NewRun
  <2>2. PhaseOf(r) = Absent /\ PhaseOf(r)' = "open" /\ \A x \in Runs \ {r} : PhaseOf(x)' = PhaseOf(x)
    BY <2>1, StatesDistinct DEF PhaseOf, Terminal, Absent
  <2>3. \A x \in Runs : Children(x)' = Children(x) /\ Required(x)' = Required(x)
    BY <2>1 DEF Children, Required
  <2> QED BY <2>2, <2>3 DEF Promise!OpenRoot, Required
<1>2. ASSUME NEW c \in Runs, NEW p \in Runs, NEW join \in JoinPolicy, CreateChild(c, p, join)
      PROVE  Promise!OpenChild(c, p)
  <2>1. /\ run[c].state = Absent /\ run'[c].state = "created" /\ run[p].state = "running"
        /\ \A x \in Runs \ {c} : run'[x] = run[x]
        /\ relation[c].parent = None /\ relation'[c].parent = p /\ relation'[c].join = join
        /\ \A x \in Runs \ {c} : relation'[x] = relation[x]
    BY <1>2 DEF CreateChild, ValidParent, TypeOK, NewRun, TreeInv, NoRelation
  <2>2. PhaseOf(c) = Absent /\ PhaseOf(p) = "open" /\ PhaseOf(c)' = "open"
        /\ \A x \in Runs \ {c} : PhaseOf(x)' = PhaseOf(x)
    BY <2>1, StatesDistinct DEF PhaseOf, Terminal, Absent, TerminalRunStates
  <2>3. /\ Children(p)' = Children(p) \cup {c}
        /\ \A x \in Runs \ {p} : Children(x)' = Children(x)
    BY <2>1, RunsFinite DEF Children
  <2>4. /\ Required(p)' = IF join = "all_success" THEN Required(p) \cup {c} ELSE Required(p)
        /\ \A x \in Runs \ {p} : Required(x)' = Required(x)
    BY <2>1, RunsFinite DEF Children, Required
  <2> QED BY <2>2, <2>3, <2>4 DEF Promise!OpenChild, Required
<1>3. ASSUME NEW r \in Runs, NEW tid \in Tids, NEW kind \in TransitionKind,
             NEW pid \in PendingId, ApplyTransition(r, tid, kind, pid)
      PROVE  Promise!Next \/ UNCHANGED Promise!promiseVars
  <2>1. relation' = relation /\ PhaseOf(r) = "open"
        /\ \A x \in Runs \ {r} : PhaseOf(x)' = PhaseOf(x)
    BY <1>3, TransitionRuns, StatesDistinct DEF PhaseOf, Terminal
  <2>2. CASE run'[r].state \notin TerminalRunStates
    <3>1. PhaseOf(r)' = "open"
      BY <1>3, <2>2, TransitionRuns, StatesDistinct DEF PhaseOf, Terminal
    <3> QED BY <2>1, <3>1, PromiseStutter
  <2>3. CASE run'[r].state \in TerminalRunStates
    <3> DEFINE outcome == run'[r].state
    <3>1. PhaseOf(r)' = outcome
      BY <2>3 DEF PhaseOf, Terminal
    <3>2. \A x \in Runs : Children(x)' = Children(x) /\ Required(x)' = Required(x)
      BY <2>1 DEF Children, Required
    <3>3. outcome = "completed" => ChildJoinHolds(r)
      <4>1. outcome = "completed" => kind = "complete"
        BY <1>3, TransitionRuns DEF TargetState, Target, TransitionKind, LiveRunStates
      <4> QED BY <1>3, <4>1 DEF ApplyTransition
    <3>4. outcome = "completed" =>
            /\ \A c \in Children(r) : PhaseOf(c) \in TerminalRunStates
            /\ \A c \in Required(r) : PhaseOf(c) = "completed"
      BY <3>3 DEF ChildJoinHolds, PhaseOf, Terminal, Required
    <3>5. /\ \A c \in Children(r) : c \in Runs
          /\ \A c \in Required(r) : c \in Runs
      BY DEF Children, Required
    <3>6. Promise!Settle(r)
      BY <2>1, <2>3, <3>1, <3>2, <3>4, <3>5 DEF Promise!Settle, Promise!MayComplete, Required
    <3> QED BY <2>3, <3>6 DEF Promise!Next
  <2> QED BY <2>2, <2>3
<1>4. ASSUME UNCHANGED <<run, relation>> PROVE UNCHANGED Promise!promiseVars
  BY <1>4, PromiseStutter DEF PhaseOf, Terminal
<1> QED
  BY <1>1, <1>2, <1>3, <1>4 DEF Next, vars, SettleApproval, DeadlinePasses, Promise!Next

\* The run store implements the abstract promise: runs open once and under
\* open parents, settle once and one at a time, and no parent completes over
\* children it must wait for, whatever the tree.
THEOREM StoreKeepsPromise == Spec => KeepsPromise
BY StoreInit, StoreStep, TreeInit, TreeStep, PromiseInit, PromiseStep, PTL
   DEF Spec, KeepsPromise, Promise!Spec
-----------------------------------------------------------------------------
(***************************************************************************)
(* The history of a run.  Counting is safe because nothing is counted      *)
(* twice: a transition that would decide an id again, on its own run or on *)
(* one it sweeps, is not applied at all; a run that is not there yet has   *)
(* no past; and of the requests of one run at most the one it waits on can *)
(* be open.                                                                *)
(***************************************************************************)
HistoryInv ==
  /\ \A r \in Runs : IsFiniteSet(decided[r])
  /\ \A r \in Runs : run[r].state = Absent => decided[r] = {} /\ run[r].revision = 0
  /\ \A c \in Runs : relation[c].parent # None => relation[c].parent \in relation[c].ancestors
  /\ \A q \in Requests :
       IF approval[q].state = Absent THEN approval[q].run = None
       ELSE approval[q].run \in Runs /\ run[approval[q].run].state # Absent

SettledChildren(x) == {c \in Children(x) : Terminal(c)}
Asked(x)           == {q \in Requests : approval[q].run = x}
Answered(x)        == {q \in Requests : approval[q].run = x /\ approval[q].state \in SettledApproval}

Accounted(x) ==
  /\ run[x].revision = Cardinality(decided[x])
  /\ sequence[x] = 1 + run[x].revision + Cardinality(Children(x)) + Cardinality(SettledChildren(x))
       + Cardinality(Asked(x)) + Cardinality(Answered(x))

LEMMA AccountsByRun ==
  HistoryAccounts <=> \A x \in Runs : run[x].state # Absent => Accounted(x)
BY DEF HistoryAccounts, Accounted, SettledChildren, Asked, Answered

LEMMA AccountsByRunThen ==
  HistoryAccounts' <=> \A x \in Runs : run'[x].state # Absent => Accounted(x)'
BY DEF HistoryAccounts, Accounted, SettledChildren, Asked, Answered

\* The sets an account counts are finite, before and after a step.
LEMMA CountedFinite ==
  ASSUME NEW x \in Runs
  PROVE  /\ IsFiniteSet(Children(x)) /\ IsFiniteSet(SettledChildren(x))
         /\ IsFiniteSet(Asked(x)) /\ IsFiniteSet(Answered(x))
         /\ IsFiniteSet(Children(x)') /\ IsFiniteSet(SettledChildren(x)')
         /\ IsFiniteSet(Asked(x)') /\ IsFiniteSet(Answered(x)')
<1>1. \A S \in SUBSET Runs : IsFiniteSet(S)
  BY RunsFinite, FS_Subset
<1>2. \A S \in SUBSET Requests : IsFiniteSet(S)
  BY RequestsDistinct, FS_Subset
<1>3. /\ Children(x) \in SUBSET Runs /\ SettledChildren(x) \in SUBSET Runs
      /\ Children(x)' \in SUBSET Runs /\ SettledChildren(x)' \in SUBSET Runs
  BY DEF Children, SettledChildren
<1>4. /\ Asked(x) \in SUBSET Requests /\ Answered(x) \in SUBSET Requests
      /\ Asked(x)' \in SUBSET Requests /\ Answered(x)' \in SUBSET Requests
  BY DEF Asked, Answered
<1> QED BY <1>1, <1>2, <1>3, <1>4

\* A set that gains one new element exactly when a condition holds.
LEMMA GainsOne ==
  ASSUME NEW S, NEW T, NEW e, NEW gain \in BOOLEAN, IsFiniteSet(S),
         T = IF gain THEN S \cup {e} ELSE S, gain => e \notin S
  PROVE  /\ IsFiniteSet(T) /\ Cardinality(T) = Cardinality(S) + Count(gain)
         /\ Cardinality(S) \in Nat
<1>1. Cardinality(S) \in Nat
  BY FS_CardinalityType
<1>2. IsFiniteSet(S \cup {e}) /\ (e \notin S => Cardinality(S \cup {e}) = Cardinality(S) + 1)
  BY FS_AddElement
<1> QED BY <1>1, <1>2 DEF Count

\* An account stays balanced when each ledger and the event stream grow alike.
LEMMA AccountGrows ==
  ASSUME NEW x \in Runs, Accounted(x), IsFiniteSet(decided[x]),
         NEW a \in Nat, NEW b \in Nat, NEW c \in Nat, NEW d \in Nat, NEW e \in Nat,
         run'[x].revision = run[x].revision + a,
         Cardinality(decided'[x]) = Cardinality(decided[x]) + a,
         Cardinality(Children(x)') = Cardinality(Children(x)) + b,
         Cardinality(SettledChildren(x)') = Cardinality(SettledChildren(x)) + c,
         Cardinality(Asked(x)') = Cardinality(Asked(x)) + d,
         Cardinality(Answered(x)') = Cardinality(Answered(x)) + e,
         sequence'[x] = sequence[x] + a + e + d + c + b
  PROVE  Accounted(x)'
<1>1. /\ Cardinality(decided[x]) \in Nat /\ Cardinality(Children(x)) \in Nat
      /\ Cardinality(SettledChildren(x)) \in Nat
      /\ Cardinality(Asked(x)) \in Nat /\ Cardinality(Answered(x)) \in Nat
  BY CountedFinite, FS_CardinalityType
<1> QED BY <1>1 DEF Accounted

\* An account that nothing happened to.
LEMMA AccountStays ==
  ASSUME NEW x \in Runs, Accounted(x), run'[x].revision = run[x].revision,
         decided'[x] = decided[x], Children(x)' = Children(x),
         SettledChildren(x)' = SettledChildren(x), Asked(x)' = Asked(x),
         Answered(x)' = Answered(x), sequence'[x] = sequence[x]
  PROVE  Accounted(x)'
BY DEF Accounted

\* The first account of a run: one event, and nothing else yet.
LEMMA AccountOpens ==
  ASSUME NEW x \in Runs, run'[x].revision = 0, decided'[x] = {}, Children(x)' = {},
         Asked(x)' = {}, sequence'[x] = 1
  PROVE  Accounted(x)'
<1>1. SettledChildren(x)' = {} /\ Answered(x)' = {}
  BY DEF SettledChildren, Answered, Asked
<1>2. Cardinality({}) = 0
  BY FS_EmptySet
<1> QED BY <1>1, <1>2 DEF Accounted

\* A run that is not there yet has no children and no requests.
LEMMA AbsentHasNoPast ==
  ASSUME StoreInv, TreeInv, HistoryInv, NEW r \in Runs, run[r].state = Absent
  PROVE  Children(r) = {} /\ Asked(r) = {}
<1>1. \A c \in Runs : relation[c].parent # r
  BY RunsFinite DEF TreeInv, HistoryInv
<1>2. \A q \in Requests : approval[q].run # r
  BY RunsFinite DEF HistoryInv
<1> QED BY <1>1, <1>2 DEF Children, Asked

LEMMA HistoryInit == Init => HistoryInv /\ HistoryAccounts
<1> SUFFICES ASSUME Init PROVE HistoryInv /\ HistoryAccounts
  OBVIOUS
<1>1. \A r \in Runs : run[r].state = Absent /\ run[r].revision = 0 /\ decided[r] = {}
  BY DEF Init, NewRun
<1>2. \A q \in Requests : approval[q].state = Absent /\ approval[q].run = None
  BY DEF Init, NoApproval
<1>3. HistoryInv
  BY <1>1, <1>2, FS_EmptySet DEF HistoryInv, Init, NoRelation
<1> QED BY <1>1, <1>3 DEF HistoryAccounts

LEMMA CreateRunHistory ==
  ASSUME StoreInv, TreeInv, HistoryInv, HistoryAccounts, NEW r \in Runs, CreateRun(r)
  PROVE  HistoryInv' /\ HistoryAccounts'
<1> USE DEF StoreInv
<1>1. /\ run[r].state = Absent /\ run'[r].state = "created" /\ run'[r].revision = 0
      /\ \A x \in Runs \ {r} : run'[x] = run[x] /\ sequence'[x] = sequence[x]
      /\ sequence'[r] = 1
      /\ UNCHANGED <<relation, decided, approval>>
  BY DEF CreateRun, TypeOK, NewRun
<1>2. HistoryInv'
  BY <1>1 DEF HistoryInv, Absent
<1>3. Children(r) = {} /\ Asked(r) = {} /\ decided[r] = {}
  BY <1>1, AbsentHasNoPast DEF HistoryInv
<1>4. ASSUME NEW x \in Runs
      PROVE  /\ Children(x)' = Children(x) /\ Asked(x)' = Asked(x) /\ Answered(x)' = Answered(x)
             /\ SettledChildren(x)' = SettledChildren(x)
  <2>1. \A c \in Runs : (run'[c].state \in TerminalRunStates) <=> (run[c].state \in TerminalRunStates)
    BY <1>1, StatesDistinct
  <2> QED BY <1>1, <2>1 DEF Children, Asked, Answered, SettledChildren, Terminal
<1>5. ASSUME NEW x \in Runs, run'[x].state # Absent PROVE Accounted(x)'
  <2>1. CASE x = r
    BY <2>1, <1>1, <1>3, <1>4, AccountOpens
  <2>2. CASE x # r
    <3>1. Accounted(x)
      BY <2>2, <1>1, <1>5, AccountsByRun
    <3> QED BY <2>2, <3>1, <1>1, <1>4, AccountStays
  <2> QED BY <2>1, <2>2
<1> QED BY <1>2, <1>5, AccountsByRunThen

LEMMA CreateChildHistory ==
  ASSUME StoreInv, TreeInv, HistoryInv, HistoryAccounts,
         NEW c \in Runs, NEW p \in Runs, NEW join \in JoinPolicy, CreateChild(c, p, join)
  PROVE  HistoryInv' /\ HistoryAccounts'
<1> USE DEF StoreInv
<1>1. /\ run[c].state = Absent /\ run'[c].state = "created" /\ run'[c].revision = 0
      /\ run[p].state # Absent /\ c # p
      /\ \A x \in Runs \ {c} : run'[x] = run[x]
      /\ UNCHANGED <<decided, approval>>
  BY DEF CreateChild, ValidParent, TypeOK, NewRun, Absent
<1>2. /\ relation[c].parent = None
      /\ relation'[c].parent = p /\ relation'[c].ancestors = relation[p].ancestors \cup {p}
      /\ \A x \in Runs \ {c} : relation'[x] = relation[x]
  BY <1>1 DEF CreateChild, TypeOK, TreeInv, NoRelation
<1>3. /\ sequence'[c] = 1 /\ sequence'[p] = sequence[p] + 1
      /\ \A x \in Runs \ {c, p} : sequence'[x] = sequence[x]
  BY <1>1 DEF CreateChild, TypeOK
<1>4. HistoryInv'
  BY <1>1, <1>2 DEF HistoryInv, Absent
<1>5. Children(c) = {} /\ Asked(c) = {} /\ decided[c] = {}
  BY <1>1, AbsentHasNoPast DEF HistoryInv
<1>6. ASSUME NEW x \in Runs
      PROVE  /\ Children(x)' = IF x = p THEN Children(x) \cup {c} ELSE Children(x)
             /\ c \notin Children(x)
             /\ Asked(x)' = Asked(x) /\ Answered(x)' = Answered(x)
             /\ SettledChildren(x)' = SettledChildren(x)
  <2>1. /\ \A y \in Runs : (run'[y].state \in TerminalRunStates) <=> (run[y].state \in TerminalRunStates)
        /\ run'[c].state \notin TerminalRunStates
    BY <1>1, StatesDistinct
  <2>2. x # None
    BY RunsFinite
  <2>3. Children(x)' = (IF x = p THEN Children(x) \cup {c} ELSE Children(x)) /\ c \notin Children(x)
    BY <1>2, <2>2 DEF Children
  <2>4. \A y \in Children(x) : y \in Runs
    BY DEF Children
  <2>5. SettledChildren(x)' = SettledChildren(x)
    BY <2>1, <2>3, <2>4 DEF SettledChildren, Terminal
  <2> QED BY <1>1, <2>3, <2>5 DEF Asked, Answered
<1>7. ASSUME NEW x \in Runs, run'[x].state # Absent PROVE Accounted(x)'
  <2>1. CASE x = c
    BY <2>1, <1>1, <1>3, <1>5, <1>6, AccountOpens
  <2>2. CASE x = p
    <3>1. Accounted(x) /\ IsFiniteSet(decided[x])
      BY <2>2, <1>1, AccountsByRun DEF HistoryInv
    <3>2. Cardinality(Children(x)') = Cardinality(Children(x)) + 1
      BY <2>2, <1>6, CountedFinite, FS_AddElement
    <3>3. /\ Cardinality(decided[x]) \in Nat /\ Cardinality(SettledChildren(x)) \in Nat
          /\ Cardinality(Asked(x)) \in Nat /\ Cardinality(Answered(x)) \in Nat
          /\ sequence[x] \in Nat /\ run[x].revision \in Nat
      BY <3>1, CountedFinite, FS_CardinalityType DEF TypeOK, Snapshot
    <3>4. /\ run'[x] = run[x] /\ decided'[x] = decided[x] /\ sequence'[x] = sequence[x] + 1
          /\ SettledChildren(x)' = SettledChildren(x)
          /\ Asked(x)' = Asked(x) /\ Answered(x)' = Answered(x)
      BY <2>2, <1>1, <1>3, <1>6
    <3>5. Cardinality(Children(x)) \in Nat
      BY CountedFinite, FS_CardinalityType
    <3> QED BY <3>1, <3>2, <3>3, <3>4, <3>5 DEF Accounted
  <2>3. CASE x \notin {c, p}
    <3>1. Accounted(x)
      BY <2>3, <1>1, <1>7, AccountsByRun
    <3> QED BY <2>3, <3>1, <1>1, <1>3, <1>6, AccountStays
  <2> QED BY <2>1, <2>2, <2>3
<1> QED BY <1>4, <1>7, AccountsByRunThen

LEMMA TransitionHistory ==
  ASSUME StoreInv, TreeInv, HistoryInv, HistoryAccounts, NEW r \in Runs, NEW tid \in Tids,
         NEW kind \in TransitionKind, NEW pid \in PendingId, ApplyTransition(r, tid, kind, pid)
  PROVE  HistoryInv' /\ HistoryAccounts'
<1> USE DEF StoreInv
<1> DEFINE after     == Reduce(run[r], kind, pid)
           swept     == CancelledWith(r, kind)
           voided    == CancelledRequests(r, kind)
           ends      == after.state \in TerminalRunStates
           requested == kind = "wait_for_approval"
\* What the transition writes.
<1>1. /\ run[r].state \in LiveRunStates /\ run'[r].state \in RunState
      /\ \A x \in swept \ {r} :
           x \in Runs /\ run[x].state \in LiveRunStates /\ run'[x].state = "cancelling"
      /\ \A x \in Runs \ (swept \cup {r}) : run'[x] = run[x]
      /\ relation' = relation
  BY TransitionRuns
<1>2. /\ run' = [x \in Runs |->
             IF x = r THEN after
             ELSE IF x \in swept THEN Reduce(run[x], "request_cancel", None)
             ELSE run[x]]
      /\ decided' = [x \in Runs |->
             IF x = r THEN decided[x] \cup {tid}
             ELSE IF x \in swept THEN decided[x] \cup {SweepId(tid, x)}
             ELSE decided[x]]
      /\ approval' = [q \in Requests |->
             IF q \in voided THEN [approval[q] EXCEPT !.state = "cancelled"]
             ELSE IF kind = "wait_for_approval" /\ q = pid THEN [state |-> "pending", run |-> r]
             ELSE approval[q]]
      /\ sequence' = [x \in Runs |->
             sequence[x] + Count(x \in swept \cup {r}) + Count(\E q \in voided : approval[q].run = x)
               + Count(x = r /\ kind = "wait_for_approval")
               + Count(x = relation[r].parent /\ ends)]
  BY DEF ApplyTransition
<1>3. /\ MayName(r, kind, pid) /\ tid \notin decided[r]
      /\ \A x \in swept : SweepId(tid, x) \notin decided[x]
      /\ run[r] \in Snapshot /\ Accepts(run[r], kind, pid)
  BY DEF ApplyTransition, Undecided, SweepsAreNew, TypeOK
<1>4. /\ \A x \in swept : x \in Runs
      /\ \A x \in Runs : x \in swept \cup {r} => run'[x].revision = run[x].revision + 1
  <2>1. \A x \in swept : x \in Runs
    BY DEF CancelledWith, Descendants
  <2>2. run'[r].revision = run[r].revision + 1
    BY <1>2, <1>3 DEF Reduce, Snapshot
  <2>3. ASSUME NEW x \in swept, x # r PROVE run'[x].revision = run[x].revision + 1
    <3>1. run[x] \in Snapshot /\ run'[x] = Reduce(run[x], "request_cancel", None)
      BY <1>2, <2>1, <2>3 DEF TypeOK
    <3> QED BY <3>1 DEF Reduce, Snapshot
  <2> QED BY <2>1, <2>2, <2>3
\* The requests it settles were pending, each the one its run waits on.
<1>5. \A q \in voided : q \in Requests /\ approval[q].state = "pending"
                          /\ approval[q].run \in Runs /\ q = run[approval[q].run].pending
  BY DEF CancelledRequests, ApprovalsTrackWaits
<1>6. requested => pid \in Requests /\ approval[pid].state = Absent /\ approval[pid].run = None
  BY <1>3 DEF MayName, WaitKinds, HistoryInv
<1>7. \A q \in Requests :
        /\ q \in voided => approval'[q].state = "cancelled" /\ approval'[q].run = approval[q].run
        /\ requested /\ q = pid => approval'[q].state = "pending" /\ approval'[q].run = r
        /\ q \notin voided /\ ~(requested /\ q = pid) => approval'[q] = approval[q]
  <2>1. requested => pid \notin voided
    BY <1>5, <1>6 DEF Absent
  <2>2. \A q \in Requests :
          /\ [approval[q] EXCEPT !.state = "cancelled"].state = "cancelled"
          /\ [approval[q] EXCEPT !.state = "cancelled"].run = approval[q].run
    BY DEF TypeOK, ApprovalRequest
  <2> HIDE DEF voided
  <2> QED BY <1>2, <2>1, <2>2
<1>8. (run'[r].state \in TerminalRunStates) <=> ends
  BY <1>2
<1> HIDE DEF after, swept, voided, ends, requested
<1>9. HistoryInv'
  <2>1. \A x \in Runs : IsFiniteSet(decided'[x])
    <3>1. ASSUME NEW x \in Runs PROVE IsFiniteSet(decided'[x])
      <4>1. IsFiniteSet(decided[x])
        BY DEF HistoryInv
      <4>2. IsFiniteSet(decided[x] \cup {tid}) /\ IsFiniteSet(decided[x] \cup {SweepId(tid, x)})
        BY <4>1, FS_AddElement
      <4> QED BY <1>2, <4>1, <4>2
    <3> QED BY <3>1
  <2>2. \A x \in Runs : /\ run'[x].state = Absent <=> run[x].state = Absent
                        /\ run[x].state = Absent => run'[x] = run[x] /\ x # r /\ x \notin swept
    BY <1>1, <1>4, StatesDistinct
  <2>3. \A x \in Runs : run'[x].state = Absent => decided'[x] = {} /\ run'[x].revision = 0
    BY <1>2, <2>2 DEF HistoryInv
  <2>4. \A c \in Runs : relation'[c].parent # None => relation'[c].parent \in relation'[c].ancestors
    BY <1>1 DEF HistoryInv
  <2>5. ASSUME NEW q \in Requests
        PROVE  IF approval'[q].state = Absent THEN approval'[q].run = None
               ELSE approval'[q].run \in Runs /\ run'[approval'[q].run].state # Absent
    <3>1. CASE q \in voided
      BY <3>1, <1>5, <1>7, <2>2 DEF HistoryInv, Absent
    <3>2. CASE requested /\ q = pid
      BY <3>2, <1>1, <1>7, <2>2, StatesDistinct DEF Absent
    <3>3. CASE q \notin voided /\ ~(requested /\ q = pid)
      BY <3>3, <1>7, <2>2 DEF HistoryInv
    <3> QED BY <3>1, <3>2, <3>3
  <2> QED BY <2>1, <2>3, <2>4, <2>5 DEF HistoryInv
<1>10. ASSUME NEW x \in Runs, run'[x].state # Absent PROVE Accounted(x)'
  <2>1. Accounted(x) /\ IsFiniteSet(decided[x])
    <3>1. run[x].state # Absent
      BY <1>1, <1>4, <1>10, StatesDistinct
    <3> QED BY <3>1, AccountsByRun DEF HistoryInv
  <2> DEFINE moved   == x \in swept \cup {r}
             void    == \E q \in voided : approval[q].run = x
             asks    == x = r /\ requested
             settles == x = relation[r].parent /\ ends
  <2>2. moved \in BOOLEAN /\ void \in BOOLEAN /\ asks \in BOOLEAN /\ settles \in BOOLEAN
    OBVIOUS
  <2>3. Cardinality(decided'[x]) = Cardinality(decided[x]) + Count(moved)
    <3> DEFINE id == IF x = r THEN tid ELSE SweepId(tid, x)
    <3>1. decided'[x] = IF moved THEN decided[x] \cup {id} ELSE decided[x]
      BY <1>2
    <3>2. moved => id \notin decided[x]
      BY <1>3
    <3> HIDE DEF moved, id
    <3> QED BY <2>1, <2>2, <3>1, <3>2, GainsOne
  <2>4. run'[x].revision = run[x].revision + Count(moved)
    <3>1. run[x].revision \in Nat
      BY DEF TypeOK, Snapshot
    <3> QED BY <1>1, <1>4, <3>1 DEF Count
  <2>5. Cardinality(SettledChildren(x)') = Cardinality(SettledChildren(x)) + Count(settles)
    <3>1. \A c \in Runs \ {r} : (run'[c].state \in TerminalRunStates) <=> (run[c].state \in TerminalRunStates)
      BY <1>1, StatesDistinct
    <3>2. run[r].state \notin TerminalRunStates
      BY <1>1, StatesDistinct
    <3>3. r \notin SettledChildren(x)
      BY <3>2 DEF SettledChildren, Terminal
    <3>4. SettledChildren(x)' = IF settles THEN SettledChildren(x) \cup {r} ELSE SettledChildren(x)
      BY <1>1, <1>8, <3>1, <3>2 DEF SettledChildren, Children, Terminal
    <3> HIDE DEF settles
    <3> QED BY <2>2, <3>3, <3>4, GainsOne, CountedFinite
  <2>6. Cardinality(Asked(x)') = Cardinality(Asked(x)) + Count(asks)
    <3>1. asks => pid \notin Asked(x)
      BY <1>6, RunsFinite DEF Asked
    <3>2. \A q \in Requests : approval'[q].run = IF requested /\ q = pid THEN r ELSE approval[q].run
      BY <1>7
    <3>3. requested => pid \in Requests /\ approval[pid].run = None /\ x # None
      BY <1>6, RunsFinite
    <3>4. Asked(x)' = IF asks THEN Asked(x) \cup {pid} ELSE Asked(x)
      BY <3>2, <3>3 DEF Asked
    <3> HIDE DEF asks
    <3> QED BY <2>2, <3>1, <3>4, GainsOne, CountedFinite
  <2>7. Cardinality(Answered(x)') = Cardinality(Answered(x)) + Count(void)
    <3> DEFINE open == run[x].pending
    <3>1. void <=> open \in voided /\ approval[open].run = x
      BY <1>5
    <3>2. "pending" \notin SettledApproval /\ Absent \notin SettledApproval /\ "cancelled" \in SettledApproval
      BY DEF SettledApproval, Absent
    <3>3. void => open \notin Answered(x)
      BY <3>1, <3>2, <1>5 DEF Answered
    <3>4. \A q \in Requests :
            q \in Answered(x)' <=> q \in Answered(x) \/ (void /\ q = open)
      <4> SUFFICES ASSUME NEW q \in Requests
                   PROVE  q \in Answered(x)' <=> q \in Answered(x) \/ (void /\ q = open)
        OBVIOUS
      <4>0. q \in Answered(x)' <=> approval'[q].run = x /\ approval'[q].state \in SettledApproval
        BY DEF Answered
      <4>1. CASE q \in voided
        <5>1. q \in Answered(x)' <=> approval[q].run = x
          BY <4>0, <4>1, <1>7, <3>2
        <5>2. q \notin Answered(x)
          BY <4>1, <1>5, <3>2 DEF Answered
        <5> QED BY <4>1, <5>1, <5>2, <1>5, <3>1
      <4>2. CASE requested /\ q = pid
        <5>1. q \notin Answered(x)'
          BY <4>0, <4>2, <1>7, <3>2
        <5>2. q \notin Answered(x) /\ q \notin voided
          BY <4>2, <1>5, <1>6, <3>2 DEF Answered, Absent
        <5> QED BY <5>1, <5>2, <3>1
      <4>3. CASE q \notin voided /\ ~(requested /\ q = pid)
        BY <4>0, <4>3, <1>7, <3>1 DEF Answered
      <4> QED BY <4>1, <4>2, <4>3
    <3>5. Answered(x)' = IF void THEN Answered(x) \cup {open} ELSE Answered(x)
      <4>1. Answered(x) \subseteq Requests /\ Answered(x)' \subseteq Requests
        BY DEF Answered
      <4>2. void => open \in Requests
        BY <3>1, <1>5
      <4> HIDE DEF void, open
      <4> QED BY <3>4, <4>1, <4>2
    <3> HIDE DEF void, open
    <3> QED BY <2>2, <3>3, <3>5, GainsOne, CountedFinite
  <2>8. Cardinality(Children(x)') = Cardinality(Children(x)) + 0
    <3>1. Children(x)' = Children(x)
      BY <1>1 DEF Children
    <3>2. Cardinality(Children(x)) \in Nat
      BY CountedFinite, FS_CardinalityType
    <3> QED BY <3>1, <3>2
  <2>9. sequence'[x] = sequence[x] + Count(moved) + Count(void) + Count(asks) + Count(settles)
    BY <1>2 DEF requested
  <2>10. /\ sequence[x] \in Nat /\ Count(moved) \in Nat /\ Count(void) \in Nat
         /\ Count(asks) \in Nat /\ Count(settles) \in Nat /\ 0 \in Nat
    BY DEF TypeOK, Count
  <2> HIDE DEF moved, void, asks, settles
  <2>11. sequence'[x] = sequence[x] + Count(moved) + Count(void) + Count(asks) + Count(settles) + 0
    BY <2>9, <2>10
  <2> QED BY <2>1, <2>3, <2>4, <2>5, <2>6, <2>7, <2>8, <2>10, <2>11, AccountGrows
<1> QED BY <1>9, <1>10, AccountsByRunThen

LEMMA SettleApprovalHistory ==
  ASSUME StoreInv, TreeInv, HistoryInv, HistoryAccounts, NEW q \in Requests,
         NEW outcome \in {"approved", "denied", "expired"}, SettleApproval(q, outcome)
  PROVE  HistoryInv' /\ HistoryAccounts'
<1> USE DEF StoreInv
<1> DEFINE own == approval[q].run
<1>1. /\ approval[q].state = "pending" /\ own \in Runs /\ outcome \in SettledApproval
      /\ approval' = [approval EXCEPT ![q].state = outcome]
      /\ sequence' = [sequence EXCEPT ![own] = @ + 1]
      /\ UNCHANGED <<run, relation, decided>>
  BY DEF SettleApproval, SettledApproval, ApprovalsTrackWaits
<1>2. /\ approval'[q].state = outcome /\ approval'[q].run = own
      /\ \A p \in Requests \ {q} : approval'[p] = approval[p]
  BY <1>1 DEF TypeOK, ApprovalRequest
<1>3. /\ sequence'[own] = sequence[own] + 1
      /\ \A x \in Runs \ {own} : sequence'[x] = sequence[x]
  BY <1>1 DEF TypeOK
<1>4. "pending" \notin SettledApproval /\ Absent \notin SettledApproval /\ "pending" # Absent
  BY DEF SettledApproval, Absent
<1>5. HistoryInv'
  BY <1>1, <1>2, <1>4 DEF HistoryInv
<1>6. ASSUME NEW x \in Runs
      PROVE  /\ Children(x)' = Children(x) /\ SettledChildren(x)' = SettledChildren(x)
             /\ Asked(x)' = Asked(x)
             /\ Answered(x)' = IF x = own THEN Answered(x) \cup {q} ELSE Answered(x)
             /\ q \notin Answered(x)
  <2>1. Asked(x)' = Asked(x)
    BY <1>2 DEF Asked
  <2>2. Answered(x)' = (IF x = own THEN Answered(x) \cup {q} ELSE Answered(x)) /\ q \notin Answered(x)
    BY <1>1, <1>2, <1>4 DEF Answered
  <2> QED BY <1>1, <2>1, <2>2 DEF Children, SettledChildren, Terminal
<1> HIDE DEF own
<1>7. ASSUME NEW x \in Runs, run'[x].state # Absent PROVE Accounted(x)'
  <2>1. Accounted(x)
    BY <1>1, <1>7, AccountsByRun
  <2>2. CASE x = own
    <3>1. Cardinality(Answered(x)') = Cardinality(Answered(x)) + 1
      BY <2>2, <1>6, CountedFinite, FS_AddElement
    <3>2. /\ Cardinality(Children(x)) \in Nat /\ Cardinality(SettledChildren(x)) \in Nat
          /\ Cardinality(Asked(x)) \in Nat /\ Cardinality(Answered(x)) \in Nat
          /\ sequence[x] \in Nat /\ run[x].revision \in Nat
      BY CountedFinite, FS_CardinalityType DEF TypeOK, Snapshot
    <3>3. /\ run'[x] = run[x] /\ decided'[x] = decided[x] /\ sequence'[x] = sequence[x] + 1
          /\ Children(x)' = Children(x) /\ SettledChildren(x)' = SettledChildren(x)
          /\ Asked(x)' = Asked(x)
      BY <2>2, <1>1, <1>3, <1>6
    <3> QED BY <2>1, <3>1, <3>2, <3>3 DEF Accounted
  <2>3. CASE x # own
    BY <2>1, <2>3, <1>1, <1>3, <1>6, AccountStays
  <2> QED BY <2>2, <2>3
<1> QED BY <1>5, <1>7, AccountsByRunThen

LEMMA HistoryStep ==
  StoreInv /\ TreeInv /\ HistoryInv /\ HistoryAccounts /\ [Next]_vars => HistoryInv' /\ HistoryAccounts'
<1> SUFFICES ASSUME StoreInv, TreeInv, HistoryInv, HistoryAccounts, [Next]_vars
             PROVE  HistoryInv' /\ HistoryAccounts'
  OBVIOUS
<1>1. ASSUME UNCHANGED <<run, relation, decided, approval, sequence>>
      PROVE  HistoryInv' /\ HistoryAccounts'
  <2>1. HistoryInv'
    BY <1>1 DEF HistoryInv
  <2>2. ASSUME NEW x \in Runs, run'[x].state # Absent PROVE Accounted(x)'
    <3>1. Accounted(x)
      BY <1>1, <2>2, AccountsByRun
    <3>2. /\ Children(x)' = Children(x) /\ SettledChildren(x)' = SettledChildren(x)
          /\ Asked(x)' = Asked(x) /\ Answered(x)' = Answered(x)
      BY <1>1 DEF Children, SettledChildren, Terminal, Asked, Answered
    <3> QED BY <1>1, <3>1, <3>2, AccountStays
  <2> QED BY <2>1, <2>2, AccountsByRunThen
<1> QED
  BY <1>1, CreateRunHistory, CreateChildHistory, TransitionHistory, SettleApprovalHistory
     DEF Next, vars, DeadlinePasses

\* For any tree of runs, each revision of a run stems from one decided id, and
\* its event stream holds exactly one event for its creation, each revision,
\* each child created and settled, and each approval requested and decided.
THEOREM HistoryIsComplete == Spec => []HistoryAccounts
BY StoreInit, StoreStep, TreeInit, TreeStep, HistoryInit, HistoryStep, PTL DEF Spec

-----------------------------------------------------------------------------
(***************************************************************************)
(* The ledger of operations, which the store keeps beside its runs: the    *)
(* theorems about OperationGateway, for any number of calls, workers and   *)
(* recoveries.                                                             *)
(***************************************************************************)

(***************************************************************************)
(* Type correctness.  A call that is about to settle has a settled target. *)
(***************************************************************************)
OperationTypes ==
  /\ GatewayTypeOK
  /\ \A c \in Calls : pc[c] = "settling" => target[c] \in Settled

LEMMA OperationTypesInit ==
  ASSUME GatewayInit
  PROVE  OperationTypes
BY PlacementsOfCalls DEF GatewayInit, OperationTypes, GatewayTypeOK, NoRecord, NoEvidence,
   Record, OperationState, Label, Settled

LEMMA DispatchedRecord ==
  ASSUME NEW rec \in Record, NEW f \in Nat
  PROVE  /\ Dispatched(rec, f) \in Record
         /\ Dispatched(rec, f).fence = f
         /\ Dispatched(rec, f).revision = rec.revision + 1
         /\ Dispatched(rec, f).state = "dispatching"
<1>1. rec.revision + 1 \in Nat /\ rec.attempt + 1 \in Nat /\ "dispatching" \in OperationState
  BY DEF Record, OperationState
<1> QED BY <1>1 DEF Dispatched, Record

LEMMA SettledRecord ==
  ASSUME NEW rec \in Record, NEW s \in OperationState
  PROVE  /\ SettledAs(rec, s) \in Record
         /\ SettledAs(rec, s).state = s
         /\ SettledAs(rec, s).revision = rec.revision + 1
         /\ SettledAs(rec, s).fence = rec.fence
<1>1. rec.revision + 1 \in Nat
  BY DEF Record
<1> QED BY <1>1 DEF SettledAs, Record

LEMMA RefencedRecord ==
  ASSUME NEW rec \in Record, NEW s \in OperationState
  PROVE  /\ Refenced(rec, s) \in Record
         /\ Refenced(rec, s).state = s
         /\ Refenced(rec, s).revision = rec.revision + 1
         /\ Refenced(rec, s).fence = rec.fence + 1
<1>1. rec.revision + 1 \in Nat /\ rec.fence + 1 \in Nat
  BY DEF Record
<1> QED BY <1>1 DEF Refenced, Record

LEMMA OperationTypesStep == OperationTypes /\ [GatewayNext]_gatewayVars => OperationTypes'
<1> SUFFICES ASSUME OperationTypes, [GatewayNext]_gatewayVars PROVE OperationTypes'
  OBVIOUS
<1> USE DEF OperationTypes, GatewayTypeOK, setup
<1>1. ASSUME NEW c \in Calls, Prepare(c) PROVE OperationTypes'
  <2>1. (IF op.state = "absent" THEN Planned ELSE op) \in Record
    BY DEF Planned, Record, OperationState
  <2> QED BY <1>1, <2>1 DEF Prepare, Goto, Label, Settled, worldVars
<1>2. ASSUME NEW c \in Calls, Fenced(c)
      PROVE  /\ seen' \in [Calls -> Record]
             /\ pc' \in [Calls -> Label]
             /\ target' \in [Calls -> Settled \cup {"none"}]
             /\ \A d \in Calls : pc'[d] = "settling" => target'[d] \in Settled
  <2>1. Dispatched(seen[c], seen[c].fence + 1) \in Record
    <3>1. seen[c] \in Record /\ seen[c].fence + 1 \in Nat
      BY DEF Record
    <3> QED BY <3>1, DispatchedRecord
  <2> QED BY <1>2, <2>1 DEF Fenced, Goto, Label, Settled
<1>3. ASSUME NEW c \in Calls, BeginApplied(c) PROVE OperationTypes'
  <2>1. Dispatched(op, seen[c].fence + 1) \in Record
    <3>1. op \in Record /\ seen[c].fence + 1 \in Nat
      BY DEF Record
    <3> QED BY <3>1, DispatchedRecord
  <2>2. DispatchRow(c) \in [attempt : Nat, fence : Nat, revision : Nat, worker : Workers]
    BY DEF DispatchRow, Record
  <2> QED BY <1>3, <1>2, <2>1, <2>2 DEF BeginApplied, worldVars
<1>4. ASSUME NEW c \in Calls, BeginReplayed(c) PROVE OperationTypes'
  BY <1>4, <1>2 DEF BeginReplayed, worldVars
<1>5. ASSUME NEW c \in Calls, BeginRefused(c) PROVE OperationTypes'
  BY <1>5 DEF BeginRefused, Goto, Label, worldVars
<1>6. ASSUME NEW c \in Calls, Dispatch(c) PROVE OperationTypes'
  BY <1>6 DEF Dispatch, Goto, Label
<1>7. ASSUME NEW c \in Calls,
             \/ DispatchReturns(c) \/ DispatchRaises(c)
             \/ DispatchCancelled(c) \/ DispatchDeferred(c)
      PROVE  OperationTypes'
  BY <1>7 DEF DispatchReturns, DispatchRaises, DispatchCancelled,
     DispatchDeferred, Goto, Label, Settled, OutcomeOfError, worldVars
<1>8. ASSUME NEW c \in Calls, SettleOperation(c) PROVE OperationTypes'
  <2>1. SettledAs(op, target[c]) \in Record
    BY <1>8, SettledRecord DEF SettleOperation, OperationState
  <2> QED BY <1>8, <2>1 DEF SettleOperation, Goto, Label, worldVars
<1>9. ASSUME NEW w \in Workers, Crash(w) PROVE OperationTypes'
  BY <1>9 DEF Crash, Label, worldVars
<1>10. ASSUME NEW c \in Calls, EffectLands(c) \/ RequestLost(c) PROVE OperationTypes'
  BY <1>10 DEF EffectLands, RequestLost, callVars
<1>11. CASE RecoverInterrupted
  <2>1. Refenced(op, "planned") \in Record
    BY RefencedRecord DEF OperationState
  <2> QED BY <1>11, <2>1 DEF RecoverInterrupted, callVars, worldVars
<1>12. CASE Observe
  BY <1>12 DEF Observe, callVars, worldVars, Record
<1>13. CASE Reconcile
  <2>1. \A s \in {"succeeded", "failed"} : Refenced(op, s) \in Record
    BY RefencedRecord DEF OperationState, Settled
  <2>2. op' \in Record /\ evidence' = NoEvidence
    BY <1>13, <2>1 DEF Reconcile
  <2> QED BY <1>13, <2>2 DEF Reconcile, callVars, worldVars, NoEvidence
<1>14. CASE UNCHANGED gatewayVars
  BY <1>14 DEF gatewayVars
<1> QED
  BY <1>1, <1>3, <1>4, <1>5, <1>6, <1>7, <1>8, <1>9, <1>10, <1>11, <1>12, <1>13, <1>14
     DEF GatewayNext

\* Every variable of the gateway keeps its type.
THEOREM OperationTypeCorrect ==
  GatewaySpec => []GatewayTypeOK
<1>1. OperationTypes => GatewayTypeOK
  BY DEF OperationTypes
<1>2. GatewayInit => OperationTypes
  BY OperationTypesInit
<1> QED BY <1>1, <1>2, OperationTypesStep, PTL DEF GatewaySpec

-----------------------------------------------------------------------------
(***************************************************************************)
(* Execute once.  The argument: an operation whose class is Ambiguous is   *)
(* never put back to planned, so its dispatch is claimed while its record  *)
(* still has revision 0 and only once.  A call gets past the claim only    *)
(* with the row of that one claim, which names its own worker id.          *)
(***************************************************************************)
ClaimInv ==
  /\ op.state \in {"absent", "planned"} => op = [Planned EXCEPT !.state = op.state]
  /\ begun # {} => op.revision > 0
  /\ \A b, d \in begun : b = d
  /\ \A c \in Calls : pc[c] = "planned" => seen[c] = Planned
  /\ \A c \in Calls : c \in sent \/ pc[c] \in {"fenced", "calling"} =>
       \E b \in begun : b.worker = workerOf[c]

OnceInv == OperationTypes /\ (Ambiguous => ClaimInv)

LEMMA OnceInit ==
  ASSUME GatewayInit
  PROVE  OnceInv
<1> SUFFICES ASSUME Ambiguous PROVE ClaimInv
  BY OperationTypesInit DEF OnceInv
<1> QED BY DEF GatewayInit, ClaimInv, NoRecord, Planned

LEMMA OnceStep == OnceInv /\ [GatewayNext]_gatewayVars => OnceInv'
<1> SUFFICES ASSUME OnceInv, [GatewayNext]_gatewayVars, Ambiguous' PROVE ClaimInv'
  BY OperationTypesStep DEF OnceInv
<1>0. /\ Ambiguous /\ ClaimInv /\ OperationTypes
      /\ effectClass' = effectClass /\ workerOf' = workerOf
  BY DEF OnceInv, Ambiguous, GatewayNext, gatewayVars, setup, Prepare, BeginApplied,
     BeginReplayed, BeginRefused, Dispatch, DispatchReturns, DispatchRaises,
     DispatchCancelled, DispatchDeferred, SettleOperation, EffectLands, RequestLost,
     Crash, RecoverInterrupted, Observe, Reconcile
<1> USE <1>0 DEF ClaimInv, OperationTypes, GatewayTypeOK, setup
<1>1. ASSUME NEW c \in Calls, Prepare(c) PROVE ClaimInv'
  BY <1>1 DEF Prepare, Goto, Planned, worldVars
<1>2. ASSUME NEW c \in Calls, BeginApplied(c) PROVE ClaimInv'
  <2>1. seen[c] = Planned /\ op.revision = 0 /\ begun = {}
    BY <1>2 DEF BeginApplied, MayBegin, Planned, Record
  <2>2. begun' = {DispatchRow(c)} /\ DispatchRow(c).worker = workerOf[c]
    BY <1>2, <2>1 DEF BeginApplied, DispatchRow
  <2>3. op'.state = "dispatching" /\ op'.revision > 0
    <3>1. 1 \in Nat /\ op \in Record
      OBVIOUS
    <3>2. op' = Dispatched(op, 1)
      BY <1>2, <2>1 DEF BeginApplied, Planned
    <3> QED BY <3>1, <3>2, <2>1, DispatchedRecord
  <2>4. sent' = sent /\ \A d \in Calls \ {c} : pc'[d] = pc[d] /\ seen'[d] = seen[d]
    BY <1>2 DEF BeginApplied, Fenced, Goto, worldVars
  <2>5. pc'[c] # "planned"
    BY <1>2 DEF BeginApplied, Fenced, Goto
  <2> QED BY <2>1, <2>2, <2>3, <2>4, <2>5
<1>3. ASSUME NEW c \in Calls, BeginReplayed(c) PROVE ClaimInv'
  <2>1. DispatchRow(c) \in begun /\ DispatchRow(c).worker = workerOf[c]
    BY <1>3 DEF BeginReplayed, DispatchRow
  <2> QED BY <1>3, <2>1 DEF BeginReplayed, Fenced, Goto, worldVars
<1>4. ASSUME NEW c \in Calls, BeginRefused(c) PROVE ClaimInv'
  BY <1>4 DEF BeginRefused, Goto, worldVars
<1>5. ASSUME NEW c \in Calls, Dispatch(c) PROVE ClaimInv'
  BY <1>5 DEF Dispatch, Goto
<1>6. ASSUME NEW c \in Calls,
             \/ DispatchReturns(c) \/ DispatchRaises(c)
             \/ DispatchCancelled(c) \/ DispatchDeferred(c)
      PROVE  ClaimInv'
  BY <1>6 DEF DispatchReturns, DispatchRaises, DispatchCancelled,
     DispatchDeferred, Goto, worldVars
<1>7. ASSUME NEW c \in Calls, SettleOperation(c) PROVE ClaimInv'
  <2>1. CASE MaySettle(seen[c], target[c])
    <3>1. target[c] \in Settled
      BY <1>7 DEF SettleOperation
    <3>2. op' = SettledAs(op, target[c])
      BY <1>7, <2>1 DEF SettleOperation
    <3>3. op'.state \in Settled /\ op'.revision > 0
      BY <3>1, <3>2, SettledRecord DEF OperationState, Record
    <3> QED BY <1>7, <3>3 DEF SettleOperation, Goto, Settled, worldVars
  <2>2. CASE ~MaySettle(seen[c], target[c])
    BY <1>7, <2>2 DEF SettleOperation, Goto, worldVars
  <2> QED BY <2>1, <2>2
<1>8. ASSUME NEW w \in Workers, Crash(w) PROVE ClaimInv'
  BY <1>8 DEF Crash, worldVars
<1>9. ASSUME NEW c \in Calls, EffectLands(c) \/ RequestLost(c) PROVE ClaimInv'
  BY <1>9 DEF EffectLands, RequestLost, callVars
<1>10. ~RecoverInterrupted
  BY DEF RecoverInterrupted, Retryable, Ambiguous
<1>11. CASE Observe
  BY <1>11 DEF Observe, callVars, worldVars
<1>12. CASE Reconcile
  <2>1. CASE op' = op
    BY <1>12, <2>1 DEF Reconcile, callVars, worldVars
  <2>2. CASE op' # op
    <3>1. \A s \in {"succeeded", "failed"} :
            Refenced(op, s).state = s /\ Refenced(op, s).revision > 0
      <4>1. /\ op \in Record /\ op.revision \in Nat
            /\ {"succeeded", "failed"} \subseteq OperationState
        BY DEF Record, OperationState, Settled
      <4> QED BY <4>1, RefencedRecord
    <3>2. op'.state \in {"succeeded", "failed"} /\ op'.revision > 0
      BY <1>12, <2>2, <3>1 DEF Reconcile
    <3> QED BY <1>12, <3>2 DEF Reconcile, callVars, worldVars
  <2> QED BY <2>1, <2>2
<1>13. CASE UNCHANGED gatewayVars
  BY <1>13 DEF gatewayVars
<1> QED
  BY <1>1, <1>2, <1>3, <1>4, <1>5, <1>6, <1>7, <1>8, <1>9, <1>10, <1>11, <1>12, <1>13
     DEF GatewayNext

\* Only calls of one worker id ever hand an effect that is in doubt after a
\* failure to the provider, for any number of calls, crashes, recoveries and
\* reconciliations.
THEOREM ExecuteOnce ==
  GatewaySpec => []OneDispatcher
<1>1. OnceInv => OneDispatcher
  BY DEF OnceInv, ClaimInv, OperationTypes, GatewayTypeOK, OneDispatcher
<1>2. GatewayInit => OnceInv
  BY OnceInit
<1> QED BY <1>1, <1>2, OnceStep, PTL DEF GatewaySpec

LEMMA AtMostOneMember ==
  ASSUME NEW S, \A x, y \in S : x = y
  PROVE  Cardinality(S) <= 1
<1>1. CASE S = {}
  BY <1>1, FS_EmptySet
<1>2. CASE S # {}
  <2>1. PICK x : S = {x}
    BY <1>2
  <2> QED BY <2>1, FS_Singleton
<1> QED BY <1>1, <1>2

\* When every call goes through a gateway with a worker id of its own (two
\* processes never share one), such an effect is handed to the provider at
\* most once.
THEOREM AtMostOnceAlone ==
  GatewaySpec => [](Ambiguous /\ OneWorkerPerCall => Cardinality(sent) <= 1)
<1>1. GatewayTypeOK /\ OneDispatcher =>
        (Ambiguous /\ OneWorkerPerCall => Cardinality(sent) <= 1)
  <2> SUFFICES ASSUME GatewayTypeOK, OneDispatcher, Ambiguous, OneWorkerPerCall
               PROVE  Cardinality(sent) <= 1
    OBVIOUS
  <2>1. \A c, d \in sent : c = d
    BY DEF GatewayTypeOK, OneDispatcher, OneWorkerPerCall
  <2> QED BY <2>1, AtMostOneMember
<1>2. GatewaySpec => []GatewayTypeOK
  BY OperationTypeCorrect
<1>3. GatewaySpec => []OneDispatcher
  BY ExecuteOnce
<1> QED BY <1>1, <1>2, <1>3, PTL

-----------------------------------------------------------------------------
(***************************************************************************)
(* Settled records.  Preparing reads them, beginning and recovering need a *)
(* planned or dispatching one, settling refuses them; only reconciliation  *)
(* may move one, from unknown.                                             *)
(***************************************************************************)
LEMMA SettledStep ==
  OperationTypes /\ [GatewayNext]_gatewayVars =>
    (op.state \in Settled /\ op' # op =>
       op.state = "unknown" /\ op'.state \in {"succeeded", "failed"} /\ op'.fence > op.fence)
<1> SUFFICES ASSUME OperationTypes, GatewayNext, op.state \in Settled, op' # op
             PROVE  op.state = "unknown" /\ op'.state \in {"succeeded", "failed"}
                      /\ op'.fence > op.fence
  BY DEF gatewayVars
<1>1. Reconcile
  <2>1. ASSUME NEW c \in Calls PROVE ~Prepare(c) /\ ~BeginApplied(c) /\ ~SettleOperation(c)
    BY DEF Prepare, BeginApplied, MayBegin, SettleOperation, MaySettle, Settled
  <2>2. ~RecoverInterrupted
    BY DEF RecoverInterrupted, Settled
  <2> QED
    BY <2>1, <2>2 DEF GatewayNext, BeginReplayed, BeginRefused, Dispatch,
       DispatchReturns, DispatchRaises, DispatchCancelled, DispatchDeferred,
       EffectLands, RequestLost, Crash, Observe
<1>2. op.state = "unknown"
  BY <1>1 DEF Reconcile, NeedsReconciliation, Settled
<1>3. \E s \in {"succeeded", "failed"} : op' = Refenced(op, s)
  BY <1>1 DEF Reconcile
<1>4. op \in Record /\ op.fence \in Nat
      /\ {"succeeded", "failed"} \subseteq OperationState
  BY DEF OperationTypes, GatewayTypeOK, Record, OperationState, Settled
<1> QED BY <1>2, <1>3, <1>4, RefencedRecord

\* A settled record never changes, except an unknown one by reconciliation
\* under a new fence.
THEOREM SettlementIsFinal ==
  GatewaySpec => SettledStays
<1>1. OperationTypes /\ [GatewayNext]_gatewayVars =>
        [op.state \in Settled /\ op' # op =>
           op.state = "unknown" /\ op'.state \in {"succeeded", "failed"}
             /\ op'.fence > op.fence]_gatewayVars
  BY SettledStep
<1>2. GatewayInit => OperationTypes
  BY OperationTypesInit
<1> QED BY <1>1, <1>2, OperationTypesStep, PTL DEF GatewaySpec, SettledStays

LEMMA CompletedStep ==
  OperationTypes /\ CompletedIsDurable /\ [GatewayNext]_gatewayVars => CompletedIsDurable'
<1> SUFFICES ASSUME OperationTypes, CompletedIsDurable, [GatewayNext]_gatewayVars,
                    NEW c \in Calls, pc'[c] = "completed"
             PROVE  op'.state = "succeeded"
  BY DEF CompletedIsDurable
<1> USE DEF OperationTypes, GatewayTypeOK
<1>1. CASE pc[c] = "completed"
  <2>1. op.state = "succeeded"
    BY <1>1 DEF CompletedIsDurable
  <2> QED BY <2>1, SettledStep DEF Settled
<1>2. CASE pc[c] # "completed"
  <2>1. \/ Prepare(c) \/ BeginRefused(c) \/ SettleOperation(c)
    BY <1>2 DEF GatewayNext, gatewayVars, Goto, Fenced, Prepare, BeginApplied,
       BeginReplayed, BeginRefused, Dispatch, DispatchReturns,
       DispatchRaises, DispatchCancelled, DispatchDeferred, SettleOperation,
       EffectLands, RequestLost, Crash, RecoverInterrupted, Observe,
       Reconcile, callVars
  <2>2. CASE Prepare(c)
    BY <2>2, <1>2 DEF Prepare, Goto
  <2>3. CASE BeginRefused(c)
    BY <2>3, <1>2 DEF BeginRefused, Goto
  <2>4. CASE SettleOperation(c)
    <3>1. target[c] = "succeeded" /\ op' = SettledAs(op, "succeeded")
      BY <2>4, <1>2 DEF SettleOperation, Goto
    <3> QED BY <3>1, SettledRecord DEF OperationState, Settled
  <2> QED BY <2>1, <2>2, <2>3, <2>4
<1> QED BY <1>1, <1>2

\* A call returns a value only from a success that is in the ledger and
\* stays there.
THEOREM ReturnsAreDurable ==
  GatewaySpec => []CompletedIsDurable
<1>1. GatewayInit => CompletedIsDurable
  BY DEF GatewayInit, CompletedIsDurable
<1>2. GatewayInit => OperationTypes
  BY OperationTypesInit
<1> QED BY <1>1, <1>2, OperationTypesStep, CompletedStep, PTL DEF GatewaySpec

-----------------------------------------------------------------------------
(***************************************************************************)
(* What the ledger says is true.  A success is only ever written on behalf *)
(* of a call, or of an observation, that saw the effect: effects are not   *)
(* undone, so it is still there when the settlement commits.               *)
(***************************************************************************)
SuccessInv ==
  /\ \A c \in Calls : pc[c] = "settling" /\ target[c] = "succeeded" => c \in landed
  /\ evidence.verdict = "succeeded" => landed # {}
  /\ op.state = "succeeded" => landed # {}

LEMMA SuccessInit == GatewayInit => SuccessInv
BY DEF GatewayInit, SuccessInv, NoRecord, NoEvidence

LEMMA SuccessStep == OperationTypes /\ SuccessInv /\ [GatewayNext]_gatewayVars => SuccessInv'
<1> SUFFICES ASSUME OperationTypes, SuccessInv, [GatewayNext]_gatewayVars PROVE SuccessInv'
  OBVIOUS
<1> USE DEF SuccessInv, OperationTypes, GatewayTypeOK
<1>1. ASSUME NEW c \in Calls, Prepare(c) PROVE SuccessInv'
  BY <1>1 DEF Prepare, Goto, Planned, worldVars
<1>2. ASSUME NEW c \in Calls, BeginApplied(c) \/ BeginReplayed(c) PROVE SuccessInv'
  <2>1. pc' \in [Calls -> Label]
        /\ \A d \in Calls \ {c} : pc'[d] = pc[d] /\ target'[d] = target[d]
    BY <1>2 DEF BeginApplied, BeginReplayed, Fenced, Goto, Label
  <2>2. pc'[c] = "settling" => target'[c] # "succeeded"
    BY <1>2 DEF BeginApplied, BeginReplayed, Fenced, Goto
  <2>3. op'.state = "succeeded" => op.state = "succeeded"
    <3>1. op \in Record /\ seen[c].fence + 1 \in Nat
      BY DEF Record
    <3>2. op' = op \/ op' = Dispatched(op, seen[c].fence + 1)
      BY <1>2 DEF BeginApplied, BeginReplayed
    <3> QED BY <3>1, <3>2, DispatchedRecord
  <2>4. UNCHANGED <<landed, evidence>>
    BY <1>2 DEF BeginApplied, BeginReplayed, worldVars
  <2> QED BY <2>1, <2>2, <2>3, <2>4
<1>3. ASSUME NEW c \in Calls, BeginRefused(c) \/ Dispatch(c) \/ DispatchDeferred(c)
      PROVE  SuccessInv'
  BY <1>3 DEF BeginRefused, Dispatch, DispatchDeferred, Goto, worldVars
<1>4. ASSUME NEW c \in Calls,
             DispatchReturns(c) \/ DispatchRaises(c) \/ DispatchCancelled(c)
      PROVE  SuccessInv'
  BY <1>4 DEF DispatchReturns, DispatchRaises, DispatchCancelled,
     OutcomeOfError, Goto, worldVars
<1>5. ASSUME NEW c \in Calls, SettleOperation(c) PROVE SuccessInv'
  <2>1. op'.state = "succeeded" => op.state = "succeeded" \/ target[c] = "succeeded"
    <3>1. op' = op \/ op' = SettledAs(op, target[c])
      BY <1>5 DEF SettleOperation
    <3>2. target[c] \in OperationState
      BY <1>5 DEF SettleOperation, OperationState
    <3> QED BY <3>1, <3>2, SettledRecord
  <2>2. target[c] = "succeeded" => landed # {}
    BY <1>5 DEF SettleOperation
  <2> QED BY <1>5, <2>1, <2>2 DEF SettleOperation, Goto, worldVars
<1>6. ASSUME NEW w \in Workers, Crash(w) PROVE SuccessInv'
  BY <1>6 DEF Crash, worldVars
<1>7. ASSUME NEW c \in Calls, EffectLands(c) \/ RequestLost(c) PROVE SuccessInv'
  BY <1>7 DEF EffectLands, RequestLost, callVars
<1>8. CASE RecoverInterrupted
  <2>1. op'.state = "planned"
    BY <1>8, RefencedRecord DEF RecoverInterrupted, OperationState
  <2> QED BY <1>8, <2>1 DEF RecoverInterrupted, callVars, worldVars
<1>9. CASE Observe
  BY <1>9 DEF Observe, callVars, worldVars
<1>10. CASE Reconcile
  <2>1. op'.state = "succeeded" => op.state = "succeeded" \/ evidence.verdict = "succeeded"
    <3>1. \A s \in {"succeeded", "failed"} : Refenced(op, s).state = s
      BY RefencedRecord DEF OperationState, Settled
    <3> QED BY <1>10, <3>1 DEF Reconcile
  <2> QED BY <1>10, <2>1 DEF Reconcile, NoEvidence, callVars, worldVars
<1>11. CASE UNCHANGED gatewayVars
  BY <1>11 DEF gatewayVars
<1> QED
  BY <1>1, <1>2, <1>3, <1>4, <1>5, <1>6, <1>7, <1>8, <1>9, <1>10, <1>11 DEF GatewayNext

(***************************************************************************)
(* A cancelled or failed operation of an ambiguous class, when every call  *)
(* has a worker id of its own.  The one call that claimed the dispatch is  *)
(* the only one that can hand the request over, and the settlement of a    *)
(* call that did not is accepted only while nobody can: either nothing was *)
(* claimed yet, and a settled operation cannot be claimed, or the settling *)
(* call is itself the claimant.  A reconciler's failure is told apart from *)
(* these by its fence, which is above that of the claim.                   *)
(***************************************************************************)
Harmless == sent = {} /\ \A c \in Calls : pc[c] # "fenced"

Claimed(c) == \E b \in begun : b.worker = workerOf[c]

OutcomeInv ==
  /\ \A c \in Calls : pc[c] \in {"idle", "planned", "fenced"} => c \notin sent
  /\ \A c \in Calls : pc[c] = "settling" /\ target[c] \in {"cancelled", "failed"} =>
       c \notin sent /\ ((target[c] = "cancelled" /\ seen[c] = Planned) \/ Claimed(c))
  /\ \A b \in begun : b.fence <= op.fence
  /\ \A c \in Calls : Claimed(c) => pc[c] \notin {"idle", "planned"}
  /\ op.state \notin {"absent", "planned"} => op.revision > 0
  /\ op.state = "cancelled" => Harmless
  /\ op.state = "failed" /\ GatewaySettled => Harmless

TruthInv == SuccessInv /\ (Ambiguous /\ OneWorkerPerCall => OutcomeInv)

LEMMA TruthInit == GatewayInit => TruthInv
<1> SUFFICES ASSUME GatewayInit PROVE OutcomeInv
  BY SuccessInit DEF TruthInv
<1> QED BY DEF GatewayInit, OutcomeInv, NoRecord, Claimed

\* Once nobody can hand the request over, nobody ever will.
LEMMA HarmlessStays ==
  ASSUME OnceInv, Ambiguous, OutcomeInv, [GatewayNext]_gatewayVars, Harmless,
         op.state \in {"cancelled", "failed"}
  PROVE  Harmless'
<1> USE DEF Harmless, OperationTypes, GatewayTypeOK, OnceInv
<1>1. ASSUME NEW c \in Calls
      PROVE  ~BeginApplied(c) /\ ~BeginReplayed(c) /\ ~Dispatch(c)
  <2>1. ~BeginApplied(c) /\ ~Dispatch(c)
    BY DEF BeginApplied, MayBegin, Dispatch
  <2>2. ~BeginReplayed(c)
    BY DEF BeginReplayed, OutcomeInv, Claimed, DispatchRow
  <2> QED BY <2>1, <2>2
<1> QED
  BY <1>1 DEF GatewayNext, gatewayVars, Goto, Prepare, BeginRefused, DispatchReturns,
     DispatchRaises, DispatchCancelled, DispatchDeferred, SettleOperation,
     EffectLands, RequestLost, Crash, RecoverInterrupted, Observe,
     Reconcile, callVars, worldVars

LEMMA OutcomeStep ==
  ASSUME OnceInv, Ambiguous, OneWorkerPerCall, OutcomeInv, [GatewayNext]_gatewayVars
  PROVE  OutcomeInv'
<1>0. /\ ClaimInv /\ OperationTypes
      /\ effectClass' = effectClass /\ workerOf' = workerOf
  BY DEF OnceInv, Ambiguous, GatewayNext, gatewayVars, setup, Prepare, BeginApplied,
     BeginReplayed, BeginRefused, Dispatch, DispatchReturns, DispatchRaises,
     DispatchCancelled, DispatchDeferred, SettleOperation, EffectLands, RequestLost,
     Crash, RecoverInterrupted, Observe, Reconcile
<1>a. op \in Record /\ op.fence \in Nat /\ op.revision \in Nat
      /\ {"planned", "succeeded", "failed"} \subseteq OperationState
  BY <1>0 DEF OperationTypes, GatewayTypeOK, Record, OperationState, Settled
<1>k. op'.fence \in Nat
  BY <1>0, OperationTypesStep DEF OperationTypes, GatewayTypeOK, Record
\* A claim belongs to one call, and only the claimant is past the claim.
<1>b. \A c, d \in Calls : Claimed(c) /\ Claimed(d) => c = d
  BY <1>0 DEF ClaimInv, Claimed, OneWorkerPerCall
<1>c. \A c \in Calls : c \in sent \/ pc[c] \in {"fenced", "calling"} => Claimed(c)
  BY <1>0 DEF ClaimInv, Claimed
<1>d. \A c \in Calls : DispatchRow(c) \in begun => Claimed(c)
  BY DEF DispatchRow, Claimed
<1>e. \A c \in Calls : ~BeginReplayed(c)
  BY <1>d DEF BeginReplayed, OutcomeInv
<1>f. op.state \in {"cancelled", "failed"} /\ Harmless => Harmless'
  BY HarmlessStays
\* How a step can touch what the claims and outcomes rest on.
<1> DEFINE Kept ==
         /\ op.state \in {"cancelled", "failed"} \/ op'.state \notin {"cancelled", "failed"}
         /\ op.state \in {"cancelled", "failed"} => op' = op
         /\ begun' = begun
         /\ op'.fence >= op.fence
         /\ op'.state \notin {"absent", "planned"} => op'.revision > 0
<1>g. ASSUME Kept
      PROVE  /\ \A b \in begun' : b.fence <= op'.fence
             /\ op'.state \notin {"absent", "planned"} => op'.revision > 0
             /\ op'.state = "cancelled" => Harmless'
             /\ op'.state = "failed" /\ GatewaySettled' => Harmless'
  <2>1. \A b \in begun : b.fence \in Nat
    BY <1>0 DEF OperationTypes, GatewayTypeOK
  <2>2. \A b \in begun' : b.fence <= op'.fence
    <3> SUFFICES ASSUME NEW b \in begun PROVE b.fence <= op'.fence
      BY <1>g
    <3>1. b.fence <= op.fence /\ op.fence <= op'.fence /\ b.fence \in Nat /\ op'.fence \in Nat
      BY <1>g, <1>k, <2>1 DEF OutcomeInv
    <3> QED BY <1>a, <3>1
  <2>3. op'.state \in {"cancelled", "failed"} => 
          op' = op /\ (GatewaySettled' => GatewaySettled)
    BY <1>g DEF GatewaySettled
  <2> QED BY <1>f, <1>g, <2>2, <2>3 DEF OutcomeInv
<1>h. ASSUME op' = op, begun' = begun PROVE Kept
  BY <1>a, <1>h DEF OutcomeInv
<1> HIDE DEF Kept
\* How a step can touch what the calls rest on.
<1> DEFINE CallsKept ==
      /\ \A c \in Calls : pc'[c] \in {"idle", "planned", "fenced"} => c \notin sent'
      /\ \A c \in Calls : pc'[c] = "settling" /\ target'[c] \in {"cancelled", "failed"} =>
           c \notin sent' /\ ((target'[c] = "cancelled" /\ seen'[c] = Planned) \/ Claimed(c)')
      /\ \A c \in Calls : Claimed(c)' => pc'[c] \notin {"idle", "planned"}
<1>i. ASSUME Kept, CallsKept PROVE OutcomeInv'
  BY <1>g, <1>i DEF OutcomeInv
<1>j. ASSUME begun' = begun PROVE \A c \in Calls : Claimed(c)' <=> Claimed(c)
  BY <1>0, <1>j DEF Claimed
<1> USE DEF OutcomeInv
<1>1. ASSUME NEW c \in Calls, Prepare(c) PROVE OutcomeInv'
  <2>1. /\ op' = op \/ (op.state = "absent" /\ op' = Planned)
        /\ begun' = begun /\ sent' = sent /\ pc[c] = "idle"
        /\ seen'[c] = op'
        /\ \A d \in Calls \ {c} : pc'[d] = pc[d] /\ seen'[d] = seen[d] /\ target'[d] = target[d]
        /\ pc'[c] \in {"planned", "settling", "completed", "raised"}
        /\ pc'[c] = "settling" => op'.state = "planned" /\ target'[c] = "cancelled"
    BY <1>1, <1>0 DEF Prepare, Goto, worldVars, OperationTypes, GatewayTypeOK
  <2>2. Kept
    <3>1. op.state = "absent" /\ op' = Planned =>
            op'.fence >= op.fence /\ op'.state = "planned"
      BY <1>0, <1>a DEF ClaimInv, Planned
    <3> QED BY <2>1, <3>1, <1>a DEF Kept
  <2>3. op'.state = "planned" => op' = Planned
    BY <1>0, <2>1 DEF ClaimInv, Planned
  <2>4. \A d \in Calls : Claimed(d)' <=> Claimed(d)
    BY <2>1, <1>j
  <2>5. CallsKept
    BY <2>1, <2>3, <2>4
  <2> QED BY <2>2, <2>5, <1>i
<1>2. ASSUME NEW c \in Calls, BeginApplied(c) PROVE OutcomeInv'
  <2>1. seen[c] = Planned /\ op.revision = 0 /\ op.state = "planned"
        /\ begun = {} /\ pc[c] = "planned"
    BY <1>0, <1>2, <1>a DEF BeginApplied, MayBegin, Planned, ClaimInv
  <2>2. /\ begun' = {DispatchRow(c)} /\ DispatchRow(c).worker = workerOf[c]
        /\ DispatchRow(c).fence = 1
    BY <1>2, <2>1 DEF BeginApplied, DispatchRow, Planned
  <2>3. op'.state = "dispatching" /\ op'.revision > 0 /\ op'.fence = 1
    <3>1. 1 \in Nat
      OBVIOUS
    <3>2. op' = Dispatched(op, 1)
      BY <1>2, <2>1 DEF BeginApplied, Planned
    <3> QED BY <3>1, <3>2, <2>1, <1>a, DispatchedRecord
  <2>4. /\ sent' = sent
        /\ \A d \in Calls \ {c} : pc'[d] = pc[d] /\ seen'[d] = seen[d] /\ target'[d] = target[d]
        /\ pc'[c] \in {"fenced", "settling"}
    BY <1>2, <1>0 DEF BeginApplied, Fenced, Goto, worldVars, OperationTypes,
       GatewayTypeOK
  <2>5. \A d \in Calls : Claimed(d)' <=> d = c
    BY <1>0, <2>2 DEF Claimed, OneWorkerPerCall
  <2>6. \A d \in Calls : ~Claimed(d)
    BY <2>1 DEF Claimed
  <2>7. c \notin sent
    BY <2>1
  <2>8. CallsKept
    BY <2>4, <2>5, <2>6, <2>7
  <2> QED BY <2>2, <2>3, <2>8
<1>3. ASSUME NEW c \in Calls,
             BeginRefused(c) \/ DispatchReturns(c) \/ DispatchRaises(c)
                                \/ DispatchCancelled(c) \/ DispatchDeferred(c)
      PROVE  OutcomeInv'
  <2>1. /\ UNCHANGED <<op, begun, sent, seen>>
        /\ \A d \in Calls \ {c} : pc'[d] = pc[d] /\ target'[d] = target[d]
        /\ pc'[c] \in {"raised", "completed", "settling"}
        /\ pc'[c] = "settling" => target'[c] \in {"succeeded", "unknown"}
    BY <1>0, <1>3 DEF BeginRefused, DispatchReturns, DispatchRaises,
       DispatchCancelled, DispatchDeferred, OutcomeOfError, Goto, worldVars,
       OperationTypes, GatewayTypeOK
  <2>2. \A d \in Calls : Claimed(d)' <=> Claimed(d)
    BY <2>1, <1>j
  <2>3. CallsKept
    BY <2>1, <2>2
  <2> QED BY <2>1, <2>3, <1>h, <1>i
<1>4. ASSUME NEW c \in Calls, Dispatch(c) PROVE OutcomeInv'
  <2>1. /\ UNCHANGED <<op, begun, seen, target>> /\ sent' = sent \cup {c}
        /\ \A d \in Calls \ {c} : pc'[d] = pc[d]
        /\ pc'[c] = "calling"
    BY <1>0, <1>4 DEF Dispatch, Goto, OperationTypes, GatewayTypeOK
  <2>2. \A d \in Calls : Claimed(d)' <=> Claimed(d)
    BY <2>1, <1>j
  <2>3. CallsKept
    BY <2>1, <2>2
  <2> QED BY <2>1, <2>3, <1>h, <1>i
<1>5. ASSUME NEW c \in Calls, SettleOperation(c) PROVE OutcomeInv'
  <2>1. /\ UNCHANGED <<begun, sent, seen, target>>
        /\ \A d \in Calls \ {c} : pc'[d] = pc[d]
        /\ pc[c] = "settling" /\ pc'[c] \in {"raised", "completed"}
    BY <1>0, <1>5 DEF SettleOperation, Goto, worldVars, OperationTypes, GatewayTypeOK
  <2>2. \A d \in Calls : Claimed(d)' <=> Claimed(d)
    BY <2>1, <1>j
  <2>3. CallsKept
    BY <2>1, <2>2
  <2>4. CASE op' = op
    BY <2>1, <2>3, <2>4, <1>h, <1>i
  <2>5. CASE op' # op
    <3>1. op' = SettledAs(op, target[c]) /\ MaySettle(seen[c], target[c])
          /\ target[c] \in Settled
      BY <1>0, <1>5, <2>5 DEF SettleOperation, OperationTypes
    <3>2. /\ op'.state = target[c] /\ op'.state \in Settled /\ op'.revision > 0
          /\ op'.fence = op.fence
      <4>1. target[c] \in OperationState
        BY <3>1 DEF OperationState
      <4>2. op'.state = target[c] /\ op'.revision = op.revision + 1 /\ op'.fence = op.fence
        BY <1>a, <3>1, <4>1, SettledRecord
      <4> QED BY <1>a, <3>1, <4>2
    <3>3. target[c] \in {"cancelled", "failed"} => Harmless'
      <4> SUFFICES ASSUME target[c] \in {"cancelled", "failed"} PROVE Harmless'
        OBVIOUS
      <4>1. \A d \in Calls : d \in sent \/ pc[d] = "fenced" => Claimed(d)
        BY <1>c
      <4>2. CASE seen[c] = Planned
        <5>1. op.revision = 0
          BY <3>1, <4>2 DEF MaySettle, Planned
        <5>2. begun = {}
          BY <1>0, <5>1 DEF ClaimInv
        <5>3. \A d \in Calls : d \notin sent /\ pc[d] # "fenced"
          BY <4>1, <5>2 DEF Claimed
        <5> QED BY <1>0, <2>1, <5>3 DEF Harmless, OperationTypes, GatewayTypeOK
      <4>3. CASE seen[c] # Planned
        <5>1. Claimed(c) /\ c \notin sent
          BY <2>1, <4>3
        <5>2. \A d \in Calls : d \notin sent /\ (d # c => pc[d] # "fenced")
          BY <1>b, <4>1, <5>1
        <5>3. \A d \in Calls : pc'[d] # "fenced"
          BY <2>1, <5>2
        <5> QED BY <1>0, <2>1, <5>2, <5>3 DEF Harmless, OperationTypes, GatewayTypeOK
      <4> QED BY <4>2, <4>3
    <3> QED BY <2>1, <2>3, <3>2, <3>3 DEF Settled
  <2> QED BY <2>4, <2>5
<1>6. ASSUME NEW w \in Workers, Crash(w) PROVE OutcomeInv'
  <2>1. /\ UNCHANGED <<op, begun, sent, seen, target>>
        /\ \A d \in Calls : pc'[d] = pc[d] \/ pc'[d] = "dead"
    BY <1>6 DEF Crash, worldVars
  <2>2. \A d \in Calls : Claimed(d)' <=> Claimed(d)
    BY <2>1, <1>j
  <2>3. CallsKept
    BY <2>1, <2>2
  <2> QED BY <2>1, <2>3, <1>h, <1>i
<1>7. ASSUME UNCHANGED <<op, begun, sent, callVars>> PROVE OutcomeInv'
  <2>1. \A d \in Calls : Claimed(d)' <=> Claimed(d)
    BY <1>7, <1>j
  <2>2. CallsKept
    BY <1>7, <2>1 DEF callVars
  <2> QED BY <1>7, <2>2, <1>h, <1>i
<1>8. ~RecoverInterrupted
  BY DEF RecoverInterrupted, Retryable, Ambiguous
<1>9. CASE Reconcile
  <2>1. UNCHANGED <<begun, sent, callVars>>
    BY <1>9 DEF Reconcile, worldVars
  <2>2. CASE op' = op
    BY <2>1, <2>2, <1>7
  <2>3. CASE op' # op
    <3>1. /\ op'.state \in {"succeeded", "failed"} /\ op'.revision > 0
          /\ op'.fence = op.fence + 1
      <4>1. op' = Refenced(op, "succeeded") \/ op' = Refenced(op, "failed")
        BY <1>9, <2>3 DEF Reconcile
      <4> QED BY <4>1, <1>a, RefencedRecord
    <3>2. \A b \in begun' : b.fence \in Nat /\ b.fence < op'.fence
      BY <2>1, <3>1, <1>0, <1>a DEF OperationTypes, GatewayTypeOK
    <3>3. ~GatewaySettled'
      BY <3>2, <3>1, <1>a DEF GatewaySettled
    <3>4. \A d \in Calls : Claimed(d)' <=> Claimed(d)
      BY <2>1, <1>j
    <3>5. CallsKept
      BY <2>1, <3>4 DEF callVars
    <3>6. \A b \in begun' : b.fence <= op'.fence
      BY <3>1, <3>2, <1>a
    <3> QED BY <3>1, <3>3, <3>5, <3>6
  <2> QED BY <2>2, <2>3
<1>10. CASE \E c \in Calls : EffectLands(c) \/ RequestLost(c)
  BY <1>7, <1>10 DEF EffectLands, RequestLost
<1>11. CASE Observe \/ UNCHANGED gatewayVars
  BY <1>7, <1>11 DEF Observe, gatewayVars, callVars, worldVars
<1> QED
  BY <1>e, <1>1, <1>2, <1>3, <1>4, <1>5, <1>6, <1>8, <1>9, <1>10, <1>11 DEF GatewayNext

LEMMA TruthStep == OnceInv /\ TruthInv /\ [GatewayNext]_gatewayVars => TruthInv'
<1> SUFFICES ASSUME OnceInv, TruthInv, [GatewayNext]_gatewayVars PROVE TruthInv'
  OBVIOUS
<1>1. SuccessInv'
  BY SuccessStep DEF OnceInv, TruthInv
<1>2. effectClass' = effectClass /\ workerOf' = workerOf
  BY DEF GatewayNext, gatewayVars, setup, Prepare, BeginApplied, BeginReplayed,
     BeginRefused, Dispatch, DispatchReturns, DispatchRaises,
     DispatchCancelled, DispatchDeferred, SettleOperation, EffectLands, RequestLost,
     Crash, RecoverInterrupted, Observe, Reconcile
<1>3. (Ambiguous' <=> Ambiguous) /\ (OneWorkerPerCall' <=> OneWorkerPerCall)
  BY <1>2 DEF Ambiguous, OneWorkerPerCall
<1>4. Ambiguous /\ OneWorkerPerCall => OutcomeInv'
  BY OutcomeStep DEF TruthInv
<1> QED BY <1>1, <1>3, <1>4 DEF TruthInv

\* A succeeded operation took effect; and, where two processes never share a
\* worker id, a cancelled operation of an ambiguous class never reached the
\* provider, nor did one that failed by the gateway's own account.
THEOREM LedgerTellsTheTruth ==
  GatewaySpec => []SettlementsAreTrue
<1>1. TruthInv => SettlementsAreTrue
  BY DEF TruthInv, SuccessInv, OutcomeInv, Harmless, SettlementsAreTrue
<1>2. GatewayInit => OnceInv
  BY OnceInit
<1> QED BY <1>1, <1>2, OnceStep, TruthInit, TruthStep, PTL DEF GatewaySpec
=============================================================================
