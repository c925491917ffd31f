---------------------------- MODULE RunLifecycle ----------------------------
(***************************************************************************)
(* The pure lifecycle reducer of one run: which transition kinds each      *)
(* state accepts and the snapshot each of them produces.  The functions    *)
(* have no state of their own; RunStore applies them inside transactions   *)
(* and RunWorker applies them on behalf of workers and callers.            *)
(***************************************************************************)
EXTENDS Naturals

None == "none"

TerminalRunStates ==
  {"completed", "failed", "failed_with_unknown_effects", "cancelled", "expired"}

LiveRunStates ==
  {"created", "queued", "running", "waiting_for_input", "waiting_for_approval",
   "waiting_for_reconciliation", "paused", "cancelling"}

RunState == TerminalRunStates \cup LiveRunStates

(***************************************************************************)
(* The two tables of the reducer.  steer and close_steering have no target *)
(* of their own: they leave the state as it is.                            *)
(***************************************************************************)
TransitionKind ==
  {"queue", "start", "wait_for_input", "wait_for_approval",
   "wait_for_reconciliation", "pause", "resume", "respond", "steer",
   "close_steering", "request_cancel", "confirm_cancel", "complete", "fail",
   "fail_with_unknown_effects", "expire"}

WaitKinds == {"wait_for_input", "wait_for_approval"}

Waiting == {"waiting_for_input", "waiting_for_approval"}

\* The source's table from kind to accepted states, as a relation.
AllowedFrom(kind, state) ==
  \/ kind = "queue"                   /\ state = "created"
  \/ kind = "start"                   /\ state \in {"created", "queued"}
  \/ kind \in WaitKinds               /\ state = "running"
  \/ kind = "wait_for_reconciliation" /\ state \in {"running", "cancelling"}
  \/ kind = "pause"                   /\ state \in {"queued", "running"} \cup Waiting
  \/ kind = "resume"                  /\ state \in {"paused", "waiting_for_reconciliation"}
  \/ kind = "respond"                 /\ state \in Waiting
  \/ kind \in {"steer", "close_steering"} /\ state \in {"created", "queued", "running"}
  \/ kind = "confirm_cancel"          /\ state = "cancelling"
  \/ kind = "complete"                /\ state = "running"
  \/ kind = "fail_with_unknown_effects"
     /\ state \in {"running", "waiting_for_reconciliation", "cancelling"} \cup Waiting
  \/ kind \in {"request_cancel", "fail", "expire"} /\ state \in LiveRunStates

Target ==
  [queue                     |-> "queued",
   start                     |-> "running",
   wait_for_input            |-> "waiting_for_input",
   wait_for_approval         |-> "waiting_for_approval",
   wait_for_reconciliation   |-> "waiting_for_reconciliation",
   pause                     |-> "paused",
   resume                    |-> "running",
   respond                   |-> "running",
   request_cancel            |-> "cancelling",
   confirm_cancel            |-> "cancelled",
   complete                  |-> "completed",
   fail                      |-> "failed",
   fail_with_unknown_effects |-> "failed_with_unknown_effects",
   expire                    |-> "expired"]

TargetState(kind, state) ==
  IF kind \in {"steer", "close_steering"} THEN state ELSE Target[kind]

\* Kinds after which no request is pending; every other kind keeps what was
\* pending, so a run paused while it waits resumes with the old request id.
PendingClearers ==
  {"respond", "request_cancel", "confirm_cancel", "complete", "fail",
   "fail_with_unknown_effects", "expire"}

SteeringClosers ==
  {"close_steering", "request_cancel", "complete", "fail",
   "fail_with_unknown_effects", "expire"}

(***************************************************************************)
(* A snapshot s has fields state, revision, steering_open and pending; pid *)
(* is the transition's pending_request_id (None when it carries none).     *)
(* Accepts is the conjunction of the reducer's error checks.  A terminal   *)
(* snapshot accepts nothing that changes it: a repeated cancellation of a  *)
(* cancelled run returns the same snapshot, every other kind raises.       *)
(***************************************************************************)
Accepts(s, kind, pid) ==
  /\ AllowedFrom(kind, s.state)
  /\ kind = "steer" => s.steering_open
  /\ kind = "respond" => s.pending # None /\ pid = s.pending
  /\ kind \in WaitKinds => pid # None

Reduce(s, kind, pid) ==
  [s EXCEPT !.state         = TargetState(kind, s.state),
            !.revision      = s.revision + 1,
            !.steering_open = s.steering_open /\ kind \notin SteeringClosers,
            !.pending       = IF kind \in WaitKinds THEN pid
                              ELSE IF kind \in PendingClearers THEN None
                              ELSE s.pending]
=============================================================================
