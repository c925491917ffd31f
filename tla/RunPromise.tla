----------------------------- MODULE RunPromise -----------------------------
(***************************************************************************)
(* What the run store promises its callers, without saying how: a run is   *)
(* opened at most once, under a parent that is still open, and reaches at  *)
(* most one outcome, which never changes.  Runs settle one at a time.  A   *)
(* parent is completed only over children that are settled, and over       *)
(* children it required to succeed only when they completed.               *)
(***************************************************************************)
CONSTANTS Runs, Outcomes, Completed, Unopened, Open

VARIABLES
  phase,     \* Unopened, Open, or the outcome of each run
  children,  \* the declared children of each run
  required   \* those that must complete before the run can

promiseVars == <<phase, children, required>>

Init ==
  /\ phase = [r \in Runs |-> Unopened]
  /\ children = [r \in Runs |-> {}]
  /\ required = [r \in Runs |-> {}]

OpenRoot(r) ==
  /\ phase[r] = Unopened
  /\ phase' = [phase EXCEPT ![r] = Open]
  /\ UNCHANGED <<children, required>>

OpenChild(c, p) ==
  /\ phase[c] = Unopened /\ phase[p] = Open
  /\ phase' = [phase EXCEPT ![c] = Open]
  /\ children' = [children EXCEPT ![p] = @ \cup {c}]
  /\ required' \in {required, [required EXCEPT ![p] = @ \cup {c}]}

MayComplete(r) ==
  /\ \A c \in children[r] : phase[c] \in Outcomes
  /\ \A c \in required[r] : phase[c] = Completed

\* The outcome is whatever the run settles with.
Settle(r) ==
  /\ phase[r] = Open
  /\ phase'[r] \in Outcomes
  /\ phase'[r] = Completed => MayComplete(r)
  /\ phase' = [phase EXCEPT ![r] = phase'[r]]
  /\ UNCHANGED <<children, required>>

Next ==
  \/ \E r \in Runs : OpenRoot(r)
  \/ \E c, p \in Runs : OpenChild(c, p)
  \/ \E r \in Runs : Settle(r)

Spec == Init /\ [][Next]_promiseVars
=============================================================================
