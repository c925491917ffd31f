---------------------------- MODULE SessionLanes ----------------------------
(***************************************************************************)
(* AsyncSessionLanes: the admission of executions in one process.  A task  *)
(* reserves a place, waits for the lane of its session, then for capacity, *)
(* which tenants with ready sessions are given in turn.                    *)
(*                                                                         *)
(* No section under the registry lock or the capacity lock awaits, so each *)
(* stretch of code between two awaits of hold() is one action.             *)
(*                                                                         *)
(* Definitions named ...Mutant are faulty variants of the definition that  *)
(* follows them.  No other definition refers to them; they show that the   *)
(* properties notice the fault.                                            *)
(***************************************************************************)
EXTENDS Naturals, FiniteSets, SequencesExt

CONSTANTS
  Tasks,          \* calls of hold()
  SessionOf,      \* the exact session of each task
  TenantOf,       \* its tenant
  None,           \* no lane
  Limits,         \* the values of max_concurrency to explore
  MaxWaiting,     \* max_waiting
  MaxPerTenant,   \* max_waiting_per_tenant
  MaxPerSession   \* max_waiting_per_session

ASSUME TasksHaveOneLane ==
  /\ DOMAIN SessionOf = Tasks /\ DOMAIN TenantOf = Tasks
  /\ \A t, u \in Tasks : SessionOf[t] = SessionOf[u] => TenantOf[t] = TenantOf[u]
ASSUME ScopesAreDisjoint ==
  LET sessions == {SessionOf[t] : t \in Tasks}
      tenants  == {TenantOf[t] : t \in Tasks} IN
  sessions \cap tenants = {} /\ "process" \notin sessions \cup tenants
ASSUME NoneIsNoTask == None \notin Tasks
ASSUME TasksFinite == IsFiniteSet(Tasks)
ASSUME LimitsNest ==
  /\ Limits \subseteq Nat \ {0} /\ MaxPerSession \in Nat \ {0}
  /\ MaxPerTenant \in Nat /\ MaxWaiting \in Nat
  /\ MaxPerSession <= MaxPerTenant /\ MaxPerTenant <= MaxWaiting

Sessions == {SessionOf[t] : t \in Tasks}
Tenants  == {TenantOf[t] : t \in Tasks}
Scopes   == Sessions \cup Tenants \cup {"process"}
ScopesOf(t) == {SessionOf[t], TenantOf[t], "process"}

VARIABLES
  maxConcurrency,
  pc,      \* new, lane (waits for or has just got the lane), queued for
           \* capacity, granted (not yet resumed), running, left
  lanes,   \* _lanes: the lane of each session, named after its creator
  laneOf,  \* the lane each task refers to
  lock,    \* _Lane.lock: the holder and then the tasks that wait, in order
  waiting, \* _waiting, _waiting_by_tenant and _waiting_by_lane
  active,  \* _active
  order,   \* _tenant_order
  queue,   \* _tenant_queues
  passed   \* history: grants to another tenant since this one became
           \* ready or had its own last grant

laneVars     == <<lanes, laneOf, lock>>
capacityVars == <<waiting, active, order, queue, passed>>
vars == <<maxConcurrency, pc, laneVars, capacityVars>>

Init ==
  /\ maxConcurrency \in Limits
  /\ pc = [t \in Tasks |-> "new"]
  /\ lanes = [s \in Sessions |-> None]
  /\ laneOf = [t \in Tasks |-> None]
  /\ lock = [l \in Tasks |-> <<>>]
  /\ waiting = [x \in Scopes |-> 0]
  /\ active = 0
  /\ order = <<>>
  /\ queue = [n \in Tenants |-> <<>>]
  /\ passed = [n \in Tenants |-> [m \in Tenants |-> 0]]

-----------------------------------------------------------------------------
(***************************************************************************)
(* Lanes.                                                                  *)
(***************************************************************************)
\* A lane lives while a task refers to it.
References(l) == {t \in Tasks : laneOf[t] = l}

\* _reference, then the lock: the head of lock[l] holds it.
Enter(t) ==
  LET s == SessionOf[t]
      l == IF lanes[s] = None THEN t ELSE lanes[s] IN
  /\ lanes' = [lanes EXCEPT ![s] = l]
  /\ laneOf' = [laneOf EXCEPT ![t] = l]
  /\ lock' = [lock EXCEPT ![l] = Append(@, t)]

\* The end of hold(): the lock is released or no longer waited for, and
\* _dereference forgets the lane with its last reference.
ForgottenMutant(t) == Head(lock[laneOf[t]]) = t
Forgotten(t) == References(laneOf[t]) = {t}

ExitLane(t) ==
  /\ lock' = [lock EXCEPT ![laneOf[t]] = RemoveFirst(@, t)]
  /\ lanes' = IF Forgotten(t) THEN [lanes EXCEPT ![SessionOf[t]] = None] ELSE lanes
  /\ laneOf' = [laneOf EXCEPT ![t] = None]

-----------------------------------------------------------------------------
(***************************************************************************)
(* Capacity.  A state of it is a record; the operators are the helpers     *)
(* that run under the capacity lock.                                       *)
(***************************************************************************)
Capacity == [pc |-> pc, waiting |-> waiting, active |-> active,
             order |-> order, queue |-> queue, passed |-> passed]

\* _consume_waiting_locked
Consume(c, t) ==
  [c EXCEPT !.waiting = [x \in Scopes |-> IF x \in ScopesOf(t) THEN @[x] - 1 ELSE @[x]]]

\* _deactivate_locked
DeactivateMutant(c, t) == c
Deactivate(c, t) == [c EXCEPT !.active = @ - 1]

\* What the others have seen pass when tenant n is given capacity.
PassedBy(c, n) ==
  [m \in Tenants |-> [k \in Tenants |->
     IF m = n \/ c.queue[m] = <<>> THEN 0
     ELSE IF k = n THEN (IF c.passed[m][k] < 2 THEN c.passed[m][k] + 1 ELSE 2)
     ELSE c.passed[m][k]]]

\* One turn of the loop of _grant_waiters_locked: the first tenant's oldest
\* waiter; a tenant with more of them goes to the end.
TurnMutant(order1, n, more) == IF more THEN <<n>> \o Tail(order1) ELSE Tail(order1)
Turn(order1, n, more) == IF more THEN Append(Tail(order1), n) ELSE Tail(order1)

GrantOne(c) ==
  LET n == Head(c.order)
      t == Head(c.queue[n])
      d == Consume(c, t) IN
  [d EXCEPT !.pc[t] = "granted", !.active = @ + 1,
            !.order = Turn(@, n, Tail(c.queue[n]) # <<>>),
            !.queue[n] = Tail(@), !.passed = PassedBy(c, n)]

\* _grant_waiters_locked.  Each caller frees at most one slot or queues one
\* waiter, and WorkConserving says that nothing else was grantable before, so
\* the loop makes at most one turn.
GrantMutant(c) == c
Grant(c) == IF c.active < maxConcurrency /\ c.order # <<>> THEN GrantOne(c) ELSE c

\* _remove_waiter_locked
RemoveWaiterMutant(c, t) ==
  [c EXCEPT !.queue[TenantOf[t]] = RemoveFirst(@, t),
            !.order = RemoveFirst(@, TenantOf[t])]
RemoveWaiter(c, t) ==
  LET n == TenantOf[t]
      left == RemoveFirst(c.queue[n], t) IN
  [c EXCEPT !.queue[n] = left,
            !.order = IF left = <<>> THEN RemoveFirst(@, n) ELSE @,
            !.passed[n] = IF left = <<>> THEN [m \in Tenants |-> 0] ELSE @]

\* The waiter of _acquire_capacity.
Queue(c, t) ==
  LET n == TenantOf[t] IN
  [c EXCEPT !.pc[t] = "queued",
            !.order = IF c.queue[n] = <<>> THEN Append(@, n) ELSE @,
            !.queue[n] = Append(@, t)]

Become(c) ==
  \E d \in {c} :
    /\ pc' = d.pc /\ waiting' = d.waiting /\ active' = d.active
    /\ order' = d.order /\ queue' = d.queue /\ passed' = d.passed

-----------------------------------------------------------------------------
(***************************************************************************)
(* hold().                                                                 *)
(***************************************************************************)
\* _reserve_waiter
Full(t) ==
  \/ waiting[SessionOf[t]] >= MaxPerSession
  \/ waiting[TenantOf[t]] >= MaxPerTenant
  \/ waiting["process"] >= MaxWaiting

Reject(t) ==
  /\ pc[t] = "new" /\ Full(t)
  /\ pc' = [pc EXCEPT ![t] = "left"]
  /\ UNCHANGED <<laneVars, capacityVars>>

Arrive(t) ==
  /\ pc[t] = "new" /\ ~Full(t)
  /\ pc' = [pc EXCEPT ![t] = "lane"]
  /\ waiting' = [x \in Scopes |-> IF x \in ScopesOf(t) THEN waiting[x] + 1 ELSE waiting[x]]
  /\ Enter(t)
  /\ UNCHANGED <<active, order, queue, passed>>

HoldsLane(t) == laneOf[t] # None /\ Head(lock[laneOf[t]]) = t

\* The lane is acquired: run at once if there is room and nobody is ready,
\* else queue.
RunsAtOnce == active < maxConcurrency /\ order = <<>>

TakeCapacity(t) ==
  /\ pc[t] = "lane" /\ HoldsLane(t)
  /\ IF RunsAtOnce
     THEN LET c == Consume(Capacity, t) IN
          Become([c EXCEPT !.pc[t] = "running", !.active = @ + 1])
     ELSE Become(Grant(Queue(Capacity, t)))
  /\ UNCHANGED laneVars

\* The waiter's future is done and the task resumes.
Resume(t) ==
  /\ pc[t] = "granted"
  /\ pc' = [pc EXCEPT ![t] = "running"]
  /\ UNCHANGED <<laneVars, capacityVars>>

Leave(c, t) == Become([c EXCEPT !.pc[t] = "left"]) /\ ExitLane(t)

\* Timeout or cancellation while it waits for the lane, or the deadline has
\* passed when it gets it: _drop_reservation.
AbandonLane(t) == pc[t] = "lane" /\ Leave(Consume(Capacity, t), t)

\* _abandon_waiter while the waiter is queued, and after it was granted but
\* before its task resumed.
AbandonQueued(t) ==
  pc[t] = "queued" /\ Leave(Consume(RemoveWaiter(Capacity, t), t), t)

AbandonGranted(t) ==
  pc[t] = "granted" /\ Leave(Grant(Deactivate(Capacity, t)), t)

\* The execution ends, or is cancelled: _release_capacity.
Finish(t) ==
  pc[t] = "running" /\ Leave(Grant(Deactivate(Capacity, t)), t)

Proceed(t) == TakeCapacity(t) \/ Resume(t) \/ Finish(t)
Abandon(t) == AbandonLane(t) \/ AbandonQueued(t) \/ AbandonGranted(t)

Next ==
  /\ \E t \in Tasks : Reject(t) \/ Arrive(t) \/ Proceed(t) \/ Abandon(t)
  /\ UNCHANGED maxConcurrency

Spec == Init /\ [][Next]_vars

\* The event loop does not stop while a task is ready, and an execution ends.
\* As a call takes finitely many steps this is enough for each of them.
\* Nothing makes a call arrive, time out or be cancelled.
FairSpec == Spec /\ WF_vars(UNCHANGED maxConcurrency /\ \E t \in Tasks : Proceed(t))

-----------------------------------------------------------------------------
(***************************************************************************)
(* Properties.                                                             *)
(***************************************************************************)
\* Whatever mix of timeouts, cancellations and grants happened, the counters
\* that admission decides by agree with the tasks that wait and run, which are
\* no more than the limits allow, and the registry holds exactly the lanes
\* somebody refers to.
At(steps) == {t \in Tasks : pc[t] \in steps}
Accounting ==
  /\ active = Cardinality(At({"granted", "running"}))
  /\ active <= maxConcurrency /\ waiting["process"] <= MaxWaiting
  /\ \A s \in Sessions : waiting[s] <= MaxPerSession
  /\ \A n \in Tenants : waiting[n] <= MaxPerTenant
  /\ \A x \in Scopes :
       waiting[x] = Cardinality({t \in At({"lane", "queued"}) : x \in ScopesOf(t)})
  /\ \A s \in Sessions :
       lanes[s] = None <=> \A t \in Tasks : SessionOf[t] = s => laneOf[t] = None

\* "Hold global capacity and the exact session lane for one execution": two
\* tasks of one session never own capacity together, although the lane object
\* is created and forgotten as callers come and go, and a same-session waiter
\* takes no execution slot.
Exclusive ==
  \A t, u \in At({"granted", "running"}) : SessionOf[t] = SessionOf[u] => t = u

\* No capacity is left idle while a ready session waits for it.
WorkConserving == order # <<>> => active = maxConcurrency

\* Ready sessions enter capacity in tenant round-robin order: while a tenant
\* has a ready session, any other is given capacity at most once before it.
FairShare == \A n, m \in Tenants : passed[n][m] <= 1

\* A call that was accepted enters or leaves: no wakeup is lost when the
\* waiter ahead of it gives up, even one that was granted capacity.
Admitted ==
  \A t \in Tasks : pc[t] \in {"lane", "queued", "granted"} ~> pc[t] \in {"running", "left"}
=============================================================================
