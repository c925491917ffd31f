----------------------------- MODULE Scheduler -----------------------------
(***************************************************************************)
(* Durable schedules: RuntimeSchedulerBackend over the scheduler tables of *)
(* the runtime store, and the daemons that poll it and run what they       *)
(* claim.  Daemons may stop, stall past their lease, lose the store or     *)
(* die; the lifecycle run that an attempt started goes on without them.    *)
(*                                                                         *)
(* Every store call is one transaction and one action.  A worker is one    *)
(* claimed task of a daemon, with the poll that feeds it.  A fence, claim  *)
(* id, worker id and token are one thing, the holder of the row: a worker  *)
(* gives up its claim before it takes another, and a claim of the same row *)
(* changes the holder.  The clock counts due times; leases and delays end  *)
(* by steps of their own.                                                  *)
(*                                                                         *)
(* Definitions named ...Mutant are faulty variants of the definition that  *)
(* follows them.  No other definition refers to them; they show that the   *)
(* properties notice the fault.                                            *)
(***************************************************************************)
EXTENDS Naturals

CONSTANTS
  Jobs,
  Workers,
  None,
  Worlds,       \* definitions of the jobs, clock limit and budgets to explore
  Horizon,      \* the last value of the clock
  MaxRevision,  \* revisions of a job
  MaxRetries,   \* the largest max_retries
  MaxManual     \* manual triggers

ASSUME NoneIsNobody == None \notin Workers
ASSUME BoundsAreNatural ==
  /\ Horizon \in Nat \ {0} /\ MaxRevision \in Nat \ {0}
  /\ MaxRetries \in Nat /\ MaxManual \in Nat

Times     == 1..Horizon
Serials   == (Horizon + 1)..(Horizon + MaxManual)  \* manual occurrences
Revisions == 1..MaxRevision

\* scheduler_occurrence_id and scheduler_run_id
Occurrences == Jobs \X Revisions \X (Times \cup Serials)
Attempts    == Occurrences \X (1..MaxRetries + 1)
ASSUME NoneIsNoAttempt == None \notin Attempts

Definition == [group : Jobs, overlap : {"queue", "skip"},
               misfire : {"fire_once", "catch_up", "skip"},
               grace : 0..Horizon, every : Nat \ {0},
               retries : 0..MaxRetries, jitter : BOOLEAN]
Ends   == {"completed", "failed", "dead", "stuck"}
Faults == {"cancel", "stall", "crash", "refuse", "input", "edit", "manual"}
World  == [jobs : SUBSET Jobs, def : [Jobs -> [Revisions -> Definition]], last : Times,
           ends : SUBSET Ends, budget : [Faults -> Nat]]

ASSUME WorldsAreWorlds == Worlds \subseteq World
ASSUME ManualsAreBounded == \A w \in Worlds : w.budget["manual"] <= MaxManual

VARIABLES
  world,  \* chosen once
  left,   \* how many steps of each kind of fault or edit are left
  now,    \* scheduler_now
  job,    \* runtime_scheduler_jobs, and history: the first due time of the
          \* revision and the time at which the last one was observed
  row,    \* runtime_scheduler_runs by attempt; one whose lease ended has no
          \* holder
  life,   \* the lifecycle runs by attempt, and the daemon that runs each
  pc,     \* idle, observed, claimed, bind, wait, follow
  due,    \* SchedulerDueJob a poll has listed
  work    \* the attempt a task runs

vars == <<world, left, now, job, row, life, pc, due, work>>

NoJob == [rev |-> 0, on |-> FALSE, next |-> 0, first |-> 0, seen |-> 0]
NewRow(status, ready) == [status |-> status, holder |-> None, bound |-> FALSE, ready |-> ready]
NoDue == [job |-> None, rev |-> 0, next |-> 0, at |-> 0]

ReadyStatuses    == {"pending", "retry_wait"}
ActiveStatuses   == {"claimed", "running", "detached"}
TerminalStatuses == {"completed", "failed", "dead_lettered", "skipped"}

Job(a) == a[1][1]
DefOf(a) == world.def[a[1][1]][a[1][2]]   \* the snapshot an attempt keeps
Current(j) == world.def[j][job[j].rev]
First(o) == <<o, 1>>
Rows == DOMAIN row
Started(a) == a \in DOMAIN life

\* A row is inserted or replaced.
Put(f, a, value) == [b \in DOMAIN f \cup {a} |-> IF b = a THEN value ELSE f[b]]

Init ==
  /\ world \in Worlds
  /\ left = world.budget
  /\ now = 0
  /\ job = [j \in Jobs |-> NoJob]
  /\ row = <<>>
  /\ life = <<>>
  /\ pc = [w \in Workers |-> "idle"]
  /\ due = [w \in Workers |-> NoDue]
  /\ work = [w \in Workers |-> None]

Spend(f) == left[f] > 0 /\ left' = [left EXCEPT ![f] = @ - 1]
Goto(w, at, a) == pc' = [pc EXCEPT ![w] = at] /\ work' = [work EXCEPT ![w] = a]

-----------------------------------------------------------------------------
(***************************************************************************)
(* Jobs.                                                                   *)
(***************************************************************************)
\* next_schedule_time of an interval schedule
NextTime(d, after) == after + d.every

\* Registered for the first time, or again: each daemon that starts with the
\* job in its configuration registers it.
Upsert(j) ==
  /\ j \in world.jobs /\ job[j].rev < MaxRevision
  /\ IF job[j].rev = 0 /\ now = 0 THEN UNCHANGED left ELSE Spend("edit")
  /\ LET next == NextTime(world.def[j][job[j].rev + 1], now) IN
     job' = [job EXCEPT ![j] = [rev |-> @.rev + 1, on |-> TRUE, next |-> next,
                                first |-> next, seen |-> 0]]
  /\ UNCHANGED <<world, now, row, life, pc, due, work>>

SetEnabled(j, on) ==
  /\ job[j].rev \in 1..(MaxRevision - 1)
  /\ world.def[j][job[j].rev + 1] = Current(j)
  /\ Spend("edit")
  /\ LET next == IF on THEN NextTime(world.def[j][job[j].rev + 1], now) ELSE 0 IN
     job' = [job EXCEPT ![j] = [rev |-> @.rev + 1, on |-> on, next |-> next,
                                first |-> next, seen |-> 0]]
  /\ UNCHANGED <<world, now, row, life, pc, due, work>>

Delete(j) ==
  /\ job[j].rev > 0
  /\ Spend("edit")
  /\ job' = [job EXCEPT ![j] = NoJob]
  /\ UNCHANGED <<world, now, row, life, pc, due, work>>

Tick ==
  /\ now < world.last
  /\ now' = now + 1
  /\ UNCHANGED <<world, left, job, row, life, pc, due, work>>

-----------------------------------------------------------------------------
(***************************************************************************)
(* Claims.                                                                 *)
(***************************************************************************)
HoldsClaim(a) == row[a].holder # None

\* _sqlite_group_busy and _sqlite_group_backlogged
BusyMutant(group, except) ==
  \E a \in Rows : /\ a # except /\ DefOf(a).group = group
                  /\ row[a].status = "running" /\ row[a].holder # None
Busy(group, except) ==
  \E a \in Rows : /\ a # except /\ DefOf(a).group = group
                  /\ row[a].status \in {"claimed", "running"} /\ HoldsClaim(a)
Backlogged(group) ==
  \E a \in Rows : DefOf(a).group = group /\ row[a].status \in ReadyStatuses

ClaimableMutant(a) ==
  \/ row[a].status \in ReadyStatuses /\ row[a].ready
  \/ row[a].status \in {"claimed", "running"} /\ ~HoldsClaim(a)
Claimable(a) ==
  \/ row[a].status \in ReadyStatuses /\ row[a].ready
  \/ row[a].status \in ActiveStatuses /\ ~HoldsClaim(a)

\* The daemon is stopped while the claim runs in its thread: nobody learns of
\* it.
Taken(w, a, bound, rest) ==
  \/ Goto(w, IF bound THEN "follow" ELSE "claimed", a) /\ left' = rest
  \/ /\ Goto(w, "idle", None)
     /\ rest["cancel"] > 0 /\ left' = [rest EXCEPT !["cancel"] = @ - 1]

ClaimedBy(w, bound) ==
  [status |-> "claimed", holder |-> w, bound |-> bound, ready |-> TRUE]

\* claim_scheduler_run
ClaimReady(w, a) ==
  /\ pc[w] = "idle"
  /\ Claimable(a)
  /\ IF Busy(DefOf(a).group, a)
       THEN /\ DefOf(a).overlap = "skip"
            /\ row' = [row EXCEPT ![a].status = "skipped"]
            /\ UNCHANGED <<left, pc, work>>
       ELSE /\ row' = [row EXCEPT ![a] = ClaimedBy(w, @.bound)]
            /\ Taken(w, a, row[a].bound, left)
  /\ UNCHANGED <<world, now, job, life, due>>

\* list_due_scheduler_jobs
ObserveDue(w, j) ==
  /\ pc[w] = "idle"
  /\ job[j].on /\ job[j].next <= now
  /\ pc' = [pc EXCEPT ![w] = "observed"]
  /\ due' = [due EXCEPT ![w] = [job |-> j, rev |-> job[j].rev, next |-> job[j].next, at |-> now]]
  /\ UNCHANGED <<world, left, now, job, row, life, work>>

\* The recurrence and misfire rules of claim_due_runs.
Misfired(d, scheduled, observed) == observed - scheduled > d.grace
NextDueMutant(d, scheduled, observed) ==
  LET base == IF d.misfire = "catch_up" \/ ~Misfired(d, scheduled, observed)
                THEN scheduled ELSE observed IN
  NextTime(d, base)
NextDue(d, scheduled, observed) ==
  LET base == IF d.misfire = "catch_up" \/ ~Misfired(d, scheduled, observed)
                THEN scheduled ELSE observed
      next == NextTime(d, base) IN
  IF d.misfire = "fire_once" /\ next <= observed THEN NextTime(d, observed) ELSE next

UnchangedSinceMutant(d) == job[d.job].on /\ job[d.job].rev = d.rev
UnchangedSince(d) ==
  job[d.job].on /\ job[d.job].rev = d.rev /\ job[d.job].next = d.next

\* claim_scheduler_job
ClaimDue(w) ==
  /\ pc[w] = "observed"
  /\ due' = [due EXCEPT ![w] = NoDue]
  /\ LET d    == due[w]
         def  == Current(d.job)
         a    == First(<<d.job, d.rev, d.next>>)
         busy == Busy(def.group, None)
         back == Backlogged(def.group) IN
     IF ~UnchangedSince(d) \/ (back /\ def.overlap = "queue")
       THEN /\ Goto(w, "idle", None)
            /\ UNCHANGED <<left, job, row>>
       ELSE /\ job' = [job EXCEPT ![d.job].next = NextDue(def, d.next, d.at),
                                  ![d.job].seen = d.at]
            /\ \E ready \in (IF def.jitter THEN BOOLEAN ELSE {TRUE}) :
                 IF \/ def.misfire = "skip" /\ Misfired(def, d.next, d.at)
                    \/ def.overlap = "skip" /\ (busy \/ back)
                   THEN /\ row' = Put(row, a, NewRow("skipped", ready))
                        /\ Goto(w, "idle", None)
                        /\ UNCHANGED left
                 ELSE IF ~ready \/ busy \/ back
                   THEN /\ row' = Put(row, a, NewRow("pending", ready))
                        /\ Goto(w, "idle", None)
                        /\ UNCHANGED left
                   ELSE /\ row' = Put(row, a, ClaimedBy(w, FALSE))
                        /\ Taken(w, a, FALSE, left)
  /\ UNCHANGED <<world, now, life>>

\* trigger_cron and claim_scheduler_now
TriggerNow(w, j) ==
  /\ pc[w] = "idle"
  /\ job[j].rev > 0
  /\ ~Busy(Current(j).group, None)
  /\ left["manual"] > 0
  /\ LET a == First(<<j, job[j].rev, Horizon + left["manual"]>>) IN
     /\ row' = Put(row, a, ClaimedBy(w, FALSE))
     /\ Taken(w, a, FALSE, [left EXCEPT !["manual"] = @ - 1])
  /\ UNCHANGED <<world, now, job, life, due>>

\* retry_wait or jitter ends
DelayPasses(a) ==
  /\ row[a].status \in ReadyStatuses /\ ~row[a].ready
  /\ row' = [row EXCEPT ![a].ready = TRUE]
  /\ UNCHANGED <<world, left, now, job, life, pc, due, work>>

\* The holder is gone, or stalls past its lease.
LeaseExpires(a) ==
  /\ HoldsClaim(a)
  /\ IF work[row[a].holder] = a THEN Spend("stall") ELSE UNCHANGED left
  /\ row' = [row EXCEPT ![a].holder = None]
  /\ UNCHANGED <<world, now, job, life, pc, due, work>>

-----------------------------------------------------------------------------
(***************************************************************************)
(* _run_claimed_job.                                                       *)
(***************************************************************************)
\* _sqlite_authoritative_claim
Owns(w, a) == row[a].holder = w

\* finish_claim and finish_scheduler_claim of a claim that is still held; a
\* lost one is swallowed.
Retries(a, status) == status = "failed" /\ a[2] <= DefOf(a).retries
Next1(a) == <<a[1], a[2] + 1>>

Finish(w, a, status) ==
  /\ LET settled == [row EXCEPT ![a].status = status, ![a].holder = None] IN
     row' = IF ~Owns(w, a) THEN row
            ELSE IF Retries(a, status) THEN Put(settled, Next1(a), NewRow("retry_wait", FALSE))
            ELSE settled
  /\ Goto(w, "idle", None)

\* release_scheduler_claim
Released(w, a) ==
  IF ~Owns(w, a) THEN row
  ELSE [row EXCEPT ![a].status = IF row[a].bound THEN "detached" ELSE "pending",
                  ![a].holder = None]

\* agent.start under the idempotency key of the attempt.  The request carries
\* the fence of the claim, so a second start of an attempt is a conflict.
StartRun(w, a) ==
  /\ pc[w] = "claimed" /\ work[w] = a
  /\ IF ~Started(a)
       THEN /\ life' = Put(life, a, [state |-> "running", host |-> w])
            /\ Goto(w, "bind", a)
            /\ UNCHANGED row
       ELSE /\ Finish(w, a, "dead_lettered")
            /\ UNCHANGED life
  /\ UNCHANGED <<world, left, now, job, due>>

\* Admission is refused before there is a run.
StartFails(w, a) ==
  /\ pc[w] = "claimed" /\ work[w] = a
  /\ ~Started(a)
  /\ Spend("refuse")
  /\ \E status \in {"failed", "dead_lettered"} : Finish(w, a, status)
  /\ UNCHANGED <<world, now, job, life, due>>

\* bind_scheduler_runtime_run
Bound(a) == [row EXCEPT ![a].status = "running", ![a].bound = TRUE]

Bind(w, a) ==
  /\ pc[w] = "bind" /\ work[w] = a
  /\ IF Owns(w, a)
       THEN row' = Bound(a) /\ Goto(w, "wait", a)
       ELSE UNCHANGED row /\ Goto(w, "idle", None)
  /\ UNCHANGED <<world, left, now, job, life, due>>

\* What run.wait returns or raises, as the settlement it leads to.
StuckFailsMutant(state) ==
  CASE state = "completed" -> "completed"
    [] state \in {"failed", "input", "stuck"} -> "failed"
    [] state = "dead" -> "dead_lettered"
OutcomeOf(state) ==
  CASE state = "completed" -> "completed"
    [] state \in {"failed", "input"} -> "failed"
    [] state = "dead" -> "dead_lettered"
    [] state = "stuck" -> "released"

Settle(w, a) ==
  IF OutcomeOf(life[a].state) = "released"
    THEN row' = Released(w, a) /\ Goto(w, "idle", None)
    ELSE Finish(w, a, OutcomeOf(life[a].state))

\* run.wait in the daemon that started the run
WaitReturns(w, a) ==
  /\ pc[w] = "wait" /\ work[w] = a
  /\ IF life[a].state = "running"
       THEN /\ life[a].host # w
            /\ row' = Released(w, a) /\ Goto(w, "idle", None)
       ELSE Settle(w, a)
  /\ UNCHANGED <<world, left, now, job, life, due>>

\* _wait_or_recover_bound_run: the run ended or waits, or its host is gone and
\* recover_run takes it over.
FollowReturns(w, a) ==
  /\ pc[w] = "follow" /\ work[w] = a
  /\ life[a].state # "running"
  /\ Settle(w, a)
  /\ UNCHANGED <<world, left, now, job, life, due>>

RecoverBound(w, a) ==
  /\ pc[w] = "follow" /\ work[w] = a
  /\ life[a] = [state |-> "running", host |-> None]
  /\ life' \in {[life EXCEPT ![a].host = w]} \cup
       IF "stuck" \in world.ends THEN {[life EXCEPT ![a].state = "stuck"]} ELSE {}
  /\ UNCHANGED <<world, left, now, job, row, pc, due, work>>

\* The renewal of a claim that was lost cancels the task.
RenewFails(w, a) ==
  /\ pc[w] \notin {"idle", "observed"} /\ work[w] = a
  /\ ~Owns(w, a)
  /\ Goto(w, "idle", None)
  /\ UNCHANGED <<world, left, now, job, row, life, due>>

\* The daemon is stopped or loses the store, so the task releases its claim,
\* or fails to.  The call it was in may still have committed: an admission
\* that nobody launches, a binding.
Interrupt(w, a) ==
  /\ pc[w] \notin {"idle", "observed"} /\ work[w] = a
  /\ Spend("cancel")
  /\ Goto(w, "idle", None)
  /\ \/ row' \in {row, Released(w, a)} /\ UNCHANGED life
     \/ /\ pc[w] = "claimed" /\ ~Started(a)
        /\ life' = Put(life, a, [state |-> "running", host |-> None])
        /\ row' \in {row, Released(w, a)}
     \/ /\ pc[w] = "bind" /\ Owns(w, a)
        /\ row' \in {Bound(a), [Bound(a) EXCEPT ![a].status = "detached",
                                               ![a].holder = None]}
        /\ UNCHANGED life
  /\ UNCHANGED <<world, now, job, due>>

Crash(w) ==
  /\ Spend("crash")
  /\ Goto(w, "idle", None)
  /\ due' = [due EXCEPT ![w] = NoDue]
  /\ life' = [a \in DOMAIN life |-> IF life[a].host = w THEN [life[a] EXCEPT !.host = None]
                                    ELSE life[a]]
  /\ UNCHANGED <<world, now, job, row>>

-----------------------------------------------------------------------------
(***************************************************************************)
(* Lifecycle runs, as far as the scheduler can tell them apart.            *)
(***************************************************************************)
LifeEnds(a) ==
  /\ life[a].state = "running" /\ life[a].host # None
  /\ \E s \in world.ends :
       life' = [life EXCEPT ![a] = [state |-> s, host |-> None]]
  /\ UNCHANGED <<world, left, now, job, row, pc, due, work>>

AsksInput(a) ==
  /\ life[a].state = "running" /\ life[a].host # None
  /\ Spend("input")
  /\ life' = [life EXCEPT ![a] = [state |-> "input", host |-> None]]
  /\ UNCHANGED <<world, now, job, row, pc, due, work>>

InputGiven(a, w) ==
  /\ life[a].state = "input"
  /\ life' = [life EXCEPT ![a] = [state |-> "running", host |-> w]]
  /\ UNCHANGED <<world, left, now, job, row, pc, due, work>>

\* The process that executes the run lives on without the lease of the run.
HostLost(a) ==
  /\ life[a].state = "running" /\ life[a].host # None
  /\ Spend("stall")
  /\ life' = [life EXCEPT ![a].host = None]
  /\ UNCHANGED <<world, now, job, row, pc, due, work>>

\* Evidence arrives, and whoever reconciles the run brings it to its end.
Reconciled(a) ==
  /\ life[a].state = "stuck"
  /\ \E s \in world.ends \ {"stuck"} :
       life' = [life EXCEPT ![a].state = s]
  /\ UNCHANGED <<world, left, now, job, row, pc, due, work>>

-----------------------------------------------------------------------------
TaskStep(w, a) ==
  \/ StartRun(w, a) \/ StartFails(w, a) \/ Bind(w, a)
  \/ WaitReturns(w, a) \/ FollowReturns(w, a) \/ RecoverBound(w, a)
  \/ RenewFails(w, a)

Fault ==
  \/ \E w \in Workers, a \in Rows : Interrupt(w, a)
  \/ \E w \in Workers : Crash(w)
  \/ \E a \in DOMAIN life : HostLost(a)

Poll(w) ==
  \/ \E a \in Rows : ClaimReady(w, a)
  \/ \E j \in Jobs : ObserveDue(w, j) \/ TriggerNow(w, j)
  \/ ClaimDue(w)

Next ==
  \/ Tick
  \/ \E j \in Jobs : Upsert(j) \/ Delete(j)
  \/ \E j \in Jobs, on \in BOOLEAN : SetEnabled(j, on)
  \/ \E w \in Workers : Poll(w)
  \/ \E w \in Workers, a \in Rows : TaskStep(w, a)
  \/ \E a \in Rows : LeaseExpires(a) \/ DelayPasses(a)
  \/ \E a \in DOMAIN life : \/ LifeEnds(a) \/ AsksInput(a) \/ Reconciled(a)
                             \/ \E w \in Workers : InputGiven(a, w)
  \/ Fault

\* Polls, tasks and the waits of the store go on; runs end and evidence
\* about an effect in doubt arrives.
Fairness ==
  /\ SF_vars(\E w \in Workers, a \in Rows : ClaimReady(w, a))
  /\ SF_vars(\E w \in Workers, j \in Jobs : ObserveDue(w, j))
  /\ WF_vars(\E w \in Workers : ClaimDue(w))
  /\ WF_vars(\E w \in Workers, a \in Rows : TaskStep(w, a))
  /\ WF_vars(\E a \in Rows : LeaseExpires(a) /\ work[row[a].holder] # a)
  /\ WF_vars(\E a \in Rows : DelayPasses(a))
  /\ WF_vars(\E a \in DOMAIN life : LifeEnds(a))
  /\ WF_vars(\E a \in DOMAIN life : Reconciled(a))

Spec == Init /\ [][Next]_vars /\ Fairness

-----------------------------------------------------------------------------
(***************************************************************************)
(* Properties.                                                             *)
(***************************************************************************)
\* Jobs of one concurrency group are serialized: at most one attempt of the
\* group has a live claim, whatever is reclaimed, triggered or edited
\* (_sqlite_group_busy inside the claim transactions).
OneClaimPerGroup ==
  \A a, b \in Rows :
    HoldsClaim(a) /\ HoldsClaim(b) /\ DefOf(a).group = DefOf(b).group => a = b

\* The recurrence loses and repeats nothing although it is computed from a
\* stale listing: a catch_up job has recorded every due time before the next,
\* a fire_once job never replays one at or before the last observation, and
\* no due time is recorded ahead of its turn (claim_due_runs).
ScheduleKept ==
  \A j \in Jobs : job[j].rev > 0 /\ job[j].on =>
    LET d == Current(j)
        Recorded(t) == First(<<j, job[j].rev, t>>) \in Rows IN
    /\ d.misfire = "catch_up" =>
         \A t \in job[j].first..(job[j].next - 1) :
           (t - job[j].first) % d.every = 0 => Recorded(t)
    /\ d.misfire = "fire_once" => job[j].next > job[j].seen
    /\ \A t \in Times : t >= job[j].next => ~Recorded(t)

\* What an attempt ended as is true of its lifecycle run.  It is completed only
\* over a bound run that completed, although its claim may have been lost and
\* taken over in between; and additional attempts come, where no run asks for
\* input and no task outlives its lease, "only after a known retryable terminal
\* failure" (docs/durable-scheduling.md).  A run that waits for input is one
\* such exception: wait raises, the attempt is failed and tried again while the
\* run waits on.
OutcomesAreTrue ==
  /\ \A a \in Rows :
       row[a].status = "completed" => row[a].bound /\ Started(a) /\ life[a].state = "completed"
  /\ world.budget["input"] = 0 /\ world.budget["stall"] = 0 =>
       \A a \in Rows : Next1(a) \in Rows /\ Started(a) => life[a].state = "failed"

\* docs/durable-scheduling.md: dead_lettered is the settlement of a "known
\* non-retryable failure"; after a lost claim the next worker "reattaches to
\* the recorded runtime_run_id or the same idempotent lifecycle admission".
DeadLetterIsOver ==
  \A a \in Rows : row[a].status = "dead_lettered" /\ Started(a) => life[a].state = "dead"

\* Each occurrence is taken up once, tried in turn and settled for good.
Tries(o) ==
  CHOOSE n \in 1..(MaxRetries + 1) : <<o, n>> \in Rows /\ <<o, n + 1>> \notin Rows
Phase(o) ==
  LET s == row[<<o, Tries(o)>>].status IN
  IF s \in TerminalStatuses THEN s ELSE "open"

Contract == INSTANCE ScheduleContract WITH
  MaxTries <- MaxRetries + 1, Outcomes <- TerminalStatuses,
  course <- [o \in {a[1] : a \in Rows} |-> [phase |-> Phase(o), tries |-> Tries(o)]]
KeepsContract == Contract!Spec

\* Whatever fails, the schedule catches up: in the end no due time is waiting
\* and every attempt that was recorded is settled.
CatchesUp ==
  <>[](/\ \A a \in Rows : row[a].status \in TerminalStatuses
       /\ \A j \in Jobs : job[j].on => job[j].next > now)
=============================================================================
