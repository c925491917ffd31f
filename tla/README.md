# TLA+ models and proofs of the agnoclaw runtime

agnoclaw wraps an agent framework in a durable runtime: logical *runs* that
survive their process, an operation ledger in front of every external effect, a
transactional event log, admission of concurrent work, durable schedules, governed
learning, and stores that can be migrated and failed over. This directory holds
specifications of these parts, the TLC configurations that check them on small
instances, and proofs that TLAPS checks for instances of every size.

Paths are relative to the repository root, `runtime/` stands for
`src/agnoclaw/runtime/`. `PROJECT.json` maps every definition to its lines, lists the
runs, the hazards each property is aimed at, and the theorems.

## 1. The system

| Component | State it keeps | Operations | Talks to |
|---|---|---|---|
| Lifecycle reducer (`runtime/lifecycle.py`) | none: a pure decision over a snapshot | `reduce_lifecycle`, 16 transition kinds over 13 run states | called inside store transactions |
| Run store (`runtime/store.py`, `children.py`, `approvals.py`) | run snapshots with revisions, child relations, decided transition ids, approval requests, terminal records, event sequences | `create_run`, `apply_transition`, `settle_approval`, `append_runtime_event` | every other component, one transaction per call |
| Operation ledger and gateway (`runtime/operations.py`, `gateway.py`) | one record per external effect: state, revision, dispatch attempt, fence | `prepare`, `begin`, `settle`, `recover`, `reconcile`, `execute()` | store, the external provider |
| Run execution (`agent.py`, `runtime/leases.py`, `model_gateway.py`, `reconciliation.py`, `recovery.py`) | run leases in the store; tasks, heartbeat, resume events in each process | `start`, the execution task, `cancel`, `pause`, `resume`, `recover_run`, sweeps, reconciliation | store, ledger, lanes |
| Event log and outbox (`runtime/outbox.py`, `run_handle.py`, `dead_letters.py`, store) | event rows, outbox rows with leases and attempts, retention mark | append, lease, acknowledge, defer, quarantine, requeue, prune, `events()` | store, exporters, readers |
| Session lanes (`runtime/concurrency.py`) | per process: lanes with their locks, tenant queues, counters | `hold()` with its waits, timeouts and cancellation | run execution, learning administration |
| Scheduler and daemon (`runtime/scheduler.py`, `scheduler_store.py`, `heartbeat/daemon.py`) | job revisions with their next due time, one row per attempt with its claim | upsert, enable, delete, poll, claim, trigger, bind, renew, release, finish | starts and follows runs |
| Learning ledger (`learning_candidates.py`, `learning_reconciliation.py`) | candidates with revisions, committed intents, the lease and cursor of a sweep | evaluate, transition, promote, rollback, reconcile, scan | the knowledge store, an observer of it |
| Local migration (`migration_apply.py`) | manifest, copies, fence markers, cutover marker, target databases | apply, verify, cutover, rollback | files only |
| PostgreSQL writer authority (`runtime/postgres_authority.py`, used by `postgres_store.py`) | the last generation a process has seen, a timer in each transaction | admit, revalidate | etcd, PostgreSQL |
| Synchronous bridge (`runtime/sync_bridge.py`, `presentation.py`) | two bounded queues, a pump task, an event loop on a thread | iterate, `close()`, `stop()` | run execution, store |
| Artifacts, checkpoints, child delegation, capabilities, context locks, service migration | see `PROJECT.json` | | |

How they interact: a process calls `start()`, which creates the run in the store and
spawns a background task. The task enters its session lane, takes the run's lease,
moves the run through the reducer, prepares and begins an operation in the ledger,
calls the provider, settles the operation and completes the run. Every step is a
separate store transaction, so other processes (cancel, recover, reconcile, parent
and child runs, schedulers, exporters, retention) act between any two of them.
Commits are shielded from cancellation, in-memory sections contain no `await`.

What is hard here: a cancellation, timeout, crash or lost lease between any two of
those transactions; effects that may have happened although nobody knows; leases that
expire under a worker that is only slow; a tree of runs abandoned while it changes;
late settlements; due times computed from a stale listing; retention under readers and
exporters; waiters cancelled just after they were granted a slot; commands over files
that die half way; a bridge between threads that is closed from three sides.

What makes each part correct:

- **store**: one outcome per run, children settled before the parent completes, abandonment reaches the whole subtree, approvals open exactly while the run waits, gap-free sequences, each decision applied once;
- **ledger**: an effect in doubt is not repeated, recorded outcomes are true and final;
- **execution**: one dispatch, nothing settled over an unknown effect, completion only over a known success, cancellation settles;
- **outbox**: at-least-once delivery, only poison is quarantined, late workers change nothing, readers see no gap, every event is settled in the end;
- **lanes**: one task per session, bounded, no idle slot while somebody is ready, tenants in turn, no lost wakeup;
- **scheduler**: one live claim per concurrency group, a recurrence that loses and repeats nothing, settlements that are true of the runs, retries in turn and bounded, a schedule that catches up;
- **learning**: adapters are called only under a committed intent, the ledger tells the truth about the knowledge store, every doubt is settled;
- **migration**: the preimage survives every interruption, nothing incomplete counts as applied, newer data is never removed, repeating a command finishes it;
- **authority**: commits only on the server that holds the authority, and within one tenure;
- **bridge**: a clean end is the truth about the run, a waiting consumer returns, display never stops a run.

## 2. Modules and how they correspond to the code

| Module | Models | Used by |
|---|---|---|
| `RunLifecycle` | the reducer's tables and decision | `RunStore`, `RunWorker` |
| `RunPromise` | what the store promises, abstractly | `RunStore` (refinement) |
| `RunStore`, `MCRunStore`, `RunStoreProofs` | run store of many runs | |
| `OperationGateway`, `MCOperationGateway`; proofs in `RunStoreProofs` | one operation, many callers | |
| `RunWorker`, `MCRunWorker`, `RunWorkerProofs` | one run, many harness processes | |
| `EventOutbox`, `MCEventOutbox`, `EventOutboxProofs` | the log of one run, exporters, operator, reader | |
| `SessionLanes`, `MCSessionLanes`, `SessionLanesProofs` | admission in one process | |
| `ScheduleContract` | what becomes of one due time, abstractly | `Scheduler` (refinement) |
| `Scheduler`, `MCScheduler`, `SchedulerProofs` | jobs, attempts, daemons and the runs they start | |
| `LearningLedger`, `MCLearningLedger`, `LearningLedgerProofs` | candidates, gateway calls, operators, sweepers | |
| `LocalMigration`, `MCLocalMigration`, `LocalMigrationProofs` | the four commands over targets and sources | |
| `WriterAuthority`, `MCWriterAuthority`; proofs in `LocalMigrationProofs` | transactions, etcd, the controller and the servers | |
| `SyncStream`, `MCSyncStream`, `SyncStreamProofs` | one stream, its run, consumer, closers and coordinator | |

Definitions named `...Mutant` are faulty variants of a definition of the model. Nothing
refers to them; substituting one must break the property `PROJECT.json` pairs it with.

### RunStore
A variable per table: `run` (snapshot: state, revision, `steering_open`, pending id),
`relation`, `decided`, `terminal`, `approval`, `sequence`; `overdue` says which requests
have passed their expiry. An action is a store method with everything its transaction
writes: `apply_transition` includes the notice to the parent, the sweep of descendants,
the cancellation of pending approvals and the terminal record. Calls with a decided
transition id or an old revision change nothing and are not actions. A swept descendant is
cancelled under the id `<tid>:child:<run>`; a sweep that would decide such an id a second
time fails as a whole. Depth and fan-out budgets are the same for every declaration;
payloads, owners and digests are left out, and so are the runtime and operation events
that other components append to the same sequences.

`RunPromise` is the abstract specification: a run is opened once, under an open parent,
and settles once; a parent completes only over settled (and, where required, completed)
children. `PhaseOf` maps a snapshot to a phase, and `KeepsPromise` is the refinement.

### OperationGateway
`op` is the authoritative ledger record, `begun` the dispatch claims, `pc`/`seen`/
`target` the position and local knowledge of each `execute()` call, and
`sent`/`landed`/`lost` the truth at the provider: a request sent may take effect at any
later time, also after its caller gave up or died. `evidence` is a reconciler's
observation between observing and committing. Absence of an effect is observed only
when no request can still take effect; the repository asks the same of its hosts.

### RunWorker
One run worked on by several harnesses. `pc` is where the background task of each harness
stands, `rec` where its `recover_run` call stands, `ctl` whether a `cancel()` waits for the
local task; `run`, `op`, `nested`, `lease` and `progress` are the durable rows both work
against. `loop` distinguishes the legacy loop (one non-repeatable operation for the model
run) from the durable one (a read-only operation around provider operations, of which
`nested` tells whether one is in doubt). `world` is chosen at the start and limits what the
environment does, so that each property is stated where the code claims it:

- *orderly*: one harness at a time works on the run (the others recover after a crash);
- *crowded*: several harnesses start, cancel and recover it concurrently;
- *stalling*: in addition a live worker may be too slow to renew its lease and goes on with what it read.

A worker that reads and then writes against the revision it read is one action.
`_settle_runtime_cancel` is two transactions: `CancelRun` is both, `CancelHalfway` the
first one alone, where the second fails, finds the run moved, or its process dies. What
`recover_run` reads between its claim and its plan is one action: an operation that a
stalled worker or a reconciler moves in between is found in doubt by the later read, or
parks a run that need not have been. The heartbeat may report a loss at any time, because any
error of its calls counts as one. Left out: deferral to `WAITING_FOR_INPUT` and approvals,
the `child_recovery` branches of `recover_run` and child deadlines, capability operations,
parallel `recover_run` calls on one harness (and with them the replay of a recovery claim
that is still active), and a release that fails in the store and leaves the lease to run out.

### EventOutbox
Events are their sequence numbers. `row` is the outbox row (status, attempts, holder,
quarantines), `pc`/`active`/`todo` the position of each exporter in `run_once`: the batch it
exports and the rows it has still to settle, one transaction each, so that it can crash
or lose its lease between any two. A lease is identified by its holder: a worker runs one
round at a time, and a row it lost must expire before it can lease it again. The clock is
abstracted to `LeaseExpires` and `DelayPasses`. `reader` is a `HarnessRun.events()` call
that begins at cursor 0.

### SessionLanes
`pc` is where each `hold()` call stands; `lanes`, `laneOf` and `lock` are the registry, the
lane objects (named after the call that created them) and their FIFO locks; `waiting`,
`active`, `order` and `queue` are the counters and tenant queues, kept as state and not
derived, because their agreement with the tasks is what is checked. Code between two
awaits is one action. Statistics are left out; `passed` is a history variable.

### Scheduler and ScheduleContract
`job` is the table of jobs, `row` the table of attempts, keyed as the code keys them: an
occurrence is a job, its revision and a due time, an attempt an occurrence and a number.
A worker is one claimed task of a daemon together with the poll that feeds it: `due` is
what the poll listed, `pc`/`work` where `_run_claimed_job` stands. `life` is the lifecycle
run of an attempt as far as the scheduler can tell: running in a process, completed,
failed, dead (a failure that is not retryable), stuck (waits for reconciliation), or
asking for input. Each store call is one transaction and one action; between listing and
claiming, between start and binding, and between the end of a run and its settlement,
other daemons, edits, lost leases, cancellations of the poll and deaths come in. A task
cancelled inside `start()` is `Interrupt` at the claimed step: the admission it was in
commits or does not, and nobody launches it. An
attempt whose lease ended has no holder: claim id, fence token and worker id say the same
here. Left out: cron expressions (`NextTime` is an interval schedule), the limits of the
listings, the legacy in-memory and JSON backends.

`ScheduleContract` knows no workers and no leases: a due time is taken up once, or skipped,
tried at most `MaxTries` times one after the other, and ends with one outcome that stays.
`KeepsContract` maps the attempts of an occurrence to its course.

### LearningLedger
`record` is the table of candidates (state, revision, `updated_at`, the mutation ids of its
operations), `begun` the table of mutations, `call` the gateway calls under way: read,
intent committed, adapter called, settled, each in a step of its own. `effect` is the
truth in the knowledge store and `flying` are adapter calls that their caller gave up and
that may still take effect. An operator names the operation of the intent that is open (any
other is refused), and a careful one waits also for calls that have only read. `sweep` and `lease` are the reconciliation worker: claim, scan
of a page by update time and id, an observation per item, a commit against the observed
revision, a checkpoint of the cursor. What a caller names a mutation id is a number.

### LocalMigration
`file` are the target databases: is there a file, which imported identities it holds,
which it holds with other content, did a new writer write to it, are its bytes those of
before the migration, are there WAL files beside it. `manifest` is the manifest; `op` is
the running command and where it stands. Each file write, each imported piece and each
removal of a fence is one step, and `Die` may come between any two. A copy made by SQLite's
backup is taken to differ in bytes from its original; creating a target is one step with
its schema, removing a file one with its WAL files; copies of the sources are left out,
since no command reads them back. A world says what the targets held at first, which of
them a reader keeps open, and whether the operator follows the runbook (`careful`) or runs
any command at any time.

### WriterAuthority
`key` is the record in etcd with its lease, `primary` the servers not in recovery, `latest`
what the guard of the process remembers, `txn` the transaction of each thread: the
bracketed readings of etcd (record, TTL, record), the check of the server, the server-side
timer, the unit of work, the second grant and the commit, each a step, with time between
any two. The controller, etcd and the servers are environment: they are external to this
repository and follow the deployment contract in `docs/postgresql-runtime-store.md`.
One clock stands for all; `Uncertainty` is how far a reported TTL may be off.

### SyncStream
`pump` is the task that copies events of the presentation `pres` into the `queue` of the
iterator, `run` the run with its worker, `consumer`, `closer` and `harness` the threads that
iterate, close the iterator and close the harness, `loop` the coordinator. A step of the
event loop lasts from one suspension to the next; where the pump empties the queue of the
iterator, which is not atomic, the consumer may come in between and no other task runs.
The launch of the worker and the return of the handle are one step, and the store does not
fail between them.

## 3. Runs

| Run | Question | Result |
|---|---|---|
| `run_store` | a tree of three runs, or two with long histories: completion, abandonment, approvals, accounting, refinement of `RunPromise` | holds |
| `gateway` | three calls, each with a worker id of its own or two with one in common, execute, crash in, recover and reconcile one operation | holds |
| `run_worker` | two or three harnesses in the three worlds: dispatch, doubt, truth of the outcome, cancellation | holds |
| `outbox` | two exporters, or one and a reader, with failures, a crash, retention and replay | holds |
| `session_lanes` | six calls, four sessions, two tenants, one or two slots | holds |
| `scheduler` | two daemons and one or two jobs in ten worlds: groups, recurrence, outcomes, the contract, catching up | holds |
| `learning` | promotions, rollbacks, operators and sweepers over one or two candidates in six worlds | holds |
| `migration` | the four commands in any order with three deaths, over 36 worlds of targets | holds |
| `authority` | a transaction between two tenures, leases that expire, move and renew | holds |
| `sync_stream` | slow, absent and fast consumers, closers at every point of `start()` and of the pump | holds |
| `sched_crash` | `dead_lettered` settles a "known non-retryable failure" | violated |
| `sync_stop` | `close()` drains the loop before it releases resources | violated |

### Bounds and why they are enough
- **Store**: three runs are the least with a grandchild and a sibling; two request ids and
  three transition ids allow two waits on one run with the earlier one answered, cancelled
  or expired. `Explored` keeps the tree to short histories (two transition ids, one request)
  and leaves the long ones to two runs. Ids are only compared for equality, so they are symmetric.
- **Gateway**: three calls give a worker, its competitor and one that comes after both;
  `MaxFence = 3` allows two recoveries or reconciliations between them. All four effect
  classes and both placements of worker ids are explored.
- **Worker**: three harnesses give an owner, a canceller and a recoverer; the stalling world,
  where interleavings multiply, has two. `MaxStalls = 1`, `MaxFence = 3` bound how often a
  live lease expires and how far recovery advances the dispatch fence.
- **Outbox**: two events of batch size two are the least with isolation of a neighbour; two
  attempts distinguish the first failure from the last; one crash, cancellation or slow
  lease; pages of one event, so that retention falls between two pages.
- **Lanes**: three calls of one session are needed to show a lane forgotten too early (holder,
  waiter, newcomer); two ready sessions of the hot tenant and one of the cool one to show an
  unfair turn; the limits 4/3/2 are each reached.
- **Scheduler**: two workers and two jobs of one group are the least in which a claim can be
  taken away or refused; one or two ticks after the first due time give an occurrence, its
  successor and a misfire (four where `misfire = skip` must pass its grace). Each world
  names its definitions and one or two faults of a kind, so that every misfire and overlap
  rule meets retries, jitter, edits, manual triggers, input, deaths and lost leases.
- **Learning**: two mutation ids per operation let a candidate be promoted again after a
  rollback; two candidates with pages of one put a page boundary between them, two values
  of `updated_at` let a new doubt fall behind the cursor.
- **Migration**: two targets, one of which takes two transactions, are the least with an
  import that stops inside and between targets; three deaths allow apply, rollback and a
  repetition of either to be cut.
- **Authority**: leases of 4 ticks, uncertainty and margin of 1 and transactions of 3, so that
  neither the lease nor the limit decides alone; 8 ticks are two leases in turn and 3
  records a move there and back. Threads share only `latest`, which refuses and never
  admits; one is enough for what could commit, and the proofs cover any number.
- **Stream**: four events for two queues of two, so that either may overflow, two items can be
  thrown away while the consumer takes one, and all may pass.

Deadlock is not checked where the end of the work is the end of the behaviour: a settled
run, a finished call, a delivered log, a clock at its horizon. `WriterAuthority` has no end
but the horizon of its clock, and TLC checks it for deadlock.

### Fairness
Only steps that a running process takes by itself are fair.

- `RunWorker`: the event loop of a live harness runs its task, its heartbeat, a recovery
  and a cancel call under way; no crash, start, cancellation or recovery has to happen, and
  the provider need not answer. A lease that runs out or a process that dies releases
  `CancelSettles` from its promise.
- `EventOutbox`: workers run their loop (`RuntimeOutboxWorker.run`), exports end because they
  run under a delivery timeout, and time passes; crashes, appends and the operator are not fair.
- `SessionLanes`: the loop does not stop while a task is ready, and executions end (a provider
  call that never returned would keep its slot, and `Admitted` says nothing of that);
  timeouts and cancellations never have to come to the rescue of a waiter.
- `Scheduler`: the daemon's loop polls for ever, so a row or a due time that stays available
  again and again is taken (strong fairness: a task that occupies the worker in between, or a
  group that is busy, disables the poll for a while); claimed tasks go on; leases of dead
  workers and delays end; runs that are executed end and evidence on a stuck run arrives.
  Nobody has to answer a run that asks for input.
- `LearningLedger`: a sweeper that the host runs goes on and a lease without a worker ends;
  callers, operators and observers that defer are not fair, but a world bounds how often
  observers defer and workers die.
- `LocalMigration`: a command that started goes on, and the operator repeats the one that an
  interruption left unfinished, as `docs/migration-apply-0.12.md` asks.
- `SyncStream`: the loop serves each of its tasks, the threads of the store and of `close()`
  go on, a blocking `get()` returns what is there. Nobody has to consume or to close.
- `WriterAuthority` has safety properties only.

## 4. Disagreements between code and documents
Two of them end a run; `PROJECT.json` "findings" quotes the lines.

1. A daemon that dies between `start()` and `bind_runtime_run` leaves an admission that the
   next claim conflicts with, because the request carries the fence token: the attempt is
   dead-lettered while its run goes on (`sched_crash`).
2. A harness closed during `start()` stops a coordinator whose loop then spins in
   `drain_thread_call` for ever (`sync_stop`).

The others were met while modelling. The models contain each behaviour, and the property
concerned says for which cases it is stated.

- *Gateway*: calls through gateways with one `worker_id` can both dispatch: `begin` replays the first call's decision to the second, which does not look at `applied` (`runtime/gateway.py:310`, `:332`). `OneDispatcher` speaks of worker ids.
- *Execution*: the recovery claim id of a harness is fixed and a released claim is refused, so a run it parked in recovery cannot be continued by it (`agent.py:7886`, `docs/operations-and-recovery.md:455`). A harness whose task only waits for the lease confirms `CANCELLED` while the owner is about to dispatch (`agent.py:8618`). Recovery of a cancelling run with a successful operation tries `COMPLETE`, which the reducer refuses (`agent.py:8081`, `docs/runtime-lifecycle.md:521`).
- *Reader*: `events(follow=None)` can end without the terminal event when the run settles between an empty page and the status check (`runtime/run_handle.py:252`, `docs/runtime-lifecycle.md:331`).
- *Scheduler*: a run that asks for input counts as a retryable failure (`docs/durable-scheduling.md:157`); an overlap rule may mark as skipped an attempt that already ran (`runtime/scheduler_store.py:568`); an error of `recover_run` other than a lease that is held ends the attempt as failed or dead-lettered while its run stays open (`heartbeat/daemon.py:553`), which the model leaves out and `OutcomesHold` does not speak of; the listing is limited before it is filtered by group (`:295`); a job that cannot be claimed raises out of the poll.
- *Learning*: a repeated mutation id replays the old PROMOTING record and calls the adapter again (`learning_candidates.py:3130`, `:4306`); an intent left by a death is never listed by the sweep (`:2294`) and waits for an operator, whose reconciliation is not bound to a revision (`:4210`). Hence the conditions of `CallsUnderIntentOnce` and `LedgerIsTrueWithCare`.
- *Migration*: rollback removes the fences before it saves `rolled_back`, so an apply after a death imports without fences (`migration_apply.py:1249`, `:951`); a marker of a cutover that died stays after rollback; `verify` checks no phase, may create an empty target and then no rollback is possible; WAL files of a target that is held open have the same effect; a conflicting identity leaves a state that can neither be applied nor rolled back; nothing locks commands against each other. `InterruptedFinishes` names these cases.
- *Bridge*: detachment of a slow consumer ends the iterator without `run.wait` (`docs/operations-and-recovery.md:305`); a cancellation of the pump by the stopping loop is swallowed and looks like a clean end; two consumers of one iterator share one end marker; a pump submitted while the loop stops never runs. `CleanEndIsTruth` and `ConsumerReturns` are stated for one consumer and a running loop.

Consequences of the code that no property forbids, since nothing in the repository promises
otherwise: a run parked while cancelling may be resumed and complete (`runtime/lifecycle.py:76`);
descendants waiting for reconciliation are skipped by a parent's cancellation
(`runtime/store.py:2042`); a paused run is lost with its process; attempts of the outbox are
counted at lease time and not reset by a requeue; retention keeps the newest event, which is
not always the terminal one; state writes of a stalled worker are guarded by the revision
only; evidence that an effect is absent is accepted while a stalled worker could still send it.

## 5. Proofs
The proof modules extend the modules they are about, so that what is proved is what
TLC checks. The assumptions are the named `ASSUME`s on the constants (finite, positive or
distinct, as each says); TLC evaluates them on its instances. Two of them extend two
models each: `RunStoreProofs` also `OperationGateway`, whose ledger the store keeps beside
its runs, and `LocalMigrationProofs` also `WriterAuthority`. So the definitions these two
would share with the other model have names of their own (`GatewaySpec`,
`SettleOperation`, `AuthoritySpec`, `IdleTransaction` ...); no theorem is about both.

Every invariant of every passing run is a theorem, as are `KeepsPromise`, `KeepsContract`
and the action properties. Three theorems state what the liveness properties rest on and no
run lists: nobody waits for something that nobody is going to give.

- **RunStoreProofs.** `StoreInv` (types, `ApprovalsTrackWaits`, `TerminalRecorded`) is
  inductive on its own: an approval leaves "pending" in the transaction in which its run
  leaves the wait. `CompletionIsCovered` needs `TreeInv` besides: a run that was never
  created has no relation, ancestors exist and the ancestors of an ancestor are ancestors;
  with it, a completed parent gains no open child. `HistoryIsComplete` counts sets that
  only grow (`HistoryInv`): a transition that would decide an id again, on its own run or on
  one it sweeps, is not applied, and of the requests of a run at most one can be open. `AbandonmentReachesAll` follows from the closure of ancestors in one step.
  `StoreKeepsPromise` maps initial states and each step to a step or a stutter of
  `RunPromise`: only a transition's target changes phase, since swept descendants become
  cancelling, which is still open.
- **RunStoreProofs, the gateway.** `OperationTypes` first. `ExecuteOnce` rests on `ClaimInv`: for an
  effect that must not be repeated the ledger records at most one dispatch claim, made on the
  planned record, and a call past its claim, or whose request was sent, carries the worker id
  of that claim. So only calls of one worker id ever send it, and where no two calls share an
  id, one call does (`AtMostOnceAlone`). `LedgerTellsTheTruth` has two halves: a
  success is written only on behalf of somebody who saw the effect (`SuccessInv`), for any
  calls; and, where no two calls share a worker id, a settlement by the gateway that denies
  the effect is accepted only while nobody can send the request any more (`OutcomeInv`).
- **RunWorkerProofs.** In every world: `LoopInv` ties the operation to the kind of its loop (a
  legacy request is counted when it leaves planned and never returns there, which is
  `OneDispatchPerRun`), `KnownInv` says that whoever may complete the run knows a success,
  `EndInv` that a task which released its lease, or ended under a `cancel()`, left the run
  settled. Where no live worker loses its lease, `HolderInv` (who works on the run holds it)
  excludes a task beside a recovery, so that a recovery with a plan other than to park has
  nothing in doubt (`EffectInv`): `ParkedRunsWait`. Where one harness at a time works,
  `OrderlyInv` follows a run from the calm before its dispatch to the quiet after its end:
  `EndsAreKnown`. `LeasesAreInUse` is inductive over types and `AliveInv`, and holds also
  where workers stall: a lease that is held belongs to a dead process, whose lease runs out,
  or to a task or recovery whose `finally` releases it. Hence the model may let a live holder
  renew for ever without blocking anybody by it.
- **SchedulerProofs.** Every step does one thing to the table of attempts: it opens an attempt, moves
  one, tries one again, or leaves them (`Shape`). From these shapes follow `RowInv` (holders of
  claims, attempts in series, one claim per group) and, with the links from rows to jobs and
  runs, `GroupsAreSerial` and the refinement `ScheduleKeepsContract`. `CourseInv` says how far
  the recurrence of a job has come and that each due time behind it is recorded
  (`RecurrenceKept`); `OutInv` that a task which waits for or follows a run has a bound row,
  still under its claim where no worker stalls (`OutcomesHold`).
- **EventOutboxProofs.** `TypeInv` adds to types that an exporter that settles has rows to settle
  and one that exports has events to export. `Delivery` strengthens `NothingLost`: what an exporter is about to acknowledge was
  exported, rows exist exactly for appended events, dead rows were quarantined. `Poison`
  strengthens `NeighboursSpared`: an exhausted row is exported alone, or it was lost to another
  worker and the round that would quarantine it ends at the lease error. `OutcomesStay` and `ReaderSeesAll` follow from types and the shape of a page.
- **LearningLedgerProofs.** `TypeInv` says that revisions only grow and that everything
  remembered of a record (an intent, a call, a page) is at a revision it has reached. On it
  rests `Inv`: a page is current only for an unknown effect (`PageInv`); where no mutation id
  is repeated, a call that has read its candidate has an id that was never begun, two such
  calls differ, and only one call of a candidate is under way (`IntentInv`); with care
  besides, what a call did and what a sweeper saw is still so (`TruthInv`).
- **LocalMigrationProofs.** `KeptInv` ties each step of a command to the phase under which it
  runs and says what the command has done so far: targets untouched before the first
  manifest, copies made, targets restored. `ImportInv` does the same for the import and
  carries `ActiveIsComplete`. `NewerInv` adds that a target with newer data pins the phase to
  cutover and that no evidence or copy holds such data, so a rollback never takes that
  target for one it may restore.
- **LocalMigrationProofs, the authority.** `AuthorityInv` is `Good` for each transaction: `Timely` (a reported
  TTL is covered by the lease, also by one that succeeds it), `Held` (the server of a grant
  has the authority until the grant runs out or it stops being a primary), `Timed` (the
  timer of an open transaction runs out with its admission if it was set within the
  margin), `Fenced` (a transaction that saw the authority move was admitted under an older
  generation). From them `CommitsAreByHolder` and `TenureIsOne`, for any number of servers
  and threads and any policy.

- **SessionLanesProofs.** First the waiting lines: what appending, taking the first and
  removing somebody do to a sequence without repetitions, to its elements and to who stands
  before whom. `LaneInv` says that exactly the calls that refer to a lane are in its lock, and
  that one that went on to the capacity is the first of them (`OneExecutionPerSession`);
  `CapacityInv` that queues, turns and counters agree with where the calls stand and that the
  limits hold (`CountersAreTrue`), that no slot is idle (`NoIdleCapacity`), and that whoever
  passed a tenant stands behind it now (`TenantsTakeTurns`). From the invariant it follows
  that the loop that grants slots never has more than one to give, so a step of the proof is
  one hand-over. `NobodyWaitsForNobody` reads off the invariant that a call waiting for a lane
  is behind its holder, and a queued one behind owners of all the capacity.
- **SyncStreamProofs.** `StreamInv`: types; nothing was published before the launch; events in
  order across the three places they can be (`Ordered`); and, until somebody closes the
  iterator or stops the loop, `Progress`: what was received, what is queued and what the
  presentation holds are together the events published so far, followed by the marker of the
  end, or the notice of detachment is what comes last. Outside that quiet nothing is claimed,
  as in `CleanEndIsTruth`. `MarkerComes` needs only `MarkerInv`: before the marker the queue
  stays within its capacity, so one slot is left, and the marker stays last until it is taken.

Only model-checked: the liveness properties (`CancelSettles`, `EventuallySettled`, `Admitted`,
`CatchesUp`, `DoubtIsSettled`, `InterruptedFinishes`, `ConsumerReturns`, `RunGoesOn`), since
the prover has no rules for `ENABLED` and fairness here. What `LeasesAreInUse`, `NobodyWaitsForNobody` and `MarkerComes` leave to TLC is
that the steps they point to are taken.

## 6. Not modelled, and what comes next

| Part | Why, and what stands for it |
|---|---|
| Artifacts, output spill | two-phase staging and garbage collection of result files; the models have only success or failure of staging |
| Child delegation (`runtime/child_ingress.py`, `child_results.py`) | the waiting side of a parent's tool call; the store side is in `RunStore` |
| Checkpoints and the durable tool loop | batches of native tools after capability results; `RunWorker` keeps whether a request checkpoint exists and whether a provider operation is open |
| Capability approval and execution | policy decisions around the gateway; the durable parts are `OperationGateway` and the approvals of `RunStore` |
| Context management and locks | reader and writer locks on files around the compaction of text |
| `WAITING_FOR_INPUT` and `child_recovery` in the execution task | other causes of the same deferral and recovery branches |
| Service migration over PostgreSQL | a second implementation of the phases in `LocalMigration`, with scans of remote tables |
| Capture, outcomes and outbox of learning | they append rows that the ledger of candidates does not read |
| PostgreSQL store statements | they repeat the contract of the SQLite store; the authority that admits them is `WriterAuthority` |
| Cron expressions, in-memory and JSON schedulers | calendar arithmetic; backends without claims |
| HTTP and AgentOS transport, telemetry, inspection | no state of their own beyond cursors and projections |
| Permissions, guardrails, network rules | pure functions of one call |
| Tools, skills, CLI and TUI, model factories, improvement runner | user-facing wrappers and offline jobs; no protocol state |

Next, in this order: child delegation composed of `RunStore` and the lanes, for what a parent
holds while it waits for its children; artifacts and checkpoints, whose files and rows can
disagree after a crash; the context locks, with their upgrade that is not atomic; the service
migration, as a refinement of what `LocalMigration` promises.
