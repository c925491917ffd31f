----------------------------- MODULE EventOutbox -----------------------------
(***************************************************************************)
(* The event log of one run, its transactional outbox, the workers that    *)
(* export it, quarantine and replay of poison events, retention and a      *)
(* reader that follows the log.  Events are their sequence numbers, which  *)
(* are also the order of their outbox rows.                                *)
(*                                                                         *)
(* Definitions named ...Mutant are faulty variants of the definition that  *)
(* follows them.  No other definition refers to them; they show that the   *)
(* properties notice the fault.                                            *)
(***************************************************************************)
EXTENDS Naturals, FiniteSets, FiniteSetsExt

CONSTANTS
  Exporters,      \* RuntimeOutboxWorker instances
  Reader,         \* a caller of HarnessRun.events()
  Deployments,    \* the sets of exporters and readers to explore
  None,           \* no exporter
  MaxEvents,      \* bound on the events of the run
  BatchSize,      \* RuntimeOutboxConfig.batch_size
  MaxAttempts,    \* RuntimeOutboxConfig.max_attempts
  PageSize,       \* events a reader takes in one page
  MaxQuarantines, \* bound on the replays of one event
  MaxCrashes      \* bound on crashes and on leases that outlive their worker

ASSUME DeploymentsKnown == Deployments \subseteq SUBSET (Exporters \cup {Reader})
ASSUME NoneIsNoExporter == None \notin Exporters /\ Reader \notin Exporters
ASSUME SizesArePositive ==
  /\ MaxEvents \in Nat /\ BatchSize \in Nat \ {0} /\ MaxAttempts \in Nat \ {0}
  /\ PageSize \in Nat \ {0} /\ MaxCrashes \in Nat

Events == 1..MaxEvents

VARIABLES
  deployed,   \* who works on the run
  last,       \* sequence of the newest event
  terminalAt, \* sequence of the event that settled the run, 0 before
  pruned,     \* pruned_through_sequence
  row,        \* runtime_outbox: status, attempts, lease holder, quarantines
  pc,         \* step of each exporter's run_once: a row is being settled as
              \* isolate (released before the export), acknowledge, retry,
              \* quarantine or release (cancelled)
  active,     \* the events it exports in this round
  todo,       \* the rows it still has to settle in this step
  exported,   \* events for which export() returned
  failedAlone,\* events whose export failed with no other in the batch
  reader,     \* events(follow=None): step, cursor and what it yielded
  crashes

logVars  == <<last, terminalAt, pruned>>
workVars == <<pc, active, todo>>
history  == <<exported, failedAlone>>
vars == <<deployed, logVars, row, workVars, history, reader, crashes>>

Terminal == terminalAt # 0
Status == {"absent", "pending", "deferred", "leased", "expired", "delivered", "dead", "deleted"}
Settled == {"absent", "delivered", "dead", "deleted"}
Rows(status) == {s \in Events : row[s].status = status}

Settling == {"isolate", "acknowledge", "retry", "quarantine", "release"}

Absent == [status |-> "absent", attempts |-> 0, holder |-> None, quarantined |-> 0]

Init ==
  /\ deployed \in Deployments
  /\ last = 0 /\ terminalAt = 0 /\ pruned = 0
  /\ row = [s \in Events |-> Absent]
  /\ pc = [e \in Exporters |-> "idle"]
  /\ active = [e \in Exporters |-> {}] /\ todo = [e \in Exporters |-> {}]
  /\ exported = {} /\ failedAlone = {}
  /\ reader = [at |-> "listing", cursor |-> 0, seen |-> {}]
  /\ crashes = 0

-----------------------------------------------------------------------------
(***************************************************************************)
(* The log.                                                                *)
(***************************************************************************)
\* _append_event: the event and its outbox row in the caller's transaction.
AppendRow ==
  /\ last < MaxEvents
  /\ last' = last + 1
  /\ row' = [row EXCEPT ![last + 1].status = "pending"]
  /\ UNCHANGED <<deployed, pruned, workVars, history, reader, crashes>>

\* append_runtime_event refuses a terminal run, but a child that ends and an
\* operation that is settled late still add to its log.
AppendEvent == AppendRow /\ UNCHANGED terminalAt

Settle == ~Terminal /\ AppendRow /\ terminalAt' = last + 1

\* prune_run_events: the newest event is kept, and nothing that an exporter
\* may still need goes.
Unsettled == {"pending", "deferred", "leased", "expired"}
PruneBlockedMutant(target) == \E s \in 1..target : row[s].status \in {"pending", "deferred"}
PruneBlocked(target) == \E s \in 1..target : row[s].status \in Unsettled
PruneTarget(through) == Min({through, last - 1})

Prune(through) ==
  LET target == PruneTarget(through) IN
  /\ Terminal /\ target > pruned
  /\ ~PruneBlocked(target)
  /\ pruned' = target
  /\ row' = [s \in Events |->
       IF s <= target /\ row[s].status = "delivered" THEN [row[s] EXCEPT !.status = "deleted"] ELSE row[s]]
  /\ UNCHANGED <<deployed, last, terminalAt, workVars, history, reader, crashes>>

-----------------------------------------------------------------------------
(***************************************************************************)
(* RuntimeOutboxWorker.run_once.                                           *)
(***************************************************************************)
EligibleMutant == Rows("pending")
Eligible == Rows("pending") \cup Rows("expired")
Batch == {s \in Eligible : Cardinality({t \in Eligible : t < s}) < BatchSize}

\* An attempt is counted when a row is leased, up to the limit.
Attempted(s) == IF row[s].attempts < MaxAttempts THEN row[s].attempts + 1 ELSE MaxAttempts
Exhausted(s) == row[s].attempts = MaxAttempts

\* lease_outbox.  When a row of the batch is at its last attempt, the oldest
\* row goes alone and the others are released first.
AloneMutant(batch) == batch
Alone(batch) == IF \E s \in batch : Attempted(s) = MaxAttempts THEN {Min(batch)} ELSE batch

Lease(e) ==
  /\ pc[e] = "idle" /\ Batch # {}
  /\ row' = [s \in Events |->
       IF s \in Batch
         THEN [status |-> "leased", attempts |-> Attempted(s), holder |-> e,
               quarantined |-> row[s].quarantined]
         ELSE row[s]]
  /\ active' = [active EXCEPT ![e] = Alone(Batch)]
  /\ todo' = [todo EXCEPT ![e] = Batch \ Alone(Batch)]
  /\ pc' = [pc EXCEPT ![e] = IF Alone(Batch) = Batch THEN "exporting" ELSE "isolate"]
  /\ UNCHANGED <<deployed, logVars, history, reader, crashes>>

\* The store settles a row only for the live holder of its lease.
OwnsMutant(e, s) == row[s].status # "deleted"
Owns(e, s) == row[s].status = "leased" /\ row[s].holder = e

Outcome == [acknowledge |-> "delivered", quarantine |-> "dead", retry |-> "deferred",
            isolate |-> "pending", release |-> "pending"]
SettledRow(s, how) ==
  [status |-> Outcome[how], attempts |-> row[s].attempts, holder |-> None,
   quarantined |-> row[s].quarantined + IF how = "quarantine" THEN 1 ELSE 0]

Forget(e) ==
  /\ pc' = [pc EXCEPT ![e] = "idle"]
  /\ active' = [active EXCEPT ![e] = {}] /\ todo' = [todo EXCEPT ![e] = {}]

\* One row at a time, oldest first; after the last the round is over or, when
\* others were isolated from it, the oldest row is exported.  A lease error
\* ends the round too: run_once raises, and what is left stays leased.
SettleRow(e) ==
  /\ pc[e] \in Settling
  /\ LET s == Min(todo[e]) IN
     \/ /\ Owns(e, s)
        /\ row' = [row EXCEPT ![s] = SettledRow(s, pc[e])]
        /\ todo' = [todo EXCEPT ![e] = @ \ {s}]
        /\ pc' = [pc EXCEPT ![e] =
             IF todo[e] # {s} THEN @ ELSE IF @ = "isolate" THEN "exporting" ELSE "idle"]
        /\ UNCHANGED active
     \/ ~Owns(e, s) /\ Forget(e) /\ UNCHANGED row
  /\ UNCHANGED <<deployed, logVars, history, reader, crashes>>

SettleActive(e, how) ==
  /\ pc' = [pc EXCEPT ![e] = how]
  /\ todo' = [todo EXCEPT ![e] = active[e]]
  /\ active' = [active EXCEPT ![e] = {}]

ExportReturns(e) ==
  /\ pc[e] = "exporting"
  /\ exported' = exported \cup active[e]
  /\ SettleActive(e, "acknowledge")
  /\ UNCHANGED <<deployed, logVars, row, failedAlone, reader, crashes>>

\* _handle_failure, for an error or a timeout: the oldest row decides.
Verdict(batch) == IF Exhausted(Min(batch)) THEN "quarantine" ELSE "retry"

ExportFails(e) ==
  /\ pc[e] = "exporting"
  /\ failedAlone' = IF Cardinality(active[e]) = 1 THEN failedAlone \cup active[e] ELSE failedAlone
  /\ SettleActive(e, Verdict(active[e]))
  /\ UNCHANGED <<deployed, logVars, row, exported, reader, crashes>>

\* Cancellation of the worker while it exports.
ExportCancelled(e) ==
  /\ pc[e] = "exporting" /\ crashes < MaxCrashes
  /\ crashes' = crashes + 1
  /\ SettleActive(e, "release")
  /\ UNCHANGED <<deployed, logVars, row, history, reader>>

Crash(e) ==
  /\ pc[e] # "idle" /\ crashes < MaxCrashes
  /\ crashes' = crashes + 1
  /\ Forget(e)
  /\ UNCHANGED <<deployed, logVars, row, history, reader>>

-----------------------------------------------------------------------------
(***************************************************************************)
(* Time, the operator and the reader.                                      *)
(***************************************************************************)
\* A lease runs out after its worker forgot it or, rarely, under a slow one.
Abandoned(s) == s \notin active[row[s].holder] \cup todo[row[s].holder]

LeaseExpires(s) ==
  /\ row[s].status = "leased"
  /\ \/ Abandoned(s) /\ UNCHANGED crashes
     \/ ~Abandoned(s) /\ crashes < MaxCrashes /\ crashes' = crashes + 1
  /\ row' = [row EXCEPT ![s].status = "expired"]
  /\ UNCHANGED <<deployed, logVars, workVars, history, reader>>

DelayPasses(s) ==
  /\ row[s].status = "deferred"
  /\ row' = [row EXCEPT ![s].status = "pending"]
  /\ UNCHANGED <<deployed, logVars, workVars, history, reader, crashes>>

\* requeue_dead_letter.  The attempts stay counted.
Requeue(s) ==
  /\ row[s].status = "dead" /\ row[s].quarantined <= MaxQuarantines
  /\ \E status \in {"pending", "deferred"} : row' = [row EXCEPT ![s].status = status]
  /\ UNCHANGED <<deployed, logVars, workVars, history, reader, crashes>>

\* list_events: a page after the cursor, unless retention passed the cursor.
Retained(cursor) == {s \in pruned + 1 .. last : s > cursor}
Page(cursor) == {s \in Retained(cursor) : Cardinality({t \in Retained(cursor) : t < s}) < PageSize}
CursorExpiredMutant(cursor) == FALSE
CursorExpired(cursor) == cursor < pruned

ListEvents ==
  /\ reader.at = "listing"
  /\ reader' =
       IF CursorExpired(reader.cursor) THEN [reader EXCEPT !.at = "expired"]
       ELSE IF Page(reader.cursor) = {} THEN [reader EXCEPT !.at = "checking"]
       ELSE [reader EXCEPT !.cursor = Max(Page(reader.cursor)), !.seen = @ \cup Page(reader.cursor)]
  /\ UNCHANGED <<deployed, logVars, row, workVars, history, crashes>>

\* After an empty page the reader looks at the run and stops if it is terminal.
CheckStatus ==
  /\ reader.at = "checking"
  /\ reader' = [reader EXCEPT !.at = IF Terminal THEN "done" ELSE "listing"]
  /\ UNCHANGED <<deployed, logVars, row, workVars, history, crashes>>

ExporterStep(e) ==
  Lease(e) \/ SettleRow(e) \/ ExportReturns(e) \/ ExportFails(e)

Next ==
  \/ AppendEvent \/ Settle
  \/ Reader \in deployed /\ (ListEvents \/ CheckStatus)
  \/ \E n \in Events : Prune(n)
  \/ \E s \in Events : LeaseExpires(s) \/ DelayPasses(s) \/ Requeue(s)
  \/ \E e \in Exporters \cap deployed : ExporterStep(e) \/ ExportCancelled(e) \/ Crash(e)

Spec == Init /\ [][Next]_vars

\* Some worker is always run again, time passes, and readers are polled.
Fairness ==
  /\ \A e \in Exporters : WF_vars(e \in deployed /\ ExporterStep(e))
  /\ \A s \in Events : WF_vars(LeaseExpires(s)) /\ WF_vars(DelayPasses(s))
FairSpec == Spec /\ Fairness

-----------------------------------------------------------------------------
Row == [status : Status, attempts : 0..MaxAttempts, holder : Exporters \cup {None},
        quarantined : Nat]

TypeOK ==
  /\ deployed \in Deployments
  /\ last \in 0..MaxEvents /\ terminalAt \in 0..last /\ pruned \in 0..last
  /\ row \in [Events -> Row]
  /\ pc \in [Exporters -> {"idle", "exporting"} \cup Settling]
  /\ active \in [Exporters -> SUBSET Events] /\ todo \in [Exporters -> SUBSET Events]
  /\ exported \subseteq Events /\ failedAlone \subseteq Events
  /\ reader \in [at : {"listing", "checking", "done", "expired"}, cursor : Nat, seen : SUBSET Events]
  /\ crashes \in 0..MaxCrashes

(***************************************************************************)
(* Safety.                                                                 *)
(***************************************************************************)
\* At least once: no row is marked delivered unless the exporter accepted its
\* event, and retention removes nothing that was neither delivered nor
\* quarantined, however leases expire and are settled late.
NothingLost ==
  /\ Rows("delivered") \cup Rows("deleted") \subseteq exported
  /\ \A s \in 1..pruned : row[s].status = "deleted" \/ row[s].quarantined > 0

\* A worker that settles a row late, after its lease passed to another worker,
\* cannot undo what that worker recorded: a delivered row stays delivered, and
\* a quarantined one waits for the operator.
OutcomeStays ==
  [][\A s \in Events :
       /\ row[s].status = "delivered" => row'[s].status \in {"delivered", "deleted"}
       /\ row[s].status = "dead" => row'[s].status \in {"dead", "pending", "deferred"}
                                   /\ row'[s].quarantined = row[s].quarantined]_vars

\* An event is quarantined only after its own export failed with no other
\* event in the batch: a poison event never takes healthy ones with it.
NeighboursSpared == \A s \in Events : row[s].quarantined > 0 => s \in failedAlone

\* A reader has yielded every event up to its cursor, whatever was pruned.
ReaderIsGapFree == reader.seen = 1..reader.cursor

(***************************************************************************)
(* Liveness.                                                               *)
(***************************************************************************)
\* Every recorded event is in the end delivered or quarantined.
EventuallySettled ==
  \A s \in Events : row[s].status \notin Settled ~> row[s].status \in Settled
=============================================================================
