-------------------------- MODULE EventOutboxProofs --------------------------
(***************************************************************************)
(* Theorems about EventOutbox, for any number of exporters, events and     *)
(* crashes and any batch size, attempt limit and page size.                *)
(***************************************************************************)
EXTENDS EventOutbox, FiniteSetTheorems, TLAPS

(***************************************************************************)
(* The smallest and the largest element of a set of numbers.               *)
(***************************************************************************)
LEMMA MinInSet ==
  ASSUME NEW S \in SUBSET Nat, S # {}
  PROVE  Min(S) \in S /\ \A y \in S : Min(S) <= y
<1>1. \E x \in S : \A y \in S : ~ (<<y, x>> \in OpToRel(<, Nat))
  BY NatLessThanWellFounded, WFMin
<1>2. PICK x \in S : \A y \in S : ~ (<<y, x>> \in OpToRel(<, Nat))
  BY <1>1
<1>3. \A y \in S : x <= y
  <2>1. TAKE y \in S
  <2>2. <<y, x>> \in OpToRel(<, Nat) <=> y < x
    BY DEF OpToRel
  <2>3. ~ (y < x)
    BY <1>2, <2>2, Zenon
  <2> QED BY <2>3
<1> QED BY <1>3 DEF Min

LEMMA MinOfTwo ==
  ASSUME NEW a \in Int, NEW b \in Int
  PROVE  /\ Min({a, b}) \in {a, b}
         /\ Min({a, b}) <= a /\ Min({a, b}) <= b
<1>1. \E x \in {a, b} : \A y \in {a, b} : x <= y
  OBVIOUS
<1> QED BY <1>1 DEF Min

LEMMA MaxOfInterval ==
  ASSUME NEW a \in Int, NEW b \in Int, a <= b
  PROVE  Max(a..b) = b
<1>1. b \in a..b /\ \A y \in a..b : b >= y
  OBVIOUS
<1> QED BY <1>1 DEF Max

(***************************************************************************)
(* Type correctness.  A worker that settles has rows left to settle, and   *)
(* one that exports has events to export.                                  *)
(***************************************************************************)
WorkOK ==
  /\ \A e \in Exporters : pc[e] \in Settling => todo[e] # {}
  /\ \A e \in Exporters : pc[e] \in {"isolate", "exporting"} => active[e] # {}

TypeInv == TypeOK /\ WorkOK

LEMMA EventsAreNumbers == Events \subseteq Nat \ {0}
BY SizesArePositive DEF Events

LEMMA TypeInit == Init => TypeInv
BY SizesArePositive DEF Init, TypeInv, TypeOK, WorkOK, Settling, Row, Status, Absent

LEMMA SettledRowFacts ==
  ASSUME TypeOK, NEW s \in Events, NEW how \in Settling
  PROVE  /\ SettledRow(s, how) \in Row
         /\ SettledRow(s, how).status \in {"pending", "deferred", "delivered", "dead"}
         /\ SettledRow(s, how).status = "delivered" => how = "acknowledge"
         /\ SettledRow(s, how).quarantined >= row[s].quarantined
         /\ how # "quarantine" => SettledRow(s, how).quarantined = row[s].quarantined
         /\ SettledRow(s, how).holder = None
         /\ SettledRow(s, how).status = "dead" => SettledRow(s, how).quarantined > 0
<1>1. row[s] \in Row
  BY DEF TypeOK
<1>2. /\ Outcome[how] \in {"pending", "deferred", "delivered", "dead"}
      /\ Outcome[how] = "delivered" => how = "acknowledge"
      /\ Outcome[how] = "dead" => how = "quarantine"
  BY DEF Outcome, Settling
<1> DEFINE q == row[s].quarantined + IF how = "quarantine" THEN 1 ELSE 0
<1>3. q \in Nat /\ q >= row[s].quarantined /\ (IF how = "quarantine" THEN q > 0 ELSE q = row[s].quarantined)
  BY <1>1 DEF Row
<1> HIDE DEF q
<1>4. SettledRow(s, how) =
        [status |-> Outcome[how], attempts |-> row[s].attempts, holder |-> None, quarantined |-> q]
  BY DEF SettledRow, q
<1> QED BY <1>1, <1>2, <1>3, <1>4 DEF Row, Status

LEMMA BatchFacts ==
  ASSUME TypeOK, Batch # {}
  PROVE  /\ Batch \subseteq Eligible /\ Batch \subseteq Events
         /\ Alone(Batch) \subseteq Batch /\ Alone(Batch) # {}
<1>1. Batch \subseteq Eligible /\ Batch \subseteq Events
  BY DEF Batch, Eligible, Rows
<1>2. Min(Batch) \in Batch
  BY <1>1, EventsAreNumbers, MinInSet
<1> QED BY <1>1, <1>2 DEF Alone

LEMMA NextToSettle ==
  ASSUME TypeInv, NEW e \in Exporters, pc[e] \in Settling
  PROVE  Min(todo[e]) \in todo[e] /\ Min(todo[e]) \in Events
<1>1. todo[e] \subseteq Events /\ todo[e] # {}
  BY DEF TypeInv, TypeOK, WorkOK
<1> QED BY <1>1, EventsAreNumbers, MinInSet

\* A page that starts at or after the watermark is a stretch of the log.
PageEnd(cursor) == IF last < cursor + PageSize THEN last ELSE cursor + PageSize

LEMMA PageFacts ==
  ASSUME TypeOK, NEW cursor \in Nat, cursor >= pruned
  PROVE  /\ Page(cursor) = cursor + 1 .. PageEnd(cursor)
         /\ Page(cursor) # {} => Max(Page(cursor)) = PageEnd(cursor)
<1>1. last \in Nat /\ pruned \in Nat /\ PageSize \in Nat \ {0} /\ PageEnd(cursor) \in Nat
  BY SizesArePositive DEF TypeOK, PageEnd
<1>2. Retained(cursor) = cursor + 1 .. last
  BY <1>1 DEF Retained
<1>3. ASSUME NEW s \in cursor + 1 .. last
      PROVE  Cardinality({t \in Retained(cursor) : t < s}) = s - 1 - cursor
  <2>1. {t \in Retained(cursor) : t < s} = cursor + 1 .. s - 1
    BY <1>1, <1>2
  <2>2. Cardinality(cursor + 1 .. s - 1) = IF cursor + 1 > s - 1 THEN 0 ELSE s - 1 - (cursor + 1) + 1
    BY <1>1, FS_Interval
  <2>3. (IF cursor + 1 > s - 1 THEN 0 ELSE s - 1 - (cursor + 1) + 1) = s - 1 - cursor
    BY <1>1
  <2> QED BY <2>1, <2>2, <2>3, Zenon
<1>4. Page(cursor) = {s \in cursor + 1 .. last : s - 1 - cursor < PageSize}
  BY <1>2, <1>3 DEF Page
<1>5. Page(cursor) = cursor + 1 .. PageEnd(cursor)
  BY <1>1, <1>4 DEF PageEnd
<1> QED BY <1>1, <1>5, MaxOfInterval

LEMMA Restatus ==
  ASSUME NEW r \in Row, NEW status \in Status
  PROVE  /\ [r EXCEPT !.status = status] \in Row
         /\ [r EXCEPT !.status = status].status = status
         /\ [r EXCEPT !.status = status].quarantined = r.quarantined
BY DEF Row

\* An action that moves some rows to other states keeps the table well typed.
LEMMA RestatusTable ==
  ASSUME row \in [Events -> Row], NEW s \in Events, NEW status \in Status,
         row' = [row EXCEPT ![s].status = status]
  PROVE  /\ row' \in [Events -> Row]
         /\ row'[s].status = status /\ row'[s].quarantined = row[s].quarantined
         /\ \A t \in Events \ {s} : row'[t] = row[t]
<1>1. row[s] \in Row
  OBVIOUS
<1>2. row' = [row EXCEPT ![s] = [row[s] EXCEPT !.status = status]]
  OBVIOUS
<1> QED BY <1>1, <1>2, Restatus

LEMMA TypeStep == TypeInv /\ [Next]_vars => TypeInv'
<1> SUFFICES ASSUME TypeInv, [Next]_vars PROVE TypeInv'
  OBVIOUS
<1> USE DEF TypeInv
<1>0. /\ last \in Nat /\ pruned \in Nat /\ terminalAt \in Nat /\ MaxEvents \in Nat
      /\ last <= MaxEvents /\ terminalAt <= last /\ pruned <= last
      /\ crashes \in Nat /\ crashes <= MaxCrashes /\ MaxCrashes \in Nat
      /\ row \in [Events -> Row]
  BY SizesArePositive DEF TypeOK
<1>1. ASSUME AppendRow, terminalAt' \in {terminalAt, last + 1} PROVE TypeInv'
  <2>1. last + 1 \in Events
    BY <1>0, <1>1 DEF AppendRow, Events
  <2>2. row' \in [Events -> Row]
    <3>1. row' = [row EXCEPT ![last + 1].status = "pending"] /\ "pending" \in Status
      BY <1>1 DEF AppendRow, Status
    <3> QED BY <1>0, <2>1, <3>1, RestatusTable
  <2>3. last' \in 0..MaxEvents /\ terminalAt' \in 0..last' /\ pruned' \in 0..last'
    BY <1>0, <1>1 DEF AppendRow
  <2> QED BY <1>1, <2>2, <2>3 DEF AppendRow, TypeOK, WorkOK, workVars, history
<1>2. ASSUME ListEvents PROVE TypeInv'
  <2>1. reader.cursor \in Nat /\ reader.seen \subseteq Events
    BY DEF TypeOK
  <2>2. CASE CursorExpired(reader.cursor)
    BY <1>2, <2>2 DEF ListEvents, TypeOK, WorkOK, logVars, workVars, history
  <2>3. CASE ~CursorExpired(reader.cursor) /\ Page(reader.cursor) = {}
    BY <1>2, <2>3 DEF ListEvents, TypeOK, WorkOK, logVars, workVars, history
  <2>4. CASE ~CursorExpired(reader.cursor) /\ Page(reader.cursor) # {}
    <3>1. reader.cursor >= pruned
      BY <1>0, <2>1, <2>4 DEF CursorExpired
    <3>2. Max(Page(reader.cursor)) \in Nat
      <4>1. Max(Page(reader.cursor)) = PageEnd(reader.cursor)
        BY <2>1, <2>4, <3>1, PageFacts
      <4>2. PageEnd(reader.cursor) \in Nat
        BY <1>0, <2>1, SizesArePositive DEF PageEnd
      <4> QED BY <4>1, <4>2
    <3>3. Page(reader.cursor) \subseteq Events
      BY <1>0 DEF Page, Retained, Events
    <3> QED BY <1>2, <2>1, <2>4, <3>2, <3>3 DEF ListEvents, TypeOK, WorkOK, logVars, workVars, history
  <2> QED BY <2>2, <2>3, <2>4
<1>3. ASSUME CheckStatus PROVE TypeInv'
  BY <1>3 DEF CheckStatus, TypeOK, WorkOK, logVars, workVars, history
<1>4. ASSUME NEW n \in Events, Prune(n) PROVE TypeInv'
  <2>1. PruneTarget(n) \in 0..last
    BY <1>0, <1>4, EventsAreNumbers, MinOfTwo DEF Prune, PruneTarget
  <2>2. \A s \in Events : [row[s] EXCEPT !.status = "deleted"] \in Row
    BY <1>0, Restatus DEF Status
  <2>3. row' \in [Events -> Row]
    BY <1>0, <1>4, <2>2 DEF Prune
  <2> QED BY <1>4, <2>1, <2>3 DEF Prune, TypeOK, WorkOK, workVars, history
<1>5. ASSUME NEW s \in Events, LeaseExpires(s) PROVE TypeInv'
  <2>1. row' \in [Events -> Row]
    BY <1>0, <1>5, RestatusTable DEF LeaseExpires, Status
  <2>2. crashes' \in 0..MaxCrashes
    BY <1>0, <1>5 DEF LeaseExpires
  <2> QED BY <1>5, <2>1, <2>2 DEF LeaseExpires, TypeOK, WorkOK, logVars, workVars, history
<1>6. ASSUME NEW s \in Events, DelayPasses(s) PROVE TypeInv'
  <2>1. row' \in [Events -> Row]
    BY <1>0, <1>6, RestatusTable DEF DelayPasses, Status
  <2> QED BY <1>6, <2>1 DEF DelayPasses, TypeOK, WorkOK, logVars, workVars, history
<1>7. ASSUME NEW s \in Events, Requeue(s) PROVE TypeInv'
  <2>1. row' \in [Events -> Row]
    BY <1>0, <1>7, RestatusTable DEF Requeue, Status
  <2> QED BY <1>7, <2>1 DEF Requeue, TypeOK, WorkOK, logVars, workVars, history
<1>8. ASSUME NEW e \in Exporters, Lease(e) PROVE TypeInv'
  <2>1. Batch \subseteq Events /\ Alone(Batch) \subseteq Batch /\ Alone(Batch) # {}
    BY <1>8, BatchFacts DEF Lease
  <2>2. \A s \in Events : Attempted(s) \in 0..MaxAttempts /\ row[s].quarantined \in Nat
    BY <1>0, SizesArePositive DEF Attempted, Row
  <2>3. row' \in [Events -> Row]
    BY <1>0, <1>8, <2>2 DEF Lease, Row, Status
  <2> QED BY <1>8, <2>1, <2>3 DEF Lease, TypeOK, WorkOK, Settling, logVars, history
<1>9. ASSUME NEW e \in Exporters, SettleRow(e) PROVE TypeInv'
  <2>1. Min(todo[e]) \in todo[e] /\ Min(todo[e]) \in Events /\ pc[e] \in Settling
    BY <1>9, NextToSettle DEF SettleRow
  <2>2. SettledRow(Min(todo[e]), pc[e]) \in Row
    BY <2>1, SettledRowFacts
  <2>3. CASE Owns(e, Min(todo[e]))
    <3>1. row' \in [Events -> Row]
      BY <1>0, <1>9, <2>1, <2>2, <2>3 DEF SettleRow
    <3> QED BY <1>9, <2>1, <2>3, <3>1 DEF SettleRow, TypeOK, WorkOK, Settling, logVars, history
  <2>4. CASE ~Owns(e, Min(todo[e]))
    BY <1>9, <2>4 DEF SettleRow, Forget, TypeOK, WorkOK, Settling, logVars, history
  <2> QED BY <2>3, <2>4
<1>10. ASSUME NEW e \in Exporters, NEW how \in Settling \ {"isolate"}, pc[e] = "exporting",
              SettleActive(e, how), exported' \in {exported, exported \cup active[e]},
              failedAlone' \in {failedAlone, failedAlone \cup active[e]},
              crashes' \in 0..MaxCrashes, UNCHANGED <<deployed, logVars, row, reader>>
       PROVE  TypeInv'
  BY <1>10 DEF SettleActive, TypeOK, WorkOK, Settling, logVars
<1>11. ASSUME NEW e \in Exporters, ExportReturns(e) PROVE TypeInv'
  BY <1>0, <1>10, <1>11 DEF ExportReturns, Settling
<1>12. ASSUME NEW e \in Exporters, ExportFails(e) PROVE TypeInv'
  BY <1>0, <1>10, <1>12 DEF ExportFails, Verdict, Settling
<1>13. ASSUME NEW e \in Exporters, ExportCancelled(e) PROVE TypeInv'
  BY <1>0, <1>10, <1>13 DEF ExportCancelled, Settling, history
<1>14. ASSUME NEW e \in Exporters, Crash(e) PROVE TypeInv'
  BY <1>0, <1>14 DEF Crash, Forget, TypeOK, WorkOK, Settling, logVars, history
<1>15. CASE UNCHANGED vars
  BY <1>15 DEF vars, TypeOK, WorkOK, logVars, workVars, history
<1> QED
  BY <1>1, <1>2, <1>3, <1>4, <1>5, <1>6, <1>7, <1>8, <1>9, <1>11, <1>12, <1>13, <1>14, <1>15
  DEF Next, ExporterStep, AppendEvent, Settle

(***************************************************************************)
(* Every reachable state of the log, the outbox and its workers is well    *)
(* typed: attempts, watermark and terminal event stay in their ranges.     *)
(***************************************************************************)
THEOREM TypeCorrect == Spec => []TypeOK
<1>1. TypeInv => TypeOK
  BY DEF TypeInv
<1> QED BY <1>1, TypeInit, TypeStep, PTL DEF Spec

(***************************************************************************)
(* Delivery is at least once.  The invariant adds what the steps rely on:  *)
(* a worker acknowledges only what export() accepted, the events of the    *)
(* log have rows and nothing else has, and a quarantined row remembers it. *)
(***************************************************************************)
AcknowledgesExported ==
  \A e \in Exporters : pc[e] = "acknowledge" => todo[e] \subseteq exported
EventsHaveRows == \A s \in Events : s <= last <=> row[s].status # "absent"
DeadWasQuarantined == \A s \in Events : row[s].status = "dead" => row[s].quarantined > 0

Delivery == AcknowledgesExported /\ EventsHaveRows /\ DeadWasQuarantined /\ NothingLost

LEMMA DeliveryInit == Init => Delivery
BY EventsAreNumbers
DEF Init, Delivery, AcknowledgesExported, EventsHaveRows, DeadWasQuarantined, NothingLost, Rows, Absent

\* What is needed of a step: acknowledgements stay honest, rows only appear
\* and only move as described, and the watermark passes settled rows only.
LEMMA DeliveryFrame ==
  ASSUME TypeOK, Delivery, exported \subseteq exported', last' = last, pruned' = pruned,
         AcknowledgesExported',
         \A s \in Events :
           \/ row'[s] = row[s]
           \/ /\ row[s].status \in {"pending", "deferred", "leased", "expired", "dead"}
              /\ row'[s].status \in {"pending", "deferred", "leased", "expired", "dead", "delivered"}
              /\ row'[s].status = "delivered" => s \in exported
              /\ row'[s].status = "dead" => row'[s].quarantined > 0
              /\ row[s].quarantined > 0 => row'[s].quarantined > 0
  PROVE  Delivery'
<1>1. EventsHaveRows' /\ DeadWasQuarantined'
  BY DEF Delivery, EventsHaveRows, DeadWasQuarantined
<1>2. \A s \in Events : row'[s].status \in {"delivered", "deleted"} => s \in exported'
  BY DEF Delivery, NothingLost, Rows
<1>3. \A s \in 1..pruned' : row'[s].status = "deleted" \/ row'[s].quarantined > 0
  <2>1. 1..pruned \subseteq Events
    BY SizesArePositive DEF TypeOK, Events
  <2> QED BY <2>1 DEF Delivery, NothingLost
<1> QED BY <1>1, <1>2, <1>3 DEF Delivery, NothingLost, Rows

LEMMA DeliveryStep == TypeInv /\ Delivery /\ [Next]_vars => Delivery'
<1> SUFFICES ASSUME TypeInv, Delivery, [Next]_vars PROVE Delivery'
  OBVIOUS
<1>0. /\ TypeOK
      /\ last \in Nat /\ pruned \in Nat /\ pruned <= last /\ last <= MaxEvents /\ MaxEvents \in Nat
      /\ row \in [Events -> Row]
  BY SizesArePositive DEF TypeOK, TypeInv
<1>1. ASSUME AppendRow PROVE Delivery'
  <2>1. last + 1 \in Events
    BY <1>0, <1>1 DEF AppendRow, Events
  <2>2. row' = [row EXCEPT ![last + 1].status = "pending"] /\ "pending" \in Status
    BY <1>1 DEF AppendRow, Status
  <2>3. /\ row'[last + 1].status = "pending"
        /\ row'[last + 1].quarantined = row[last + 1].quarantined
        /\ \A s \in Events \ {last + 1} : row'[s] = row[s]
    BY <1>0, <2>1, <2>2, RestatusTable
  <2>4. last' = last + 1 /\ pruned' = pruned /\ exported' = exported /\ pc' = pc /\ todo' = todo
    BY <1>1 DEF AppendRow, workVars, history
  <2>5. AcknowledgesExported'
    BY <2>4 DEF Delivery, AcknowledgesExported
  <2>6. EventsHaveRows'
    BY <1>0, <2>3, <2>4, EventsAreNumbers DEF Delivery, EventsHaveRows
  <2>7. DeadWasQuarantined'
    BY <2>3 DEF Delivery, DeadWasQuarantined
  <2>8. NothingLost'
    <3>1. \A s \in 1..pruned : s \in Events \ {last + 1}
      BY <1>0 DEF Events
    <3> QED BY <2>3, <2>4, <3>1 DEF Delivery, NothingLost, Rows
  <2> QED BY <2>5, <2>6, <2>7, <2>8 DEF Delivery
<1>2. ASSUME NEW n \in Events, Prune(n) PROVE Delivery'
  <2> DEFINE target == PruneTarget(n)
  <2>1. target \in Nat /\ target < last
    <3>1. n \in Int /\ last - 1 \in Int
      BY <1>0, EventsAreNumbers
    <3>2. target \in {n, last - 1} /\ target <= last - 1
      BY <3>1, MinOfTwo DEF PruneTarget
    <3>3. target > pruned
      BY <1>2 DEF Prune
    <3> QED BY <1>0, <3>1, <3>2, <3>3
  <2>2. /\ pruned' = target /\ last' = last /\ exported' = exported /\ pc' = pc /\ todo' = todo
        /\ \A s \in 1..target : row[s].status \notin Unsettled
        /\ \A s \in Events : row'[s] =
             IF s <= target /\ row[s].status = "delivered" THEN [row[s] EXCEPT !.status = "deleted"] ELSE row[s]
    BY <1>2 DEF Prune, PruneBlocked, workVars, history
  <2> HIDE DEF target
  <2>3. \A s \in Events :
          /\ row'[s].quarantined = row[s].quarantined
          /\ row'[s].status = IF s <= target /\ row[s].status = "delivered" THEN "deleted" ELSE row[s].status
    <3>1. TAKE s \in Events
    <3>2. /\ [row[s] EXCEPT !.status = "deleted"].status = "deleted"
          /\ [row[s] EXCEPT !.status = "deleted"].quarantined = row[s].quarantined
      BY <1>0, Restatus DEF Status
    <3> QED BY <2>2, <3>2
  <2>4. AcknowledgesExported' /\ EventsHaveRows' /\ DeadWasQuarantined'
    BY <2>2, <2>3 DEF Delivery, AcknowledgesExported, EventsHaveRows, DeadWasQuarantined
  <2>5. ASSUME NEW s \in 1..target PROVE row'[s].status = "deleted" \/ row'[s].quarantined > 0
    <3>1. s \in Events /\ s <= last /\ s <= target
      BY <1>0, <2>1 DEF Events
    <3>2. row[s].status \in Status /\ row[s].status \notin Unsettled /\ row[s].status # "absent"
      BY <1>0, <2>2, <3>1 DEF Delivery, EventsHaveRows, Row
    <3>3. row[s].status \in {"delivered", "dead", "deleted"}
      BY <3>2 DEF Status, Unsettled
    <3> QED BY <2>3, <3>1, <3>3 DEF Delivery, DeadWasQuarantined
  <2>6. NothingLost'
    BY <2>2, <2>3, <2>5 DEF Delivery, NothingLost, Rows
  <2> QED BY <2>4, <2>6 DEF Delivery
<1>3. ASSUME UNCHANGED <<last, pruned, exported, row>>, AcknowledgesExported' PROVE Delivery'
  BY <1>3 DEF Delivery, EventsHaveRows, DeadWasQuarantined, NothingLost, Rows
<1>4. ASSUME NEW s \in Events, NEW status \in {"pending", "deferred", "expired"},
             row[s].status \in {"leased", "deferred", "dead"},
             row' = [row EXCEPT ![s].status = status],
             UNCHANGED <<last, pruned, exported, pc, todo>>
      PROVE  Delivery'
  <2>1. /\ row'[s].status = status /\ row'[s].quarantined = row[s].quarantined
        /\ \A t \in Events \ {s} : row'[t] = row[t]
    BY <1>0, <1>4, RestatusTable DEF Status
  <2>2. AcknowledgesExported'
    BY <1>4 DEF Delivery, AcknowledgesExported
  <2> QED BY <1>0, <1>4, <2>1, <2>2, DeliveryFrame
<1>5. ASSUME NEW e \in Exporters, Lease(e) PROVE Delivery'
  <2>1. Batch \subseteq Eligible /\ Batch \subseteq Events
    BY <1>0, <1>5, BatchFacts DEF Lease
  <2>2. \A s \in Events :
          \/ row'[s] = row[s]
          \/ /\ row[s].status \in {"pending", "expired"}
             /\ row'[s].status = "leased" /\ row'[s].quarantined = row[s].quarantined
    BY <1>5, <2>1 DEF Lease, Eligible, Rows
  <2>3. AcknowledgesExported'
    BY <1>0, <1>5 DEF Lease, Delivery, AcknowledgesExported, history, TypeOK
  <2>4. UNCHANGED <<last, pruned, exported>>
    BY <1>5 DEF Lease, logVars, history
  <2> QED BY <1>0, <2>2, <2>3, <2>4, DeliveryFrame
<1>6. ASSUME NEW e \in Exporters, SettleRow(e) PROVE Delivery'
  <2> DEFINE s == Min(todo[e])
  <2>1. s \in todo[e] /\ s \in Events /\ pc[e] \in Settling
    BY <1>6, NextToSettle DEF SettleRow
  <2>2. UNCHANGED <<last, pruned, exported>>
    BY <1>6 DEF SettleRow, logVars, history
  <2>3. CASE Owns(e, s)
    <3>1. /\ row' = [row EXCEPT ![s] = SettledRow(s, pc[e])]
          /\ todo' = [todo EXCEPT ![e] = todo[e] \ {s}]
          /\ pc' = [pc EXCEPT ![e] = IF todo[e] # {s} THEN pc[e]
                                    ELSE IF pc[e] = "isolate" THEN "exporting" ELSE "idle"]
      BY <1>6, <2>3 DEF SettleRow
    <3>2. AcknowledgesExported'
      BY <1>0, <2>2, <3>1 DEF Delivery, AcknowledgesExported, TypeOK
    <3>3. /\ row'[s] = SettledRow(s, pc[e]) /\ \A t \in Events \ {s} : row'[t] = row[t]
          /\ row[s].status = "leased" /\ row[s].quarantined \in Nat
      BY <1>0, <2>1, <2>3, <3>1 DEF Owns, Row
    <3>4. pc[e] = "acknowledge" => s \in exported
      BY <2>1 DEF Delivery, AcknowledgesExported
    <3>5. /\ SettledRow(s, pc[e]).status \in {"pending", "deferred", "delivered", "dead"}
          /\ SettledRow(s, pc[e]).status = "delivered" => pc[e] = "acknowledge"
          /\ SettledRow(s, pc[e]).quarantined >= row[s].quarantined
          /\ SettledRow(s, pc[e]).status = "dead" => SettledRow(s, pc[e]).quarantined > 0
          /\ SettledRow(s, pc[e]).quarantined \in Nat
      BY <1>0, <2>1, SettledRowFacts DEF Row
    <3> QED BY <1>0, <2>2, <3>2, <3>3, <3>4, <3>5, DeliveryFrame
  <2>4. CASE ~Owns(e, s)
    <3>1. UNCHANGED row /\ Forget(e)
      BY <1>6, <2>4 DEF SettleRow
    <3>2. AcknowledgesExported'
      BY <1>0, <2>2, <3>1 DEF Forget, Delivery, AcknowledgesExported, TypeOK
    <3> QED BY <1>3, <2>2, <3>1, <3>2
  <2> QED BY <2>3, <2>4
<1>7. ASSUME NEW e \in Exporters, ExportReturns(e) PROVE Delivery'
  <2>1. AcknowledgesExported'
    BY <1>0, <1>7 DEF ExportReturns, SettleActive, Delivery, AcknowledgesExported, TypeOK
  <2> QED BY <1>0, <1>7, <2>1, DeliveryFrame DEF ExportReturns, logVars
<1>8. ASSUME NEW e \in Exporters, NEW how \in {"quarantine", "retry", "release"},
             SettleActive(e, how), UNCHANGED <<last, pruned, exported, row>>
      PROVE  Delivery'
  <2>1. AcknowledgesExported'
    BY <1>0, <1>8 DEF SettleActive, Delivery, AcknowledgesExported, TypeOK
  <2> QED BY <1>3, <1>8, <2>1
<1>9. ASSUME NEW e \in Exporters, Crash(e) PROVE Delivery'
  <2>1. AcknowledgesExported'
    BY <1>0, <1>9 DEF Crash, Forget, Delivery, AcknowledgesExported, TypeOK, history
  <2> QED BY <1>3, <1>9, <2>1 DEF Crash, logVars, history
<1>10. ASSUME UNCHANGED <<last, pruned, exported, row, pc, todo>> PROVE Delivery'
  BY <1>3, <1>10 DEF Delivery, AcknowledgesExported
<1>11. CASE UNCHANGED vars
  BY <1>10, <1>11 DEF vars, logVars, workVars, history
<1>12. ASSUME ListEvents \/ CheckStatus PROVE Delivery'
  BY <1>10, <1>12 DEF ListEvents, CheckStatus, logVars, workVars, history
<1>13. ASSUME NEW s \in Events, LeaseExpires(s) \/ DelayPasses(s) \/ Requeue(s) PROVE Delivery'
  BY <1>4, <1>13 DEF LeaseExpires, DelayPasses, Requeue, logVars, workVars, history
<1>14. ASSUME NEW e \in Exporters, ExportFails(e) \/ ExportCancelled(e) PROVE Delivery'
  BY <1>8, <1>14 DEF ExportFails, ExportCancelled, Verdict, logVars, history
<1> QED
  BY <1>1, <1>2, <1>5, <1>6, <1>7, <1>9, <1>11, <1>12, <1>13, <1>14
  DEF Next, ExporterStep, AppendEvent, Settle

(***************************************************************************)
(* No row is marked delivered unless the exporter accepted its event, and  *)
(* retention removes nothing that was neither delivered nor quarantined.   *)
(***************************************************************************)
THEOREM DeliveryAtLeastOnce == Spec => []NothingLost
<1>1. Delivery => NothingLost
  BY DEF Delivery
<1> QED BY <1>1, TypeInit, TypeStep, DeliveryInit, DeliveryStep, PTL DEF Spec

(***************************************************************************)
(* A reader has yielded every event up to its cursor, whatever retention   *)
(* removed in the meantime.                                                *)
(***************************************************************************)
THEOREM ReaderSeesAll == Spec => []ReaderIsGapFree
<1>1. Init => ReaderIsGapFree
  BY DEF Init, ReaderIsGapFree
<1>2. TypeInv /\ ReaderIsGapFree /\ [Next]_vars => ReaderIsGapFree'
  <2> SUFFICES ASSUME TypeInv, ReaderIsGapFree, [Next]_vars PROVE ReaderIsGapFree'
    OBVIOUS
  <2>0. TypeOK /\ last \in Nat /\ pruned \in Nat /\ reader.cursor \in Nat
        /\ PageSize \in Nat \ {0} /\ reader.seen = 1..reader.cursor
    BY SizesArePositive DEF TypeInv, TypeOK, ReaderIsGapFree
  <2>1. CASE reader'.seen = reader.seen /\ reader'.cursor = reader.cursor
    BY <2>0, <2>1 DEF ReaderIsGapFree
  <2>2. CASE ListEvents /\ ~CursorExpired(reader.cursor) /\ Page(reader.cursor) # {}
    <3>1. reader.cursor >= pruned
      BY <2>0, <2>2 DEF CursorExpired
    <3>2. /\ Page(reader.cursor) = reader.cursor + 1 .. PageEnd(reader.cursor)
          /\ Max(Page(reader.cursor)) = PageEnd(reader.cursor)
      BY <2>0, <2>2, <3>1, PageFacts
    <3>3. PageEnd(reader.cursor) \in Nat /\ PageEnd(reader.cursor) > reader.cursor
      BY <2>0, <2>2, <3>2 DEF PageEnd
    <3>4. /\ reader'.cursor = PageEnd(reader.cursor)
          /\ reader'.seen = 1..reader.cursor \cup (reader.cursor + 1 .. PageEnd(reader.cursor))
      BY <2>0, <2>2, <3>2 DEF ListEvents, TypeOK
    <3> QED BY <2>0, <3>3, <3>4 DEF ReaderIsGapFree
  <2>3. ListEvents \/ CheckStatus =>
          \/ reader'.seen = reader.seen /\ reader'.cursor = reader.cursor
          \/ ListEvents /\ ~CursorExpired(reader.cursor) /\ Page(reader.cursor) # {}
    BY <2>0 DEF ListEvents, CheckStatus, TypeOK
  <2>4. ListEvents \/ CheckStatus \/ UNCHANGED reader
    BY DEF Next, vars, AppendEvent, Settle, AppendRow, Prune, LeaseExpires, DelayPasses, Requeue,
           ExporterStep, Lease, SettleRow, ExportReturns, ExportFails, ExportCancelled, Crash
  <2> QED BY <2>1, <2>2, <2>3, <2>4
<1> QED BY <1>1, <1>2, TypeInit, TypeStep, PTL DEF Spec

(***************************************************************************)
(* A worker that settles a row late cannot undo what another recorded: a   *)
(* delivered row stays delivered, and a quarantined one waits for the      *)
(* operator.                                                               *)
(***************************************************************************)
RowOutcomeStays(s) ==
  /\ row[s].status = "delivered" => row'[s].status \in {"delivered", "deleted"}
  /\ row[s].status = "dead" => /\ row'[s].status \in {"dead", "pending", "deferred"}
                              /\ row'[s].quarantined = row[s].quarantined

THEOREM OutcomesStay == Spec => OutcomeStays
<1>1. TypeInv /\ Delivery /\ [Next]_vars => \A s \in Events : RowOutcomeStays(s)
  <2> SUFFICES ASSUME TypeInv, Delivery, [Next]_vars, NEW s \in Events PROVE RowOutcomeStays(s)
    OBVIOUS
  <2>0. TypeOK /\ row \in [Events -> Row] /\ last \in Nat /\ last <= MaxEvents /\ MaxEvents \in Nat
    BY SizesArePositive DEF TypeInv, TypeOK
  <2>1. ASSUME row'[s] = row[s] PROVE RowOutcomeStays(s)
    BY <2>1 DEF RowOutcomeStays
  <2>2. ASSUME row[s].status \notin {"delivered", "dead"} PROVE RowOutcomeStays(s)
    BY <2>2 DEF RowOutcomeStays
  <2>3. ASSUME AppendRow PROVE RowOutcomeStays(s)
    <3>1. CASE s = last + 1
      <4>1. row[s].status = "absent"
        BY <2>0, <3>1 DEF Delivery, EventsHaveRows
      <4> QED BY <2>2, <4>1
    <3>2. CASE s # last + 1
      <4>1. row'[s] = row[s]
        BY <2>0, <2>3, <3>2 DEF AppendRow
      <4> QED BY <2>1, <4>1
    <3> QED BY <3>1, <3>2
  <2>4. ASSUME NEW n \in Events, Prune(n) PROVE RowOutcomeStays(s)
    <3>1. \/ row'[s] = row[s]
          \/ row[s].status = "delivered" /\ row'[s] = [row[s] EXCEPT !.status = "deleted"]
      BY <2>4 DEF Prune
    <3>2. [row[s] EXCEPT !.status = "deleted"].status = "deleted"
      BY <2>0, Restatus DEF Status
    <3> QED BY <3>1, <3>2 DEF RowOutcomeStays
  <2>5. ASSUME NEW t \in Events, NEW status \in {"pending", "deferred", "expired"},
               row[t].status \in {"leased", "deferred", "dead"},
               row[t].status = "dead" => status # "expired",
               row' = [row EXCEPT ![t].status = status]
        PROVE  RowOutcomeStays(s)
    <3>1. /\ row'[t].status = status /\ row'[t].quarantined = row[t].quarantined
          /\ \A u \in Events \ {t} : row'[u] = row[u]
      BY <2>0, <2>5, RestatusTable DEF Status
    <3> QED BY <2>5, <3>1 DEF RowOutcomeStays
  <2>6. ASSUME NEW t \in Events, LeaseExpires(t) \/ DelayPasses(t) \/ Requeue(t)
        PROVE  RowOutcomeStays(s)
    BY <2>5, <2>6 DEF LeaseExpires, DelayPasses, Requeue
  <2>7. ASSUME NEW e \in Exporters, Lease(e) PROVE RowOutcomeStays(s)
    <3>1. Batch \subseteq Eligible
      BY <2>0, <2>7, BatchFacts DEF Lease
    <3>2. row'[s] = row[s] \/ row[s].status \in {"pending", "expired"}
      BY <2>7, <3>1 DEF Lease, Eligible, Rows
    <3> QED BY <2>1, <2>2, <3>2
  <2>8. ASSUME NEW e \in Exporters, SettleRow(e) PROVE RowOutcomeStays(s)
    <3>1. row'[s] = row[s] \/ row[s].status = "leased"
      BY <2>0, <2>8 DEF SettleRow, Owns
    <3> QED BY <2>1, <2>2, <3>1
  <2>9. ASSUME UNCHANGED row PROVE RowOutcomeStays(s)
    BY <2>1, <2>9
  <2> QED
    BY <2>3, <2>4, <2>6, <2>7, <2>8, <2>9
    DEF Next, ExporterStep, AppendEvent, Settle, ListEvents, CheckStatus,
        ExportReturns, ExportFails, ExportCancelled, Crash, vars
<1>2. (\A s \in Events : RowOutcomeStays(s)) =>
        [\A s \in Events :
           /\ row[s].status = "delivered" => row'[s].status \in {"delivered", "deleted"}
           /\ row[s].status = "dead" => row'[s].status \in {"dead", "pending", "deferred"}
                                       /\ row'[s].quarantined = row[s].quarantined]_vars
  BY DEF RowOutcomeStays
<1> QED BY <1>1, <1>2, TypeInit, TypeStep, DeliveryInit, DeliveryStep, PTL DEF Spec, OutcomeStays

(***************************************************************************)
(* Only poison is quarantined.  A batch with a row at its last attempt is  *)
(* exported alone; a larger batch whose oldest row has no attempt left     *)
(* lost that row to another worker, and its round ends at the lease error. *)
(***************************************************************************)
PoisonAlone(e) ==
  /\ pc[e] = "isolate" => Cardinality(active[e]) = 1
  /\ pc[e] = "exporting" =>
       \/ Cardinality(active[e]) = 1
       \/ ~(Owns(e, Min(active[e])) /\ Exhausted(Min(active[e])))
  /\ pc[e] = "quarantine" => todo[e] \subseteq failedAlone \/ ~Owns(e, Min(todo[e]))

Poison == (\A e \in Exporters : PoisonAlone(e)) /\ NeighboursSpared

LEMMA PoisonInit == Init => Poison
BY DEF Init, Poison, PoisonAlone, NeighboursSpared, Absent

\* A worker that does not move keeps its part of the invariant, because no
\* other can give it a row or use up an attempt of a row it holds.
Keeps(e) ==
  /\ pc'[e] = pc[e] /\ active'[e] = active[e] /\ todo'[e] = todo[e]
  /\ failedAlone \subseteq failedAlone'
  /\ \A s \in Events : Owns(e, s)' => Owns(e, s) /\ row'[s].attempts = row[s].attempts

LEMMA PoisonFrame ==
  ASSUME TypeInv, NEW e \in Exporters, PoisonAlone(e), Keeps(e)
  PROVE  PoisonAlone(e)'
<1>1. pc[e] = "exporting" => Min(active[e]) \in Events
  BY EventsAreNumbers, MinInSet DEF TypeInv, TypeOK, WorkOK
<1>2. pc[e] = "quarantine" => Min(todo[e]) \in Events
  BY NextToSettle DEF Settling
<1> QED BY <1>1, <1>2 DEF PoisonAlone, Keeps, Exhausted

LEMMA PoisonStep == TypeInv /\ Poison /\ [Next]_vars => Poison'
<1> SUFFICES ASSUME TypeInv, Poison, [Next]_vars PROVE Poison'
  OBVIOUS
<1>0. /\ TypeOK /\ row \in [Events -> Row]
      /\ \A e \in Exporters : PoisonAlone(e)
      /\ pc \in [Exporters -> {"idle", "exporting"} \cup Settling]
      /\ active \in [Exporters -> SUBSET Events] /\ todo \in [Exporters -> SUBSET Events]
  BY DEF TypeInv, TypeOK, Poison
<1>1. ASSUME \A e \in Exporters : PoisonAlone(e)', failedAlone \subseteq failedAlone',
             \A s \in Events : row'[s].quarantined > 0 => row[s].quarantined > 0 \/ s \in failedAlone
      PROVE  Poison'
  BY <1>1 DEF Poison, NeighboursSpared
\* Steps that touch no worker.
<1>2. ASSUME UNCHANGED <<workVars, failedAlone>>,
             \A s \in Events :
               \/ row'[s] = row[s]
               \/ row'[s].status # "leased" /\ row'[s].quarantined = row[s].quarantined
      PROVE  Poison'
  <2>1. ASSUME NEW e \in Exporters PROVE PoisonAlone(e)'
    <3>1. Keeps(e)
      BY <1>2 DEF Keeps, Owns, workVars
    <3> QED BY <1>0, <3>1, PoisonFrame
  <2> QED BY <1>1, <1>2, <2>1
<1>3. ASSUME NEW s \in Events, NEW status \in {"pending", "deferred", "expired"},
             row' = [row EXCEPT ![s].status = status], UNCHANGED <<workVars, failedAlone>>
      PROVE  Poison'
  <2>1. /\ row'[s].status = status /\ row'[s].quarantined = row[s].quarantined
        /\ \A t \in Events \ {s} : row'[t] = row[t]
    BY <1>0, <1>3, RestatusTable DEF Status
  <2> QED BY <1>2, <1>3, <2>1
<1>4. ASSUME AppendRow PROVE Poison'
  <2>1. last + 1 \in Events
    BY <1>0, <1>4, SizesArePositive DEF AppendRow, Events, TypeOK
  <2> QED BY <1>3, <1>4, <2>1 DEF AppendRow, history
<1>5. ASSUME NEW n \in Events, Prune(n) PROVE Poison'
  <2>1. ASSUME NEW s \in Events
        PROVE  \/ row'[s] = row[s]
               \/ row'[s].status # "leased" /\ row'[s].quarantined = row[s].quarantined
    <3>1. row'[s] = row[s] \/ row'[s] = [row[s] EXCEPT !.status = "deleted"]
      BY <1>5 DEF Prune
    <3>2. /\ [row[s] EXCEPT !.status = "deleted"].status = "deleted"
          /\ [row[s] EXCEPT !.status = "deleted"].quarantined = row[s].quarantined
      BY <1>0, Restatus DEF Status
    <3> QED BY <3>1, <3>2
  <2> QED BY <1>2, <1>5, <2>1 DEF Prune, history
<1>6. ASSUME NEW s \in Events, LeaseExpires(s) \/ DelayPasses(s) \/ Requeue(s) PROVE Poison'
  BY <1>3, <1>6 DEF LeaseExpires, DelayPasses, Requeue, history
<1>7. ASSUME UNCHANGED <<row, workVars, failedAlone>> PROVE Poison'
  BY <1>2, <1>7
\* Steps of a worker e: the others keep theirs.
<1>8. ASSUME NEW e \in Exporters, NEW d \in Exporters \ {e},
             pc'[d] = pc[d], active'[d] = active[d], todo'[d] = todo[d],
             failedAlone \subseteq failedAlone',
             \A s \in Events : row'[s] = row[s] \/ row'[s].holder # d
      PROVE  PoisonAlone(d)'
  <2>1. Keeps(d)
    BY <1>8 DEF Keeps, Owns
  <2> QED BY <1>0, <2>1, PoisonFrame
<1>9. ASSUME NEW e \in Exporters, Lease(e) PROVE Poison'
  <2>1. Batch \subseteq Events /\ Batch # {} /\ Alone(Batch) # {} /\ Alone(Batch) \subseteq Batch
    BY <1>0, <1>9, BatchFacts DEF Lease
  <2>2. /\ active' = [active EXCEPT ![e] = Alone(Batch)]
        /\ todo' = [todo EXCEPT ![e] = Batch \ Alone(Batch)]
        /\ pc' = [pc EXCEPT ![e] = IF Alone(Batch) = Batch THEN "exporting" ELSE "isolate"]
        /\ failedAlone' = failedAlone
    BY <1>9 DEF Lease, history
  <2>3. \A s \in Events :
          /\ s \in Batch => row'[s].attempts = Attempted(s) /\ row'[s].holder = e
                          /\ row'[s].quarantined = row[s].quarantined
          /\ s \notin Batch => row'[s] = row[s]
    BY <1>9 DEF Lease
  <2>4. PoisonAlone(e)'
    <3>1. CASE \E s \in Batch : Attempted(s) = MaxAttempts
      <4>1. Alone(Batch) = {Min(Batch)} /\ Cardinality({Min(Batch)}) = 1
        BY <3>1, FS_Singleton DEF Alone
      <4> QED BY <1>0, <2>2, <4>1 DEF PoisonAlone
    <3>2. CASE ~ \E s \in Batch : Attempted(s) = MaxAttempts
      <4>1. Alone(Batch) = Batch
        BY <3>2 DEF Alone
      <4>2. Min(Batch) \in Batch
        BY <2>1, EventsAreNumbers, MinInSet
      <4>3. row'[Min(Batch)].attempts # MaxAttempts
        BY <2>1, <2>3, <3>2, <4>2
      <4> QED BY <1>0, <2>2, <4>1, <4>3 DEF PoisonAlone, Exhausted
    <3> QED BY <3>1, <3>2
  <2>5. ASSUME NEW d \in Exporters \ {e} PROVE PoisonAlone(d)'
    BY <1>0, <1>8, <2>2, <2>3
  <2> QED BY <1>1, <2>2, <2>3, <2>4, <2>5
<1>10. ASSUME NEW e \in Exporters, SettleRow(e) PROVE Poison'
  <2> DEFINE s == Min(todo[e])
  <2>1. s \in todo[e] /\ s \in Events /\ pc[e] \in Settling /\ failedAlone' = failedAlone
    BY <1>10, NextToSettle DEF SettleRow, history
  <2>2. CASE Owns(e, s)
    <3>1. /\ row' = [row EXCEPT ![s] = SettledRow(s, pc[e])]
          /\ todo' = [todo EXCEPT ![e] = todo[e] \ {s}]
          /\ pc' = [pc EXCEPT ![e] = IF todo[e] # {s} THEN pc[e]
                                    ELSE IF pc[e] = "isolate" THEN "exporting" ELSE "idle"]
          /\ active' = active
      BY <1>10, <2>2 DEF SettleRow
    <3>2. pc[e] = "quarantine" => todo[e] \subseteq failedAlone
      BY <1>0, <2>2 DEF PoisonAlone
    <3>3. PoisonAlone(e)'
      BY <1>0, <2>1, <3>1, <3>2 DEF PoisonAlone, Settling
    <3>4. /\ row'[s].holder = None
          /\ pc[e] # "quarantine" => row'[s].quarantined = row[s].quarantined
          /\ \A t \in Events \ {s} : row'[t] = row[t]
      BY <1>0, <2>1, <3>1, SettledRowFacts
    <3>5. ASSUME NEW d \in Exporters \ {e} PROVE PoisonAlone(d)'
      BY <1>0, <1>8, <2>1, <3>1, <3>4, NoneIsNoExporter
    <3> QED BY <1>1, <2>1, <3>2, <3>3, <3>4, <3>5
  <2>3. CASE ~Owns(e, s)
    <3>1. UNCHANGED row /\ Forget(e)
      BY <1>10, <2>3 DEF SettleRow
    <3>2. PoisonAlone(e)'
      BY <1>0, <3>1 DEF Forget, PoisonAlone
    <3>3. ASSUME NEW d \in Exporters \ {e} PROVE PoisonAlone(d)'
      BY <1>0, <1>8, <2>1, <3>1 DEF Forget
    <3> QED BY <1>1, <2>1, <3>1, <3>2, <3>3
  <2> QED BY <2>2, <2>3
<1>11. ASSUME NEW e \in Exporters, UNCHANGED row, failedAlone \subseteq failedAlone', PoisonAlone(e)',
              \A d \in Exporters \ {e} : pc'[d] = pc[d] /\ active'[d] = active[d] /\ todo'[d] = todo[d]
       PROVE  Poison'
  <2>1. ASSUME NEW d \in Exporters \ {e} PROVE PoisonAlone(d)'
    BY <1>8, <1>11, <2>1
  <2> QED BY <1>1, <1>11, <2>1
<1>12. ASSUME NEW e \in Exporters, ExportFails(e) PROVE Poison'
  <2>1. /\ pc[e] = "exporting" /\ UNCHANGED row
        /\ failedAlone' = IF Cardinality(active[e]) = 1 THEN failedAlone \cup active[e] ELSE failedAlone
        /\ pc' = [pc EXCEPT ![e] = Verdict(active[e])]
        /\ todo' = [todo EXCEPT ![e] = active[e]] /\ active' = [active EXCEPT ![e] = {}]
    BY <1>12 DEF ExportFails, SettleActive
  <2>2. PoisonAlone(e)'
    BY <1>0, <2>1 DEF PoisonAlone, Verdict, Owns
  <2> QED BY <1>0, <1>11, <2>1, <2>2
<1>13. ASSUME NEW e \in Exporters, NEW how \in {"acknowledge", "release"},
              SettleActive(e, how), UNCHANGED <<row, failedAlone>>
       PROVE  Poison'
  <2>1. PoisonAlone(e)'
    BY <1>0, <1>13 DEF SettleActive, PoisonAlone
  <2> QED BY <1>0, <1>11, <1>13, <2>1 DEF SettleActive
<1>14. ASSUME NEW e \in Exporters, ExportReturns(e) \/ ExportCancelled(e) PROVE Poison'
  BY <1>13, <1>14 DEF ExportReturns, ExportCancelled, history
<1>15. ASSUME NEW e \in Exporters, Crash(e) PROVE Poison'
  <2>1. PoisonAlone(e)'
    BY <1>0, <1>15 DEF Crash, Forget, PoisonAlone
  <2> QED BY <1>0, <1>11, <1>15, <2>1 DEF Crash, Forget, history
<1>16. ASSUME ListEvents \/ CheckStatus PROVE Poison'
  BY <1>7, <1>16 DEF ListEvents, CheckStatus, history
<1>17. CASE UNCHANGED vars
  BY <1>7, <1>17 DEF vars, history
<1> QED
  BY <1>4, <1>5, <1>6, <1>9, <1>10, <1>12, <1>14, <1>15, <1>16, <1>17
  DEF Next, ExporterStep, AppendEvent, Settle

(***************************************************************************)
(* An event is quarantined only after its own export failed with no other  *)
(* event in the batch, for any number of workers and any loss of leases.   *)
(***************************************************************************)
THEOREM PoisonSparesNeighbours == Spec => []NeighboursSpared
<1>1. Poison => NeighboursSpared
  BY DEF Poison
<1> QED BY <1>1, TypeInit, TypeStep, PoisonInit, PoisonStep, PTL DEF Spec
=============================================================================
