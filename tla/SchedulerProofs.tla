-------------------------- MODULE SchedulerProofs --------------------------
(***************************************************************************)
(* One live claim per concurrency group, a recurrence that loses and       *)
(* repeats nothing, settlements that are true of the runs, and the         *)
(* contract of an occurrence, for any jobs, daemons and faults.            *)
(***************************************************************************)
EXTENDS Scheduler, Integers, TLAPS

(***************************************************************************)
(* Types.                                                                  *)
(***************************************************************************)
Statuses == ReadyStatuses \cup ActiveStatuses \cup TerminalStatuses
TaskAt   == {"claimed", "bind", "wait", "follow"}

JobType  == [rev : 0..MaxRevision, on : BOOLEAN, next : Nat, first : Nat, seen : Nat]
RowType  == [status : Statuses, holder : Workers \cup {None}, bound : BOOLEAN, ready : BOOLEAN]
LifeType == [state : Ends \cup {"running", "input"}, host : Workers \cup {None}]
DueType  == [job : Jobs \cup {None}, rev : 0..MaxRevision, next : Nat, at : Nat]

RowsOK(r) == DOMAIN r \subseteq Attempts /\ r \in [DOMAIN r -> RowType]
LifeOK(l) == DOMAIN l \subseteq Attempts /\ l \in [DOMAIN l -> LifeType]

RestOK ==
  /\ world \in Worlds
  /\ left \in [Faults -> Nat] /\ left["manual"] <= MaxManual
  /\ now \in 0..Horizon
  /\ job \in [Jobs -> JobType]
  /\ pc \in [Workers -> {"idle", "observed"} \cup TaskAt]
  /\ due \in [Workers -> DueType]
  /\ work \in [Workers -> Attempts \cup {None}]

TypeOK == RestOK /\ RowsOK(row) /\ LifeOK(life)

LEMMA WorldFacts ==
  ASSUME world \in Worlds
  PROVE  /\ world.last \in 1..Horizon
         /\ \A j \in Jobs, r \in Revisions : world.def[j][r] \in Definition
         /\ world.budget \in [Faults -> Nat] /\ world.budget["manual"] <= MaxManual
         /\ world.ends \subseteq Ends
BY WorldsAreWorlds, ManualsAreBounded DEF World, Times

LEMMA DefinitionFacts ==
  ASSUME NEW d \in Definition
  PROVE  /\ d.every \in Nat \ {0} /\ d.retries \in 0..MaxRetries /\ d.grace \in 0..Horizon
         /\ d.group \in Jobs /\ d.jitter \in BOOLEAN
BY DEF Definition

LEMMA PutFacts ==
  ASSUME NEW f, NEW a, NEW v
  PROVE  /\ DOMAIN Put(f, a, v) = DOMAIN f \cup {a}
         /\ Put(f, a, v)[a] = v
         /\ \A b \in DOMAIN f : b # a => Put(f, a, v)[b] = f[b]
BY DEF Put

LEMMA AttemptFacts ==
  ASSUME NEW a \in Attempts
  PROVE  /\ a = <<a[1], a[2]>> /\ a[1] \in Occurrences /\ a[2] \in 1..MaxRetries + 1
         /\ a[1] = <<a[1][1], a[1][2], a[1][3]>>
         /\ a[1][1] \in Jobs /\ a[1][2] \in Revisions /\ a[1][3] \in Times \cup Serials
         /\ Job(a) = a[1][1]
BY DEF Attempts, Occurrences, Job

LEMMA FirstFacts ==
  ASSUME NEW o \in Occurrences
  PROVE  First(o) \in Attempts /\ First(o)[1] = o /\ First(o)[2] = 1
BY BoundsAreNatural DEF First, Attempts

LEMMA NextFacts ==
  ASSUME NEW a \in Attempts, a[2] <= MaxRetries
  PROVE  /\ Next1(a) \in Attempts /\ Next1(a)[1] = a[1] /\ Next1(a)[2] = a[2] + 1
         /\ Next1(a) # a
BY AttemptFacts, BoundsAreNatural DEF Next1, Attempts

LEMMA PutRows ==
  ASSUME NEW r, RowsOK(r), NEW a \in Attempts, NEW v \in RowType
  PROVE  RowsOK(Put(r, a, v))
BY PutFacts DEF RowsOK, Put

LEMMA MoveRows ==
  ASSUME NEW r, RowsOK(r), NEW a \in DOMAIN r, NEW v \in RowType
  PROVE  /\ RowsOK([r EXCEPT ![a] = v]) /\ DOMAIN [r EXCEPT ![a] = v] = DOMAIN r
         /\ [r EXCEPT ![a] = v][a] = v
         /\ \A b \in DOMAIN r : b # a => [r EXCEPT ![a] = v][b] = r[b]
BY DEF RowsOK

LEMMA PutLife ==
  ASSUME NEW l, LifeOK(l), NEW a \in Attempts, NEW v \in LifeType
  PROVE  LifeOK(Put(l, a, v))
BY PutFacts DEF LifeOK, Put

-----------------------------------------------------------------------------
(***************************************************************************)
(* What a step does to the rows: nothing, it takes up an occurrence that   *)
(* was not taken up, it moves an attempt that is not settled, or it fails  *)
(* one and schedules the next.                                             *)
(***************************************************************************)
Occs == {a[1] : a \in Rows}
Open(a) == row[a].status \notin TerminalStatuses

Opens(o, v) ==
  /\ o \in Occurrences /\ o \notin Occs /\ v \in RowType
  /\ v.status \in {"claimed", "pending", "skipped"}
  /\ v.holder # None => v.status = "claimed" /\ ~Busy(DefOf(First(o)).group, None)
  /\ ~v.bound
  /\ row' = Put(row, First(o), v)

Moves(a, v) ==
  /\ a \in Rows /\ v \in RowType /\ Open(a)
  /\ v.holder # None => /\ v.status \in {"claimed", "running"}
                        /\ v.holder = row[a].holder \/ ~Busy(DefOf(a).group, a)
  /\ v.bound => row[a].bound \/ Started(a)
  /\ row' = [row EXCEPT ![a] = v]

Again(a, v) ==
  /\ a \in Rows /\ v \in RowType /\ Open(a) /\ a[2] <= MaxRetries
  /\ v.status = "failed" /\ v.holder = None
  /\ v.bound => row[a].bound
  /\ row' = Put([row EXCEPT ![a] = v], Next1(a), NewRow("retry_wait", FALSE))

Stays ==
  \/ row' = row
  \/ \E a \in Rows, v \in RowType : Moves(a, v)
  \/ \E a \in Rows, v \in RowType : Again(a, v)
Shape == Stays \/ \E o \in Occurrences, v \in RowType : Opens(o, v)

LEMMA NewRowType ==
  ASSUME NEW status \in Statuses, NEW ready \in BOOLEAN
  PROVE  /\ NewRow(status, ready) \in RowType
         /\ NewRow(status, ready).status = status /\ NewRow(status, ready).holder = None
         /\ NewRow(status, ready).bound = FALSE
BY DEF NewRow, RowType

LEMMA ClaimedType ==
  ASSUME NEW w \in Workers, NEW bound \in BOOLEAN
  PROVE  /\ ClaimedBy(w, bound) \in RowType
         /\ ClaimedBy(w, bound).status = "claimed" /\ ClaimedBy(w, bound).holder = w
         /\ ClaimedBy(w, bound).bound = bound
BY DEF ClaimedBy, RowType, Statuses, ActiveStatuses

\* The rows after each of them.
LEMMA OpensRows ==
  ASSUME RowsOK(row), NEW o \in Occurrences, NEW v \in RowType, Opens(o, v)
  PROVE  /\ RowsOK(row') /\ Rows' = Rows \cup {First(o)} /\ First(o) \in Attempts
         /\ First(o) \notin Rows /\ First(o)[1] = o /\ First(o)[2] = 1
         /\ row'[First(o)] = v /\ \A b \in Rows : row'[b] = row[b]
<1>1. row' = Put(row, First(o), v) /\ First(o) \in Attempts /\ First(o)[1] = o /\ First(o)[2] = 1
  BY FirstFacts DEF Opens
<1>2. RowsOK(Put(row, First(o), v))
  BY <1>1, PutRows
<1>3. /\ DOMAIN Put(row, First(o), v) = DOMAIN row \cup {First(o)}
      /\ Put(row, First(o), v)[First(o)] = v
      /\ \A b \in DOMAIN row : b # First(o) => Put(row, First(o), v)[b] = row[b]
  BY DEF Put
<1>4. First(o) \notin Rows
  BY <1>1 DEF Opens, Occs
<1> QED BY <1>1, <1>2, <1>3, <1>4 DEF Rows

LEMMA MovesRows ==
  ASSUME RowsOK(row), NEW a \in Rows, NEW v \in RowType, Moves(a, v)
  PROVE  /\ RowsOK(row') /\ Rows' = Rows
         /\ row'[a] = v /\ \A b \in Rows : b # a => row'[b] = row[b]
BY MoveRows DEF Moves, Rows

LEMMA AgainRows ==
  ASSUME RowsOK(row), NEW a \in Rows, NEW v \in RowType, Again(a, v), Next1(a) \notin Rows
  PROVE  /\ RowsOK(row') /\ Rows' = Rows \cup {Next1(a)} /\ Next1(a) \in Attempts
         /\ Next1(a)[1] = a[1] /\ Next1(a)[2] = a[2] + 1 /\ Next1(a) # a
         /\ row'[a] = v /\ row'[Next1(a)] = NewRow("retry_wait", FALSE)
         /\ \A b \in Rows : b # a => row'[b] = row[b]
<1> DEFINE moved == [row EXCEPT ![a] = v]
           new == NewRow("retry_wait", FALSE)
<1>1. RowsOK(moved) /\ DOMAIN moved = Rows /\ moved[a] = v
      /\ \A b \in Rows : b # a => moved[b] = row[b]
  BY MoveRows DEF Rows
<1>2. new \in RowType
  BY NewRowType DEF Statuses, ReadyStatuses
<1>3. Next1(a) \in Attempts /\ Next1(a)[1] = a[1] /\ Next1(a)[2] = a[2] + 1 /\ Next1(a) # a
  BY NextFacts DEF Again, RowsOK, Rows
<1>4. row' = Put(moved, Next1(a), new)
  BY DEF Again
<1> HIDE DEF moved, new
<1>5. RowsOK(Put(moved, Next1(a), new))
  BY <1>1, <1>2, <1>3, PutRows
<1>6. /\ DOMAIN Put(moved, Next1(a), new) = DOMAIN moved \cup {Next1(a)}
      /\ Put(moved, Next1(a), new)[Next1(a)] = new
      /\ \A b \in DOMAIN moved : b # Next1(a) => Put(moved, Next1(a), new)[b] = moved[b]
  BY DEF Put
<1>7. /\ RowsOK(row') /\ Rows' = Rows \cup {Next1(a)}
      /\ row'[Next1(a)] = new
      /\ \A b \in Rows : row'[b] = moved[b]
  BY <1>1, <1>4, <1>5, <1>6 DEF Rows
<1> QED BY <1>1, <1>3, <1>7 DEF new

-----------------------------------------------------------------------------
(***************************************************************************)
(* The attempts of an occurrence are numbered from one, all but the last   *)
(* have failed, and only an attempt under way is held.                     *)
(***************************************************************************)
HolderInv == \A a \in Rows : HoldsClaim(a) => row[a].status \in {"claimed", "running"}

Numbered(o, n) == \A m \in Nat : <<o, m>> \in Rows <=> m \in 1..n
SeriesInv ==
  /\ \A o \in Occs : \E n \in 1..MaxRetries + 1 : Numbered(o, n)
  /\ \A a \in Rows : Next1(a) \in Rows => row[a].status = "failed"

RowInv == HolderInv /\ SeriesInv /\ OneClaimPerGroup

LEMMA OpenIsLast ==
  ASSUME SeriesInv, NEW a \in Rows, Open(a)
  PROVE  Next1(a) \notin Rows
BY DEF SeriesInv, Open, TerminalStatuses

LEMMA ShapeRows ==
  ASSUME RowsOK(row), SeriesInv, Shape
  PROVE  RowsOK(row') /\ Rows \subseteq Rows'
<1>1. ASSUME NEW o \in Occurrences, NEW v \in RowType, Opens(o, v) PROVE RowsOK(row') /\ Rows \subseteq Rows'
  BY <1>1, OpensRows
<1>2. ASSUME NEW a \in Rows, NEW v \in RowType, Moves(a, v) PROVE RowsOK(row') /\ Rows \subseteq Rows'
  BY <1>2, MovesRows
<1>3. ASSUME NEW a \in Rows, NEW v \in RowType, Again(a, v) PROVE RowsOK(row') /\ Rows \subseteq Rows'
  BY <1>3, AgainRows, OpenIsLast DEF Again
<1> QED BY <1>1, <1>2, <1>3 DEF Shape, Stays, Rows

LEMMA ShapeOccs ==
  ASSUME RowsOK(row), SeriesInv
  PROVE  /\ Stays => Occs' = Occs
         /\ \A o \in Occurrences, v \in RowType : Opens(o, v) => Occs' = Occs \cup {o}
<1>1. ASSUME NEW o \in Occurrences, NEW v \in RowType, Opens(o, v) PROVE Occs' = Occs \cup {o}
  BY <1>1, OpensRows DEF Occs
<1>2. ASSUME NEW a \in Rows, NEW v \in RowType, Moves(a, v) PROVE Occs' = Occs
  BY <1>2, MovesRows DEF Occs
<1>3. ASSUME NEW a \in Rows, NEW v \in RowType, Again(a, v) PROVE Occs' = Occs
  <2>1. Rows' = Rows \cup {Next1(a)} /\ Next1(a)[1] = a[1]
    BY <1>3, AgainRows, OpenIsLast DEF Again
  <2> QED BY <2>1 DEF Occs
<1> QED BY <1>1, <1>2, <1>3 DEF Stays, Occs, Rows

\* Busy speaks of every other live claim of the group.
LEMMA NotBusy ==
  ASSUME HolderInv, NEW group, NEW except, ~Busy(group, except),
         NEW b \in Rows, b # except, HoldsClaim(b)
  PROVE  DefOf(b).group # group
BY DEF Busy, HolderInv

LEMMA ShapeSerial ==
  ASSUME RowsOK(row), RowInv, Shape, world' = world
  PROVE  OneClaimPerGroup' /\ HolderInv'
<1>1. \A b : DefOf(b)' = DefOf(b)
  BY DEF DefOf
<1>2. ASSUME NEW o \in Occurrences, NEW v \in RowType, Opens(o, v)
      PROVE OneClaimPerGroup' /\ HolderInv'
  <2>1. Rows' = Rows \cup {First(o)} /\ row'[First(o)] = v /\ \A b \in Rows : row'[b] = row[b]
        /\ First(o) \notin Rows
    BY <1>2, OpensRows
  <2>2. v.holder # None => \A b \in Rows : HoldsClaim(b) => DefOf(b).group # DefOf(First(o)).group
    <3> SUFFICES ASSUME v.holder # None, NEW b \in Rows, HoldsClaim(b)
                 PROVE DefOf(b).group # DefOf(First(o)).group
      OBVIOUS
    <3>1. ~Busy(DefOf(First(o)).group, None)
      BY <1>2 DEF Opens
    <3>2. \E x \in Rows : x = b /\ row[x].status \in {"claimed", "running"} /\ HoldsClaim(x)
      BY DEF RowInv, HolderInv
    <3>3. b # None
      BY NoneIsNoAttempt DEF RowsOK, Rows
    <3> QED BY <3>1, <3>2, <3>3 DEF Busy
  <2>3. v.holder # None => v.status = "claimed"
    BY <1>2 DEF Opens
  <2> QED BY <1>1, <2>1, <2>2, <2>3 DEF RowInv, HolderInv, OneClaimPerGroup, HoldsClaim
<1>3. ASSUME NEW a \in Rows, NEW v \in RowType, Moves(a, v) PROVE OneClaimPerGroup' /\ HolderInv'
  <2>1. Rows' = Rows /\ row'[a] = v /\ \A b \in Rows : b # a => row'[b] = row[b]
    BY <1>3, MovesRows
  <2>2. v.holder # None => /\ v.status \in {"claimed", "running"}
                           /\ v.holder = row[a].holder \/ ~Busy(DefOf(a).group, a)
    BY <1>3 DEF Moves
  <2>3. v.holder # None =>
          \A b \in Rows : b # a /\ HoldsClaim(b) => DefOf(b).group # DefOf(a).group
    <3>1. CASE v.holder = row[a].holder
      BY <3>1 DEF RowInv, OneClaimPerGroup, HoldsClaim
    <3>2. CASE ~Busy(DefOf(a).group, a)
      BY <3>2, NotBusy DEF RowInv
    <3> QED BY <2>2, <3>1, <3>2
  <2> QED BY <1>1, <2>1, <2>2, <2>3 DEF RowInv, HolderInv, OneClaimPerGroup, HoldsClaim
<1>4. ASSUME NEW a \in Rows, NEW v \in RowType, Again(a, v) PROVE OneClaimPerGroup' /\ HolderInv'
  <2>1. /\ Rows' = Rows \cup {Next1(a)} /\ row'[a] = v
        /\ row'[Next1(a)] = NewRow("retry_wait", FALSE)
        /\ \A b \in Rows : b # a => row'[b] = row[b]
    BY <1>4, AgainRows, OpenIsLast DEF Again, RowInv
  <2>2. row'[Next1(a)].holder = None
    BY <2>1, NewRowType DEF Statuses, ReadyStatuses
  <2>3. row'[a].holder = None
    BY <2>1, <1>4 DEF Again
  <2>4. \A b \in Rows' : row'[b].holder # None => b \in Rows /\ b # a /\ row'[b] = row[b]
    BY <2>1, <2>2, <2>3
  <2> QED BY <1>1, <2>4 DEF RowInv, HolderInv, OneClaimPerGroup, HoldsClaim
<1>5. CASE row' = row
  BY <1>1, <1>5 DEF RowInv, HolderInv, OneClaimPerGroup, HoldsClaim, Rows
<1> QED BY <1>2, <1>3, <1>4, <1>5 DEF Shape, Stays

LEMMA ShapeSeries ==
  ASSUME RowsOK(row), SeriesInv, Shape
  PROVE  SeriesInv'
<1>0. \A a \in Rows : a \in Attempts /\ a = <<a[1], a[2]>> /\ a[2] \in Nat \ {0} /\ a[1] \in Occs
  BY AttemptFacts, BoundsAreNatural DEF RowsOK, Rows, Occs
<1>1. ASSUME NEW o \in Occurrences, NEW v \in RowType, Opens(o, v) PROVE SeriesInv'
  <2>1. /\ Rows' = Rows \cup {<<o, 1>>} /\ o \notin Occs /\ Occs' = Occs \cup {o}
        /\ \A b \in Rows : row'[b] = row[b]
    BY <1>1, OpensRows, ShapeOccs DEF Opens, First
  <2>2. \A m \in Nat : <<o, m>> \in Rows' <=> m \in 1..1
    BY <1>0, <2>1
  <2>3. ASSUME NEW p \in Occs, NEW n \in 1..MaxRetries + 1, Numbered(p, n)
        PROVE  \A m \in Nat : <<p, m>> \in Rows' <=> m \in 1..n
    BY <2>1, <2>3 DEF Numbered
  <2>4. ASSUME NEW p \in Occs' PROVE \E n \in 1..MaxRetries + 1 : Numbered(p, n)'
    BY <2>1, <2>2, <2>3, BoundsAreNatural DEF SeriesInv, Numbered
  <2>5. ASSUME NEW a \in Rows', Next1(a) \in Rows' PROVE row'[a].status = "failed"
    <3>1. CASE a = <<o, 1>>
      BY <1>0, <2>1, <2>5, <3>1 DEF Next1
    <3>2. CASE a \in Rows
      <4>1. Next1(a) \in Rows
        BY <1>0, <2>1, <2>5, <3>2 DEF Next1
      <4> QED BY <2>1, <3>2, <4>1 DEF SeriesInv
    <3> QED BY <2>1, <3>1, <3>2
  <2>6. \A a : Next1(a)' = Next1(a)
    BY DEF Next1
  <2> QED BY <2>4, <2>5, <2>6 DEF SeriesInv
<1>2. ASSUME NEW a \in Rows, NEW v \in RowType, Moves(a, v) PROVE SeriesInv'
  <2>1. /\ Rows' = Rows /\ Occs' = Occs /\ \A b \in Rows : b # a => row'[b] = row[b]
        /\ Next1(a) \notin Rows
    BY <1>2, MovesRows, ShapeOccs, OpenIsLast DEF Moves, Stays
  <2> QED BY <2>1 DEF SeriesInv, Numbered, Next1
<1>3. ASSUME NEW a \in Rows, NEW v \in RowType, Again(a, v) PROVE SeriesInv'
  <2>1. Next1(a) \notin Rows
    BY <1>3, OpenIsLast DEF Again
  <2>2. /\ Rows' = Rows \cup {<<a[1], a[2] + 1>>} /\ Occs' = Occs
        /\ row'[a].status = "failed" /\ \A b \in Rows : b # a => row'[b] = row[b]
    BY <1>3, <2>1, AgainRows, ShapeOccs DEF Again, Stays, Next1
  <2>3. PICK n \in 1..MaxRetries + 1 : Numbered(a[1], n)
    BY <1>0 DEF SeriesInv
  <2>4. a[2] = n
    BY <1>0, <2>1, <2>3, BoundsAreNatural DEF Numbered, Next1
  <2>5. n + 1 \in 1..MaxRetries + 1 /\ \A m \in Nat : <<a[1], m>> \in Rows' <=> m \in 1..(n + 1)
    BY <1>3, <2>2, <2>3, <2>4, BoundsAreNatural DEF Numbered, Again
  <2>6. ASSUME NEW p \in Occs, p # a[1], NEW k \in 1..MaxRetries + 1, Numbered(p, k)
        PROVE  \A m \in Nat : <<p, m>> \in Rows' <=> m \in 1..k
    BY <2>2, <2>6 DEF Numbered
  <2>7. ASSUME NEW p \in Occs' PROVE \E k \in 1..MaxRetries + 1 : Numbered(p, k)'
    BY <2>2, <2>5, <2>6 DEF SeriesInv, Numbered
  <2>8. ASSUME NEW b \in Rows', Next1(b) \in Rows' PROVE row'[b].status = "failed"
    <3>1. CASE b = <<a[1], a[2] + 1>>
      <4>1. Next1(b) = <<a[1], n + 2>> /\ n \in Nat
        BY <2>4, <3>1, BoundsAreNatural DEF Next1
      <4>2. n + 2 \in 1..(n + 1)
        BY <2>5, <2>8, <4>1
      <4> QED BY <4>1, <4>2
    <3>2. CASE b \in Rows /\ b # a
      <4>1. Next1(b) # <<a[1], a[2] + 1>>
        BY <1>0, <3>2 DEF Next1
      <4> QED BY <2>2, <2>8, <3>2, <4>1 DEF SeriesInv
    <3> QED BY <2>2, <3>1, <3>2
  <2>9. \A b : Next1(b)' = Next1(b)
    BY DEF Next1
  <2> QED BY <2>7, <2>8, <2>9 DEF SeriesInv
<1>4. CASE row' = row
  BY <1>4 DEF SeriesInv, Occs, Rows, Numbered, Next1
<1> QED BY <1>1, <1>2, <1>3, <1>4 DEF Shape, Stays

-----------------------------------------------------------------------------
(***************************************************************************)
(* Each shape is a step of the contract.                                   *)
(***************************************************************************)
LEMMA TriesAre ==
  ASSUME NEW o, NEW n \in 1..MaxRetries + 1, Numbered(o, n)
  PROVE  Tries(o) = n
<1>1. \A m \in 1..(MaxRetries + 1) : <<o, m>> \in Rows /\ <<o, m + 1>> \notin Rows <=> m = n
  BY BoundsAreNatural DEF Numbered
<1> QED BY <1>1 DEF Tries

Course == [o \in Occs |-> [phase |-> Phase(o), tries |-> Tries(o)]]
StatusPhase(s) == IF s \in TerminalStatuses THEN s ELSE "open"

LEMMA LastTry ==
  ASSUME NEW o, NEW n \in 1..MaxRetries + 1, Numbered(o, n), RowsOK(row)
  PROVE  /\ Tries(o) = n /\ <<o, n>> \in Rows /\ Phase(o) = StatusPhase(row[<<o, n>>].status)
         /\ o \in Occs
<1>1. Tries(o) = n
  BY TriesAre
<1>2. <<o, n>> \in Rows
  BY BoundsAreNatural DEF Numbered
<1>3. <<o, n>>[1] = o
  OBVIOUS
<1> QED BY <1>1, <1>2, <1>3 DEF Phase, StatusPhase, Occs

LEMMA LastTryThen ==
  ASSUME NEW o, NEW n \in 1..MaxRetries + 1, Numbered(o, n)', RowsOK(row')
  PROVE  /\ Tries(o)' = n /\ <<o, n>> \in Rows' /\ Phase(o)' = StatusPhase(row'[<<o, n>>].status)
         /\ o \in Occs'
<1>1. \A m \in 1..(MaxRetries + 1) : <<o, m>> \in Rows' /\ <<o, m + 1>> \notin Rows' <=> m = n
  BY BoundsAreNatural DEF Numbered
<1>2. Tries(o)' = n
  BY <1>1 DEF Tries
<1>3. <<o, n>> \in Rows'
  BY BoundsAreNatural DEF Numbered
<1>4. <<o, n>>[1] = o
  OBVIOUS
<1> QED BY <1>2, <1>3, <1>4 DEF Phase, StatusPhase, Occs

\* The course of an occurrence whose attempts a step leaves alone.
LEMMA SameCourse ==
  ASSUME RowsOK(row), SeriesInv, RowsOK(row'), NEW p \in Occs,
         \A m \in Nat : <<p, m>> \in Rows' <=> <<p, m>> \in Rows,
         \A m \in Nat : <<p, m>> \in Rows => row'[<<p, m>>] = row[<<p, m>>]
  PROVE  Phase(p)' = Phase(p) /\ Tries(p)' = Tries(p)
<1>1. PICK n \in 1..MaxRetries + 1 : Numbered(p, n)
  BY DEF SeriesInv
<1>2. Numbered(p, n)'
  BY <1>1 DEF Numbered
<1>3. n \in Nat
  BY BoundsAreNatural
<1> QED BY <1>1, <1>2, <1>3, LastTry, LastTryThen

LEMMA ShapeRefines ==
  ASSUME RowsOK(row), SeriesInv, Shape
  PROVE  Contract!Next \/ Course' = Course
<1>0. RowsOK(row') /\ SeriesInv'
  BY ShapeRows, ShapeSeries
<1>a. \A a \in Rows : a \in Attempts /\ a = <<a[1], a[2]>> /\ a[2] \in 1..MaxRetries + 1 /\ a[1] \in Occs
  BY AttemptFacts, BoundsAreNatural DEF RowsOK, Rows, Occs
<1>1. ASSUME NEW o \in Occurrences, NEW v \in RowType, Opens(o, v) PROVE Contract!TakeUp(o) /\ o \in Occs'
  <2>1. /\ Rows' = Rows \cup {<<o, 1>>} /\ o \notin Occs /\ Occs' = Occs \cup {o}
        /\ row'[<<o, 1>>] = v /\ \A b \in Rows : row'[b] = row[b]
        /\ v.status \in {"claimed", "pending", "skipped"}
    BY <1>1, OpensRows, ShapeOccs DEF Opens, First
  <2>2. \A p \in Occs : Phase(p)' = Phase(p) /\ Tries(p)' = Tries(p)
    BY <1>0, <2>1, SameCourse
  <2>3. Numbered(o, 1)'
    BY <1>a, <2>1 DEF Numbered
  <2>4. Tries(o)' = 1 /\ Phase(o)' = StatusPhase(v.status)
    BY <1>0, <2>1, <2>3, LastTryThen, BoundsAreNatural
  <2>5. StatusPhase(v.status) \in {"open", "skipped"}
    BY <2>1 DEF StatusPhase, TerminalStatuses
  <2>6. Course' = [p \in Occs \cup {o} |-> IF p = o THEN [phase |-> StatusPhase(v.status), tries |-> 1]
                                            ELSE Course[p]]
    BY <2>1, <2>2, <2>4 DEF Course
  <2>7. DOMAIN Course = Occs
    BY DEF Course
  <2> QED BY <2>1, <2>5, <2>6, <2>7 DEF Contract!TakeUp, Course, Occs
<1>b. ASSUME NEW a \in Rows, Open(a)
      PROVE  /\ a[1] \in Occs /\ Tries(a[1]) = a[2] /\ Phase(a[1]) = "open"
             /\ Numbered(a[1], a[2]) /\ a[2] \in 1..MaxRetries + 1
  <2>1. PICK n \in 1..MaxRetries + 1 : Numbered(a[1], n)
    BY <1>a DEF SeriesInv
  <2>2. a[2] = n
    <3>1. <<a[1], a[2] + 1>> \notin Rows
      BY <1>b, OpenIsLast DEF Next1
    <3>2. <<a[1], a[2]>> \in Rows /\ a[2] \in 1..MaxRetries + 1
      BY <1>a
    <3>3. a[2] \in 1..n /\ a[2] + 1 \notin 1..n
      BY <2>1, <3>1, <3>2, BoundsAreNatural DEF Numbered
    <3> QED BY <3>3, <3>2, BoundsAreNatural
  <2>3. <<a[1], n>> = a
    BY <1>a, <2>2
  <2> QED BY <1>a, <1>b, <2>1, <2>2, <2>3, LastTry DEF StatusPhase, Open
<1>2. ASSUME NEW a \in Rows, NEW v \in RowType, Moves(a, v) PROVE Contract!Next \/ Course' = Course
  <2> DEFINE o == a[1]
  <2>1. /\ Rows' = Rows /\ Occs' = Occs /\ row'[a] = v /\ \A b \in Rows : b # a => row'[b] = row[b]
        /\ Open(a)
    BY <1>2, MovesRows, ShapeOccs DEF Moves, Stays
  <2>2. \A p \in Occs : p # o => Phase(p)' = Phase(p) /\ Tries(p)' = Tries(p)
    BY <1>0, <1>a, <2>1, SameCourse
  <2>3. /\ o \in Occs /\ Tries(o) = a[2] /\ Phase(o) = "open" /\ Numbered(o, a[2])
        /\ a[2] \in 1..MaxRetries + 1
    BY <1>b, <2>1
  <2>4. Numbered(o, a[2])'
    BY <2>1, <2>3 DEF Numbered
  <2>5. Tries(o)' = a[2] /\ Phase(o)' = StatusPhase(v.status)
    BY <1>0, <1>a, <2>1, <2>3, <2>4, LastTryThen
  <2> HIDE DEF o
  <2>6. CASE v.status \in TerminalStatuses
    <3>1. Course' = [Course EXCEPT ![o] = [phase |-> v.status, tries |-> Course[o].tries]]
      BY <2>1, <2>2, <2>3, <2>5, <2>6 DEF Course, StatusPhase
    <3>2. Course' = [Course EXCEPT ![o].phase = v.status] /\ Course[o].phase = "open"
          /\ o \in DOMAIN Course /\ o \in DOMAIN Course'
      BY <2>1, <2>3, <3>1 DEF Course
    <3>3. Contract!Settle(o)
      BY <2>6, <3>2 DEF Contract!Settle, Course, Occs
    <3> QED BY <3>2, <3>3 DEF Contract!Next, Course, Occs
  <2>7. CASE v.status \notin TerminalStatuses
    <3>1. Phase(o)' = "open"
      BY <2>5, <2>7 DEF StatusPhase
    <3> QED BY <2>1, <2>2, <2>3, <2>5, <3>1 DEF Course
  <2> QED BY <2>6, <2>7
<1>3. ASSUME NEW a \in Rows, NEW v \in RowType, Again(a, v) PROVE Contract!Retry(a[1]) /\ a[1] \in Occs'
  <2> DEFINE o == a[1]
             n == a[2]
  <2>1. Open(a) /\ n <= MaxRetries
    BY <1>3 DEF Again
  <2>2. Next1(a) \notin Rows
    BY <2>1, OpenIsLast
  <2>3. /\ Rows' = Rows \cup {<<o, n + 1>>} /\ Occs' = Occs
        /\ row'[<<o, n + 1>>] = NewRow("retry_wait", FALSE)
        /\ \A b \in Rows : b # a => row'[b] = row[b]
    BY <1>3, <2>2, AgainRows, ShapeOccs DEF Stays, Next1
  <2>4. /\ o \in Occs /\ Tries(o) = n /\ Phase(o) = "open" /\ Numbered(o, n)
        /\ n \in 1..MaxRetries + 1
    BY <1>b, <2>1
  <2>5. \A p \in Occs : p # o => Phase(p)' = Phase(p) /\ Tries(p)' = Tries(p)
    BY <1>0, <1>a, <2>3, SameCourse
  <2>6. n + 1 \in 1..MaxRetries + 1 /\ Numbered(o, n + 1)'
    BY <2>1, <2>3, <2>4, BoundsAreNatural DEF Numbered
  <2>7. Tries(o)' = n + 1 /\ Phase(o)' = StatusPhase("retry_wait")
    <3>1. NewRow("retry_wait", FALSE).status = "retry_wait"
      BY DEF NewRow
    <3> HIDE DEF o, n
    <3>2. Tries(o)' = n + 1 /\ Phase(o)' = StatusPhase(row'[<<o, n + 1>>].status)
      BY <1>0, <2>6, LastTryThen
    <3> QED BY <2>3, <3>1, <3>2
  <2>8. StatusPhase("retry_wait") = "open"
    BY DEF StatusPhase, TerminalStatuses
  <2> HIDE DEF o
  <2>9. Course' = [Course EXCEPT ![o] = [phase |-> Course[o].phase, tries |-> Course[o].tries + 1]]
    BY <2>3, <2>4, <2>5, <2>7, <2>8 DEF Course
  <2>10. Course' = [Course EXCEPT ![o].tries = Course[o].tries + 1] /\ Course[o].phase = "open"
         /\ o \in DOMAIN Course /\ Course[o].tries = n
    BY <2>4, <2>9 DEF Course
  <2>11. n < MaxRetries + 1
    BY <2>1, <2>4, BoundsAreNatural
  <2>12. Contract!Retry(o)
    BY <2>10, <2>11 DEF Contract!Retry, Course, Occs
  <2> QED BY <2>3, <2>4, <2>12 DEF o
<1>4. CASE row' = row
  BY <1>4 DEF Course, Occs, Rows, Phase, Tries
<1> QED BY <1>1, <1>2, <1>3, <1>4 DEF Shape, Stays, Contract!Next, Course, Occs

-----------------------------------------------------------------------------
(***************************************************************************)
(* The invariant.  Runs exist where rows and tasks say so, a listing is of *)
(* the past, and every due time that was taken up comes before the next.   *)
(***************************************************************************)
LinkInv ==
  /\ \A a \in Rows : row[a].bound => Started(a)
  /\ \A w \in Workers : pc[w] \in TaskAt =>
       work[w] \in Rows /\ (pc[w] # "claimed" => Started(work[w]))

JobInv ==
  \A j \in Jobs : job[j].on => job[j].rev \in Revisions /\ job[j].next \in Nat \ {0}

DueInv ==
  \A w \in Workers : pc[w] = "observed" =>
    /\ due[w].job \in Jobs /\ due[w].rev \in Revisions /\ due[w].next \in Nat \ {0}
    /\ due[w].next <= due[w].at /\ due[w].at <= now

TakenInTurn(o) ==
  /\ o[3] \in Times =>
       o[3] <= now /\ (job[o[1]].on /\ job[o[1]].rev = o[2] => o[3] < job[o[1]].next)
  /\ o[3] \notin Times => o[3] > Horizon + left["manual"]
ClockInv == \A o \in Occs : TakenInTurn(o)

Inv == TypeOK /\ RowInv /\ LinkInv /\ JobInv /\ DueInv /\ ClockInv

LEMMA OccFacts ==
  ASSUME RowsOK(row), NEW o \in Occs
  PROVE  /\ o \in Occurrences /\ o = <<o[1], o[2], o[3]>>
         /\ o[1] \in Jobs /\ o[2] \in Revisions /\ o[3] \in Times \cup Serials
BY DEF RowsOK, Rows, Occs, Attempts, Occurrences

LEMMA InvInit == Init => Inv
<1> SUFFICES ASSUME Init PROVE Inv
  OBVIOUS
<1>1. Rows = {} /\ DOMAIN life = {} /\ Occs = {}
  BY DEF Init, Rows, Occs
<1>2. RowsOK(row) /\ LifeOK(life)
  BY <1>1 DEF RowsOK, LifeOK, Rows
<1>3. left \in [Faults -> Nat] /\ left["manual"] <= MaxManual /\ world \in Worlds
  BY WorldFacts DEF Init
<1>4. NoJob \in JobType /\ NoJob.on = FALSE
  BY BoundsAreNatural DEF NoJob, JobType
<1>5. NoDue \in DueType
  BY BoundsAreNatural DEF NoDue, DueType
<1>6. RestOK
  BY <1>3, <1>4, <1>5, BoundsAreNatural DEF Init, RestOK, TaskAt
<1>7. RowInv
  BY <1>1 DEF RowInv, HolderInv, SeriesInv, OneClaimPerGroup
<1>8. LinkInv /\ DueInv /\ ClockInv
  BY <1>1 DEF Init, LinkInv, DueInv, ClockInv, TaskAt
<1>9. JobInv
  BY <1>4 DEF Init, JobInv
<1> QED BY <1>2, <1>6, <1>7, <1>8, <1>9 DEF Inv, TypeOK

\* Tasks go where their rows and runs are.
Walks ==
  \/ pc' = pc /\ work' = work
  \/ \E w \in Workers : Goto(w, "idle", None)
  \/ \E w \in Workers : pc' = [pc EXCEPT ![w] = "observed"] /\ work' = work
  \/ \E w \in Workers, a \in Rows', at \in TaskAt :
       Goto(w, at, a) /\ (at # "claimed" => a \in DOMAIN life')

LEMMA ShapeLinks ==
  ASSUME RowsOK(row), SeriesInv, LinkInv, Shape, DOMAIN life \subseteq DOMAIN life'
  PROVE  \A a \in Rows' : row'[a].bound => a \in DOMAIN life'
<1>1. ASSUME NEW o \in Occurrences, NEW v \in RowType, Opens(o, v), NEW a \in Rows', row'[a].bound
      PROVE a \in DOMAIN life'
  BY <1>1, OpensRows DEF Opens, LinkInv, Started
<1>2. ASSUME NEW b \in Rows, NEW v \in RowType, Moves(b, v), NEW a \in Rows', row'[a].bound
      PROVE a \in DOMAIN life'
  BY <1>2, MovesRows DEF Moves, LinkInv, Started
<1>3. ASSUME NEW b \in Rows, NEW v \in RowType, Again(b, v), NEW a \in Rows', row'[a].bound
      PROVE a \in DOMAIN life'
  <2>1. /\ Rows' = Rows \cup {Next1(b)} /\ row'[b] = v
        /\ row'[Next1(b)] = NewRow("retry_wait", FALSE)
        /\ \A c \in Rows : c # b => row'[c] = row[c]
    BY <1>3, AgainRows, OpenIsLast DEF Again
  <2>2. ~row'[Next1(b)].bound
    BY <2>1 DEF NewRow
  <2> QED BY <1>3, <2>1, <2>2 DEF Again, LinkInv, Started
<1>4. CASE row' = row
  BY <1>4 DEF LinkInv, Started, Rows
<1> QED BY <1>1, <1>2, <1>3, <1>4 DEF Shape, Stays

LEMMA WalkLinks ==
  ASSUME RestOK, LinkInv, Walks, Rows \subseteq Rows', DOMAIN life \subseteq DOMAIN life'
  PROVE  \A w \in Workers : pc'[w] \in TaskAt =>
           work'[w] \in Rows' /\ (pc'[w] # "claimed" => work'[w] \in DOMAIN life')
BY DEF RestOK, LinkInv, Walks, Goto, Started, TaskAt

LEMMA WalkTypes ==
  ASSUME RestOK, Walks, RowsOK(row')
  PROVE  /\ pc' \in [Workers -> {"idle", "observed"} \cup TaskAt]
         /\ work' \in [Workers -> Attempts \cup {None}]
BY DEF RestOK, Walks, Goto, RowsOK, Rows, TaskAt

LEMMA Kept ==
  ASSUME Inv, Shape, world' = world, Walks,
         left' \in [Faults -> Nat] /\ left'["manual"] <= left["manual"],
         now' \in 0..Horizon, job' \in [Jobs -> JobType], due' \in [Workers -> DueType],
         LifeOK(life'), DOMAIN life \subseteq DOMAIN life',
         JobInv', DueInv', ClockInv'
  PROVE  Inv'
<1>1. RowsOK(row') /\ Rows \subseteq Rows' /\ SeriesInv'
  BY ShapeRows, ShapeSeries DEF Inv, TypeOK, RowInv
<1>2. OneClaimPerGroup' /\ HolderInv'
  BY ShapeSerial DEF Inv, TypeOK
<1>3. left'["manual"] <= MaxManual
  BY BoundsAreNatural DEF Inv, TypeOK, RestOK, Faults
<1>4. RestOK'
  BY <1>1, <1>3, WalkTypes DEF Inv, TypeOK, RestOK
<1>5. LinkInv'
  BY <1>1, ShapeLinks, WalkLinks DEF Inv, TypeOK, RowInv, LinkInv, Started
<1> QED BY <1>1, <1>2, <1>4, <1>5 DEF Inv, TypeOK, RowInv

LEMMA SpendFacts ==
  ASSUME left \in [Faults -> Nat], left' = left \/ \E f \in Faults : Spend(f)
  PROVE  left' \in [Faults -> Nat] /\ \A f \in Faults : left'[f] <= left[f]
BY DEF Spend

LEMMA ManualIsFault == "manual" \in Faults /\ "stall" \in Faults /\ "input" \in Faults
BY DEF Faults

\* A step that takes up no occurrence and edits no job.
LEMMA StaysKept ==
  ASSUME Inv, Stays, world' = world, Walks,
         left' = left \/ \E f \in Faults : Spend(f),
         now' = now, job' = job, due' \in [Workers -> DueType],
         \A w \in Workers : pc'[w] = "observed" => pc[w] = "observed" /\ due'[w] = due[w],
         LifeOK(life'), DOMAIN life \subseteq DOMAIN life'
  PROVE  Inv'
<1>1. left' \in [Faults -> Nat] /\ left'["manual"] <= left["manual"]
      /\ left["manual"] \in Nat /\ left'["manual"] \in Nat
  BY SpendFacts, ManualIsFault DEF Inv, TypeOK, RestOK
<1>2. Shape
  BY DEF Shape
<1>3. Occs' = Occs
  BY ShapeOccs DEF Inv, TypeOK, RowInv
<1>4. now' \in 0..Horizon /\ job' \in [Jobs -> JobType]
  BY DEF Inv, TypeOK, RestOK
<1>5. JobInv' /\ DueInv'
  BY DEF Inv, JobInv, DueInv
<1>6. ClockInv'
  <2> SUFFICES ASSUME NEW o \in Occs PROVE TakenInTurn(o)'
    BY <1>3 DEF ClockInv
  <2>1. TakenInTurn(o)
    BY DEF Inv, ClockInv
  <2>2. o[3] \in Times \cup Serials
    BY OccFacts DEF Inv, TypeOK
  <2>3. o[3] \notin Times => o[3] > Horizon + left'["manual"]
    BY <1>1, <2>1, <2>2, BoundsAreNatural DEF TakenInTurn, Times, Serials
  <2> QED BY <2>1, <2>3 DEF TakenInTurn
<1> QED BY <1>1, <1>2, <1>4, <1>5, <1>6, Kept

-----------------------------------------------------------------------------
(***************************************************************************)
(* The steps of a task.                                                    *)
(***************************************************************************)
Fresh(a, s, h, b) == [status |-> s, holder |-> h, bound |-> b, ready |-> row[a].ready]

LEMMA FreshFacts ==
  ASSUME RowsOK(row), NEW a \in Rows, NEW s \in Statuses, NEW h \in Workers \cup {None},
         NEW b \in BOOLEAN
  PROVE  /\ Fresh(a, s, h, b) \in RowType
         /\ Fresh(a, s, h, b).status = s /\ Fresh(a, s, h, b).holder = h
         /\ Fresh(a, s, h, b).bound = b
BY DEF Fresh, RowsOK, Rows, RowType

LEMMA RowFields ==
  ASSUME RowsOK(row), NEW a \in Rows
  PROVE  /\ row[a].status \in Statuses /\ row[a].holder \in Workers \cup {None}
         /\ row[a].bound \in BOOLEAN /\ row[a].ready \in BOOLEAN
         /\ a \in Attempts
         /\ row[a] = [status |-> row[a].status, holder |-> row[a].holder,
                      bound |-> row[a].bound, ready |-> row[a].ready]
BY DEF RowsOK, Rows, RowType

LEMMA RecordFields ==
  ASSUME NEW r \in RowType, NEW s
  PROVE  /\ [r EXCEPT !.status = s] =
              [status |-> s, holder |-> r.holder, bound |-> r.bound, ready |-> r.ready]
         /\ [r EXCEPT !.holder = None] =
              [status |-> r.status, holder |-> None, bound |-> r.bound, ready |-> r.ready]
         /\ [r EXCEPT !.status = s, !.holder = None] =
              [status |-> s, holder |-> None, bound |-> r.bound, ready |-> r.ready]
         /\ [r EXCEPT !.status = s, !.bound = TRUE] =
              [status |-> s, holder |-> r.holder, bound |-> TRUE, ready |-> r.ready]
<1>1. [r EXCEPT !.status = s] =
        [status |-> s, holder |-> r.holder, bound |-> r.bound, ready |-> r.ready]
  BY DEF RowType
<1>2. [r EXCEPT !.holder = None] =
        [status |-> r.status, holder |-> None, bound |-> r.bound, ready |-> r.ready]
  BY DEF RowType
<1>3. [r EXCEPT !.status = s, !.holder = None] =
        [status |-> s, holder |-> None, bound |-> r.bound, ready |-> r.ready]
  <2>1. [r EXCEPT !.status = s, !.holder = None] = [[r EXCEPT !.status = s] EXCEPT !.holder = None]
    OBVIOUS
  <2>2. [[status |-> s, holder |-> r.holder, bound |-> r.bound, ready |-> r.ready] EXCEPT !.holder = None]
          = [status |-> s, holder |-> None, bound |-> r.bound, ready |-> r.ready]
    OBVIOUS
  <2> QED BY <1>1, <2>1, <2>2
<1>4. [r EXCEPT !.status = s, !.bound = TRUE] =
        [status |-> s, holder |-> r.holder, bound |-> TRUE, ready |-> r.ready]
  <2>1. [r EXCEPT !.status = s, !.bound = TRUE] = [[r EXCEPT !.status = s] EXCEPT !.bound = TRUE]
    OBVIOUS
  <2>2. \A x : [[status |-> s, holder |-> r.holder, bound |-> r.bound, ready |-> r.ready] EXCEPT !.bound = x]
                 = [status |-> s, holder |-> r.holder, bound |-> x, ready |-> r.ready]
    OBVIOUS
  <2>3. [[status |-> s, holder |-> r.holder, bound |-> r.bound, ready |-> r.ready] EXCEPT !.bound = TRUE]
          = [status |-> s, holder |-> r.holder, bound |-> TRUE, ready |-> r.ready]
    BY <2>2, Zenon
  <2> QED BY <1>1, <2>1, <2>3, Zenon
<1> QED BY <1>1, <1>2, <1>3, <1>4

LEMMA SetFields ==
  ASSUME RowsOK(row), NEW a \in Rows, NEW s
  PROVE  /\ [row EXCEPT ![a].status = s] = [row EXCEPT ![a] = Fresh(a, s, row[a].holder, row[a].bound)]
         /\ [row EXCEPT ![a].holder = None] = [row EXCEPT ![a] = Fresh(a, row[a].status, None, row[a].bound)]
         /\ [row EXCEPT ![a].status = s, ![a].holder = None]
              = [row EXCEPT ![a] = Fresh(a, s, None, row[a].bound)]
         /\ [row EXCEPT ![a].status = s, ![a].bound = TRUE]
              = [row EXCEPT ![a] = Fresh(a, s, row[a].holder, TRUE)]
<1>1. row \in [DOMAIN row -> RowType] /\ a \in DOMAIN row
  BY DEF RowsOK, Rows
<1>2. row[a] \in RowType
  BY <1>1
<1>3. /\ [row[a] EXCEPT !.status = s] = Fresh(a, s, row[a].holder, row[a].bound)
      /\ [row[a] EXCEPT !.holder = None] = Fresh(a, row[a].status, None, row[a].bound)
      /\ [row[a] EXCEPT !.status = s, !.holder = None] = Fresh(a, s, None, row[a].bound)
      /\ [row[a] EXCEPT !.status = s, !.bound = TRUE] = Fresh(a, s, row[a].holder, TRUE)
  BY <1>2, RecordFields DEF Fresh
<1>4. /\ [row EXCEPT ![a].status = s] = [row EXCEPT ![a] = [row[a] EXCEPT !.status = s]]
      /\ [row EXCEPT ![a].holder = None] = [row EXCEPT ![a] = [row[a] EXCEPT !.holder = None]]
  BY <1>1
<1>5. [row EXCEPT ![a].status = s, ![a].holder = None]
        = [row EXCEPT ![a] = [row[a] EXCEPT !.status = s, !.holder = None]]
  BY <1>1
<1>6. [row EXCEPT ![a].status = s, ![a].bound = TRUE]
        = [row EXCEPT ![a] = [row[a] EXCEPT !.status = s, !.bound = TRUE]]
  BY <1>1
<1> QED BY <1>3, <1>4, <1>5, <1>6

LEMMA OwnedIsOpen ==
  ASSUME RowsOK(row), HolderInv, NEW a \in Rows, NEW w \in Workers, Owns(w, a)
  PROVE  Open(a) /\ row[a].status \in {"claimed", "running"}
BY NoneIsNobody DEF Owns, HolderInv, HoldsClaim, Open, TerminalStatuses

SettledAs == {"completed", "failed", "dead_lettered"}

LEMMA FinishStays ==
  ASSUME RowsOK(row), HolderInv, world \in Worlds, NEW w \in Workers, NEW a \in Rows,
         NEW status \in SettledAs, Finish(w, a, status)
  PROVE  /\ Stays /\ Goto(w, "idle", None)
         /\ ~Owns(w, a) => row' = row
         /\ Owns(w, a) =>
              \/ Moves(a, Fresh(a, status, None, row[a].bound))
              \/ status = "failed" /\ Again(a, Fresh(a, status, None, row[a].bound))
<1> DEFINE v == Fresh(a, status, None, row[a].bound)
<1>0. status \in Statuses /\ None \in Workers \cup {None} /\ row[a].bound \in BOOLEAN
  BY RowFields DEF SettledAs, Statuses, TerminalStatuses
<1>1. v \in RowType /\ v.status = status /\ v.holder = None /\ v.bound = row[a].bound
  BY <1>0, FreshFacts
<1>2. [row EXCEPT ![a].status = status, ![a].holder = None] = [row EXCEPT ![a] = v]
  BY SetFields
<1> HIDE DEF v
<1>3. CASE ~Owns(w, a)
  BY <1>3 DEF Finish, Stays
<1>4. CASE Owns(w, a) /\ ~Retries(a, status)
  <2>1. Moves(a, v)
    BY <1>1, <1>2, <1>4, OwnedIsOpen DEF Finish, Moves
  <2> QED BY <1>1, <1>4, <2>1 DEF Finish, Stays, v
<1>5. CASE Owns(w, a) /\ Retries(a, status)
  <2>1. a \in Attempts
    BY RowFields
  <2>2. DefOf(a) \in Definition
    BY <2>1, AttemptFacts, WorldFacts DEF DefOf
  <2>3. a[2] <= MaxRetries
    BY <1>5, <2>1, <2>2, AttemptFacts, DefinitionFacts, BoundsAreNatural DEF Retries
  <2>4. Again(a, v)
    BY <1>1, <1>2, <1>5, <2>3, OwnedIsOpen DEF Finish, Again, Retries
  <2> QED BY <1>1, <1>5, <2>4 DEF Finish, Stays, v, Retries
<1> QED BY <1>3, <1>4, <1>5

LEMMA ReleasedStays ==
  ASSUME RowsOK(row), HolderInv, NEW w \in Workers, NEW a \in Rows, row' = Released(w, a)
  PROVE  /\ Stays
         /\ ~Owns(w, a) => row' = row
         /\ Owns(w, a) => \E s \in {"detached", "pending"} : Moves(a, Fresh(a, s, None, row[a].bound))
<1>1. ASSUME NEW s \in {"detached", "pending"}, Owns(w, a),
             row' = [row EXCEPT ![a].status = s, ![a].holder = None]
      PROVE  Moves(a, Fresh(a, s, None, row[a].bound)) /\ Fresh(a, s, None, row[a].bound) \in RowType
  <2> DEFINE v == Fresh(a, s, None, row[a].bound)
  <2>0. s \in Statuses /\ None \in Workers \cup {None} /\ row[a].bound \in BOOLEAN
    BY RowFields DEF Statuses, ReadyStatuses, ActiveStatuses
  <2>1. v \in RowType /\ v.status = s /\ v.holder = None /\ v.bound = row[a].bound
    BY <2>0, FreshFacts
  <2>2. row' = [row EXCEPT ![a] = v]
    BY <1>1, SetFields
  <2> HIDE DEF v
  <2>3. Moves(a, v)
    BY <1>1, <2>1, <2>2, OwnedIsOpen DEF Moves
  <2> QED BY <2>1, <2>3 DEF v
<1>2. CASE Owns(w, a)
  <2>1. PICK s \in {"detached", "pending"} : row' = [row EXCEPT ![a].status = s, ![a].holder = None]
    BY <1>2 DEF Released
  <2> QED BY <1>1, <1>2, <2>1 DEF Stays
<1>3. CASE ~Owns(w, a)
  BY <1>3 DEF Released, Stays
<1> QED BY <1>2, <1>3

LEMMA BoundStays ==
  ASSUME RowsOK(row), HolderInv, NEW w \in Workers, NEW a \in Rows, Owns(w, a), Started(a),
         \/ row' = Bound(a)
         \/ row' = [Bound(a) EXCEPT ![a].status = "detached", ![a].holder = None]
  PROVE  Stays /\ \E s \in Statuses, h \in Workers \cup {None} :
                    s \in {"running", "detached"} /\ Moves(a, Fresh(a, s, h, TRUE))
                    /\ (h # None => h = row[a].holder)
<1>1. Bound(a) = [row EXCEPT ![a] = Fresh(a, "running", row[a].holder, TRUE)]
  BY SetFields DEF Bound
<1>2. [Bound(a) EXCEPT ![a].status = "detached", ![a].holder = None]
        = [row EXCEPT ![a] = Fresh(a, "detached", None, TRUE)]
  BY <1>1 DEF Fresh, Rows
<1>3. ASSUME NEW s \in {"running", "detached"}, NEW h \in {row[a].holder, None},
             s = "detached" => h = None, row' = [row EXCEPT ![a] = Fresh(a, s, h, TRUE)]
      PROVE  /\ Moves(a, Fresh(a, s, h, TRUE)) /\ Fresh(a, s, h, TRUE) \in RowType
             /\ s \in Statuses /\ h \in Workers \cup {None}
  <2>1. s \in Statuses /\ h \in Workers \cup {None}
    BY RowFields DEF Statuses, ActiveStatuses
  <2>2. /\ Fresh(a, s, h, TRUE) \in RowType /\ Fresh(a, s, h, TRUE).status = s
        /\ Fresh(a, s, h, TRUE).holder = h
    BY <2>1, RowFields DEF Fresh, RowType
  <2> QED BY <1>3, <2>1, <2>2, OwnedIsOpen DEF Moves
<1>4. PICK s \in {"running", "detached"}, h \in {row[a].holder, None} :
        (s = "detached" => h = None) /\ row' = [row EXCEPT ![a] = Fresh(a, s, h, TRUE)]
  BY <1>1, <1>2
<1>5. /\ Moves(a, Fresh(a, s, h, TRUE)) /\ Fresh(a, s, h, TRUE) \in RowType
      /\ s \in Statuses /\ h \in Workers \cup {None}
  BY <1>3, <1>4
<1> QED BY <1>5 DEF Stays

\* A task goes on with its attempt, or ends.
LEMMA TaskKept ==
  ASSUME Inv, Stays, world' = world, left' = left \/ \E f \in Faults : Spend(f),
         now' = now, job' = job, due' = due, LifeOK(life'), DOMAIN life \subseteq DOMAIN life',
         NEW w \in Workers, NEW a \in Rows,
         \/ pc' = pc /\ work' = work
         \/ Goto(w, "idle", None)
         \/ \E at \in TaskAt : Goto(w, at, a) /\ (at # "claimed" => a \in DOMAIN life')
  PROVE  Inv'
<1>1. a \in Rows'
  BY ShapeRows DEF Inv, TypeOK, RowInv, Shape
<1>2. Walks
  BY <1>1 DEF Walks
<1>3. \A v \in Workers : pc'[v] = "observed" => pc[v] = "observed" /\ due'[v] = due[v]
  BY DEF Inv, TypeOK, RestOK, Goto, TaskAt
<1>4. due' \in [Workers -> DueType]
  BY DEF Inv, TypeOK, RestOK
<1> QED BY <1>2, <1>3, <1>4, StaysKept

LEMMA InvRows ==
  ASSUME Inv
  PROVE  RowsOK(row) /\ LifeOK(life) /\ HolderInv /\ SeriesInv /\ world \in Worlds
BY DEF Inv, TypeOK, RestOK, RowInv

\* A lifecycle run is started, or changes.
LEMMA LifeSet ==
  ASSUME LifeOK(life), NEW a \in DOMAIN life
  PROVE  /\ a \in Attempts /\ life[a] \in LifeType
         /\ \A v \in LifeType :
              LifeOK([life EXCEPT ![a] = v]) /\ DOMAIN [life EXCEPT ![a] = v] = DOMAIN life
         /\ \A h \in Workers \cup {None} :
              LifeOK([life EXCEPT ![a].host = h]) /\ DOMAIN [life EXCEPT ![a].host = h] = DOMAIN life
         /\ \A s \in Ends :
              LifeOK([life EXCEPT ![a].state = s]) /\ DOMAIN [life EXCEPT ![a].state = s] = DOMAIN life
BY DEF LifeOK, LifeType

LEMMA LifeStart ==
  ASSUME LifeOK(life), NEW a \in Attempts, NEW h \in Workers \cup {None},
         life' = Put(life, a, [state |-> "running", host |-> h])
  PROVE  LifeOK(life') /\ DOMAIN life' = DOMAIN life \cup {a}
<1>1. [state |-> "running", host |-> h] \in LifeType
  BY DEF LifeType
<1>2. LifeOK(Put(life, a, [state |-> "running", host |-> h]))
  BY <1>1, PutLife
<1> QED BY <1>2 DEF Put

LEMMA StartRunKept ==
  ASSUME Inv, NEW w \in Workers, NEW a \in Rows, StartRun(w, a)
  PROVE  Inv' /\ Stays
<1>1. a \in Attempts
  BY InvRows, RowFields
<1>2. CASE ~Started(a)
  <2>1. LifeOK(life') /\ DOMAIN life' = DOMAIN life \cup {a}
    BY <1>1, <1>2, InvRows, LifeStart DEF StartRun
  <2>2. Stays /\ Goto(w, "bind", a) /\ "bind" \in TaskAt
    BY <1>2 DEF StartRun, Stays, TaskAt
  <2> QED BY <2>1, <2>2, TaskKept DEF StartRun
<1>3. CASE Started(a)
  <2>1. Stays /\ Goto(w, "idle", None)
    BY <1>3, InvRows, FinishStays DEF StartRun, SettledAs
  <2> QED BY <1>3, <2>1, TaskKept, InvRows DEF StartRun
<1> QED BY <1>2, <1>3

LEMMA StartFailsKept ==
  ASSUME Inv, NEW w \in Workers, NEW a \in Rows, StartFails(w, a)
  PROVE  Inv' /\ Stays
<1>1. PICK status \in {"failed", "dead_lettered"} : Finish(w, a, status)
  BY DEF StartFails
<1>2. Stays /\ Goto(w, "idle", None)
  BY <1>1, InvRows, FinishStays DEF SettledAs
<1>3. \E f \in Faults : Spend(f)
  BY DEF StartFails, Faults
<1> QED BY <1>2, <1>3, TaskKept, InvRows DEF StartFails

LEMMA BindKept ==
  ASSUME Inv, NEW w \in Workers, NEW a \in Rows, Bind(w, a)
  PROVE  Inv' /\ Stays
<1>1. Started(a)
  BY DEF Bind, Inv, LinkInv, TaskAt
<1>2. CASE Owns(w, a)
  <2>1. Stays /\ Goto(w, "wait", a) /\ "wait" \in TaskAt
    BY <1>1, <1>2, InvRows, BoundStays DEF Bind, TaskAt
  <2>2. life' = life /\ a \in DOMAIN life'
    BY <1>1 DEF Bind, Started
  <2> QED BY <2>1, <2>2, TaskKept, InvRows DEF Bind
<1>3. CASE ~Owns(w, a)
  <2>1. Stays /\ Goto(w, "idle", None)
    BY <1>3 DEF Bind, Stays
  <2> QED BY <2>1, TaskKept, InvRows DEF Bind
<1> QED BY <1>2, <1>3

LEMMA SettleStays ==
  ASSUME Inv, NEW w \in Workers, NEW a \in Rows, Started(a), life[a].state # "running", Settle(w, a)
  PROVE  Stays /\ Goto(w, "idle", None)
<1>1. life[a].state \in Ends \cup {"input"}
  BY InvRows, LifeSet DEF Started, LifeType
<1>2. OutcomeOf(life[a].state) \in SettledAs \cup {"released"}
  BY <1>1 DEF OutcomeOf, SettledAs, Ends
<1>3. CASE OutcomeOf(life[a].state) = "released"
  BY <1>3, InvRows, ReleasedStays DEF Settle
<1>4. CASE OutcomeOf(life[a].state) \in SettledAs
  <2>1. Finish(w, a, OutcomeOf(life[a].state))
    BY <1>4 DEF Settle, SettledAs
  <2> QED BY <1>4, <2>1, InvRows, FinishStays
<1> QED BY <1>2, <1>3, <1>4

LEMMA WaitReturnsKept ==
  ASSUME Inv, NEW w \in Workers, NEW a \in Rows, WaitReturns(w, a)
  PROVE  Inv' /\ Stays
<1>1. Started(a)
  BY DEF WaitReturns, Inv, LinkInv, TaskAt
<1>2. Stays /\ Goto(w, "idle", None)
  <2>1. CASE life[a].state = "running"
    BY <2>1, InvRows, ReleasedStays DEF WaitReturns
  <2>2. CASE life[a].state # "running"
    BY <1>1, <2>2, SettleStays DEF WaitReturns
  <2> QED BY <2>1, <2>2
<1> QED BY <1>2, TaskKept, InvRows DEF WaitReturns

LEMMA FollowReturnsKept ==
  ASSUME Inv, NEW w \in Workers, NEW a \in Rows, FollowReturns(w, a)
  PROVE  Inv' /\ Stays
<1>1. Started(a)
  BY DEF FollowReturns, Inv, LinkInv, TaskAt
<1>2. Stays /\ Goto(w, "idle", None)
  BY <1>1, SettleStays DEF FollowReturns
<1> QED BY <1>2, TaskKept, InvRows DEF FollowReturns

LEMMA RecoverBoundKept ==
  ASSUME Inv, NEW w \in Workers, NEW a \in Rows, RecoverBound(w, a)
  PROVE  Inv' /\ Stays
<1>1. Started(a)
  BY DEF RecoverBound, Inv, LinkInv, TaskAt
<1>2. LifeOK(life') /\ DOMAIN life' = DOMAIN life
  <2>1. life' = [life EXCEPT ![a].host = w] \/ life' = [life EXCEPT ![a].state = "stuck"]
    BY DEF RecoverBound
  <2>2. /\ \A h \in Workers \cup {None} :
             LifeOK([life EXCEPT ![a].host = h]) /\ DOMAIN [life EXCEPT ![a].host = h] = DOMAIN life
        /\ \A s \in Ends :
             LifeOK([life EXCEPT ![a].state = s]) /\ DOMAIN [life EXCEPT ![a].state = s] = DOMAIN life
    BY <1>1, InvRows, LifeSet DEF Started
  <2>3. "stuck" \in Ends
    BY DEF Ends
  <2> QED BY <2>1, <2>2, <2>3
<1>3. Stays /\ pc' = pc /\ work' = work
  BY DEF RecoverBound, Stays
<1> QED BY <1>2, <1>3, TaskKept, InvRows DEF RecoverBound

LEMMA RenewFailsKept ==
  ASSUME Inv, NEW w \in Workers, NEW a \in Rows, RenewFails(w, a)
  PROVE  Inv' /\ Stays
<1>1. Stays /\ Goto(w, "idle", None)
  BY DEF RenewFails, Stays
<1> QED BY <1>1, TaskKept, InvRows DEF RenewFails

LEMMA InterruptKept ==
  ASSUME Inv, NEW w \in Workers, NEW a \in Rows, Interrupt(w, a)
  PROVE  Inv' /\ Stays
<1>1. \E f \in Faults : Spend(f)
  BY DEF Interrupt, Faults
<1>2. row' \in {row, Released(w, a)} => Stays
  BY InvRows, ReleasedStays DEF Stays
<1>3. CASE row' \in {row, Released(w, a)} /\ UNCHANGED life
  BY <1>1, <1>2, <1>3, TaskKept, InvRows DEF Interrupt
<1>4. CASE /\ life' = Put(life, a, [state |-> "running", host |-> None])
           /\ row' \in {row, Released(w, a)}
  <2>1. LifeOK(life') /\ DOMAIN life' = DOMAIN life \cup {a}
    BY <1>4, InvRows, RowFields, LifeStart
  <2> QED BY <1>1, <1>2, <1>4, <2>1, TaskKept DEF Interrupt
<1>5. CASE /\ pc[w] = "bind" /\ Owns(w, a)
           /\ row' \in {Bound(a), [Bound(a) EXCEPT ![a].status = "detached", ![a].holder = None]}
           /\ UNCHANGED life
  <2>1. Started(a)
    BY <1>5 DEF Interrupt, Inv, LinkInv, TaskAt
  <2>2. Stays
    BY <1>5, <2>1, InvRows, BoundStays
  <2> QED BY <1>1, <1>5, <2>2, TaskKept, InvRows DEF Interrupt
<1> QED BY <1>3, <1>4, <1>5 DEF Interrupt

-----------------------------------------------------------------------------
(***************************************************************************)
(* The other steps.                                                        *)
(***************************************************************************)
\* The rows are as they were and no task moves.
LEMMA StillKept ==
  ASSUME Inv, row' = row, pc' = pc, work' = work, due' = due, world' = world, now' = now, job' = job,
         left' = left \/ \E f \in Faults : Spend(f), LifeOK(life'), DOMAIN life \subseteq DOMAIN life'
  PROVE  Inv' /\ Stays
<1>1. Stays /\ Walks
  BY DEF Stays, Walks
<1>2. due' \in [Workers -> DueType]
  BY DEF Inv, TypeOK, RestOK
<1> QED BY <1>1, <1>2, StaysKept

LEMMA LifeEndsKept ==
  ASSUME Inv, NEW a \in DOMAIN life, LifeEnds(a)
  PROVE  Inv' /\ Stays
<1>1. PICK s \in world.ends : life' = [life EXCEPT ![a] = [state |-> s, host |-> None]]
  BY DEF LifeEnds
<1>2. [state |-> s, host |-> None] \in LifeType
  BY WorldFacts, InvRows DEF LifeType
<1>3. LifeOK(life') /\ DOMAIN life' = DOMAIN life
  BY <1>1, <1>2, InvRows, LifeSet
<1> QED BY <1>3, StillKept DEF LifeEnds

LEMMA AsksInputKept ==
  ASSUME Inv, NEW a \in DOMAIN life, AsksInput(a)
  PROVE  Inv' /\ Stays
<1>1. [state |-> "input", host |-> None] \in LifeType
  BY DEF LifeType
<1>2. LifeOK(life') /\ DOMAIN life' = DOMAIN life
  BY <1>1, InvRows, LifeSet DEF AsksInput
<1>3. \E f \in Faults : Spend(f)
  BY DEF AsksInput, Faults
<1> QED BY <1>2, <1>3, StillKept DEF AsksInput

LEMMA InputGivenKept ==
  ASSUME Inv, NEW a \in DOMAIN life, NEW w \in Workers, InputGiven(a, w)
  PROVE  Inv' /\ Stays
<1>1. [state |-> "running", host |-> w] \in LifeType
  BY DEF LifeType
<1>2. LifeOK(life') /\ DOMAIN life' = DOMAIN life
  BY <1>1, InvRows, LifeSet DEF InputGiven
<1> QED BY <1>2, StillKept DEF InputGiven

LEMMA HostLostKept ==
  ASSUME Inv, NEW a \in DOMAIN life, HostLost(a)
  PROVE  Inv' /\ Stays
<1>1. \A h \in Workers \cup {None} :
        LifeOK([life EXCEPT ![a].host = h]) /\ DOMAIN [life EXCEPT ![a].host = h] = DOMAIN life
  BY InvRows, LifeSet
<1>2. LifeOK(life') /\ DOMAIN life' = DOMAIN life
  BY <1>1 DEF HostLost
<1>3. \E f \in Faults : Spend(f)
  BY DEF HostLost, Faults
<1> QED BY <1>2, <1>3, StillKept DEF HostLost

LEMMA ReconciledKept ==
  ASSUME Inv, NEW a \in DOMAIN life, Reconciled(a)
  PROVE  Inv' /\ Stays
<1>1. PICK s \in world.ends \ {"stuck"} : life' = [life EXCEPT ![a].state = s]
  BY DEF Reconciled
<1>2. s \in Ends
  BY WorldFacts, InvRows
<1>3. \A e \in Ends :
        LifeOK([life EXCEPT ![a].state = e]) /\ DOMAIN [life EXCEPT ![a].state = e] = DOMAIN life
  BY InvRows, LifeSet
<1>4. LifeOK(life') /\ DOMAIN life' = DOMAIN life
  BY <1>1, <1>2, <1>3
<1> QED BY <1>4, StillKept DEF Reconciled

LEMMA CrashKept ==
  ASSUME Inv, NEW w \in Workers, Crash(w)
  PROVE  Inv' /\ Stays
<1>1. NoDue \in DueType
  BY BoundsAreNatural DEF NoDue, DueType
<1>2. /\ due' \in [Workers -> DueType]
      /\ \A v \in Workers : pc'[v] = "observed" => pc[v] = "observed" /\ due'[v] = due[v]
  BY <1>1 DEF Crash, Goto, Inv, TypeOK, RestOK
<1>3. LifeOK(life') /\ DOMAIN life' = DOMAIN life
  <2>1. DOMAIN life' = DOMAIN life /\ DOMAIN life \subseteq Attempts
    BY InvRows DEF Crash, LifeOK
  <2>2. ASSUME NEW a \in DOMAIN life PROVE life'[a] \in LifeType
    <3>1. life[a] \in LifeType
      BY InvRows DEF LifeOK
    <3>2. [life[a] EXCEPT !.host = None] \in LifeType
      BY <3>1 DEF LifeType
    <3> QED BY <3>1, <3>2 DEF Crash
  <2> QED BY <2>1, <2>2 DEF LifeOK, Crash
<1>4. \E f \in Faults : Spend(f)
  BY DEF Crash, Faults
<1>5. Stays /\ Walks
  BY DEF Crash, Stays, Walks
<1> QED BY <1>2, <1>3, <1>4, <1>5, StaysKept DEF Crash

\* A row is moved by the store or by a poll.
LEMMA DelayPassesKept ==
  ASSUME Inv, NEW a \in Rows, DelayPasses(a)
  PROVE  Inv' /\ Stays
<1> DEFINE v == [status |-> row[a].status, holder |-> row[a].holder,
                 bound |-> row[a].bound, ready |-> TRUE]
<1>1. row[a] \in RowType /\ a \in DOMAIN row
  BY InvRows DEF RowsOK, Rows
<1>2. v \in RowType /\ v.status = row[a].status /\ v.holder = row[a].holder /\ v.bound = row[a].bound
  BY <1>1 DEF RowType
<1>3. row[a].status \in ReadyStatuses
  BY DEF DelayPasses
<1>4. row[a].holder = None
  BY <1>3, InvRows DEF HolderInv, HoldsClaim, ReadyStatuses
<1>5. row' = [row EXCEPT ![a] = v]
  <2>1. [row EXCEPT ![a].ready = TRUE] = [row EXCEPT ![a] = [row[a] EXCEPT !.ready = TRUE]]
    BY <1>1, InvRows DEF RowsOK
  <2>2. \A x : [row[a] EXCEPT !.ready = x] = [status |-> row[a].status, holder |-> row[a].holder,
                                              bound |-> row[a].bound, ready |-> x]
    BY <1>1 DEF RowType
  <2>3. [row[a] EXCEPT !.ready = TRUE] = v
    BY <2>2, Zenon
  <2> HIDE DEF v
  <2> QED BY <2>1, <2>3 DEF DelayPasses
<1> HIDE DEF v
<1>6. Moves(a, v)
  BY <1>2, <1>3, <1>4, <1>5 DEF Moves, Open, ReadyStatuses, TerminalStatuses
<1>7. Stays /\ Walks
  BY <1>2, <1>6 DEF Stays, Walks, DelayPasses
<1>8. due' \in [Workers -> DueType]
  BY DEF DelayPasses, Inv, TypeOK, RestOK
<1> QED BY <1>7, <1>8, StaysKept, InvRows DEF DelayPasses

LEMMA LeaseExpiresKept ==
  ASSUME Inv, NEW a \in Rows, LeaseExpires(a)
  PROVE  Inv' /\ Stays
<1> DEFINE v == Fresh(a, row[a].status, None, row[a].bound)
<1>1. row[a].status \in Statuses /\ None \in Workers \cup {None} /\ row[a].bound \in BOOLEAN
  BY InvRows, RowFields
<1>2. v \in RowType /\ v.status = row[a].status /\ v.holder = None /\ v.bound = row[a].bound
  BY <1>1, InvRows, FreshFacts
<1>3. row' = [row EXCEPT ![a] = v]
  BY InvRows, SetFields DEF LeaseExpires
<1>4. Open(a)
  BY InvRows DEF LeaseExpires, HolderInv, Open, TerminalStatuses
<1> HIDE DEF v
<1>5. Moves(a, v)
  BY <1>2, <1>3, <1>4 DEF Moves
<1>6. Stays /\ Walks
  BY <1>2, <1>5 DEF Stays, Walks, LeaseExpires
<1>7. due' \in [Workers -> DueType]
  BY DEF LeaseExpires, Inv, TypeOK, RestOK
<1>8. left' = left \/ \E f \in Faults : Spend(f)
  BY DEF LeaseExpires, Faults
<1> QED BY <1>6, <1>7, <1>8, StaysKept, InvRows DEF LeaseExpires

LEMMA ClaimReadyStays ==
  ASSUME Inv, NEW w \in Workers, NEW a \in Rows, ClaimReady(w, a)
  PROVE  Stays
<1>1. row[a].bound \in BOOLEAN /\ row[a].holder \in Workers \cup {None}
  BY InvRows, RowFields
<1>2. Open(a) /\ row[a].holder = None
  <2>1. CASE row[a].status \in ReadyStatuses
    BY <2>1, InvRows DEF HolderInv, HoldsClaim, ReadyStatuses, Open, TerminalStatuses
  <2>2. CASE row[a].status \in ActiveStatuses /\ ~HoldsClaim(a)
    BY <2>2 DEF HoldsClaim, ActiveStatuses, Open, TerminalStatuses
  <2> QED BY <2>1, <2>2 DEF ClaimReady, Claimable
<1>3. CASE Busy(DefOf(a).group, a)
  <2> DEFINE v == Fresh(a, "skipped", row[a].holder, row[a].bound)
  <2>1. "skipped" \in Statuses
    BY DEF Statuses, TerminalStatuses
  <2>2. v \in RowType /\ v.holder = None /\ v.bound = row[a].bound
    BY <1>1, <1>2, <2>1, InvRows, FreshFacts
  <2>3. row' = [row EXCEPT ![a] = v]
    BY <1>3, InvRows, SetFields DEF ClaimReady
  <2> HIDE DEF v
  <2>4. Moves(a, v)
    BY <1>2, <2>2, <2>3 DEF Moves
  <2> QED BY <2>2, <2>4 DEF Stays
<1>4. CASE ~Busy(DefOf(a).group, a)
  <2> DEFINE v == ClaimedBy(w, row[a].bound)
  <2>1. v \in RowType /\ v.status = "claimed" /\ v.holder = w /\ v.bound = row[a].bound
    BY <1>1, ClaimedType
  <2>2. row' = [row EXCEPT ![a] = v]
    BY <1>4 DEF ClaimReady
  <2> HIDE DEF v
  <2>3. Moves(a, v)
    BY <1>2, <1>4, <2>1, <2>2 DEF Moves
  <2> QED BY <2>1, <2>3 DEF Stays
<1> QED BY <1>3, <1>4

LEMMA TakenFacts ==
  ASSUME NEW w \in Workers, NEW a, NEW bound \in BOOLEAN, NEW rest \in [Faults -> Nat],
         Taken(w, a, bound, rest)
  PROVE  /\ left' \in [Faults -> Nat] /\ left'["manual"] = rest["manual"]
         /\ \/ Goto(w, "idle", None)
            \/ \E at \in {"follow", "claimed"} : Goto(w, at, a) /\ (at = "follow" => bound)
BY DEF Taken, Faults

LEMMA ClaimReadyKept ==
  ASSUME Inv, NEW w \in Workers, NEW a \in Rows, ClaimReady(w, a)
  PROVE  Inv' /\ Stays
<1>1. Stays
  BY ClaimReadyStays
<1>2. row[a].bound \in BOOLEAN /\ left \in [Faults -> Nat]
  BY InvRows, RowFields DEF Inv, TypeOK, RestOK
<1>3. row[a].bound => a \in DOMAIN life
  BY DEF Inv, LinkInv, Started
<1>4. CASE Busy(DefOf(a).group, a)
  BY <1>1, <1>4, TaskKept, InvRows DEF ClaimReady
<1>5. CASE ~Busy(DefOf(a).group, a)
  <2>1. Taken(w, a, row[a].bound, left)
    BY <1>5 DEF ClaimReady
  <2>2. left' = left \/ \E f \in Faults : Spend(f)
    BY <2>1 DEF Taken, Spend, Faults
  <2>3. \/ Goto(w, "idle", None)
        \/ \E at \in TaskAt : Goto(w, at, a) /\ (at # "claimed" => a \in DOMAIN life)
    BY <1>2, <1>3, <2>1, TakenFacts DEF TaskAt
  <2>4. /\ world' = world /\ now' = now /\ job' = job /\ life' = life /\ due' = due
    BY DEF ClaimReady
  <2> QED BY <1>1, <2>2, <2>3, <2>4, TaskKept, InvRows
<1> QED BY <1>4, <1>5

\* The clock and the jobs.
LEMMA TimeFacts ==
  ASSUME Inv
  PROVE  /\ now \in Nat /\ now <= Horizon /\ Horizon \in Nat \ {0}
         /\ left \in [Faults -> Nat] /\ left["manual"] \in 0..MaxManual
         /\ job \in [Jobs -> JobType] /\ due \in [Workers -> DueType]
         /\ \A j \in Jobs : /\ job[j].rev \in 0..MaxRevision /\ job[j].next \in Nat
                            /\ job[j].on \in BOOLEAN
         /\ \A o \in Occs : /\ o \in Occurrences /\ o[1] \in Jobs /\ o[2] \in Revisions
                            /\ o[3] \in Times \cup Serials /\ o[3] \in Nat /\ TakenInTurn(o)
<1>1. /\ now \in Nat /\ now <= Horizon /\ Horizon \in Nat \ {0}
      /\ left \in [Faults -> Nat] /\ left["manual"] \in 0..MaxManual
      /\ job \in [Jobs -> JobType] /\ due \in [Workers -> DueType]
  BY BoundsAreNatural, ManualIsFault DEF Inv, TypeOK, RestOK
<1>2. \A j \in Jobs : job[j].rev \in 0..MaxRevision /\ job[j].next \in Nat /\ job[j].on \in BOOLEAN
  BY <1>1 DEF JobType
<1>3. \A o \in Occs : /\ o \in Occurrences /\ o[1] \in Jobs /\ o[2] \in Revisions
                      /\ o[3] \in Times \cup Serials /\ TakenInTurn(o)
  BY InvRows, OccFacts DEF Inv, ClockInv
<1>4. \A t \in Times \cup Serials : t \in Nat
  BY BoundsAreNatural DEF Times, Serials
<1> QED BY <1>1, <1>2, <1>3, <1>4

LEMMA TickKept ==
  ASSUME Inv, Tick
  PROVE  Inv' /\ Stays
<1>1. Stays /\ Walks /\ Shape
  BY DEF Tick, Stays, Walks, Shape
<1>2. now' \in 0..Horizon /\ now' = now + 1
  BY TimeFacts, WorldFacts, InvRows DEF Tick
<1>3. Occs' = Occs
  BY <1>1, InvRows, ShapeOccs
<1>4. JobInv' /\ DueInv'
  BY <1>2, TimeFacts DEF Tick, Inv, JobInv, DueInv, DueType
<1>5. ClockInv'
  BY <1>2, <1>3, TimeFacts DEF Tick, ClockInv, TakenInTurn
<1> QED BY <1>1, <1>2, <1>4, <1>5, TimeFacts, InvRows, Kept DEF Tick

\* A job gets a due time that lies ahead, or none.
LEMMA EditKept ==
  ASSUME Inv, NEW j \in Jobs, NEW v \in JobType,
         job' = [job EXCEPT ![j] = v],
         v.on => v.rev \in Revisions /\ v.next > now,
         left' = left \/ \E f \in Faults : Spend(f),
         world' = world, now' = now, row' = row, life' = life, pc' = pc, due' = due, work' = work
  PROVE  Inv' /\ Stays
<1>1. Stays /\ Walks /\ Shape
  BY DEF Stays, Walks, Shape
<1>2. /\ left' \in [Faults -> Nat] /\ left'["manual"] <= left["manual"]
      /\ left'["manual"] \in Nat
  BY TimeFacts, SpendFacts, ManualIsFault
<1>3. job' \in [Jobs -> JobType] /\ v.next \in Nat
  BY TimeFacts DEF JobType
<1>4. Occs' = Occs
  BY <1>1, InvRows, ShapeOccs
<1>5. JobInv'
  BY <1>3, TimeFacts DEF Inv, JobInv
<1>6. DueInv'
  BY DEF Inv, DueInv
<1>7. ASSUME NEW o \in Occs PROVE TakenInTurn(o)'
  <2>1. /\ TakenInTurn(o) /\ o[3] \in Nat /\ o[1] \in Jobs
        /\ now \in Nat /\ left["manual"] \in Nat /\ Horizon \in Nat /\ job \in [Jobs -> JobType]
    BY TimeFacts
  <2>2. o[3] \in Times => (job'[o[1]].on /\ job'[o[1]].rev = o[2] => o[3] < job'[o[1]].next)
    BY <1>3, <2>1 DEF TakenInTurn
  <2>3. o[3] \notin Times => o[3] > Horizon + left'["manual"]
    BY <1>2, <2>1 DEF TakenInTurn
  <2> QED BY <2>1, <2>2, <2>3 DEF TakenInTurn
<1>8. ClockInv'
  BY <1>4, <1>7 DEF ClockInv
<1> QED BY <1>1, <1>2, <1>3, <1>5, <1>6, <1>8, TimeFacts, InvRows, Kept

LEMMA UpsertKept ==
  ASSUME Inv, NEW j \in Jobs, Upsert(j)
  PROVE  Inv' /\ Stays
<1> DEFINE next == NextTime(world.def[j][job[j].rev + 1], now)
           v == [rev |-> job[j].rev + 1, on |-> TRUE, next |-> next, first |-> next, seen |-> 0]
<1>1. job[j].rev + 1 \in Revisions
  BY TimeFacts, BoundsAreNatural DEF Upsert, Revisions
<1>2. next \in Nat /\ next > now
  BY <1>1, TimeFacts, WorldFacts, InvRows, DefinitionFacts DEF NextTime
<1>3. job' = [job EXCEPT ![j] = v]
  BY DEF Upsert
<1> HIDE DEF next
<1>4. v \in JobType /\ (v.on => v.rev \in Revisions /\ v.next > now)
  BY <1>1, <1>2, BoundsAreNatural DEF JobType, Revisions
<1>5. left' = left \/ \E f \in Faults : Spend(f)
  BY DEF Upsert, Faults
<1> HIDE DEF v
<1> QED BY <1>3, <1>4, <1>5, EditKept DEF Upsert

LEMMA SetEnabledKept ==
  ASSUME Inv, NEW j \in Jobs, NEW on \in BOOLEAN, SetEnabled(j, on)
  PROVE  Inv' /\ Stays
<1> DEFINE next == IF on THEN NextTime(world.def[j][job[j].rev + 1], now) ELSE 0
           v == [rev |-> job[j].rev + 1, on |-> on, next |-> next, first |-> next, seen |-> 0]
<1>1. job[j].rev + 1 \in Revisions
  BY TimeFacts, BoundsAreNatural DEF SetEnabled, Revisions
<1>2. next \in Nat /\ (on => next > now)
  BY <1>1, TimeFacts, WorldFacts, InvRows, DefinitionFacts DEF NextTime
<1>3. job' = [job EXCEPT ![j] = v]
  BY DEF SetEnabled
<1> HIDE DEF next
<1>4. v \in JobType /\ (v.on => v.rev \in Revisions /\ v.next > now)
  BY <1>1, <1>2, BoundsAreNatural DEF JobType, Revisions
<1>5. left' = left \/ \E f \in Faults : Spend(f)
  BY DEF SetEnabled, Faults
<1> HIDE DEF v
<1> QED BY <1>3, <1>4, <1>5, EditKept DEF SetEnabled

LEMMA DeleteKept ==
  ASSUME Inv, NEW j \in Jobs, Delete(j)
  PROVE  Inv' /\ Stays
<1>1. NoJob \in JobType /\ ~NoJob.on
  BY BoundsAreNatural DEF NoJob, JobType
<1>2. \E f \in Faults : Spend(f)
  BY DEF Delete, Faults
<1> QED BY <1>1, <1>2, EditKept DEF Delete

\* A poll lists a due job.
LEMMA ObserveDueKept ==
  ASSUME Inv, NEW w \in Workers, NEW j \in Jobs, ObserveDue(w, j)
  PROVE  Inv' /\ Stays
<1> DEFINE d == [job |-> j, rev |-> job[j].rev, next |-> job[j].next, at |-> now]
<1>1. Stays /\ Walks /\ Shape
  BY DEF ObserveDue, Stays, Walks, Shape
<1>2. job[j].rev \in Revisions /\ job[j].next \in Nat \ {0} /\ job[j].next <= now
  BY DEF ObserveDue, Inv, JobInv
<1>3. d \in DueType
  BY <1>2, TimeFacts DEF DueType
<1>4. due' = [due EXCEPT ![w] = d]
  BY DEF ObserveDue
<1>5. d.job = j /\ d.rev = job[j].rev /\ d.next = job[j].next /\ d.at = now
  OBVIOUS
<1> HIDE DEF d
<1>6. due' \in [Workers -> DueType]
  BY <1>3, <1>4, TimeFacts
<1>7. DueInv'
  <2> SUFFICES ASSUME NEW u \in Workers, pc'[u] = "observed"
               PROVE  /\ due'[u].job \in Jobs /\ due'[u].rev \in Revisions
                      /\ due'[u].next \in Nat \ {0} /\ due'[u].next <= due'[u].at
                      /\ due'[u].at <= now'
    BY DEF DueInv
  <2>1. CASE u = w
    BY <1>2, <1>4, <1>5, <2>1, TimeFacts DEF ObserveDue
  <2>2. CASE u # w
    <3>1. pc[u] = "observed" /\ due'[u] = due[u] /\ now' = now
      BY <1>4, <2>2, TimeFacts DEF ObserveDue, Inv, TypeOK, RestOK
    <3> QED BY <3>1 DEF Inv, DueInv
  <2> QED BY <2>1, <2>2
<1>8. Occs' = Occs
  BY <1>1, InvRows, ShapeOccs
<1>9. JobInv' /\ ClockInv'
  BY <1>8 DEF ObserveDue, Inv, JobInv, ClockInv, TakenInTurn
<1> QED BY <1>1, <1>6, <1>7, <1>9, TimeFacts, InvRows, Kept DEF ObserveDue

\* A manual trigger, under a serial that was not used.
LEMMA TriggerNowKept ==
  ASSUME Inv, NEW w \in Workers, NEW j \in Jobs, TriggerNow(w, j)
  PROVE  /\ Inv' /\ \E o \in Occurrences, v \in RowType : Opens(o, v)
<1> DEFINE o == <<j, job[j].rev, Horizon + left["manual"]>>
           v == ClaimedBy(w, FALSE)
           rest == [left EXCEPT !["manual"] = @ - 1]
<1>1. /\ left["manual"] \in 1..MaxManual /\ job[j].rev \in Revisions
      /\ Horizon \in Nat /\ MaxManual \in Nat
  BY TimeFacts, BoundsAreNatural DEF TriggerNow, Revisions
<1>2. Horizon + left["manual"] \in Serials /\ Horizon + left["manual"] \notin Times
  BY <1>1 DEF Serials, Times
<1>3. o \in Occurrences
  BY <1>1, <1>2 DEF Occurrences
<1>4. o[1] = j /\ o[2] = job[j].rev /\ o[3] = Horizon + left["manual"]
  OBVIOUS
<1>5. o \notin Occs
  <2>1. \A p \in Occs : p[3] \notin Times => p[3] > Horizon + left["manual"]
    BY TimeFacts DEF TakenInTurn
  <2> QED BY <1>1, <1>2, <1>4, <2>1
<1>6. rest \in [Faults -> Nat] /\ rest["manual"] = left["manual"] - 1
  BY <1>1, TimeFacts, ManualIsFault
<1>7. row' = Put(row, First(o), v) /\ Taken(w, First(o), FALSE, rest)
  BY DEF TriggerNow
<1>8. v \in RowType /\ v.status = "claimed" /\ v.holder = w /\ v.bound = FALSE
  BY ClaimedType
<1>9. DefOf(First(o)) = Current(j)
  BY DEF DefOf, Current, First
<1> HIDE DEF o, v, rest
<1>10. ~Busy(DefOf(First(o)).group, None)
  BY <1>9 DEF TriggerNow
<1>11. Opens(o, v)
  BY <1>3, <1>5, <1>7, <1>8, <1>10 DEF Opens
<1>12. Shape
  BY <1>3, <1>8, <1>11 DEF Shape
<1>13. /\ left' \in [Faults -> Nat] /\ left'["manual"] = left["manual"] - 1
       /\ Goto(w, "idle", None) \/ Goto(w, "claimed", First(o))
  BY <1>6, <1>7, TakenFacts
<1>14. First(o) \in Rows' /\ Occs' = Occs \cup {o}
  BY <1>3, <1>8, <1>11, InvRows, OpensRows, ShapeOccs
<1>15. Walks
  BY <1>13, <1>14 DEF Walks, TaskAt
<1>16. JobInv'
  BY DEF TriggerNow, Inv, JobInv
<1>17. DueInv'
  <2>1. \A u \in Workers : pc'[u] = "observed" => pc[u] = "observed"
    BY <1>13 DEF Goto, Inv, TypeOK, RestOK
  <2> QED BY <2>1 DEF TriggerNow, Inv, DueInv
<1>18. ClockInv'
  <2> SUFFICES ASSUME NEW p \in Occs' PROVE TakenInTurn(p)'
    BY DEF ClockInv
  <2>1. CASE p = o
    BY <1>1, <1>2, <1>4, <1>13, <2>1 DEF TakenInTurn
  <2>2. CASE p \in Occs
    <3>1. TakenInTurn(p) /\ p[3] \in Nat
      BY <2>2, TimeFacts
    <3> QED BY <1>1, <1>13, <3>1 DEF TakenInTurn, TriggerNow
  <2> QED BY <1>14, <2>1, <2>2
<1>19. left'["manual"] <= left["manual"]
  BY <1>1, <1>13
<1>20. Inv'
  BY <1>12, <1>13, <1>15, <1>16, <1>17, <1>18, <1>19, TimeFacts, InvRows, Kept DEF TriggerNow
<1> QED BY <1>3, <1>8, <1>11, <1>20

\* No step gives back what the faults may still spend.
LeftEffect == left'["input"] <= left["input"] /\ left'["stall"] <= left["stall"]

LEMMA LeftFacts ==
  ASSUME Inv, left' = left \/ \E f \in Faults : Spend(f)
  PROVE  LeftEffect
BY TimeFacts, SpendFacts, ManualIsFault DEF LeftEffect

\* The next due time lies after the one that was listed.
LEMMA NextDueFacts ==
  ASSUME NEW d \in Definition, NEW scheduled \in Nat, NEW observed \in Nat, scheduled <= observed
  PROVE  /\ NextDue(d, scheduled, observed) \in Nat
         /\ NextDue(d, scheduled, observed) > scheduled
         /\ d.misfire = "fire_once" => NextDue(d, scheduled, observed) > observed
         /\ d.misfire = "catch_up" => NextDue(d, scheduled, observed) = scheduled + d.every
BY DefinitionFacts DEF NextDue, NextTime

\* A due time is claimed, recorded or given up.
ListedJob(w) == job[due[w].job]
DueOcc(w) == <<due[w].job, due[w].rev, due[w].next>>

LEMMA ClaimDueCases ==
  ASSUME Inv, NEW w \in Workers, ClaimDue(w)
  PROVE  \/ row' = row /\ job' = job /\ left' = left /\ Goto(w, "idle", None)
         \/ /\ ListedJob(w).on /\ ListedJob(w).rev = due[w].rev /\ ListedJob(w).next = due[w].next
            /\ job' = [job EXCEPT ![due[w].job].next = NextDue(Current(due[w].job), due[w].next, due[w].at),
                                  ![due[w].job].seen = due[w].at]
            /\ \E v \in RowType :
                 /\ v.status \in {"claimed", "pending", "skipped"} /\ ~v.bound
                 /\ v.holder # None =>
                      v.status = "claimed" /\ ~Busy(Current(due[w].job).group, None)
                 /\ row' = Put(row, First(DueOcc(w)), v)
                 /\ \/ Goto(w, "idle", None) /\ left' = left
                    \/ v.holder = w /\ Taken(w, First(DueOcc(w)), FALSE, left)
<1> DEFINE d == due[w]
           def == Current(d.job)
           a == First(<<d.job, d.rev, d.next>>)
           busy == Busy(def.group, None)
           back == Backlogged(def.group)
<1>1. CASE ~UnchangedSince(d) \/ (back /\ def.overlap = "queue")
  BY <1>1 DEF ClaimDue
<1>2. CASE ~(~UnchangedSince(d) \/ (back /\ def.overlap = "queue"))
  <2>1. ListedJob(w).on /\ ListedJob(w).rev = d.rev /\ ListedJob(w).next = d.next
    BY <1>2 DEF UnchangedSince, ListedJob
  <2>2. job' = [job EXCEPT ![d.job].next = NextDue(def, d.next, d.at), ![d.job].seen = d.at]
    BY <1>2 DEF ClaimDue
  <2>3. PICK ready \in BOOLEAN :
          \/ row' = Put(row, a, NewRow("skipped", ready)) /\ Goto(w, "idle", None) /\ left' = left
          \/ row' = Put(row, a, NewRow("pending", ready)) /\ Goto(w, "idle", None) /\ left' = left
          \/ ~busy /\ row' = Put(row, a, ClaimedBy(w, FALSE)) /\ Taken(w, a, FALSE, left)
    BY <1>2 DEF ClaimDue
  <2>4. a = First(DueOcc(w))
    BY DEF DueOcc
  <2>5. /\ NewRow("skipped", ready) \in RowType /\ NewRow("pending", ready) \in RowType
        /\ NewRow("skipped", ready).status = "skipped" /\ NewRow("pending", ready).status = "pending"
        /\ NewRow("skipped", ready).holder = None /\ NewRow("pending", ready).holder = None
        /\ NewRow("skipped", ready).bound = FALSE /\ NewRow("pending", ready).bound = FALSE
    BY NewRowType DEF Statuses, TerminalStatuses, ReadyStatuses
  <2>6. /\ ClaimedBy(w, FALSE) \in RowType /\ ClaimedBy(w, FALSE).status = "claimed"
        /\ ClaimedBy(w, FALSE).holder = w /\ ClaimedBy(w, FALSE).bound = FALSE
    BY ClaimedType
  <2> HIDE DEF a, busy, back
  <2>7. \E v \in RowType :
          /\ v.status \in {"claimed", "pending", "skipped"} /\ ~v.bound
          /\ v.holder # None => v.status = "claimed" /\ ~busy
          /\ row' = Put(row, a, v)
          /\ \/ Goto(w, "idle", None) /\ left' = left
             \/ v.holder = w /\ Taken(w, a, FALSE, left)
    BY <2>3, <2>5, <2>6
  <2> QED BY <2>1, <2>2, <2>4, <2>7 DEF busy
<1> QED BY <1>1, <1>2

ClaimsDue(w) ==
  \/ row' = row /\ left' = left /\ Goto(w, "idle", None)
  \/ \E o \in Occurrences, v \in RowType :
       Opens(o, v) /\ LeftEffect
       /\ (Goto(w, "idle", None) \/ (v.holder = w /\ ~v.bound /\ Goto(w, "claimed", First(o))))

LEMMA ClaimDueKept ==
  ASSUME Inv, NEW w \in Workers, ClaimDue(w)
  PROVE  Inv' /\ Shape /\ ClaimsDue(w)
<1> DEFINE d == due[w]
           o == DueOcc(w)
           next == NextDue(Current(d.job), d.next, d.at)
<1>1. /\ d.job \in Jobs /\ d.rev \in Revisions /\ d.next \in Nat \ {0}
      /\ d.next <= d.at /\ d.at <= now /\ d.at \in Nat
  <2>1. d \in DueType
    BY TimeFacts
  <2> QED BY <2>1 DEF ClaimDue, Inv, DueInv, DueType
<1>2. NoDue \in DueType /\ due' = [due EXCEPT ![w] = NoDue]
  BY BoundsAreNatural DEF ClaimDue, NoDue, DueType
<1>3. due' \in [Workers -> DueType]
  BY <1>2, TimeFacts
<1>4. ASSUME NEW at \in {"idle", "claimed"}, NEW x, Goto(w, at, x) PROVE DueInv'
  <2>1. \A u \in Workers : pc'[u] = "observed" => pc[u] = "observed" /\ u # w /\ due'[u] = due[u]
    BY <1>2, <1>4 DEF Goto, Inv, TypeOK, RestOK
  <2> QED BY <2>1 DEF ClaimDue, Inv, DueInv
<1>5. CASE row' = row /\ job' = job /\ left' = left /\ Goto(w, "idle", None)
  <2>1. Stays /\ Walks /\ Shape
    BY <1>5 DEF Stays, Walks, Shape
  <2>2. Occs' = Occs
    BY <2>1, InvRows, ShapeOccs
  <2>3. JobInv' /\ ClockInv'
    BY <1>5, <2>2 DEF ClaimDue, Inv, JobInv, ClockInv, TakenInTurn
  <2>4. DueInv'
    BY <1>4, <1>5
  <2>5. Inv'
    BY <1>3, <1>5, <2>1, <2>3, <2>4, TimeFacts, InvRows, Kept DEF ClaimDue
  <2> QED BY <1>5, <2>1, <2>5 DEF ClaimsDue
<1>6. ASSUME job[d.job].on, job[d.job].rev = d.rev, job[d.job].next = d.next,
             job' = [job EXCEPT ![d.job].next = next, ![d.job].seen = d.at],
             NEW v \in RowType, v.status \in {"claimed", "pending", "skipped"}, ~v.bound,
             v.holder # None => v.status = "claimed" /\ ~Busy(Current(d.job).group, None),
             row' = Put(row, First(o), v),
             \/ Goto(w, "idle", None) /\ left' = left
             \/ v.holder = w /\ Taken(w, First(o), FALSE, left)
      PROVE  Inv' /\ Shape /\ ClaimsDue(w)
  <2>1. o[1] = d.job /\ o[2] = d.rev /\ o[3] = d.next /\ o[3] \in Times /\ o \in Occurrences
    BY <1>1, TimeFacts DEF DueOcc, Times, Occurrences
  <2>2. o \notin Occs
    <3>1. \A p \in Occs : p[3] \in Times =>
            (job[p[1]].on /\ job[p[1]].rev = p[2] => p[3] < job[p[1]].next)
      BY TimeFacts DEF TakenInTurn
    <3> QED BY <1>1, <1>6, <2>1, <3>1
  <2>3. DefOf(First(o)) = Current(d.job)
    BY <1>6, <2>1 DEF DefOf, Current, First
  <2>4. Opens(o, v)
    BY <1>6, <2>1, <2>2, <2>3 DEF Opens
  <2>5. Shape
    BY <2>1, <2>4 DEF Shape
  <2>6. First(o) \in Rows' /\ Occs' = Occs \cup {o}
    BY <2>1, <2>4, InvRows, OpensRows, ShapeOccs
  <2>7. /\ left' \in [Faults -> Nat] /\ left'["manual"] = left["manual"]
        /\ Goto(w, "idle", None) \/ (v.holder = w /\ Goto(w, "claimed", First(o)))
        /\ LeftEffect
    <3>1. CASE Goto(w, "idle", None) /\ left' = left
      BY <3>1, TimeFacts, LeftFacts
    <3>2. CASE v.holder = w /\ Taken(w, First(o), FALSE, left)
      <4>1. left' = left \/ \E f \in Faults : Spend(f)
        BY <3>2 DEF Taken, Spend, Faults
      <4> QED BY <3>2, <4>1, TimeFacts, TakenFacts, LeftFacts
    <3> QED BY <1>6, <3>1, <3>2
  <2>8. Walks
    BY <2>6, <2>7 DEF Walks, TaskAt
  <2>9. DueInv'
    BY <1>4, <2>7
  <2>10. Current(d.job) \in Definition
    BY <1>1, <1>6, WorldFacts, InvRows DEF Current
  <2>11. next \in Nat /\ next > d.next
    BY <1>1, <2>10, NextDueFacts
  <2> HIDE DEF next, o
  <2>12. /\ job' \in [Jobs -> JobType]
         /\ job'[d.job].on /\ job'[d.job].rev = d.rev /\ job'[d.job].next = next
         /\ \A j \in Jobs : j # d.job => job'[j] = job[j]
    BY <1>1, <1>6, <2>11, TimeFacts DEF JobType
  <2>13. JobInv'
    BY <1>1, <2>11, <2>12 DEF Inv, JobInv
  <2>14. ASSUME NEW p \in Occs' PROVE TakenInTurn(p)'
    <3>1. now' = now
      BY DEF ClaimDue
    <3>2. CASE p = o
      BY <1>1, <2>1, <2>11, <2>12, <3>1, <3>2, TimeFacts DEF TakenInTurn
    <3>3. CASE p \in Occs
      <4>1. TakenInTurn(p) /\ p[3] \in Nat /\ p[1] \in Jobs
        BY <3>3, TimeFacts
      <4>2. job'[p[1]].on /\ job'[p[1]].rev = p[2] =>
              job[p[1]].on /\ job[p[1]].rev = p[2] /\ job'[p[1]].next >= job[p[1]].next
        <5>1. CASE p[1] = d.job
          BY <1>1, <1>6, <2>11, <2>12, <5>1
        <5>2. CASE p[1] # d.job
          BY <2>12, <4>1, <5>2, TimeFacts
        <5> QED BY <5>1, <5>2
      <4>3. job'[p[1]].next \in Nat /\ job[p[1]].next \in Nat
        BY <2>12, <4>1, TimeFacts DEF JobType
      <4> QED BY <2>7, <3>1, <4>1, <4>2, <4>3 DEF TakenInTurn
    <3> QED BY <2>6, <3>2, <3>3
  <2>15. ClockInv'
    BY <2>14 DEF ClockInv
  <2>16. left'["manual"] <= left["manual"]
    BY <2>7, TimeFacts
  <2>17. Inv'
    BY <1>3, <2>5, <2>7, <2>8, <2>9, <2>12, <2>13, <2>15, <2>16, TimeFacts, InvRows, Kept DEF ClaimDue
  <2>18. ClaimsDue(w)
    BY <1>6, <2>1, <2>4, <2>7 DEF ClaimsDue
  <2> QED BY <2>5, <2>17, <2>18
<1> QED BY <1>5, <1>6, ClaimDueCases DEF ListedJob

-----------------------------------------------------------------------------
LEMMA TaskStepKept ==
  ASSUME Inv, NEW w \in Workers, NEW a \in Rows, TaskStep(w, a)
  PROVE  Inv' /\ Shape
BY StartRunKept, StartFailsKept, BindKept, WaitReturnsKept, FollowReturnsKept, RecoverBoundKept,
   RenewFailsKept DEF TaskStep, Shape

LEMMA PollKept ==
  ASSUME Inv, NEW w \in Workers, Poll(w)
  PROVE  Inv' /\ Shape
BY ClaimReadyKept, ObserveDueKept, TriggerNowKept, ClaimDueKept DEF Poll, Shape

LEMMA InvStep == Inv /\ [Next]_vars => Inv' /\ Shape
<1> SUFFICES ASSUME Inv, [Next]_vars PROVE Inv' /\ Shape
  OBVIOUS
<1>1. CASE Tick
  BY <1>1, TickKept DEF Shape
<1>2. ASSUME NEW j \in Jobs, Upsert(j) \/ Delete(j) PROVE Inv' /\ Shape
  BY <1>2, UpsertKept, DeleteKept DEF Shape
<1>3. ASSUME NEW j \in Jobs, NEW on \in BOOLEAN, SetEnabled(j, on) PROVE Inv' /\ Shape
  BY <1>3, SetEnabledKept DEF Shape
<1>4. ASSUME NEW w \in Workers, Poll(w) PROVE Inv' /\ Shape
  BY <1>4, PollKept
<1>5. ASSUME NEW w \in Workers, NEW a \in Rows, TaskStep(w, a) PROVE Inv' /\ Shape
  BY <1>5, TaskStepKept
<1>6. ASSUME NEW a \in Rows, LeaseExpires(a) \/ DelayPasses(a) PROVE Inv' /\ Shape
  BY <1>6, LeaseExpiresKept, DelayPassesKept DEF Shape
<1>7. ASSUME NEW a \in DOMAIN life,
             LifeEnds(a) \/ AsksInput(a) \/ Reconciled(a) \/ \E w \in Workers : InputGiven(a, w)
      PROVE  Inv' /\ Shape
  BY <1>7, LifeEndsKept, AsksInputKept, ReconciledKept, InputGivenKept DEF Shape
<1>8. CASE Fault
  BY <1>8, InterruptKept, CrashKept, HostLostKept DEF Fault, Shape
<1>9. CASE UNCHANGED vars
  BY <1>9, StillKept, InvRows DEF vars, Shape
<1> QED BY <1>1, <1>2, <1>3, <1>4, <1>5, <1>6, <1>7, <1>8, <1>9 DEF Next

-----------------------------------------------------------------------------
\* The values the scheduler's state takes are of their types, whatever its
\* daemons do.
THEOREM TypeCorrect == Spec => []TypeOK
<1>1. Inv => TypeOK
  BY DEF Inv
<1> QED BY <1>1, InvInit, InvStep, PTL DEF Spec

\* No two attempts of a concurrency group have a live claim, for any number of
\* jobs, daemons, retries and faults.
THEOREM GroupsAreSerial == Spec => []OneClaimPerGroup
<1>1. Inv => OneClaimPerGroup
  BY DEF Inv, RowInv
<1> QED BY <1>1, InvInit, InvStep, PTL DEF Spec

LEMMA ContractInit == Init => Contract!Init
<1> SUFFICES ASSUME Init PROVE Contract!Init
  OBVIOUS
<1>1. {a[1] : a \in Rows} = {}
  BY DEF Init, Rows
<1>2. [o \in {} |-> [phase |-> Phase(o), tries |-> Tries(o)]] = <<>>
  OBVIOUS
<1> QED BY <1>1, <1>2, Zenon DEF Contract!Init

LEMMA ContractStep == Inv /\ [Next]_vars => [Contract!Next]_Course
BY InvStep, InvRows, ShapeRefines

\* The scheduler implements the contract of an occurrence: it is taken up
\* once, tried one attempt after the other, and settled for good.
THEOREM ScheduleKeepsContract == Spec => KeepsContract
BY InvInit, InvStep, ContractInit, ContractStep, PTL
   DEF Spec, KeepsContract, Contract!Spec, Course, Occs

-----------------------------------------------------------------------------
(***************************************************************************)
(* The recurrence.  The due times of a catch_up job are the multiples of   *)
(* its interval after the first, each recorded before the next is due.     *)
(***************************************************************************)
Recorded(j, t) == First(<<j, job[j].rev, t>>) \in Rows

CourseOf(j) ==
  /\ Current(j).misfire = "catch_up" =>
       /\ job[j].first <= job[j].next
       /\ ((job[j].next - job[j].first) % Current(j).every) = 0
       /\ \A t \in Nat : /\ job[j].first <= t /\ t < job[j].next
                         /\ ((t - job[j].first) % Current(j).every) = 0
                         => Recorded(j, t)
  /\ Current(j).misfire = "fire_once" => job[j].next > job[j].seen
CourseInv == \A j \in Jobs : job[j].on => CourseOf(j)

LEMMA NextMultiple ==
  ASSUME NEW e \in Nat \ {0}, NEW a \in Nat, NEW b \in Nat,
         (a % e) = 0, (b % e) = 0, a <= b, b < a + e
  PROVE  a = b
<1>1. a = e * (a \div e) /\ b = e * (b \div e) /\ a \div e \in Int /\ b \div e \in Int
  BY Z3T(20)
<1>2. ASSUME NEW q \in Int, NEW r \in Int, e * q <= e * r, e * r < e * q + e PROVE q = r
  BY <1>2, Z3T(20)
<1> QED BY <1>1, <1>2

LEMMA AddMultiple ==
  ASSUME NEW e \in Nat \ {0}, NEW a \in Nat, (a % e) = 0
  PROVE  ((a + e) % e) = 0
<1>1. a = e * (a \div e) + (a % e) /\ a \div e \in Int
  BY Z3T(20)
<1>2. \A q \in Int, r \in 0..(e - 1) : ((e * q + r) % e) = r
  BY Z3T(20)
<1>3. a + e = e * (a \div e + 1) + 0
  BY <1>1, Z3T(20)
<1>4. a \div e + 1 \in Int /\ 0 \in 0..(e - 1)
  BY <1>1
<1>5. ((e * (a \div e + 1) + 0) % e) = 0
  BY <1>2, <1>4
<1> QED BY <1>3, <1>5

\* A job is left alone, edited, or moved on by the claim of a due time.
Edited(j) ==
  /\ \A i \in Jobs : i # j => job'[i] = job[i]
  /\ job'[j].on =>
       /\ job'[j].rev \in Revisions /\ job'[j].seen = 0
       /\ job'[j].first = job'[j].next /\ job'[j].next > 0 /\ job'[j].next \in Nat
MovedOn(j, at) ==
  /\ job[j].on /\ job[j].next \in Nat /\ job[j].next <= at
  /\ job' = [job EXCEPT ![j].next = NextDue(Current(j), job[j].next, at), ![j].seen = at]
  /\ First(<<j, job[j].rev, job[j].next>>) \in Rows'
JobShape ==
  \/ job' = job
  \/ \E j \in Jobs : Edited(j)
  \/ \E j \in Jobs, at \in Nat : MovedOn(j, at)

LEMMA UpsertEdits ==
  ASSUME Inv, NEW j \in Jobs, Upsert(j)
  PROVE  Edited(j)
<1> DEFINE next == NextTime(world.def[j][job[j].rev + 1], now)
           v == [rev |-> job[j].rev + 1, on |-> TRUE, next |-> next, first |-> next, seen |-> 0]
<1>1. job[j].rev + 1 \in Revisions
  BY TimeFacts, BoundsAreNatural DEF Upsert, Revisions
<1>2. next \in Nat /\ next > 0
  <2>1. next \in Nat /\ next > now
    BY <1>1, TimeFacts, WorldFacts, InvRows, DefinitionFacts DEF NextTime
  <2> QED BY <2>1, TimeFacts
<1>3. job' = [job EXCEPT ![j] = v]
  BY DEF Upsert
<1> HIDE DEF next
<1> QED BY <1>1, <1>2, <1>3, TimeFacts DEF Edited

LEMMA SetEnabledEdits ==
  ASSUME Inv, NEW j \in Jobs, NEW on \in BOOLEAN, SetEnabled(j, on)
  PROVE  Edited(j)
<1> DEFINE next == IF on THEN NextTime(world.def[j][job[j].rev + 1], now) ELSE 0
           v == [rev |-> job[j].rev + 1, on |-> on, next |-> next, first |-> next, seen |-> 0]
<1>1. job[j].rev + 1 \in Revisions
  BY TimeFacts, BoundsAreNatural DEF SetEnabled, Revisions
<1>2. next \in Nat /\ (on => next > 0)
  <2>1. next \in Nat /\ (on => next > now)
    BY <1>1, TimeFacts, WorldFacts, InvRows, DefinitionFacts DEF NextTime
  <2> QED BY <2>1, TimeFacts
<1>3. job' = [job EXCEPT ![j] = v]
  BY DEF SetEnabled
<1> HIDE DEF next
<1> QED BY <1>1, <1>2, <1>3, TimeFacts DEF Edited

LEMMA DeleteEdits ==
  ASSUME Inv, NEW j \in Jobs, Delete(j)
  PROVE  Edited(j)
BY TimeFacts DEF Delete, Edited, NoJob

LEMMA ClaimDueMoves ==
  ASSUME Inv, NEW w \in Workers, ClaimDue(w)
  PROVE  JobShape
<1>1. /\ due[w].job \in Jobs /\ due[w].next \in Nat /\ due[w].at \in Nat
      /\ due[w].next <= due[w].at
  <2>1. due[w] \in DueType
    BY TimeFacts
  <2> QED BY <2>1 DEF ClaimDue, Inv, DueInv, DueType
<1>2. ASSUME NEW v, row' = Put(row, First(DueOcc(w)), v) PROVE First(DueOcc(w)) \in Rows'
  BY <1>2 DEF Put, Rows
<1>3. job' = job \/ MovedOn(due[w].job, due[w].at)
  BY <1>1, <1>2, ClaimDueCases DEF MovedOn, ListedJob, DueOcc
<1> QED BY <1>1, <1>3 DEF JobShape

LEMMA JobSteps ==
  ASSUME Inv, [Next]_vars
  PROVE  JobShape
<1>1. ASSUME NEW j \in Jobs, Upsert(j) \/ Delete(j) PROVE JobShape
  BY <1>1, UpsertEdits, DeleteEdits DEF JobShape
<1>2. ASSUME NEW j \in Jobs, NEW on \in BOOLEAN, SetEnabled(j, on) PROVE JobShape
  BY <1>2, SetEnabledEdits DEF JobShape
<1>3. ASSUME NEW w \in Workers, Poll(w) PROVE JobShape
  <2>1. CASE ClaimDue(w)
    BY <2>1, ClaimDueMoves
  <2>2. CASE \E a \in Rows : ClaimReady(w, a)
    BY <2>2 DEF JobShape, ClaimReady
  <2>3. CASE \E j \in Jobs : ObserveDue(w, j) \/ TriggerNow(w, j)
    BY <2>3 DEF JobShape, ObserveDue, TriggerNow
  <2> QED BY <1>3, <2>1, <2>2, <2>3 DEF Poll
<1>4. ASSUME NEW w \in Workers, NEW a \in Rows, TaskStep(w, a) PROVE JobShape
  BY <1>4 DEF JobShape, TaskStep, StartRun, StartFails, Bind, WaitReturns, FollowReturns,
              RecoverBound, RenewFails
<1>5. CASE Tick \/ Fault \/ UNCHANGED vars
  BY <1>5 DEF JobShape, Tick, Fault, Interrupt, Crash, HostLost, vars
<1>6. ASSUME NEW a \in Rows, LeaseExpires(a) \/ DelayPasses(a) PROVE JobShape
  BY <1>6 DEF JobShape, LeaseExpires, DelayPasses
<1>7. ASSUME NEW a \in DOMAIN life,
             LifeEnds(a) \/ AsksInput(a) \/ Reconciled(a) \/ \E w \in Workers : InputGiven(a, w)
      PROVE  JobShape
  BY <1>7 DEF JobShape, LifeEnds, AsksInput, Reconciled, InputGiven
<1> QED BY <1>1, <1>2, <1>3, <1>4, <1>5, <1>6, <1>7 DEF Next

LEMMA CourseSame ==
  ASSUME CourseInv, Rows \subseteq Rows', world' = world, NEW i \in Jobs, job'[i] = job[i]
  PROVE  job'[i].on => CourseOf(i)'
BY DEF CourseInv, CourseOf, Current, Recorded, First

LEMMA CourseStep ==
  ASSUME Inv, CourseInv, [Next]_vars
  PROVE  CourseInv'
<1>1. Rows \subseteq Rows' /\ world' = world
  BY InvStep, InvRows, ShapeRows DEF Next, vars, Tick, Upsert, Delete, SetEnabled, Poll, ClaimReady,
     ObserveDue, TriggerNow, ClaimDue, TaskStep, StartRun, StartFails, Bind, WaitReturns,
     FollowReturns, RecoverBound, RenewFails, LeaseExpires, DelayPasses, LifeEnds, AsksInput,
     Reconciled, InputGiven, Fault, Interrupt, Crash, HostLost
<1>2. Inv'
  BY InvStep
<1>3. CASE job' = job
  BY <1>1, <1>3, CourseSame DEF CourseInv
<1>4. ASSUME NEW j \in Jobs, Edited(j) PROVE CourseInv'
  <2>1. \A i \in Jobs : i # j => job'[i] = job[i]
    BY <1>4 DEF Edited
  <2>2. ASSUME job'[j].on PROVE CourseOf(j)'
    <3>1. /\ job'[j].rev \in Revisions /\ job'[j].seen = 0 /\ job'[j].next \in Nat
          /\ job'[j].first = job'[j].next /\ job'[j].next > 0
      BY <1>4, <2>2 DEF Edited
    <3>2. world.def[j][job'[j].rev].every \in Nat \ {0}
      BY <3>1, WorldFacts, InvRows, DefinitionFacts
    <3>3. ((job'[j].next - job'[j].first) % world.def[j][job'[j].rev].every) = 0
      BY <3>1, <3>2, Z3T(20)
    <3> QED BY <1>1, <3>1, <3>3 DEF CourseOf, Current
  <2> QED BY <1>1, <2>1, <2>2, CourseSame DEF CourseInv
<1>5. ASSUME NEW j \in Jobs, NEW at \in Nat, MovedOn(j, at) PROVE CourseInv'
  <2> DEFINE def == Current(j)
             next == NextDue(def, job[j].next, at)
  <2>1. /\ job[j].on /\ job[j].next \in Nat /\ job[j].next <= at
        /\ First(<<j, job[j].rev, job[j].next>>) \in Rows'
    BY <1>5 DEF MovedOn
  <2>2. job[j] \in JobType /\ job[j].rev \in Revisions /\ job[j].first \in Nat
    BY <2>1, TimeFacts DEF Inv, JobInv, JobType
  <2>3. def \in Definition /\ def.every \in Nat \ {0}
    BY <2>1, <2>2, WorldFacts, InvRows, DefinitionFacts DEF Current
  <2>4. /\ next \in Nat /\ next > job[j].next
        /\ def.misfire = "fire_once" => next > at
        /\ def.misfire = "catch_up" => next = job[j].next + def.every
    BY <2>1, <2>3, NextDueFacts
  <2>5. job' = [job EXCEPT ![j].next = next, ![j].seen = at]
    BY <1>5 DEF MovedOn
  <2>6. CourseOf(j)
    BY <2>1 DEF CourseInv
  <2> HIDE DEF next, def
  <2>7. /\ job'[j].next = next /\ job'[j].seen = at /\ job'[j].first = job[j].first
        /\ job'[j].rev = job[j].rev
        /\ \A i \in Jobs : i # j => job'[i] = job[i]
    BY <2>1, <2>2, <2>5, TimeFacts DEF JobType
  <2>8. Current(j)' = def
    BY <1>1, <2>7 DEF Current, def
  <2>9. ASSUME def.misfire = "catch_up"
        PROVE  /\ job[j].first <= next /\ ((next - job[j].first) % def.every) = 0
               /\ \A t \in Nat : /\ job[j].first <= t /\ t < next
                                 /\ ((t - job[j].first) % def.every) = 0
                                 => Recorded(j, t)'
    <3>1. /\ job[j].first <= job[j].next /\ ((job[j].next - job[j].first) % def.every) = 0
          /\ \A t \in Nat : /\ job[j].first <= t /\ t < job[j].next
                            /\ ((t - job[j].first) % def.every) = 0
                            => Recorded(j, t)
      BY <2>6, <2>9 DEF CourseOf, def
    <3>2. job[j].next - job[j].first \in Nat /\ next = job[j].next + def.every
      BY <2>1, <2>2, <2>4, <2>9, <3>1
    <3>3. next - job[j].first = (job[j].next - job[j].first) + def.every
      BY <2>1, <2>2, <2>3, <3>2
    <3>4. ((next - job[j].first) % def.every) = 0
      BY <2>3, <3>1, <3>2, <3>3, AddMultiple
    <3>5. ASSUME NEW t \in Nat, job[j].first <= t, t < next, ((t - job[j].first) % def.every) = 0
          PROVE  Recorded(j, t)'
      <4>1. CASE t < job[j].next
        BY <1>1, <2>7, <3>1, <3>5, <4>1 DEF Recorded, First
      <4>2. CASE t >= job[j].next
        <5>1. /\ t - job[j].first \in Nat
              /\ job[j].next - job[j].first <= t - job[j].first
              /\ t - job[j].first < (job[j].next - job[j].first) + def.every
          BY <2>1, <2>2, <2>3, <3>2, <3>5, <4>2
        <5>2. job[j].next - job[j].first = t - job[j].first
          BY <2>3, <3>1, <3>2, <3>5, <5>1, NextMultiple
        <5>3. t = job[j].next
          BY <2>1, <2>2, <5>2
        <5> QED BY <2>1, <2>7, <5>3 DEF Recorded, First
      <4> QED BY <2>1, <4>1, <4>2
    <3> QED BY <2>1, <2>2, <2>3, <3>1, <3>2, <3>4, <3>5
  <2>10. CourseOf(j)'
    BY <2>4, <2>7, <2>8, <2>9 DEF CourseOf
  <2> QED BY <1>1, <2>7, <2>10, CourseSame DEF CourseInv
<1> QED BY <1>3, <1>4, <1>5, JobSteps DEF JobShape

\* A catch_up job loses no due time, a fire_once job replays none, and no due
\* time is recorded ahead of its turn, for any definitions and clock.
THEOREM RecurrenceKept == Spec => []ScheduleKept
<1>1. Init => CourseInv
  BY DEF Init, CourseInv, NoJob
<1>2. Inv /\ CourseInv => ScheduleKept
  <2> SUFFICES ASSUME Inv, CourseInv, NEW j \in Jobs, job[j].rev > 0, job[j].on
               PROVE  /\ Current(j).misfire = "catch_up" =>
                           \A t \in job[j].first..(job[j].next - 1) :
                             ((t - job[j].first) % Current(j).every) = 0 => Recorded(j, t)
                      /\ Current(j).misfire = "fire_once" => job[j].next > job[j].seen
                      /\ \A t \in Times : t >= job[j].next => ~Recorded(j, t)
    BY DEF ScheduleKept, Recorded
  <2>1. CourseOf(j) /\ job[j].next \in Nat /\ job[j].first \in Nat
    BY TimeFacts DEF CourseInv, JobType
  <2>2. ASSUME NEW t \in Times, t >= job[j].next, Recorded(j, t) PROVE FALSE
    <3> DEFINE o == <<j, job[j].rev, t>>
    <3>1. o \in Occs
      <4>1. First(o)[1] = o /\ First(o) \in Rows
        BY <2>2 DEF First, Recorded
      <4> QED BY <4>1 DEF Occs
    <3>2. TakenInTurn(o)
      BY <3>1, TimeFacts
    <3>3. t \in Nat
      BY BoundsAreNatural DEF Times
    <3> QED BY <2>1, <2>2, <3>2, <3>3 DEF TakenInTurn
  <2> QED BY <2>1, <2>2 DEF CourseOf
<1> QED BY <1>1, <1>2, InvInit, InvStep, CourseStep, PTL DEF Spec

-----------------------------------------------------------------------------
(***************************************************************************)
(* Outcomes.  An attempt stays bound; a task that follows a run follows a  *)
(* bound one, and where nothing stalls it still has its claim, so that no  *)
(* run is started behind the back of a settlement.                         *)
(***************************************************************************)
Over == {"completed", "failed", "dead"}

TaskInv ==
  \A w \in Workers : pc[w] \in TaskAt =>
    /\ pc[w] \in {"wait", "follow"} => row[work[w]].bound
    /\ world.budget["stall"] = 0 => Owns(w, work[w])

FaultInv ==
  /\ left["input"] <= world.budget["input"] /\ left["stall"] <= world.budget["stall"]
  /\ world.budget["input"] = 0 => \A a \in DOMAIN life : life[a].state # "input"

OutInv == TaskInv /\ FaultInv /\ OutcomesAreTrue

\* What a step of w (None: of nobody) may do to rows, tasks and runs.
RowEffect(w) ==
  /\ \A b \in Rows : /\ b \in Rows' /\ (row[b].bound => row'[b].bound)
                     /\ row[b].holder \notin {w, None} => row'[b].holder = row[b].holder
  /\ \A b \in Rows' : row'[b].status = "completed" =>
       b \in Rows /\ (row[b].status = "completed"
                      \/ (row[b].bound /\ Started(b) /\ life[b].state = "completed"))
  /\ \A b \in Rows' : Next1(b) \in Rows' =>
       b \in Rows /\ (Next1(b) \in Rows \/ (Started(b) => life[b].state \in {"failed", "input"}))

TaskEffect(w) ==
  \/ /\ pc' = pc /\ work' = work
     /\ w \in Workers /\ pc[w] \in TaskAt /\ world.budget["stall"] = 0 =>
          row'[work[w]].holder = row[work[w]].holder
  \/ w \in Workers /\ Goto(w, "idle", None)
  \/ w \in Workers /\ pc' = [pc EXCEPT ![w] = "observed"] /\ work' = work
  \/ /\ w \in Workers
     /\ \E at \in TaskAt, x \in Rows' :
          /\ Goto(w, at, x)
          /\ at \in {"wait", "follow"} => row'[x].bound
          /\ world.budget["stall"] = 0 => row'[x].holder = w

LifeEffect ==
  /\ \A b \in DOMAIN life :
       b \in DOMAIN life' /\ (life[b].state \in Over => life'[b].state = life[b].state)
  /\ \A b \in DOMAIN life' : life'[b].state = "input" =>
       left["input"] > 0 \/ (b \in DOMAIN life /\ life[b].state = "input")
  /\ \A b \in DOMAIN life' : b \notin DOMAIN life =>
       Rows' = Rows /\ \E u \in Workers : pc[u] \in TaskAt /\ work[u] = b

LEMMA BudgetFacts ==
  ASSUME Inv
  PROVE  /\ left["input"] \in Nat /\ left["stall"] \in Nat /\ left["manual"] \in Nat
         /\ world.budget["input"] \in Nat /\ world.budget["stall"] \in Nat
BY TimeFacts, WorldFacts, InvRows, ManualIsFault

LEMMA EffectKeeps ==
  ASSUME Inv, Inv', OutInv, world' = world, NEW w \in Workers \cup {None},
         RowEffect(w), TaskEffect(w), LifeEffect, LeftEffect
  PROVE  OutInv'
<1>1. TaskInv'
  <2> SUFFICES ASSUME NEW u \in Workers, pc'[u] \in TaskAt
               PROVE  /\ pc'[u] \in {"wait", "follow"} => row'[work'[u]].bound
                      /\ world.budget["stall"] = 0 => row'[work'[u]].holder = u
    BY DEF TaskInv, Owns
  <2>1. ASSUME pc[u] \in TaskAt, pc'[u] = pc[u], work'[u] = work[u],
               u # w \/ (world.budget["stall"] = 0 => row'[work[u]].holder = row[work[u]].holder)
        PROVE  /\ pc'[u] \in {"wait", "follow"} => row'[work'[u]].bound
               /\ world.budget["stall"] = 0 => row'[work'[u]].holder = u
    <3>1. work[u] \in Rows
      BY <2>1 DEF Inv, LinkInv
    <3>2. /\ pc[u] \in {"wait", "follow"} => row[work[u]].bound
          /\ world.budget["stall"] = 0 => row[work[u]].holder = u
      BY <2>1 DEF OutInv, TaskInv, Owns
    <3> QED BY <2>1, <3>1, <3>2, NoneIsNobody DEF RowEffect
  <2>2. pc \in [Workers -> {"idle", "observed"} \cup TaskAt] /\ work \in [Workers -> Attempts \cup {None}]
    BY DEF Inv, TypeOK, RestOK
  <2>3. CASE pc' = pc /\ work' = work /\ (w \in Workers /\ pc[w] \in TaskAt /\ world.budget["stall"] = 0 =>
                                            row'[work[w]].holder = row[work[w]].holder)
    BY <2>1, <2>3
  <2>4. CASE w \in Workers /\ (Goto(w, "idle", None) \/ (pc' = [pc EXCEPT ![w] = "observed"] /\ work' = work))
    <3>1. u # w /\ pc'[u] = pc[u] /\ work'[u] = work[u]
      BY <2>2, <2>4 DEF Goto, TaskAt
    <3> QED BY <2>1, <3>1
  <2>5. ASSUME w \in Workers, NEW at \in TaskAt, NEW x \in Rows', Goto(w, at, x),
               at \in {"wait", "follow"} => row'[x].bound,
               world.budget["stall"] = 0 => row'[x].holder = w
        PROVE  /\ pc'[u] \in {"wait", "follow"} => row'[work'[u]].bound
               /\ world.budget["stall"] = 0 => row'[work'[u]].holder = u
    <3>1. CASE u = w
      BY <2>2, <2>5, <3>1 DEF Goto
    <3>2. CASE u # w
      <4>1. pc'[u] = pc[u] /\ work'[u] = work[u]
        BY <2>2, <2>5, <3>2 DEF Goto
      <4> QED BY <2>1, <3>2, <4>1
    <3> QED BY <3>1, <3>2
  <2> QED BY <2>3, <2>4, <2>5 DEF TaskEffect
<1>2. FaultInv'
  BY BudgetFacts, <1>1 DEF OutInv, FaultInv, LeftEffect, LifeEffect, Inv, TypeOK, RestOK, Faults
<1>3. ASSUME NEW a \in Rows', row'[a].status = "completed"
      PROVE  row'[a].bound /\ a \in DOMAIN life' /\ life'[a].state = "completed"
  <2>1. /\ a \in Rows
        /\ row[a].status = "completed" \/ (row[a].bound /\ Started(a) /\ life[a].state = "completed")
    BY <1>3 DEF RowEffect
  <2>2. row[a].bound /\ Started(a) /\ life[a].state = "completed"
    BY <2>1 DEF OutInv, OutcomesAreTrue
  <2> QED BY <2>1, <2>2 DEF RowEffect, LifeEffect, Started, Over
<1>4. ASSUME world.budget["input"] = 0, world.budget["stall"] = 0,
             NEW a \in Rows', Next1(a) \in Rows', a \in DOMAIN life'
      PROVE  life'[a].state = "failed"
  <2>1. a \in Rows /\ (Next1(a) \in Rows \/ (Started(a) => life[a].state \in {"failed", "input"}))
    BY <1>4 DEF RowEffect
  <2>2. CASE Started(a)
    <3>1. life[a].state # "input"
      BY <1>4, <2>2 DEF OutInv, FaultInv, Started
    <3>2. life[a].state = "failed"
      BY <1>4, <2>1, <2>2, <3>1 DEF OutInv, OutcomesAreTrue
    <3> QED BY <2>2, <3>2 DEF LifeEffect, Started, Over
  <2>3. CASE ~Started(a)
    <3>1. PICK u \in Workers : pc[u] \in TaskAt /\ work[u] = a
      BY <1>4, <2>3 DEF LifeEffect, Started
    <3>2. Owns(u, a)
      BY <1>4, <3>1 DEF OutInv, TaskInv
    <3>3. Next1(a) \notin Rows /\ Rows' = Rows
      BY <1>4, <2>1, <2>3, <3>2, InvRows, OwnedIsOpen, OpenIsLast DEF LifeEffect, Started
    <3> QED BY <1>4, <3>3
  <2> QED BY <2>2, <2>3
<1>5. OutcomesAreTrue'
  <2>1. \A b : Next1(b)' = Next1(b)
    BY DEF Next1
  <2> QED BY <1>3, <1>4, <2>1 DEF OutcomesAreTrue, Started
<1> QED BY <1>1, <1>2, <1>5 DEF OutInv

\* Each shape of a step of the rows has this effect.
Gentle(w, a, v) ==
  /\ row[a].bound => v.bound
  /\ row[a].holder \in {w, None} \/ v.holder = row[a].holder

LEMMA StillEffect ==
  ASSUME Inv, row' = row, NEW w
  PROVE  RowEffect(w)
BY DEF RowEffect, Rows

LEMMA MovesEffect ==
  ASSUME Inv, NEW w, NEW a \in Rows, NEW v \in RowType, Moves(a, v), Gentle(w, a, v),
         v.status = "completed" => row[a].bound /\ Started(a) /\ life[a].state = "completed"
  PROVE  RowEffect(w)
<1>1. Rows' = Rows /\ row'[a] = v /\ \A b \in Rows : b # a => row'[b] = row[b]
  BY InvRows, MovesRows
<1> QED BY <1>1 DEF RowEffect, Gentle

LEMMA AgainEffect ==
  ASSUME Inv, NEW w, NEW a \in Rows, NEW v \in RowType, Again(a, v), Gentle(w, a, v),
         Started(a) => life[a].state \in {"failed", "input"}
  PROVE  RowEffect(w)
<1>1. /\ Rows' = Rows \cup {Next1(a)} /\ row'[a] = v
      /\ row'[Next1(a)] = NewRow("retry_wait", FALSE)
      /\ \A b \in Rows : b # a => row'[b] = row[b]
      /\ Next1(a)[1] = a[1] /\ Next1(a)[2] = a[2] + 1
  BY InvRows, AgainRows, OpenIsLast DEF Again
<1>2. v.status = "failed" /\ row'[Next1(a)].status = "retry_wait"
  BY <1>1 DEF Again, NewRow
<1>3. SeriesInv'
  BY InvRows, ShapeSeries DEF Shape, Stays
<1>4. ASSUME NEW b \in Rows', Next1(b) \in Rows'
      PROVE  b \in Rows /\ (Next1(b) \in Rows \/ (Started(b) => life[b].state \in {"failed", "input"}))
  <2>1. row'[b].status = "failed"
    BY <1>3, <1>4 DEF SeriesInv, Next1
  <2>2. b \in Rows
    BY <1>1, <1>2, <2>1
  <2>3. CASE Next1(b) = Next1(a)
    <3>1. b \in Attempts /\ a \in Attempts
      BY <2>2, InvRows, RowFields
    <3>2. b[1] = a[1] /\ b[2] + 1 = a[2] + 1 /\ b[2] \in Nat /\ a[2] \in Nat
      BY <2>3, <3>1, AttemptFacts, BoundsAreNatural DEF Next1
    <3>3. b = a
      BY <3>1, <3>2, AttemptFacts
    <3> QED BY <2>2, <3>3
  <2> QED BY <1>1, <1>4, <2>2, <2>3
<1> QED BY <1>1, <1>2, <1>4 DEF RowEffect, Gentle

LEMMA OpensEffect ==
  ASSUME Inv, NEW w, NEW o \in Occurrences, NEW v \in RowType, Opens(o, v)
  PROVE  RowEffect(w)
<1>1. /\ Rows' = Rows \cup {First(o)} /\ First(o) \notin Rows /\ First(o)[2] = 1
      /\ row'[First(o)] = v /\ \A b \in Rows : row'[b] = row[b]
      /\ v.status \in {"claimed", "pending", "skipped"}
  BY InvRows, OpensRows DEF Opens
<1>2. SeriesInv'
  BY InvRows, ShapeSeries DEF Shape
<1>3. ASSUME NEW b \in Rows', Next1(b) \in Rows' PROVE b \in Rows /\ Next1(b) \in Rows
  <2>1. row'[b].status = "failed"
    BY <1>2, <1>3 DEF SeriesInv, Next1
  <2>2. b \in Rows
    BY <1>1, <2>1
  <2>3. b[2] \in Nat \ {0}
    <3>1. b \in Attempts
      BY <2>2, InvRows, RowFields
    <3> QED BY <3>1, AttemptFacts, BoundsAreNatural
  <2>4. Next1(b)[2] = b[2] + 1
    BY DEF Next1
  <2>5. Next1(b) # First(o)
    BY <1>1, <2>3, <2>4
  <2> QED BY <1>1, <1>3, <2>2, <2>5
<1> QED BY <1>1, <1>3 DEF RowEffect

\* The steps that end or move a task.
LEMMA FreshGentle ==
  ASSUME Inv, NEW a \in Rows, NEW w \in Workers, Owns(w, a), NEW s \in Statuses,
         NEW h \in {None, w}, NEW b \in {row[a].bound, TRUE}
  PROVE  /\ Gentle(w, a, Fresh(a, s, h, b)) /\ Fresh(a, s, h, b) \in RowType
         /\ Fresh(a, s, h, b).status = s /\ Fresh(a, s, h, b).bound = b
         /\ Fresh(a, s, h, b).holder = h
BY InvRows, RowFields DEF Gentle, Owns, Fresh, RowType

LEMMA FinishEffect ==
  ASSUME Inv, NEW w \in Workers, NEW a \in Rows, NEW status \in SettledAs, Finish(w, a, status),
         status = "completed" => row[a].bound /\ Started(a) /\ life[a].state = "completed",
         status = "failed" /\ Started(a) => life[a].state \in {"failed", "input"}
  PROVE  RowEffect(w) /\ TaskEffect(w)
<1> DEFINE v == Fresh(a, status, None, row[a].bound)
<1>1. Goto(w, "idle", None)
  BY DEF Finish
<1>2. CASE ~Owns(w, a)
  BY <1>1, <1>2, StillEffect, InvRows, FinishStays DEF TaskEffect
<1>3. CASE Owns(w, a)
  <2>1. status \in Statuses
    BY DEF SettledAs, Statuses, TerminalStatuses
  <2>2. Gentle(w, a, v) /\ v \in RowType /\ v.status = status
    BY <1>3, <2>1, FreshGentle
  <2>3. Moves(a, v) \/ (status = "failed" /\ Again(a, v))
    BY <1>3, InvRows, FinishStays
  <2> HIDE DEF v
  <2> QED BY <1>1, <2>2, <2>3, MovesEffect, AgainEffect DEF TaskEffect
<1> QED BY <1>2, <1>3

LEMMA ReleasedEffect ==
  ASSUME Inv, NEW w \in Workers, NEW a \in Rows, row' = Released(w, a)
  PROVE  RowEffect(w)
<1>1. CASE ~Owns(w, a)
  BY <1>1, StillEffect, InvRows, ReleasedStays
<1>2. CASE Owns(w, a)
  <2>1. PICK s \in {"detached", "pending"} : Moves(a, Fresh(a, s, None, row[a].bound))
    BY <1>2, InvRows, ReleasedStays
  <2>2. s \in Statuses
    BY DEF Statuses, ReadyStatuses, ActiveStatuses
  <2>3. /\ Gentle(w, a, Fresh(a, s, None, row[a].bound))
        /\ Fresh(a, s, None, row[a].bound) \in RowType
        /\ Fresh(a, s, None, row[a].bound).status = s
    BY <1>2, <2>2, FreshGentle
  <2>4. s # "completed"
    OBVIOUS
  <2> QED BY <2>1, <2>3, <2>4, MovesEffect
<1> QED BY <1>1, <1>2

LEMMA BoundEffect ==
  ASSUME Inv, NEW w \in Workers, NEW a \in Rows, Owns(w, a), Started(a),
         \/ row' = Bound(a)
         \/ row' = [Bound(a) EXCEPT ![a].status = "detached", ![a].holder = None]
  PROVE  RowEffect(w)
<1>1. PICK s \in Statuses, h \in Workers \cup {None} :
        /\ s \in {"running", "detached"} /\ Moves(a, Fresh(a, s, h, TRUE))
        /\ (h # None => h = row[a].holder)
  BY InvRows, BoundStays
<1>2. h \in {None, w} /\ s # "completed"
  BY <1>1 DEF Owns
<1>3. /\ Gentle(w, a, Fresh(a, s, h, TRUE)) /\ Fresh(a, s, h, TRUE) \in RowType
      /\ Fresh(a, s, h, TRUE).status = s
  BY <1>1, <1>2, InvRows, RowFields DEF Fresh, Gentle, RowType, Owns
<1> QED BY <1>1, <1>2, <1>3, MovesEffect

LEMMA LifeStill ==
  ASSUME life' = life
  PROVE  LifeEffect
BY DEF LifeEffect

LEMMA LifeStarts ==
  ASSUME Rows' = Rows, NEW w \in Workers, NEW a, pc[w] \in TaskAt, work[w] = a, ~Started(a),
         NEW h, life' = Put(life, a, [state |-> "running", host |-> h])
  PROVE  LifeEffect
<1>1. /\ DOMAIN life' = DOMAIN life \cup {a} /\ life'[a].state = "running"
      /\ \A b \in DOMAIN life : life'[b] = life[b]
  BY DEF Put, Started
<1> QED BY <1>1 DEF LifeEffect

LEMMA LifeOne ==
  ASSUME NEW a \in DOMAIN life, DOMAIN life' = DOMAIN life, life[a].state \notin Over,
         \A b \in DOMAIN life : b # a => life'[b] = life[b],
         life'[a].state = "input" => left["input"] > 0 \/ life[a].state = "input"
  PROVE  LifeEffect
BY DEF LifeEffect

LEMMA StartRunEffect ==
  ASSUME Inv, OutInv, NEW w \in Workers, NEW a \in Rows, StartRun(w, a)
  PROVE  RowEffect(w) /\ TaskEffect(w) /\ LifeEffect
<1>1. CASE ~Started(a)
  <2>1. RowEffect(w)
    BY <1>1, StillEffect DEF StartRun
  <2>2. world.budget["stall"] = 0 => row[a].holder = w
    BY DEF StartRun, OutInv, TaskInv, TaskAt, Owns
  <2>3. TaskEffect(w)
    BY <1>1, <2>2 DEF StartRun, TaskEffect, TaskAt, Rows
  <2>4. LifeEffect
    BY <1>1, LifeStarts DEF StartRun, TaskAt, Rows
  <2> QED BY <2>1, <2>3, <2>4
<1>2. CASE Started(a)
  <2>1. Finish(w, a, "dead_lettered") /\ life' = life /\ "dead_lettered" \in SettledAs
    BY <1>2 DEF StartRun, SettledAs
  <2> QED BY <2>1, FinishEffect, LifeStill
<1> QED BY <1>1, <1>2

LEMMA StartFailsEffect ==
  ASSUME Inv, NEW w \in Workers, NEW a \in Rows, StartFails(w, a)
  PROVE  RowEffect(w) /\ TaskEffect(w) /\ LifeEffect
<1>1. PICK status \in {"failed", "dead_lettered"} : Finish(w, a, status)
  BY DEF StartFails
<1>2. status \in SettledAs /\ status # "completed" /\ ~Started(a) /\ life' = life
  BY DEF StartFails, SettledAs
<1> QED BY <1>1, <1>2, FinishEffect, LifeStill

LEMMA BindEffect ==
  ASSUME Inv, OutInv, NEW w \in Workers, NEW a \in Rows, Bind(w, a)
  PROVE  RowEffect(w) /\ TaskEffect(w) /\ LifeEffect
<1>1. LifeEffect
  BY LifeStill DEF Bind
<1>2. CASE Owns(w, a)
  <2>1. Started(a)
    BY DEF Bind, Inv, LinkInv, TaskAt
  <2>2. RowEffect(w)
    BY <1>2, <2>1, BoundEffect DEF Bind
  <2>3. row' = [row EXCEPT ![a] = Fresh(a, "running", row[a].holder, TRUE)]
    BY <1>2, InvRows, SetFields DEF Bind, Bound
  <2>4. Fresh(a, "running", row[a].holder, TRUE).bound /\ Fresh(a, "running", row[a].holder, TRUE).holder = w
    BY <1>2 DEF Fresh, Owns
  <2>5. a \in Rows' /\ row'[a].bound /\ row'[a].holder = w
    BY <2>3, <2>4 DEF Rows
  <2>6. Goto(w, "wait", a)
    BY <1>2 DEF Bind
  <2> QED BY <1>1, <2>2, <2>5, <2>6 DEF TaskEffect, TaskAt
<1>3. CASE ~Owns(w, a)
  BY <1>1, <1>3, StillEffect DEF Bind, TaskEffect
<1> QED BY <1>2, <1>3

LEMMA SettleEffect ==
  ASSUME Inv, OutInv, NEW w \in Workers, NEW a \in Rows, pc[w] \in {"wait", "follow"}, work[w] = a,
         life[a].state # "running", Settle(w, a)
  PROVE  RowEffect(w) /\ TaskEffect(w)
<1>1. Started(a) /\ row[a].bound
  BY DEF Inv, LinkInv, OutInv, TaskInv, TaskAt
<1>2. life[a].state \in Ends \cup {"input"}
  BY <1>1, InvRows, LifeSet DEF Started, LifeType
<1>3. /\ OutcomeOf(life[a].state) \in SettledAs \cup {"released"}
      /\ OutcomeOf(life[a].state) = "completed" => life[a].state = "completed"
      /\ OutcomeOf(life[a].state) = "failed" => life[a].state \in {"failed", "input"}
  BY <1>2 DEF OutcomeOf, SettledAs, Ends
<1>4. CASE OutcomeOf(life[a].state) = "released"
  BY <1>4, ReleasedEffect DEF Settle, TaskEffect
<1>5. CASE OutcomeOf(life[a].state) \in SettledAs
  <2>1. Finish(w, a, OutcomeOf(life[a].state))
    BY <1>5 DEF Settle, SettledAs
  <2> QED BY <1>1, <1>3, <1>5, <2>1, FinishEffect
<1> QED BY <1>3, <1>4, <1>5

LEMMA WaitReturnsEffect ==
  ASSUME Inv, OutInv, NEW w \in Workers, NEW a \in Rows, WaitReturns(w, a)
  PROVE  RowEffect(w) /\ TaskEffect(w) /\ LifeEffect
<1>1. LifeEffect
  BY LifeStill DEF WaitReturns
<1>2. CASE life[a].state = "running"
  BY <1>1, <1>2, ReleasedEffect DEF WaitReturns, TaskEffect
<1>3. CASE life[a].state # "running"
  BY <1>1, <1>3, SettleEffect DEF WaitReturns
<1> QED BY <1>2, <1>3

LEMMA FollowReturnsEffect ==
  ASSUME Inv, OutInv, NEW w \in Workers, NEW a \in Rows, FollowReturns(w, a)
  PROVE  RowEffect(w) /\ TaskEffect(w) /\ LifeEffect
BY LifeStill, SettleEffect DEF FollowReturns

LEMMA RecoverBoundEffect ==
  ASSUME Inv, NEW w \in Workers, NEW a \in Rows, RecoverBound(w, a)
  PROVE  RowEffect(w) /\ TaskEffect(w) /\ LifeEffect
<1>1. a \in DOMAIN life /\ life \in [DOMAIN life -> LifeType]
  BY InvRows DEF RecoverBound, Inv, LinkInv, TaskAt, Started, LifeOK
<1>2. life[a].state = "running"
  BY DEF RecoverBound
<1>3. life' = [life EXCEPT ![a].host = w] \/ life' = [life EXCEPT ![a].state = "stuck"]
  BY DEF RecoverBound
<1>4. /\ DOMAIN life' = DOMAIN life /\ life'[a].state \in {"running", "stuck"}
      /\ \A b \in DOMAIN life : b # a => life'[b] = life[b]
  BY <1>1, <1>2, <1>3 DEF LifeType
<1>5. LifeEffect
  BY <1>1, <1>2, <1>4, LifeOne DEF Over
<1>6. RowEffect(w) /\ TaskEffect(w)
  BY StillEffect DEF RecoverBound, TaskEffect
<1> QED BY <1>5, <1>6

LEMMA InterruptEffect ==
  ASSUME Inv, NEW w \in Workers, NEW a \in Rows, Interrupt(w, a)
  PROVE  RowEffect(w) /\ TaskEffect(w) /\ LifeEffect
<1>1. TaskEffect(w)
  BY DEF Interrupt, TaskEffect
<1>2. row' \in {row, Released(w, a)} => RowEffect(w)
  BY StillEffect, ReleasedEffect
<1>3. CASE row' \in {row, Released(w, a)} /\ UNCHANGED life
  BY <1>1, <1>2, <1>3, LifeStill
<1>4. CASE /\ pc[w] = "claimed" /\ ~Started(a)
           /\ life' = Put(life, a, [state |-> "running", host |-> None])
           /\ row' \in {row, Released(w, a)}
  <2>1. Rows' = Rows
    BY <1>4, InvRows DEF Released, Rows, RowsOK
  <2>2. LifeEffect
    BY <1>4, <2>1, LifeStarts DEF Interrupt, TaskAt
  <2> QED BY <1>1, <1>2, <1>4, <2>2
<1>5. CASE /\ pc[w] = "bind" /\ Owns(w, a)
           /\ row' \in {Bound(a), [Bound(a) EXCEPT ![a].status = "detached", ![a].holder = None]}
           /\ UNCHANGED life
  <2>1. Started(a)
    BY <1>5 DEF Interrupt, Inv, LinkInv, TaskAt
  <2> QED BY <1>1, <1>5, <2>1, BoundEffect, LifeStill
<1> QED BY <1>3, <1>4, <1>5 DEF Interrupt

LEMMA CrashEffect ==
  ASSUME Inv, NEW w \in Workers, Crash(w)
  PROVE  RowEffect(w) /\ TaskEffect(w) /\ LifeEffect
<1>1. /\ DOMAIN life' = DOMAIN life
      /\ \A b \in DOMAIN life : life'[b].state = life[b].state
  <2> SUFFICES ASSUME NEW b \in DOMAIN life PROVE life'[b].state = life[b].state
    BY DEF Crash
  <2>1. life[b] \in LifeType
    BY InvRows DEF LifeOK
  <2> QED BY <2>1 DEF Crash, LifeType
<1> QED BY <1>1, StillEffect DEF Crash, TaskEffect, LifeEffect

\* The steps of runs, the store and the polls.
LEMMA RunStepEffect ==
  ASSUME Inv, NEW a \in DOMAIN life,
         \/ LifeEnds(a) \/ AsksInput(a) \/ Reconciled(a) \/ HostLost(a)
         \/ \E w \in Workers : InputGiven(a, w)
  PROVE  RowEffect(None) /\ TaskEffect(None) /\ LifeEffect
<1>1. row' = row /\ pc' = pc /\ work' = work
  BY DEF LifeEnds, AsksInput, Reconciled, HostLost, InputGiven
<1>2. life \in [DOMAIN life -> LifeType]
  BY InvRows DEF LifeOK
<1>3. DOMAIN life' = DOMAIN life /\ \A b \in DOMAIN life : b # a => life'[b] = life[b]
  BY <1>2 DEF LifeEnds, AsksInput, Reconciled, HostLost, InputGiven
<1>4. life[a].state \notin Over
  BY DEF LifeEnds, AsksInput, Reconciled, HostLost, InputGiven, Over
<1>5. life'[a].state = "input" => left["input"] > 0 \/ life[a].state = "input"
  <2>1. "input" \notin world.ends
    BY WorldFacts, InvRows DEF Ends
  <2> QED BY <1>2, <2>1 DEF LifeEnds, AsksInput, Reconciled, HostLost, InputGiven, Spend, LifeType
<1>6. LifeEffect
  BY <1>3, <1>4, <1>5, LifeOne
<1> QED BY <1>1, <1>6, StillEffect, NoneIsNobody DEF TaskEffect

LEMMA DelayPassesEffect ==
  ASSUME Inv, NEW a \in Rows, DelayPasses(a)
  PROVE  RowEffect(None) /\ TaskEffect(None) /\ LifeEffect
<1> DEFINE v == [row[a] EXCEPT !.ready = TRUE]
<1>1. row[a] \in RowType /\ row \in [DOMAIN row -> RowType] /\ a \in DOMAIN row
  BY InvRows DEF RowsOK, Rows
<1>2. v.status = row[a].status /\ v.holder = row[a].holder /\ v.bound = row[a].bound
  BY <1>1 DEF RowType
<1>3. row' = [row EXCEPT ![a] = v]
  BY <1>1 DEF DelayPasses
<1> HIDE DEF v
<1>4. Rows' = Rows /\ row'[a] = v /\ \A b \in Rows : b # a => row'[b] = row[b]
  BY <1>1, <1>3 DEF Rows
<1>5. RowEffect(None)
  BY <1>2, <1>4 DEF RowEffect
<1> QED BY <1>5, LifeStill, NoneIsNobody DEF DelayPasses, TaskEffect

LEMMA LeaseExpiresEffect ==
  ASSUME Inv, OutInv, NEW a \in Rows, LeaseExpires(a)
  PROVE  \E w \in Workers : RowEffect(w) /\ TaskEffect(w) /\ LifeEffect
<1> DEFINE v == Fresh(a, row[a].status, None, row[a].bound)
           w == row[a].holder
<1>1. w \in Workers /\ row[a].status \in Statuses
  BY InvRows, RowFields DEF LeaseExpires, HoldsClaim
<1>2. row' = [row EXCEPT ![a] = v]
  BY InvRows, SetFields DEF LeaseExpires
<1>3. v.status = row[a].status /\ v.bound = row[a].bound
  BY DEF Fresh
<1> HIDE DEF v
<1>4. Rows' = Rows /\ row'[a] = v /\ \A b \in Rows : b # a => row'[b] = row[b]
  BY <1>2 DEF Rows
<1>5. RowEffect(w)
  BY <1>3, <1>4 DEF RowEffect
<1>6. ASSUME pc[w] \in TaskAt, world.budget["stall"] = 0
      PROVE  row'[work[w]].holder = row[work[w]].holder
  <2>1. left["stall"] <= 0
    BY <1>6 DEF OutInv, FaultInv
  <2>2. work[w] # a
    BY <2>1, BudgetFacts DEF LeaseExpires, Spend
  <2>3. work[w] \in Rows
    BY <1>1, <1>6 DEF Inv, LinkInv
  <2> QED BY <1>4, <2>2, <2>3
<1>7. TaskEffect(w)
  <2>1. pc' = pc /\ work' = work
    BY DEF LeaseExpires
  <2> QED BY <1>1, <1>6, <2>1 DEF TaskEffect
<1>8. LifeEffect
  BY LifeStill DEF LeaseExpires
<1> QED BY <1>1, <1>5, <1>7, <1>8

LEMMA TakenEffect ==
  ASSUME NEW w \in Workers, NEW a \in Rows', NEW bound \in BOOLEAN, NEW rest,
         Taken(w, a, bound, rest), row'[a].bound = bound, row'[a].holder = w
  PROVE  TaskEffect(w)
<1>1. Goto(w, "idle", None) \/ (bound /\ Goto(w, "follow", a)) \/ (~bound /\ Goto(w, "claimed", a))
  BY DEF Taken
<1> QED BY <1>1 DEF TaskEffect, TaskAt

LEMMA ClaimReadyEffect ==
  ASSUME Inv, NEW w \in Workers, NEW a \in Rows, ClaimReady(w, a)
  PROVE  \E x \in Workers \cup {None} : RowEffect(x) /\ TaskEffect(x) /\ LifeEffect
<1>1. row[a].bound \in BOOLEAN /\ row[a].holder = None /\ row \in [DOMAIN row -> RowType]
  <2>1. CASE row[a].status \in ReadyStatuses
    BY <2>1, InvRows, RowFields DEF HolderInv, HoldsClaim, ReadyStatuses, RowsOK
  <2>2. CASE row[a].status \in ActiveStatuses /\ ~HoldsClaim(a)
    BY <2>2, InvRows, RowFields DEF HoldsClaim, RowsOK
  <2> QED BY <2>1, <2>2 DEF ClaimReady, Claimable
<1>2. LifeEffect
  BY LifeStill DEF ClaimReady
<1>3. CASE Busy(DefOf(a).group, a)
  <2> DEFINE v == Fresh(a, "skipped", row[a].holder, row[a].bound)
  <2>1. row' = [row EXCEPT ![a] = v]
    BY <1>3, InvRows, SetFields DEF ClaimReady
  <2>2. v.status = "skipped" /\ v.bound = row[a].bound
    BY DEF Fresh
  <2> HIDE DEF v
  <2>3. Rows' = Rows /\ row'[a] = v /\ \A b \in Rows : b # a => row'[b] = row[b]
    BY <2>1 DEF Rows
  <2>4. RowEffect(None)
    BY <1>1, <2>2, <2>3 DEF RowEffect
  <2>5. TaskEffect(None)
    BY <1>3, NoneIsNobody DEF ClaimReady, TaskEffect
  <2> QED BY <1>2, <2>4, <2>5
<1>4. CASE ~Busy(DefOf(a).group, a)
  <2> DEFINE v == ClaimedBy(w, row[a].bound)
  <2>1. row' = [row EXCEPT ![a] = v] /\ Taken(w, a, row[a].bound, left)
    BY <1>4 DEF ClaimReady
  <2>2. v.status = "claimed" /\ v.bound = row[a].bound /\ v.holder = w
    BY DEF ClaimedBy
  <2> HIDE DEF v
  <2>3. Rows' = Rows /\ row'[a] = v /\ \A b \in Rows : b # a => row'[b] = row[b]
    BY <2>1 DEF Rows
  <2>4. RowEffect(w)
    BY <1>1, <2>2, <2>3 DEF RowEffect
  <2>5. TaskEffect(w)
    BY <1>1, <2>1, <2>2, <2>3, TakenEffect
  <2> QED BY <1>2, <2>4, <2>5
<1> QED BY <1>3, <1>4

LEMMA ClaimDueEffect ==
  ASSUME Inv, NEW w \in Workers, ClaimDue(w)
  PROVE  RowEffect(w) /\ TaskEffect(w) /\ LifeEffect /\ LeftEffect
<1>1. ClaimsDue(w)
  BY ClaimDueKept
<1>2. LifeEffect
  BY LifeStill DEF ClaimDue
<1>3. CASE row' = row /\ left' = left /\ Goto(w, "idle", None)
  BY <1>2, <1>3, StillEffect, LeftFacts DEF TaskEffect
<1>4. ASSUME NEW o \in Occurrences, NEW v \in RowType, Opens(o, v), LeftEffect,
             Goto(w, "idle", None) \/ (v.holder = w /\ ~v.bound /\ Goto(w, "claimed", First(o)))
      PROVE  RowEffect(w) /\ TaskEffect(w) /\ LifeEffect /\ LeftEffect
  <2>1. First(o) \in Rows' /\ row'[First(o)] = v
    BY <1>4, InvRows, OpensRows
  <2>2. RowEffect(w)
    BY <1>4, OpensEffect
  <2>3. TaskEffect(w)
    BY <1>4, <2>1 DEF TaskEffect, TaskAt
  <2> QED BY <1>2, <1>4, <2>2, <2>3
<1> QED BY <1>1, <1>3, <1>4 DEF ClaimsDue

LEMMA TriggerNowEffect ==
  ASSUME Inv, NEW w \in Workers, NEW j \in Jobs, TriggerNow(w, j)
  PROVE  RowEffect(w) /\ TaskEffect(w) /\ LifeEffect /\ LeftEffect
<1> DEFINE a == First(<<j, job[j].rev, Horizon + left["manual"]>>)
           rest == [left EXCEPT !["manual"] = @ - 1]
<1>1. LifeEffect
  BY LifeStill DEF TriggerNow
<1>2. RowEffect(w)
  BY TriggerNowKept, OpensEffect
<1>3. row' = Put(row, a, ClaimedBy(w, FALSE)) /\ Taken(w, a, FALSE, rest)
  BY DEF TriggerNow
<1>4. rest["input"] = left["input"] /\ rest["stall"] = left["stall"] /\ rest \in [Faults -> Nat]
  BY BudgetFacts, TimeFacts DEF TriggerNow, Faults
<1> HIDE DEF a, rest
<1>5. a \in Rows' /\ row'[a] = ClaimedBy(w, FALSE)
  BY <1>3 DEF Put, Rows
<1>6. row'[a].bound = FALSE /\ row'[a].holder = w
  BY <1>5, ClaimedType
<1>7. TaskEffect(w)
  BY <1>3, <1>5, <1>6, TakenEffect
<1>8. LeftEffect
  BY <1>3, <1>4, BudgetFacts DEF Taken, LeftEffect, Faults
<1> QED BY <1>1, <1>2, <1>7, <1>8

\* A step that leaves rows, tasks and runs alone, but for a listing.
LEMMA QuietEffect ==
  ASSUME Inv, row' = row, life' = life, work' = work,
         \/ pc' = pc
         \/ \E w \in Workers : pc' = [pc EXCEPT ![w] = "observed"]
  PROVE  \E w \in Workers \cup {None} : RowEffect(w) /\ TaskEffect(w) /\ LifeEffect
<1>1. CASE pc' = pc
  <2>1. RowEffect(None) /\ TaskEffect(None) /\ LifeEffect
    BY <1>1, StillEffect, LifeStill, NoneIsNobody DEF TaskEffect
  <2> QED BY <2>1
<1>2. ASSUME NEW w \in Workers, pc' = [pc EXCEPT ![w] = "observed"]
      PROVE  RowEffect(w) /\ TaskEffect(w) /\ LifeEffect
  BY <1>2, StillEffect, LifeStill DEF TaskEffect
<1> QED BY <1>1, <1>2

Effect == LeftEffect /\ \E w \in Workers \cup {None} : RowEffect(w) /\ TaskEffect(w) /\ LifeEffect

LEMMA TaskStepEffect ==
  ASSUME Inv, OutInv, NEW w \in Workers, NEW a \in Rows, TaskStep(w, a)
  PROVE  Effect
<1>1. RowEffect(w) /\ TaskEffect(w) /\ LifeEffect
  <2>1. CASE RenewFails(w, a)
    BY <2>1, StillEffect, LifeStill DEF RenewFails, TaskEffect
  <2> QED BY <2>1, StartRunEffect, StartFailsEffect, BindEffect, WaitReturnsEffect,
             FollowReturnsEffect, RecoverBoundEffect DEF TaskStep
<1>2. left' = left \/ \E f \in Faults : Spend(f)
  BY DEF TaskStep, StartRun, StartFails, Bind, WaitReturns, FollowReturns, RecoverBound, RenewFails,
         Faults
<1> QED BY <1>1, <1>2, LeftFacts DEF Effect

LEMMA PollEffect ==
  ASSUME Inv, NEW w \in Workers, Poll(w)
  PROVE  Effect
<1>1. ASSUME NEW a \in Rows, ClaimReady(w, a) PROVE Effect
  <2>1. left' = left \/ \E f \in Faults : Spend(f)
    BY <1>1 DEF ClaimReady, Taken, Spend, Faults
  <2> QED BY <1>1, <2>1, LeftFacts, ClaimReadyEffect DEF Effect
<1>2. ASSUME NEW j \in Jobs, ObserveDue(w, j) PROVE Effect
  BY <1>2, LeftFacts, QuietEffect DEF Effect, ObserveDue
<1>3. ASSUME NEW j \in Jobs, TriggerNow(w, j) PROVE Effect
  BY <1>3, TriggerNowEffect DEF Effect
<1>4. CASE ClaimDue(w)
  BY <1>4, ClaimDueEffect DEF Effect
<1> QED BY <1>1, <1>2, <1>3, <1>4 DEF Poll

LEMMA StepEffect ==
  ASSUME Inv, OutInv, [Next]_vars
  PROVE  Effect
<1>1. CASE \/ Tick \/ UNCHANGED vars
           \/ \E j \in Jobs : Upsert(j) \/ Delete(j)
           \/ \E j \in Jobs, on \in BOOLEAN : SetEnabled(j, on)
  <2>1. left' = left \/ \E f \in Faults : Spend(f)
    BY <1>1 DEF Tick, Upsert, Delete, SetEnabled, Faults, vars
  <2>2. row' = row /\ life' = life /\ work' = work /\ pc' = pc
    BY <1>1 DEF Tick, Upsert, Delete, SetEnabled, vars
  <2> QED BY <2>1, <2>2, LeftFacts, QuietEffect DEF Effect
<1>2. ASSUME NEW w \in Workers, Poll(w) PROVE Effect
  BY <1>2, PollEffect
<1>3. ASSUME NEW w \in Workers, NEW a \in Rows, TaskStep(w, a) PROVE Effect
  BY <1>3, TaskStepEffect
<1>4. ASSUME NEW a \in Rows, LeaseExpires(a) PROVE Effect
  <2>1. left' = left \/ \E f \in Faults : Spend(f)
    BY <1>4 DEF LeaseExpires, Faults
  <2> QED BY <1>4, <2>1, LeftFacts, LeaseExpiresEffect DEF Effect
<1>5. ASSUME NEW a \in Rows, DelayPasses(a) PROVE Effect
  BY <1>5, LeftFacts, DelayPassesEffect DEF Effect, DelayPasses
<1>6. ASSUME NEW a \in DOMAIN life,
             \/ LifeEnds(a) \/ AsksInput(a) \/ Reconciled(a) \/ HostLost(a)
             \/ \E w \in Workers : InputGiven(a, w)
      PROVE  Effect
  <2>1. left' = left \/ \E f \in Faults : Spend(f)
    BY <1>6 DEF LifeEnds, AsksInput, Reconciled, HostLost, InputGiven, Faults
  <2> QED BY <1>6, <2>1, LeftFacts, RunStepEffect DEF Effect
<1>7. ASSUME NEW w \in Workers, NEW a \in Rows, Interrupt(w, a) PROVE Effect
  <2>1. \E f \in Faults : Spend(f)
    BY <1>7 DEF Interrupt, Faults
  <2> QED BY <1>7, <2>1, LeftFacts, InterruptEffect DEF Effect
<1>8. ASSUME NEW w \in Workers, Crash(w) PROVE Effect
  <2>1. \E f \in Faults : Spend(f)
    BY <1>8 DEF Crash, Faults
  <2> QED BY <1>8, <2>1, LeftFacts, CrashEffect DEF Effect
<1> QED BY <1>1, <1>2, <1>3, <1>4, <1>5, <1>6, <1>7, <1>8 DEF Next, Fault

LEMMA WorldStays ==
  ASSUME [Next]_vars
  PROVE  world' = world
BY DEF Next, vars, Tick, Upsert, Delete, SetEnabled, Poll, ClaimReady,
   ObserveDue, TriggerNow, ClaimDue, TaskStep, StartRun, StartFails, Bind, WaitReturns,
   FollowReturns, RecoverBound, RenewFails, LeaseExpires, DelayPasses, LifeEnds, AsksInput,
   Reconciled, InputGiven, Fault, Interrupt, Crash, HostLost

\* Whatever an attempt is settled as is true of its run, for any jobs,
\* daemons, losses of claims and crashes.
THEOREM OutcomesHold == Spec => []OutcomesAreTrue
<1>1. Init => OutInv
  <2> SUFFICES ASSUME Init PROVE OutInv
    OBVIOUS
  <2>1. Rows = {} /\ DOMAIN life = {}
    BY DEF Init, Rows
  <2>2. left["input"] <= world.budget["input"] /\ left["stall"] <= world.budget["stall"]
    BY BudgetFacts, InvInit DEF Init
  <2> QED BY <2>1, <2>2 DEF Init, OutInv, TaskInv, FaultInv, OutcomesAreTrue, TaskAt
<1>2. Inv /\ OutInv /\ [Next]_vars => OutInv'
  BY InvStep, StepEffect, EffectKeeps, WorldStays DEF Effect
<1>3. OutInv => OutcomesAreTrue
  BY DEF OutInv
<1> QED BY <1>1, <1>2, <1>3, InvInit, InvStep, PTL DEF Spec
=============================================================================
