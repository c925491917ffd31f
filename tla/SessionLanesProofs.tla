------------------------- MODULE SessionLanesProofs -------------------------
(***************************************************************************)
(* Proofs about SessionLanes: for any tasks, sessions, tenants and limits, *)
(* the counters of the admission agree with the tasks, two tasks of one    *)
(* session never own capacity together, no slot is idle while a session is *)
(* ready, and no tenant is passed twice by another one.                    *)
(*                                                                         *)
(* The inductive invariant has one part for the lanes and one for the      *)
(* capacity.  Both rest on a few facts about waiting lines: sequences that *)
(* hold no element twice.                                                  *)
(***************************************************************************)
EXTENDS SessionLanes, SequenceTheorems, FiniteSetTheorems, TLAPS

-----------------------------------------------------------------------------
(***************************************************************************)
(* Waiting lines.                                                          *)
(***************************************************************************)
Line(S) == {s \in Seq(S) : IsInjective(s)}

\* a stands before b in the line
Before(s, a, b) == \E i, j \in DOMAIN s : i < j /\ s[i] = a /\ s[j] = b

\* A line as a sequence.
LEMMA LineIs ==
  ASSUME NEW S, NEW s \in Line(S)
  PROVE  /\ s \in Seq(S) /\ Len(s) \in Nat /\ DOMAIN s = 1..Len(s)
         /\ \A i, j \in 1..Len(s) : s[i] = s[j] => i = j
         /\ ToSet(s) = {s[i] : i \in 1..Len(s)} /\ ToSet(s) \subseteq S
         /\ (s = <<>> <=> Len(s) = 0) /\ (s = <<>> <=> ToSet(s) = {})
         /\ s # <<>> => Head(s) = s[1] /\ Head(s) \in ToSet(s)
         /\ \A a, b : Before(s, a, b) <=>
              \E i, j \in 1..Len(s) : i < j /\ s[i] = a /\ s[j] = b
<1>1. /\ s \in Seq(S) /\ Len(s) \in Nat /\ DOMAIN s = 1..Len(s)
      /\ \A i \in 1..Len(s) : s[i] \in S
  BY DEF Line
<1>2. \A i, j \in 1..Len(s) : s[i] = s[j] => i = j
  BY <1>1 DEF Line, IsInjective
<1>3. ToSet(s) = {s[i] : i \in 1..Len(s)}
  BY <1>1 DEF ToSet
<1>4. s = <<>> <=> Len(s) = 0
  BY <1>1
<1>5. s = <<>> <=> ToSet(s) = {}
  <2>1. s # <<>> => s[1] \in ToSet(s)
    BY <1>1, <1>3, <1>4
  <2>2. Len(s) = 0 => ToSet(s) = {}
    BY <1>1, <1>3
  <2> QED BY <1>4, <2>1, <2>2
<1>6. s # <<>> => Head(s) = s[1] /\ Head(s) \in ToSet(s)
  BY <1>1, <1>3, <1>4
<1> QED
  BY <1>1, <1>2, <1>3, <1>4, <1>5, <1>6 DEF Before

\* What a sequence without repetitions is.
LEMMA IsLine ==
  ASSUME NEW S, NEW s \in Seq(S),
         \A i, j \in 1..Len(s) : s[i] = s[j] => i = j
  PROVE  s \in Line(S)
BY DEF Line, IsInjective

\* Nobody stands before himself, nor both before and behind another.
LEMMA LineIsOrdered ==
  ASSUME NEW S, NEW s \in Line(S), NEW a, NEW b, Before(s, a, b)
  PROVE  /\ a # b /\ ~Before(s, b, a)
         /\ a \in ToSet(s) /\ b \in ToSet(s)
<1>1. PICK i \in 1..Len(s), j \in 1..Len(s) : i < j /\ s[i] = a /\ s[j] = b
  BY LineIs
<1>2. \A k, l \in 1..Len(s) : s[k] = s[l] => k = l
  BY LineIs
<1>3. Len(s) \in Nat /\ ToSet(s) = {s[k] : k \in 1..Len(s)}
  BY LineIs
<1>4. a # b
  BY <1>1, <1>2, <1>3
<1>5. ASSUME Before(s, b, a) PROVE FALSE
  <2>1. PICK k \in 1..Len(s), l \in 1..Len(s) : k < l /\ s[k] = b /\ s[l] = a
    BY <1>5, LineIs
  <2> QED BY <1>1, <1>2, <1>3, <2>1
<1> QED BY <1>1, <1>3, <1>4, <1>5

\* The empty line.
LEMMA EmptyLine ==
  ASSUME NEW S PROVE <<>> \in Line(S) /\ ToSet(<<>>) = {}
<1>1. <<>> \in Seq(S) /\ Len(<<>>) = 0
  OBVIOUS
<1>2. \A i, j \in 1..Len(<<>>) : <<>>[i] = <<>>[j] => i = j
  BY <1>1
<1>3. <<>> \in Line(S)
  BY <1>1, <1>2, IsLine, Zenon
<1> QED BY <1>3, LineIs

\* Somebody new at the end of a line.
LEMMA AppendLine ==
  ASSUME NEW S, NEW s \in Line(S), NEW e \in S, e \notin ToSet(s)
  PROVE  /\ Append(s, e) \in Line(S) /\ ToSet(Append(s, e)) = ToSet(s) \cup {e}
         /\ Head(Append(s, e)) = IF s = <<>> THEN e ELSE Head(s)
         /\ \A a, b : Before(Append(s, e), a, b) =>
              Before(s, a, b) \/ (a \in ToSet(s) /\ b = e)
<1> DEFINE r == Append(s, e)
<1>1. /\ s \in Seq(S) /\ Len(s) \in Nat
      /\ \A i, j \in 1..Len(s) : s[i] = s[j] => i = j
      /\ ToSet(s) = {s[i] : i \in 1..Len(s)}
  BY LineIs
<1>2. /\ r \in Seq(S) /\ Len(r) = Len(s) + 1
      /\ \A i \in 1..Len(s) : r[i] = s[i]
      /\ r[Len(s) + 1] = e
  BY <1>1, AppendProperties
<1>3. Head(r) = IF s = <<>> THEN e ELSE Head(s)
  BY <1>1, HeadTailAppend
<1> HIDE DEF r
<1>4. \A i \in 1..Len(r) : i \in 1..Len(s) \/ i = Len(s) + 1
  BY <1>1, <1>2
<1>5. \A i \in 1..Len(s) : s[i] # e
  BY <1>1
<1>6. ASSUME NEW i \in 1..Len(r), NEW j \in 1..Len(r), r[i] = r[j] PROVE i = j
  BY <1>1, <1>2, <1>4, <1>5, <1>6
<1>7. r \in Line(S)
  BY <1>2, <1>6, IsLine
<1>8. ToSet(r) = {r[i] : i \in 1..Len(r)}
  BY <1>7, LineIs
<1>9. ToSet(r) = ToSet(s) \cup {e}
  <2>1. 1..Len(r) = 1..Len(s) \cup {Len(s) + 1}
    BY <1>1, <1>2
  <2> QED BY <1>1, <1>2, <1>8, <2>1
<1>10. ASSUME NEW a, NEW b, Before(r, a, b)
       PROVE  Before(s, a, b) \/ (a \in ToSet(s) /\ b = e)
  <2>1. PICK i \in 1..Len(r), j \in 1..Len(r) : i < j /\ r[i] = a /\ r[j] = b
    BY <1>7, <1>10, LineIs
  <2>2. i \in 1..Len(s)
    BY <1>1, <1>2, <2>1
  <2>3. CASE j \in 1..Len(s)
    <3>1. s[i] = a /\ s[j] = b
      BY <1>2, <2>1, <2>2, <2>3
    <3> QED BY <2>1, <2>2, <2>3, <3>1, LineIs
  <2>4. CASE j = Len(s) + 1
    BY <1>1, <1>2, <2>1, <2>2, <2>4
  <2> QED BY <1>4, <2>3, <2>4
<1> QED BY <1>3, <1>7, <1>9, <1>10 DEF r

\* The first of a line goes.
LEMMA TailLine ==
  ASSUME NEW S, NEW s \in Line(S), s # <<>>
  PROVE  /\ Tail(s) \in Line(S) /\ ToSet(Tail(s)) = ToSet(s) \ {Head(s)}
         /\ \A a, b : Before(Tail(s), a, b) => Before(s, a, b)
         /\ \A b \in ToSet(s) \ {Head(s)} : Before(s, Head(s), b)
<1> DEFINE r == Tail(s)
<1>1. /\ s \in Seq(S) /\ Len(s) \in Nat \ {0}
      /\ \A i, j \in 1..Len(s) : s[i] = s[j] => i = j
      /\ ToSet(s) = {s[i] : i \in 1..Len(s)} /\ Head(s) = s[1]
  BY LineIs
<1>2. /\ r \in Seq(S) /\ Len(r) = Len(s) - 1
      /\ \A i \in 1..Len(r) : r[i] = s[i + 1]
  BY <1>1, HeadTailProperties
<1> HIDE DEF r
<1>3. \A i \in 1..Len(r) : i + 1 \in 1..Len(s)
  BY <1>1, <1>2
<1>4. ASSUME NEW i \in 1..Len(r), NEW j \in 1..Len(r), r[i] = r[j] PROVE i = j
  BY <1>1, <1>2, <1>3, <1>4
<1>5. r \in Line(S)
  BY <1>2, <1>4, IsLine
<1>6. ToSet(r) = {r[i] : i \in 1..Len(r)}
  BY <1>5, LineIs
<1>7. ToSet(r) = ToSet(s) \ {Head(s)}
  <2>1. ASSUME NEW e \in ToSet(r) PROVE e \in ToSet(s) \ {Head(s)}
    BY <1>1, <1>2, <1>3, <1>6, <2>1
  <2>2. ASSUME NEW e \in ToSet(s) \ {Head(s)} PROVE e \in ToSet(r)
    <3>1. PICK i \in 1..Len(s) : s[i] = e
      BY <1>1, <2>2
    <3>2. i - 1 \in 1..Len(r) /\ (i - 1) + 1 = i
      BY <1>1, <1>2, <2>2, <3>1
    <3>3. r[i - 1] = e
      BY <1>2, <3>1, <3>2
    <3> QED BY <1>6, <3>2, <3>3
  <2> QED BY <2>1, <2>2
<1>8. ASSUME NEW a, NEW b, Before(r, a, b) PROVE Before(s, a, b)
  <2>1. PICK i \in 1..Len(r), j \in 1..Len(r) : i < j /\ r[i] = a /\ r[j] = b
    BY <1>5, <1>8, LineIs
  <2>2. i + 1 \in 1..Len(s) /\ j + 1 \in 1..Len(s) /\ i + 1 < j + 1
    BY <1>3, <2>1
  <2>3. s[i + 1] = a /\ s[j + 1] = b
    BY <1>2, <2>1
  <2> QED BY <2>2, <2>3, LineIs
<1>9. ASSUME NEW b \in ToSet(s) \ {Head(s)} PROVE Before(s, Head(s), b)
  <2>1. PICK j \in 1..Len(s) : s[j] = b
    BY <1>1, <1>9
  <2>2. 1 \in 1..Len(s) /\ 1 < j
    BY <1>1, <1>9, <2>1
  <2> QED BY <1>1, <2>1, <2>2, LineIs
<1> QED BY <1>5, <1>7, <1>8, <1>9 DEF r

\* RemoveFirst takes out the only place of an element.
LEMMA RemovalPlace ==
  ASSUME NEW S, NEW s \in Line(S), NEW e \in ToSet(s)
  PROVE  \E k \in 1..Len(s) :
           /\ s[k] = e
           /\ RemoveFirst(s, e) = SubSeq(s, 1, k - 1) \o SubSeq(s, k + 1, Len(s))
<1>1. PICK k \in 1..Len(s) : s[k] = e
  BY LineIs
<1> DEFINE I == {i \in 1..Len(s) : s[i] = e}
<1>2. I = {k}
  BY <1>1, LineIs
<1>3. SelectInSeq(s, LAMBDA v : v = e) = Min(I)
  BY <1>2 DEF SelectInSeq
<1>4. Min(I) = k
  <2>1. Len(s) \in Nat
    BY LineIs
  <2>2. k <= k
    BY <2>1
  <2> HIDE DEF I
  <2> QED BY <1>2, <2>2 DEF Min
<1> QED BY <1>1, <1>3, <1>4 DEF RemoveFirst, RemoveAt

\* Somebody leaves a line.
LEMMA RemoveLine ==
  ASSUME NEW S, NEW s \in Line(S), NEW e \in ToSet(s)
  PROVE  /\ RemoveFirst(s, e) \in Line(S)
         /\ ToSet(RemoveFirst(s, e)) = ToSet(s) \ {e}
         /\ Head(s) # e => Head(RemoveFirst(s, e)) = Head(s)
         /\ \A a, b : Before(RemoveFirst(s, e), a, b) => Before(s, a, b)
<1> DEFINE r == RemoveFirst(s, e)
<1>1. /\ s \in Seq(S) /\ Len(s) \in Nat
      /\ \A i, j \in 1..Len(s) : s[i] = s[j] => i = j
      /\ ToSet(s) = {s[i] : i \in 1..Len(s)}
      /\ \A i \in 1..Len(s) : s[i] \in S
      /\ s # <<>> /\ Head(s) = s[1]
  BY LineIs
<1>2. PICK k \in 1..Len(s) :
        s[k] = e /\ r = SubSeq(s, 1, k - 1) \o SubSeq(s, k + 1, Len(s))
  BY RemovalPlace
<1> HIDE DEF r
<1> DEFINE u == SubSeq(s, 1, k - 1)
           v == SubSeq(s, k + 1, Len(s))
<1>3. /\ u \in Seq(S) /\ Len(u) = k - 1
      /\ \A i \in 1..(k - 1) : u[i] = s[i]
  <2>1. 1 \in Int /\ k - 1 \in Int /\ \A i \in 1..(k - 1) : s[i] \in S
    BY <1>1
  <2>2. /\ u \in Seq(S) /\ Len(u) = IF 1 <= k - 1 THEN (k - 1) - 1 + 1 ELSE 0
        /\ \A i \in 1..((k - 1) - 1 + 1) : u[i] = s[1 + i - 1]
    BY <2>1, SubSeqProperties
  <2> HIDE DEF u
  <2> QED BY <1>1, <2>2
<1>4. /\ v \in Seq(S) /\ Len(v) = Len(s) - k
      /\ \A i \in 1..(Len(s) - k) : v[i] = s[k + i]
  <2>1. k + 1 \in Int /\ Len(s) \in Int /\ \A i \in (k + 1)..Len(s) : s[i] \in S
    BY <1>1
  <2>2. /\ v \in Seq(S) /\ Len(v) = IF k + 1 <= Len(s) THEN Len(s) - (k + 1) + 1 ELSE 0
        /\ \A i \in 1..(Len(s) - (k + 1) + 1) : v[i] = s[(k + 1) + i - 1]
    BY <2>1, SubSeqProperties
  <2> HIDE DEF v
  <2> QED BY <1>1, <2>2
<1>5. r = u \o v
  BY <1>2
<1> HIDE DEF u, v
<1>6. /\ r \in Seq(S) /\ Len(r) = Len(s) - 1
      /\ \A i \in 1..(Len(s) - 1) : r[i] = IF i < k THEN s[i] ELSE s[i + 1]
  <2>1. /\ r \in Seq(S) /\ Len(r) = Len(u) + Len(v)
        /\ \A i \in 1..(Len(u) + Len(v)) :
             r[i] = IF i <= Len(u) THEN u[i] ELSE v[i - Len(u)]
    BY <1>3, <1>4, <1>5, ConcatProperties
  <2>2. Len(u) + Len(v) = Len(s) - 1
    BY <1>1, <1>3, <1>4
  <2>3. ASSUME NEW i \in 1..(Len(s) - 1), i < k PROVE r[i] = s[i]
    BY <1>1, <1>3, <2>1, <2>2, <2>3
  <2>4. ASSUME NEW i \in 1..(Len(s) - 1), ~(i < k) PROVE r[i] = s[i + 1]
    <3>1. i - Len(u) \in 1..(Len(s) - k) /\ k + (i - Len(u)) = i + 1 /\ ~(i <= Len(u))
      BY <1>1, <1>3, <2>4
    <3>2. r[i] = v[i - Len(u)]
      BY <2>1, <2>2, <3>1
    <3> QED BY <1>4, <3>1, <3>2
  <2> QED BY <2>1, <2>2, <2>3, <2>4
\* The place in s of what stands at i in r
<1> DEFINE At1(i) == IF i < k THEN i ELSE i + 1
<1>7. \A i \in 1..Len(r) : At1(i) \in 1..Len(s) /\ At1(i) # k /\ r[i] = s[At1(i)]
  BY <1>1, <1>6
<1>8. \A i, j \in 1..Len(r) : (At1(i) = At1(j) => i = j) /\ (i < j => At1(i) < At1(j))
  BY <1>1, <1>6
<1>9. \A j \in 1..Len(s) : j # k => \E i \in 1..Len(r) : At1(i) = j
  <2> TAKE j \in 1..Len(s)
  <2> HAVE j # k
  <2>1. CASE j < k
    <3>1. j \in 1..Len(r) /\ At1(j) = j
      BY <1>1, <1>6, <2>1
    <3> QED BY <3>1
  <2>2. CASE ~(j < k)
    <3>1. j - 1 \in 1..Len(r) /\ At1(j - 1) = j
      BY <1>1, <1>6, <2>2
    <3> QED BY <3>1
  <2> QED BY <2>1, <2>2
<1> HIDE DEF At1
<1>10. ASSUME NEW i \in 1..Len(r), NEW j \in 1..Len(r), r[i] = r[j] PROVE i = j
  BY <1>1, <1>7, <1>8, <1>10
<1>11. r \in Line(S)
  BY <1>6, <1>10, IsLine
<1>12. ToSet(r) = {r[i] : i \in 1..Len(r)}
  BY <1>11, LineIs
<1>13. ToSet(r) = ToSet(s) \ {e}
  <2>1. ASSUME NEW x \in ToSet(r) PROVE x \in ToSet(s) \ {e}
    <3>1. PICK i \in 1..Len(r) : r[i] = x
      BY <1>12, <2>1
    <3>2. At1(i) \in 1..Len(s) /\ At1(i) # k /\ s[At1(i)] = x
      BY <1>7, <3>1
    <3> QED BY <1>1, <1>2, <3>2
  <2>2. ASSUME NEW x \in ToSet(s) \ {e} PROVE x \in ToSet(r)
    <3>1. PICK j \in 1..Len(s) : s[j] = x
      BY <1>1, <2>2
    <3>2. PICK i \in 1..Len(r) : At1(i) = j
      BY <1>2, <1>9, <2>2, <3>1
    <3>3. r[i] = x
      BY <1>7, <3>1, <3>2
    <3> QED BY <1>12, <3>3
  <2> QED BY <2>1, <2>2
<1>14. Head(s) # e => Head(r) = Head(s)
  <2> HAVE Head(s) # e
  <2>1. 1 \in 1..Len(s) /\ k # 1 /\ Len(s) # 0
    BY <1>1, <1>2, LineIs
  <2>2. 1 \in 1..(Len(s) - 1) /\ 1 < k /\ Len(r) # 0
    BY <1>1, <1>6, <2>1
  <2>3. r[1] = s[1]
    BY <1>6, <2>2
  <2>4. Head(r) = r[1]
    BY <1>11, <2>2, LineIs
  <2> QED BY <1>1, <2>3, <2>4
<1>15. ASSUME NEW a, NEW b, Before(r, a, b) PROVE Before(s, a, b)
  <2>1. PICK i \in 1..Len(r), j \in 1..Len(r) : i < j /\ r[i] = a /\ r[j] = b
    BY <1>11, <1>15, LineIs
  <2>2. At1(i) \in 1..Len(s) /\ At1(j) \in 1..Len(s) /\ At1(i) < At1(j)
    BY <1>7, <1>8, <2>1
  <2>3. s[At1(i)] = a /\ s[At1(j)] = b
    BY <1>7, <2>1
  <2> QED BY <2>2, <2>3, LineIs
<1> QED BY <1>11, <1>13, <1>14, <1>15 DEF r
-----------------------------------------------------------------------------
(***************************************************************************)
(* Types.                                                                  *)
(***************************************************************************)
Steps    == {"new", "lane", "queued", "granted", "running", "left"}
InLane   == {"lane", "queued", "granted", "running"}   \* refers to a lane
Holding  == {"queued", "granted", "running"}           \* holds its lock
Admitting == {"lane", "queued"}                        \* has a reservation
Owning   == {"granted", "running"}                     \* owns capacity

TypeOK ==
  /\ maxConcurrency \in Limits
  /\ pc \in [Tasks -> Steps]
  /\ lanes \in [Sessions -> Tasks \cup {None}]
  /\ laneOf \in [Tasks -> Tasks \cup {None}]
  /\ lock \in [Tasks -> Line(Tasks)]
  /\ waiting \in [Scopes -> Int]
  /\ active \in Int
  /\ order \in Line(Tenants)
  /\ queue \in [Tenants -> Line(Tasks)]
  /\ passed \in [Tenants -> [Tenants -> {0, 1}]]

-----------------------------------------------------------------------------
(***************************************************************************)
(* The inductive invariant: the lanes.                                     *)
(***************************************************************************)
\* A task refers to a lane from its arrival to its end; the lane is the one
\* the registry has for its session.
Referring ==
  /\ \A t \in Tasks : laneOf[t] # None <=> pc[t] \in InLane
  /\ \A t \in Tasks : laneOf[t] # None => lanes[SessionOf[t]] = laneOf[t]

\* The registry keeps the lanes somebody refers to, and no two sessions share
\* one: a lane is named after the task that created it.
Registered ==
  \A s \in Sessions : lanes[s] # None =>
    SessionOf[lanes[s]] = s /\ References(lanes[s]) # {}

\* Exactly the tasks that refer to a lane are in its lock, and one that went
\* on to the capacity is the first of them.
Locked ==
  /\ \A l \in Tasks : ToSet(lock[l]) = References(l)
  /\ \A t \in Tasks : pc[t] \in Holding => Head(lock[laneOf[t]]) = t

LaneInv == Referring /\ Registered /\ Locked

-----------------------------------------------------------------------------
(***************************************************************************)
(* The inductive invariant: the capacity.                                  *)
(***************************************************************************)
\* Queues and turns agree with the tasks.
Waiters(n) == {t \in Tasks : TenantOf[t] = n /\ pc[t] = "queued"}
Queued ==
  /\ \A n \in Tenants : ToSet(queue[n]) = Waiters(n)
  /\ ToSet(order) = {n \in Tenants : queue[n] # <<>>}

\* The counters agree with the tasks and the limits.
Reserved(x) == {t \in At(Admitting) : x \in ScopesOf(t)}
Counted ==
  /\ active = Cardinality(At(Owning)) /\ active <= maxConcurrency
  /\ \A x \in Scopes : waiting[x] = Cardinality(Reserved(x))
Bounded ==
  /\ waiting["process"] <= MaxWaiting
  /\ \A s \in Sessions : waiting[s] <= MaxPerSession
  /\ \A n \in Tenants : waiting[n] <= MaxPerTenant

\* Who has been passed by a tenant is ready, and that tenant does not stand
\* before it any more.
InTurn ==
  \A n, m \in Tenants : passed[n][m] = 1 =>
    n \in ToSet(order) /\ n # m /\ ~Before(order, m, n)

CapacityInv == Queued /\ Counted /\ Bounded /\ WorkConserving /\ InTurn

Inv == TypeOK /\ LaneInv /\ CapacityInv
-----------------------------------------------------------------------------
(***************************************************************************)
(* The steps without the records: what the helpers of the capacity do to   *)
(* each variable.                                                          *)
(***************************************************************************)
Dropped(t) ==
  [x \in Scopes |-> IF x \in ScopesOf(t) THEN waiting[x] - 1 ELSE waiting[x]]

RunsNow(t) ==
  /\ pc[t] = "lane" /\ HoldsLane(t) /\ RunsAtOnce
  /\ pc' = [pc EXCEPT ![t] = "running"]
  /\ waiting' = Dropped(t) /\ active' = active + 1
  /\ UNCHANGED <<order, queue, passed, laneVars>>

Queues(t) ==
  LET n == TenantOf[t] IN
  /\ pc[t] = "lane" /\ HoldsLane(t) /\ ~RunsAtOnce
  /\ pc' = [pc EXCEPT ![t] = "queued"]
  /\ order' = IF queue[n] = <<>> THEN Append(order, n) ELSE order
  /\ queue' = [queue EXCEPT ![n] = Append(queue[n], t)]
  /\ UNCHANGED <<waiting, active, passed, laneVars>>

DropsLane(t) ==
  /\ pc[t] = "lane"
  /\ pc' = [pc EXCEPT ![t] = "left"]
  /\ waiting' = Dropped(t)
  /\ UNCHANGED <<active, order, queue, passed>>
  /\ ExitLane(t)

DropsQueued(t) ==
  LET n == TenantOf[t]
      left == RemoveFirst(queue[n], t) IN
  /\ pc[t] = "queued"
  /\ pc' = [pc EXCEPT ![t] = "left"]
  /\ waiting' = Dropped(t)
  /\ order' = IF left = <<>> THEN RemoveFirst(order, n) ELSE order
  /\ queue' = [queue EXCEPT ![n] = left]
  /\ passed' = IF left = <<>> THEN [passed EXCEPT ![n] = [m \in Tenants |-> 0]] ELSE passed
  /\ UNCHANGED active
  /\ ExitLane(t)

Releases(t) ==
  /\ pc[t] \in Owning /\ order = <<>>
  /\ pc' = [pc EXCEPT ![t] = "left"]
  /\ active' = active - 1
  /\ UNCHANGED <<waiting, order, queue, passed>>
  /\ ExitLane(t)

HandsOver(t) ==
  LET n == Head(order)
      u == Head(queue[n]) IN
  /\ pc[t] \in Owning /\ order # <<>>
  /\ pc' = [[pc EXCEPT ![u] = "granted"] EXCEPT ![t] = "left"]
  /\ waiting' = Dropped(u) /\ active' = active - 1 + 1
  /\ order' = Turn(order, n, Tail(queue[n]) # <<>>)
  /\ queue' = [queue EXCEPT ![n] = Tail(queue[n])]
  /\ passed' = PassedBy(Capacity, n)
  /\ ExitLane(t)

\* The fields of the current capacity, and what Become makes of a record.
LEMMA CapacityIs ==
  /\ Capacity.pc = pc /\ Capacity.waiting = waiting /\ Capacity.active = active
  /\ Capacity.order = order /\ Capacity.queue = queue /\ Capacity.passed = passed
BY DEF Capacity

\* _consume_waiting_locked changes the counters of the waiters only.
LEMMA ConsumeIs ==
  ASSUME NEW t
  PROVE  Consume(Capacity, t) =
           [pc |-> pc, waiting |-> Dropped(t), active |-> active,
            order |-> order, queue |-> queue, passed |-> passed]
BY DEF Consume, Capacity, Dropped

\* A task takes its capacity at once.
LEMMA TakesNow ==
  ASSUME NEW t \in Tasks, TakeCapacity(t), RunsAtOnce
  PROVE  RunsNow(t)
<1> DEFINE c == Consume(Capacity, t)
           d == [c EXCEPT !.pc[t] = "running", !.active = @ + 1]
<1>1. c = [pc |-> pc, waiting |-> Dropped(t), active |-> active,
           order |-> order, queue |-> queue, passed |-> passed]
  BY ConsumeIs
<1>2. Become(d)
  BY DEF TakeCapacity
<1> HIDE DEF c
<1>3. d.pc = [pc EXCEPT ![t] = "running"]
  BY <1>1
<1>4. d.waiting = Dropped(t)
  BY <1>1
<1>5. d.active = active + 1
  BY <1>1
<1>6. d.order = order /\ d.queue = queue /\ d.passed = passed
  BY <1>1
<1> HIDE DEF d
<1> QED BY <1>2, <1>3, <1>4, <1>5, <1>6 DEF RunsNow, Become, TakeCapacity

\* A task that waits for capacity is given none at once: what keeps it from
\* running keeps everybody ahead of it from being granted.
LEMMA TakesLater ==
  ASSUME NEW t \in Tasks, TakeCapacity(t), ~RunsAtOnce, TypeOK, CapacityInv
  PROVE  Queues(t)
<1> DEFINE n == TenantOf[t]
           q == Queue(Capacity, t)
<1>1. Become(Grant(q))
  BY DEF TakeCapacity
<1>2. q.active = active
  BY DEF Queue, Capacity
<1>3. ~(active < maxConcurrency)
  <2>1. active \in Int /\ active <= maxConcurrency /\ maxConcurrency \in Nat
    BY LimitsNest DEF TypeOK, CapacityInv, Counted
  <2>2. order # <<>> => active = maxConcurrency
    BY DEF CapacityInv, WorkConserving
  <2> QED BY <2>1, <2>2 DEF RunsAtOnce
<1>4. Grant(q) = q
  BY <1>2, <1>3 DEF Grant
<1>5. q.pc = [pc EXCEPT ![t] = "queued"]
  BY DEF Queue, Capacity
<1>6. q.waiting = waiting /\ q.passed = passed
  BY DEF Queue, Capacity
<1>7. q.order = IF queue[n] = <<>> THEN Append(order, n) ELSE order
  BY DEF Queue, Capacity
<1>8. q.queue = [queue EXCEPT ![n] = Append(queue[n], t)]
  BY DEF Queue, Capacity
<1> HIDE DEF q
<1> QED
  BY <1>1, <1>2, <1>4, <1>5, <1>6, <1>7, <1>8 DEF Queues, Become, TakeCapacity

\* The end of a task that still waits for its lane.
LEMMA AbandonsLane ==
  ASSUME NEW t \in Tasks, AbandonLane(t)
  PROVE  DropsLane(t)
<1> DEFINE c == Consume(Capacity, t)
           d == [c EXCEPT !.pc[t] = "left"]
<1>1. c = [pc |-> pc, waiting |-> Dropped(t), active |-> active,
           order |-> order, queue |-> queue, passed |-> passed]
  BY ConsumeIs
<1>2. Become(d) /\ ExitLane(t) /\ pc[t] = "lane"
  BY DEF AbandonLane, Leave
<1> HIDE DEF c
<1>3. d.pc = [pc EXCEPT ![t] = "left"]
  BY <1>1
<1>4. d.waiting = Dropped(t) /\ d.active = active
  BY <1>1
<1>5. d.order = order /\ d.queue = queue /\ d.passed = passed
  BY <1>1
<1> HIDE DEF d
<1> QED BY <1>2, <1>3, <1>4, <1>5 DEF DropsLane, Become

\* The end of a task that waits for capacity.
LEMMA AbandonsQueued ==
  ASSUME NEW t \in Tasks, AbandonQueued(t), TypeOK
  PROVE  DropsQueued(t)
<1> DEFINE n == TenantOf[t]
           left == RemoveFirst(queue[n], t)
           b == RemoveWaiter(Capacity, t)
           c == Consume(b, t)
           d == [c EXCEPT !.pc[t] = "left"]
<1>1. b.pc = pc /\ b.waiting = waiting /\ b.active = active
  BY DEF RemoveWaiter, Capacity
<1>2. b.order = IF left = <<>> THEN RemoveFirst(order, n) ELSE order
  BY DEF RemoveWaiter, Capacity
<1>3. b.queue = [queue EXCEPT ![n] = left]
  BY DEF RemoveWaiter, Capacity
<1>4. b.passed = [passed EXCEPT ![n] = IF left = <<>> THEN [m \in Tenants |-> 0] ELSE passed[n]]
  BY DEF RemoveWaiter, Capacity
<1>5. b.passed = IF left = <<>> THEN [passed EXCEPT ![n] = [m \in Tenants |-> 0]] ELSE passed
  <2>1. CASE left = <<>>
    BY <1>4, <2>1
  <2>2. CASE left # <<>>
    BY <1>4, <2>2 DEF TypeOK
  <2> QED BY <2>1, <2>2
<1>6. b = [b EXCEPT !.waiting = waiting]
  BY <1>1 DEF RemoveWaiter, Capacity
<1> HIDE DEF b
<1>7. c = [b EXCEPT !.waiting = Dropped(t)]
  BY <1>1 DEF Consume, Dropped
<1>8. Become(d) /\ ExitLane(t) /\ pc[t] = "queued"
  BY DEF AbandonQueued, Leave, b
<1> HIDE DEF c
<1> QED
  <2>1. c.pc = pc /\ c.active = active /\ c.order = b.order /\ c.queue = b.queue
        /\ c.passed = b.passed /\ c.waiting = Dropped(t)
    BY <1>1, <1>6, <1>7
  <2>2. d.pc = [pc EXCEPT ![t] = "left"]
    BY <1>1, <1>6, <1>7, <2>1
  <2>3. d.active = active /\ d.order = b.order /\ d.queue = b.queue
        /\ d.passed = b.passed /\ d.waiting = Dropped(t)
    BY <1>1, <1>6, <1>7, <2>1
  <2> HIDE DEF d, left
  <2> QED BY <1>2, <1>3, <1>5, <1>8, <2>2, <2>3 DEF DropsQueued, Become, left
\* The end of a task that owns capacity while nobody is ready, and when the
\* slot goes to the first tenant's oldest waiter.
LEMMA Freed ==
  ASSUME NEW t \in Tasks, AbandonGranted(t) \/ Finish(t), TypeOK, CapacityInv
  PROVE  Releases(t) \/ HandsOver(t)
<1> DEFINE c == Deactivate(Capacity, t)
<1>1. /\ pc[t] \in Owning /\ ExitLane(t)
      /\ Become([Grant(c) EXCEPT !.pc[t] = "left"])
  BY DEF AbandonGranted, Finish, Leave, Owning
<1>2. c = [pc |-> pc, waiting |-> waiting, active |-> active - 1,
           order |-> order, queue |-> queue, passed |-> passed]
  BY DEF Deactivate, Capacity
<1> HIDE DEF c
<1>3. CASE order = <<>>
  <2>1. Grant(c) = c
    BY <1>2, <1>3 DEF Grant
  <2> DEFINE d == [c EXCEPT !.pc[t] = "left"]
  <2>2. d.pc = [pc EXCEPT ![t] = "left"] /\ d.waiting = waiting
    BY <1>2
  <2>3. d.active = active - 1 /\ d.order = order
    BY <1>2
  <2>4. d.queue = queue /\ d.passed = passed
    BY <1>2
  <2>5. Become(d)
    BY <1>1, <2>1
  <2> HIDE DEF d
  <2> QED BY <1>1, <1>3, <2>2, <2>3, <2>4, <2>5 DEF Releases, Become
<1>4. CASE order # <<>>
  <2> DEFINE n == Head(order)
             u == Head(queue[n])
             b == Consume(c, u)
             g == GrantOne(c)
             d == [g EXCEPT !.pc[t] = "left"]
  <2>1. active \in Int /\ maxConcurrency \in Int /\ active = maxConcurrency
    BY <1>4, LimitsNest DEF TypeOK, CapacityInv, WorkConserving
  <2>2. Grant(c) = g
    <3>1. c.active < maxConcurrency /\ c.order # <<>>
      BY <1>2, <1>4, <2>1
    <3> QED BY <3>1 DEF Grant
  <2>3. b = [pc |-> pc, waiting |-> Dropped(u), active |-> active - 1,
             order |-> order, queue |-> queue, passed |-> passed]
    BY <1>2 DEF Consume, Dropped
  <2>4. PassedBy(c, n) = PassedBy(Capacity, n)
    BY <1>2 DEF PassedBy, Capacity
  <2>5. g = [b EXCEPT !.pc[u] = "granted", !.active = @ + 1,
                      !.order = Turn(@, n, Tail(queue[n]) # <<>>),
                      !.queue[n] = Tail(@), !.passed = PassedBy(Capacity, n)]
    BY <1>2, <2>4 DEF GrantOne
  <2> HIDE DEF b
  <2>6. g.pc = [pc EXCEPT ![u] = "granted"]
    BY <2>3, <2>5
  <2>7. g.waiting = Dropped(u)
    BY <2>3, <2>5
  <2>8. g.active = active - 1 + 1
    BY <2>3, <2>5
  <2>9. g.order = Turn(order, n, Tail(queue[n]) # <<>>)
    BY <2>3, <2>5
  <2>10. g.queue = [queue EXCEPT ![n] = Tail(queue[n])]
    BY <2>3, <2>5
  <2>11. g.passed = PassedBy(Capacity, n)
    BY <2>3, <2>5
  <2>12. "pc" \in DOMAIN g
    BY <2>3, <2>5
  <2> HIDE DEF g
  <2>13. d.pc = [[pc EXCEPT ![u] = "granted"] EXCEPT ![t] = "left"]
    BY <2>6, <2>12
  <2>14. d.waiting = g.waiting /\ d.active = g.active /\ d.order = g.order
         /\ d.queue = g.queue /\ d.passed = g.passed
    BY <2>12
  <2>15. Become(d)
    BY <1>1, <2>2
  <2> HIDE DEF d
  <2> QED
    BY <1>1, <1>4, <2>7, <2>8, <2>9, <2>10, <2>11, <2>13, <2>14, <2>15
    DEF HandsOver, Become
<1> QED BY <1>3, <1>4

\* Every step, without the records.
Step(t) ==
  \/ Reject(t) \/ Arrive(t) \/ RunsNow(t) \/ Queues(t) \/ Resume(t)
  \/ DropsLane(t) \/ DropsQueued(t) \/ Releases(t) \/ HandsOver(t)

LEMMA EveryStep ==
  ASSUME Inv, Next
  PROVE  UNCHANGED maxConcurrency /\ \E t \in Tasks : Step(t)
<1>1. PICK t \in Tasks : Reject(t) \/ Arrive(t) \/ Proceed(t) \/ Abandon(t)
  BY DEF Next
<1>2. Step(t)
  <2>1. CASE TakeCapacity(t)
    BY <2>1, TakesNow, TakesLater DEF Inv, Step
  <2>2. CASE AbandonLane(t)
    BY <2>2, AbandonsLane DEF Step
  <2>3. CASE AbandonQueued(t)
    BY <2>3, AbandonsQueued DEF Inv, Step
  <2>4. CASE AbandonGranted(t) \/ Finish(t)
    BY <2>4, Freed DEF Inv, Step
  <2> QED BY <1>1, <2>1, <2>2, <2>3, <2>4 DEF Proceed, Abandon, Step
<1> QED BY <1>2 DEF Next
-----------------------------------------------------------------------------
(***************************************************************************)
(* The lanes.                                                              *)
(***************************************************************************)
LaneTypes ==
  /\ lanes \in [Sessions -> Tasks \cup {None}]
  /\ laneOf \in [Tasks -> Tasks \cup {None}]
  /\ lock \in [Tasks -> Line(Tasks)]

\* What the lane of a task is while it refers to one.
LEMMA LaneOfTask ==
  ASSUME TypeOK, LaneInv, NEW t \in Tasks, pc[t] \in InLane
  PROVE  /\ laneOf[t] \in Tasks /\ SessionOf[t] \in Sessions
         /\ lanes[SessionOf[t]] = laneOf[t] /\ SessionOf[laneOf[t]] = SessionOf[t]
         /\ t \in ToSet(lock[laneOf[t]]) /\ lock[laneOf[t]] \in Line(Tasks)
<1>1. SessionOf[t] \in Sessions
  BY DEF Sessions
<1>2. laneOf[t] \in Tasks /\ laneOf[t] # None /\ lanes[SessionOf[t]] = laneOf[t]
  BY NoneIsNoTask DEF TypeOK, LaneInv, Referring
<1>3. SessionOf[laneOf[t]] = SessionOf[t]
  BY <1>1, <1>2 DEF LaneInv, Registered
<1>4. t \in References(laneOf[t])
  BY DEF References
<1> QED BY <1>1, <1>2, <1>3, <1>4 DEF LaneInv, Locked, TypeOK

\* Steps among the tasks that refer to a lane: only the first of its lock goes
\* on to the capacity.
LEMMA LanesStay ==
  ASSUME TypeOK, LaneInv, UNCHANGED laneVars,
         \A v \in Tasks : pc'[v] \in InLane <=> pc[v] \in InLane,
         \A v \in Tasks : pc'[v] \in Holding => pc[v] \in Holding \/ HoldsLane(v)
  PROVE  LaneTypes' /\ LaneInv'
<1> USE DEF laneVars
<1>1. LaneTypes'
  BY DEF TypeOK, LaneTypes
<1>2. References(None)' = References(None) /\ \A l \in Tasks : References(l)' = References(l)
  BY DEF References
<1>3. Referring'
  BY DEF LaneInv, Referring
<1>4. Registered'
  <2> SUFFICES ASSUME NEW s \in Sessions, lanes'[s] # None
      PROVE SessionOf[lanes'[s]] = s /\ References(lanes[s])' # {}
    BY DEF Registered
  <2>1. lanes[s] \in Tasks /\ lanes'[s] = lanes[s]
    BY DEF TypeOK
  <2> QED BY <1>2, <2>1 DEF LaneInv, Registered
<1>5. Locked'
  <2>1. \A l \in Tasks : ToSet(lock'[l]) = References(l)'
    BY <1>2 DEF LaneInv, Locked
  <2>2. \A t \in Tasks : pc'[t] \in Holding => Head(lock'[laneOf'[t]]) = t
    BY DEF LaneInv, Locked, HoldsLane
  <2> QED BY <2>1, <2>2 DEF Locked
<1> QED BY <1>1, <1>3, <1>4, <1>5 DEF LaneInv

\* An arrival.
LEMMA LanesEnter ==
  ASSUME TypeOK, LaneInv, NEW t \in Tasks, pc[t] = "new",
         pc' = [pc EXCEPT ![t] = "lane"], Enter(t)
  PROVE  LaneTypes' /\ LaneInv'
<1> DEFINE s == SessionOf[t]
           l == IF lanes[s] = None THEN t ELSE lanes[s]
<1>1. /\ lanes' = [lanes EXCEPT ![s] = l]
      /\ laneOf' = [laneOf EXCEPT ![t] = l]
      /\ lock' = [lock EXCEPT ![l] = Append(lock[l], t)]
  BY DEF Enter
<1>2. s \in Sessions /\ l \in Tasks /\ SessionOf[l] = s /\ l # None
  BY NoneIsNoTask DEF Sessions, TypeOK, LaneInv, Registered
<1>3. lanes[s] = None \/ lanes[s] = l
  OBVIOUS
<1>4. laneOf[t] = None
  BY DEF LaneInv, Referring, InLane
<1>5. ASSUME NEW u \in Tasks, laneOf[u] = l PROVE lanes[s] = l /\ SessionOf[u] = s
  <2>1. lanes[SessionOf[u]] = l /\ SessionOf[u] \in Sessions
    BY <1>2, <1>5 DEF LaneInv, Referring, Sessions
  <2>2. SessionOf[l] = SessionOf[u]
    BY <1>2, <2>1 DEF LaneInv, Registered
  <2> QED BY <1>2, <2>1, <2>2
<1> HIDE DEF s, l
<1>6. t \notin ToSet(lock[l]) /\ lock[l] \in Line(Tasks)
  BY <1>2, <1>4 DEF LaneInv, Locked, References, TypeOK
<1>7. /\ Append(lock[l], t) \in Line(Tasks)
      /\ ToSet(Append(lock[l], t)) = ToSet(lock[l]) \cup {t}
      /\ Head(Append(lock[l], t)) = IF lock[l] = <<>> THEN t ELSE Head(lock[l])
  BY <1>6, AppendLine
<1>8. LaneTypes'
  BY <1>1, <1>2, <1>7 DEF TypeOK, LaneTypes
<1>9. \A m \in Tasks : References(m)' = IF m = l THEN References(m) \cup {t} ELSE References(m)
  BY <1>1, <1>4, NoneIsNoTask DEF References, TypeOK
<1>10. Referring'
  <2> SUFFICES ASSUME NEW u \in Tasks
      PROVE /\ laneOf'[u] # None <=> pc'[u] \in InLane
            /\ laneOf'[u] # None => lanes'[SessionOf[u]] = laneOf'[u]
    BY DEF Referring
  <2>0. SessionOf[u] \in Sessions
    BY DEF Sessions
  <2>1. CASE u = t
    <3>1. pc'[u] = "lane" /\ laneOf'[u] = l /\ lanes'[s] = l
      BY <1>1, <1>2, <2>1 DEF TypeOK
    <3> QED BY <1>2, <2>1, <3>1 DEF InLane, s
  <2>2. CASE u # t
    <3>1. pc'[u] = pc[u] /\ laneOf'[u] = laneOf[u]
      BY <1>1, <2>2 DEF TypeOK
    <3>2. laneOf[u] # None => lanes[SessionOf[u]] = laneOf[u]
      BY DEF LaneInv, Referring
    <3>3. laneOf[u] # None => lanes'[SessionOf[u]] = laneOf[u]
      BY <1>1, <1>3, <2>0, <3>2 DEF TypeOK
    <3> QED BY <3>1, <3>3 DEF LaneInv, Referring
  <2> QED BY <2>1, <2>2
<1>11. Registered'
  <2> SUFFICES ASSUME NEW r \in Sessions, lanes'[r] # None
      PROVE SessionOf[lanes'[r]] = r /\ References(lanes[r])' # {}
    BY DEF Registered
  <2>1. CASE r = s
    <3>1. lanes'[r] = l
      BY <1>1, <1>2, <2>1 DEF TypeOK
    <3>2. laneOf'[t] = lanes'[r]
      BY <1>1, <3>1 DEF TypeOK
    <3>3. t \in References(lanes[r])'
      BY <3>2 DEF References
    <3> QED BY <1>2, <2>1, <3>1, <3>3
  <2>2. CASE r # s
    <3>1. lanes'[r] = lanes[r] /\ lanes[r] \in Tasks
      BY <1>1, <2>2 DEF TypeOK
    <3>2. SessionOf[lanes[r]] = r /\ References(lanes[r]) # {}
      BY <3>1 DEF LaneInv, Registered
    <3>3. References(lanes[r])' = {u \in Tasks : laneOf'[u] = lanes'[r]}
      BY DEF References
    <3>4. References(lanes[r]) \subseteq {u \in Tasks : laneOf'[u] = lanes'[r]}
      BY <1>1, <1>4, <3>1, NoneIsNoTask DEF References, TypeOK
    <3> QED BY <3>1, <3>2, <3>3, <3>4
  <2> QED BY <2>1, <2>2
<1>12. Locked'
  <2>1. ASSUME NEW m \in Tasks PROVE ToSet(lock'[m]) = References(m)'
    <3>1. lock'[m] = IF m = l THEN Append(lock[l], t) ELSE lock[m]
      BY <1>1, <1>2 DEF TypeOK
    <3> QED BY <1>7, <1>9, <3>1 DEF LaneInv, Locked
  <2>2. ASSUME NEW u \in Tasks, pc'[u] \in Holding PROVE Head(lock'[laneOf'[u]]) = u
    <3>1. u # t /\ pc[u] \in Holding /\ laneOf'[u] = laneOf[u]
      BY <1>1, <2>2 DEF TypeOK, Holding
    <3>2. pc[u] \in InLane
      BY <3>1 DEF Holding, InLane
    <3>3. laneOf[u] \in Tasks /\ Head(lock[laneOf[u]]) = u /\ u \in ToSet(lock[laneOf[u]])
      BY <3>1, <3>2, LaneOfTask DEF LaneInv, Locked
    <3>4. CASE laneOf[u] = l
      <4>1. lock[l] # <<>>
        BY <1>6, <3>3, <3>4, LineIs
      <4>2. lock'[l] = Append(lock[l], t)
        BY <1>1, <1>2 DEF TypeOK
      <4> QED BY <1>7, <3>1, <3>3, <3>4, <4>1, <4>2
    <3>5. CASE laneOf[u] # l
      BY <1>1, <3>1, <3>3, <3>5 DEF TypeOK
    <3> QED BY <3>4, <3>5
  <2> QED BY <2>1, <2>2 DEF Locked
<1> QED BY <1>8, <1>10, <1>11, <1>12 DEF LaneInv

\* An end.  The lane goes with its last reference, and with nobody else's.
LEMMA LanesExit ==
  ASSUME TypeOK, LaneInv, NEW t \in Tasks, pc[t] \in InLane, ExitLane(t),
         pc'[t] = "left",
         \A v \in Tasks \ {t} : /\ pc'[v] \in InLane <=> pc[v] \in InLane
                                /\ pc'[v] \in Holding => pc[v] \in Holding
  PROVE  LaneTypes' /\ LaneInv'
<1> DEFINE s == SessionOf[t]
           l == laneOf[t]
<1>1. /\ lock' = [lock EXCEPT ![l] = RemoveFirst(lock[l], t)]
      /\ lanes' = IF Forgotten(t) THEN [lanes EXCEPT ![s] = None] ELSE lanes
      /\ laneOf' = [laneOf EXCEPT ![t] = None]
  BY DEF ExitLane
<1>2. /\ l \in Tasks /\ l # None /\ s \in Sessions /\ lanes[s] = l /\ SessionOf[l] = s
      /\ t \in ToSet(lock[l]) /\ lock[l] \in Line(Tasks)
  BY LaneOfTask, NoneIsNoTask
<1>3. Forgotten(t) <=> References(l) = {t}
  BY DEF Forgotten
<1> HIDE DEF s, l
<1>4. /\ RemoveFirst(lock[l], t) \in Line(Tasks)
      /\ ToSet(RemoveFirst(lock[l], t)) = ToSet(lock[l]) \ {t}
      /\ Head(lock[l]) # t => Head(RemoveFirst(lock[l], t)) = Head(lock[l])
  BY <1>2, RemoveLine
<1>5. LaneTypes'
  BY <1>1, <1>2, <1>4 DEF TypeOK, LaneTypes
<1>6. \A m \in Tasks : References(m)' = References(m) \ {t}
  BY <1>1, <1>2, NoneIsNoTask DEF References, TypeOK
<1>7. \A m \in Tasks : m # l => t \notin References(m)
  BY DEF References, l
<1>8. Referring'
  <2> SUFFICES ASSUME NEW u \in Tasks
      PROVE /\ laneOf'[u] # None <=> pc'[u] \in InLane
            /\ laneOf'[u] # None => lanes'[SessionOf[u]] = laneOf'[u]
    BY DEF Referring
  <2>1. CASE u = t
    BY <1>1, <2>1 DEF TypeOK, InLane
  <2>2. CASE u # t
    <3>1. laneOf'[u] = laneOf[u] /\ (pc'[u] \in InLane <=> pc[u] \in InLane)
      BY <1>1, <2>2 DEF TypeOK
    <3>2. ASSUME laneOf[u] # None PROVE lanes'[SessionOf[u]] = laneOf[u]
      <4>1. lanes[SessionOf[u]] = laneOf[u] /\ SessionOf[u] \in Sessions
        BY <3>2 DEF LaneInv, Referring, Sessions
      <4>2. SessionOf[u] = s => u \in References(l)
        BY <1>2, <4>1 DEF References
      <4>3. SessionOf[u] = s => ~Forgotten(t)
        BY <1>3, <2>2, <4>2
      <4> QED BY <1>1, <4>1, <4>3 DEF TypeOK
    <3> QED BY <3>1, <3>2 DEF LaneInv, Referring
  <2> QED BY <2>1, <2>2
<1>9. Registered'
  <2> SUFFICES ASSUME NEW r \in Sessions, lanes'[r] # None
      PROVE SessionOf[lanes'[r]] = r /\ References(lanes[r])' # {}
    BY DEF Registered
  <2>1. lanes'[r] = lanes[r] /\ lanes[r] \in Tasks /\ (r = s => ~Forgotten(t))
    BY <1>1, <1>2 DEF TypeOK
  <2>2. SessionOf[lanes[r]] = r /\ References(lanes[r]) # {}
    BY <2>1, NoneIsNoTask DEF LaneInv, Registered
  <2>3. References(lanes[r])' = References(lanes[r]) \ {t}
    <3>1. References(lanes[r])' = {u \in Tasks : laneOf'[u] = lanes'[r]}
      BY DEF References
    <3>2. {u \in Tasks : laneOf'[u] = lanes'[r]} = References(lanes[r]) \ {t}
      BY <1>1, <2>1, NoneIsNoTask DEF References, TypeOK
    <3> QED BY <3>1, <3>2
  <2>4. References(lanes[r]) # {t}
    <3>1. CASE r = s
      BY <1>2, <1>3, <2>1, <3>1
    <3>2. CASE r # s
      BY <1>2, <1>7, <2>1, <2>2, <3>2
    <3> QED BY <3>1, <3>2
  <2> QED BY <2>1, <2>2, <2>3, <2>4
<1>10. Locked'
  <2>1. ASSUME NEW m \in Tasks PROVE ToSet(lock'[m]) = References(m)'
    <3>1. lock'[m] = IF m = l THEN RemoveFirst(lock[l], t) ELSE lock[m]
      BY <1>1, <1>2 DEF TypeOK
    <3>2. ToSet(lock[m]) = References(m)
      BY DEF LaneInv, Locked
    <3> QED BY <1>4, <1>6, <1>7, <3>1, <3>2
  <2>2. ASSUME NEW u \in Tasks, pc'[u] \in Holding PROVE Head(lock'[laneOf'[u]]) = u
    <3>1. u # t /\ pc[u] \in Holding /\ laneOf'[u] = laneOf[u]
      BY <1>1, <2>2 DEF TypeOK, Holding
    <3>2. laneOf[u] \in Tasks /\ Head(lock[laneOf[u]]) = u
      BY <3>1, LaneOfTask DEF LaneInv, Locked, Holding, InLane
    <3>3. lock'[laneOf[u]] = IF laneOf[u] = l THEN RemoveFirst(lock[l], t) ELSE lock[laneOf[u]]
      BY <1>1, <1>2, <3>2 DEF TypeOK
    <3> QED BY <1>4, <3>1, <3>2, <3>3
  <2> QED BY <2>1, <2>2 DEF Locked
<1> QED BY <1>5, <1>8, <1>9, <1>10 DEF LaneInv
-----------------------------------------------------------------------------
(***************************************************************************)
(* The counters.                                                           *)
(***************************************************************************)
LEMMA CountsAreFinite ==
  /\ \A S : IsFiniteSet(At(S)) /\ IsFiniteSet(At(S))'
  /\ \A x : IsFiniteSet(Reserved(x)) /\ IsFiniteSet(Reserved(x))'
<1>1. \A S : At(S) \subseteq Tasks /\ At(S)' \subseteq Tasks
  BY DEF At
<1>2. \A x : Reserved(x) \subseteq Tasks /\ Reserved(x)' \subseteq Tasks
  BY DEF Reserved, At
<1> QED BY <1>1, <1>2, TasksFinite, FS_Subset

\* One more in a finite set, one less, and one for another.
LEMMA CountChanges ==
  ASSUME NEW S, NEW T, NEW e, IsFiniteSet(S)
  PROVE  /\ Cardinality(S) \in Nat
         /\ e \notin S /\ T = S \cup {e} => Cardinality(T) = Cardinality(S) + 1
         /\ e \in S /\ T = S \ {e} => Cardinality(T) = Cardinality(S) - 1
         /\ e \in S => Cardinality(S) >= 1
         /\ \A f : e \in S /\ f \notin S /\ T = (S \ {e}) \cup {f} =>
              Cardinality(T) = Cardinality(S)
<1>1. Cardinality(S) \in Nat /\ Cardinality(S \ {e}) \in Nat /\ IsFiniteSet(S \ {e})
  BY FS_CardinalityType, FS_RemoveElement
<1>2. Cardinality(S \cup {e}) = IF e \in S THEN Cardinality(S) ELSE Cardinality(S) + 1
  BY FS_AddElement
<1>3. Cardinality(S \ {e}) = IF e \in S THEN Cardinality(S) - 1 ELSE Cardinality(S)
  BY FS_RemoveElement
<1>4. ASSUME NEW f, e \in S, f \notin S
      PROVE  Cardinality((S \ {e}) \cup {f}) = Cardinality(S)
  <2>1. f \notin S \ {e}
    BY <1>4
  <2>2. Cardinality((S \ {e}) \cup {f}) = Cardinality(S \ {e}) + 1
    BY <1>1, <2>1, FS_AddElement
  <2> QED BY <1>1, <1>3, <1>4, <2>2
<1> QED BY <1>1, <1>2, <1>3, <1>4

\* The tasks that own capacity, when one task enters or leaves.
LEMMA OwnersStay ==
  ASSUME Counted, active' = active, UNCHANGED maxConcurrency,
         \A v \in Tasks : pc'[v] \in Owning <=> pc[v] \in Owning
  PROVE  active' = Cardinality(At(Owning))' /\ active' <= maxConcurrency'
<1>1. At(Owning)' = At(Owning)
  BY DEF At
<1> QED BY <1>1 DEF Counted

LEMMA OwnersGain ==
  ASSUME TypeOK, Counted, active' = active + 1, UNCHANGED maxConcurrency,
         active < maxConcurrency,
         NEW t \in Tasks, pc[t] \notin Owning, pc'[t] \in Owning,
         \A v \in Tasks \ {t} : pc'[v] \in Owning <=> pc[v] \in Owning
  PROVE  active' = Cardinality(At(Owning))' /\ active' <= maxConcurrency'
<1>1. At(Owning)' = At(Owning) \cup {t} /\ t \notin At(Owning)
  BY DEF At
<1>2. Cardinality(At(Owning)') = Cardinality(At(Owning)) + 1
  BY <1>1, CountsAreFinite, CountChanges
<1>3. maxConcurrency \in Int /\ active \in Int
  BY LimitsNest DEF TypeOK
<1> QED BY <1>2, <1>3 DEF Counted

LEMMA OwnersLose ==
  ASSUME TypeOK, Counted, active' = active - 1, UNCHANGED maxConcurrency,
         NEW t \in Tasks, pc[t] \in Owning, pc'[t] \notin Owning,
         \A v \in Tasks \ {t} : pc'[v] \in Owning <=> pc[v] \in Owning
  PROVE  active' = Cardinality(At(Owning))' /\ active' <= maxConcurrency'
<1>1. At(Owning)' = At(Owning) \ {t} /\ t \in At(Owning)
  BY DEF At
<1>2. Cardinality(At(Owning)') = Cardinality(At(Owning)) - 1
  BY <1>1, CountsAreFinite, CountChanges
<1>3. maxConcurrency \in Int /\ active \in Int
  BY LimitsNest DEF TypeOK
<1> QED BY <1>2, <1>3 DEF Counted

LEMMA OwnersSwap ==
  ASSUME TypeOK, Counted, active' = active - 1 + 1, UNCHANGED maxConcurrency,
         NEW t \in Tasks, pc[t] \in Owning, pc'[t] \notin Owning,
         NEW u \in Tasks, pc[u] \notin Owning, pc'[u] \in Owning,
         \A v \in Tasks \ {t, u} : pc'[v] \in Owning <=> pc[v] \in Owning
  PROVE  active' = Cardinality(At(Owning))' /\ active' <= maxConcurrency'
<1>1. At(Owning)' = (At(Owning) \ {t}) \cup {u} /\ t \in At(Owning) /\ u \notin At(Owning)
  BY DEF At
<1>2. Cardinality(At(Owning)') = Cardinality(At(Owning))
  BY <1>1, CountsAreFinite, CountChanges
<1>3. active \in Int /\ active - 1 + 1 = active
  BY DEF TypeOK
<1> QED BY <1>2, <1>3 DEF Counted

\* The scopes of a task; a session is the scope of its own tasks only.
LEMMA ScopesAre ==
  /\ \A t \in Tasks : ScopesOf(t) \subseteq Scopes
  /\ \A t \in Tasks, s \in Sessions : s \in ScopesOf(t) => s = SessionOf[t]
  /\ \A t \in Tasks, n \in Tenants : n \in ScopesOf(t) => n = TenantOf[t]
  /\ Sessions \subseteq Scopes /\ Tenants \subseteq Scopes /\ "process" \in Scopes
BY ScopesAreDisjoint DEF ScopesOf, Scopes, Sessions, Tenants

ReservationsOK ==
  /\ waiting \in [Scopes -> Int]
  /\ \A x \in Scopes : waiting[x] = Cardinality(Reserved(x))
  /\ Bounded

\* The reservations, when nobody's changes, when a task arrives and when one
\* is consumed or dropped.
LEMMA ReservationsStay ==
  ASSUME TypeOK, Counted, Bounded, waiting' = waiting,
         \A v \in Tasks : pc'[v] \in Admitting <=> pc[v] \in Admitting
  PROVE  ReservationsOK'
<1>1. \A x : Reserved(x)' = Reserved(x)
  BY DEF Reserved, At
<1> QED BY <1>1 DEF ReservationsOK, TypeOK, Counted, Bounded

LEMMA ReservationGained ==
  ASSUME TypeOK, Counted, Bounded, NEW t \in Tasks, ~Full(t), pc[t] = "new",
         pc' = [pc EXCEPT ![t] = "lane"],
         waiting' = [x \in Scopes |-> IF x \in ScopesOf(t) THEN waiting[x] + 1 ELSE waiting[x]]
  PROVE  ReservationsOK'
<1>1. \A x : Reserved(x)' = IF x \in ScopesOf(t) THEN Reserved(x) \cup {t} ELSE Reserved(x)
  BY DEF Reserved, At, Admitting, TypeOK
<1>2. \A x : t \notin Reserved(x)
  BY DEF Reserved, At, Admitting
<1>3. waiting' \in [Scopes -> Int]
  BY DEF TypeOK
<1>4. ASSUME NEW x \in Scopes PROVE waiting'[x] = Cardinality(Reserved(x)')
  <2>1. CASE x \in ScopesOf(t)
    <3>1. Cardinality(Reserved(x)') = Cardinality(Reserved(x)) + 1
      BY <1>1, <1>2, <2>1, CountsAreFinite, CountChanges
    <3> QED BY <2>1, <3>1 DEF Counted
  <2>2. CASE x \notin ScopesOf(t)
    BY <1>1, <2>2 DEF Counted
  <2> QED BY <2>1, <2>2
<1>5. Bounded'
  <2>1. waiting'["process"] <= MaxWaiting
    <3>1. waiting["process"] \in Int /\ waiting'["process"] = waiting["process"] + 1
      BY ScopesAre DEF ScopesOf, TypeOK
    <3> QED BY <3>1, LimitsNest DEF Full
  <2>2. ASSUME NEW s \in Sessions PROVE waiting'[s] <= MaxPerSession
    <3>1. waiting[s] \in Int /\ waiting[s] <= MaxPerSession
      BY ScopesAre DEF TypeOK, Bounded
    <3>2. waiting'[s] = IF s \in ScopesOf(t) THEN waiting[s] + 1 ELSE waiting[s]
      BY ScopesAre
    <3>3. s \in ScopesOf(t) => waiting[s] < MaxPerSession
      BY <3>1, ScopesAre, LimitsNest DEF Full
    <3> QED BY <3>1, <3>2, <3>3, LimitsNest
  <2>3. ASSUME NEW n \in Tenants PROVE waiting'[n] <= MaxPerTenant
    <3>1. waiting[n] \in Int /\ waiting[n] <= MaxPerTenant
      BY ScopesAre DEF TypeOK, Bounded
    <3>2. waiting'[n] = IF n \in ScopesOf(t) THEN waiting[n] + 1 ELSE waiting[n]
      BY ScopesAre
    <3>3. n \in ScopesOf(t) => waiting[n] < MaxPerTenant
      BY <3>1, ScopesAre, LimitsNest DEF Full
    <3> QED BY <3>1, <3>2, <3>3, LimitsNest
  <2> QED BY <2>1, <2>2, <2>3 DEF Bounded
<1> QED BY <1>3, <1>4, <1>5 DEF ReservationsOK

LEMMA ReservationDropped ==
  ASSUME TypeOK, Counted, Bounded, NEW t \in Tasks, waiting' = Dropped(t),
         pc[t] \in Admitting, pc'[t] \notin Admitting,
         \A v \in Tasks \ {t} : pc'[v] \in Admitting <=> pc[v] \in Admitting
  PROVE  ReservationsOK'
<1>1. \A x : Reserved(x)' = IF x \in ScopesOf(t) THEN Reserved(x) \ {t} ELSE Reserved(x)
  BY DEF Reserved, At
<1>2. \A x \in ScopesOf(t) : t \in Reserved(x)
  BY DEF Reserved, At
<1>3. waiting' \in [Scopes -> Int] /\ \A x \in Scopes : waiting'[x] <= waiting[x]
  BY DEF TypeOK, Dropped
<1>4. ASSUME NEW x \in Scopes PROVE waiting'[x] = Cardinality(Reserved(x)')
  <2>1. CASE x \in ScopesOf(t)
    <3>1. Cardinality(Reserved(x)') = Cardinality(Reserved(x)) - 1
      BY <1>1, <1>2, <2>1, CountsAreFinite, CountChanges
    <3> QED BY <2>1, <3>1 DEF Counted, Dropped
  <2>2. CASE x \notin ScopesOf(t)
    BY <1>1, <2>2 DEF Counted, Dropped
  <2> QED BY <2>1, <2>2
<1>5. Bounded'
  <2>1. \A x \in Scopes : waiting[x] \in Int /\ waiting'[x] \in Int
    BY <1>3 DEF TypeOK
  <2>2. MaxWaiting \in Int /\ MaxPerSession \in Int /\ MaxPerTenant \in Int
    BY LimitsNest
  <2>3. waiting'["process"] <= MaxWaiting
    BY <1>3, <2>1, <2>2, ScopesAre DEF Bounded
  <2>4. \A s \in Sessions : waiting'[s] <= MaxPerSession
    BY <1>3, <2>1, <2>2, ScopesAre DEF Bounded
  <2>5. \A n \in Tenants : waiting'[n] <= MaxPerTenant
    BY <1>3, <2>1, <2>2, ScopesAre DEF Bounded
  <2> QED BY <2>3, <2>4, <2>5 DEF Bounded
<1> QED BY <1>3, <1>4, <1>5 DEF ReservationsOK
-----------------------------------------------------------------------------
(***************************************************************************)
(* The queues and the turns.                                               *)
(***************************************************************************)
TurnsOK ==
  /\ order \in Line(Tenants)
  /\ queue \in [Tenants -> Line(Tasks)]
  /\ passed \in [Tenants -> [Tenants -> {0, 1}]]
  /\ Queued /\ InTurn

\* Who is next: the head of the turns is a tenant with a waiter.
LEMMA FirstReady ==
  ASSUME TypeOK, Queued, order # <<>>
  PROVE  LET n == Head(order)
             u == Head(queue[n]) IN
         /\ n \in Tenants /\ n \in ToSet(order) /\ queue[n] # <<>>
         /\ u \in Tasks /\ u \in ToSet(queue[n])
         /\ TenantOf[u] = n /\ pc[u] = "queued"
<1> DEFINE n == Head(order)
           u == Head(queue[n])
<1>1. n \in ToSet(order) /\ n \in Tenants
  BY LineIs DEF TypeOK
<1>2. queue[n] # <<>> /\ queue[n] \in Line(Tasks)
  BY <1>1 DEF Queued, TypeOK
<1>3. u \in ToSet(queue[n])
  BY <1>2, LineIs
<1>4. u \in Waiters(n)
  BY <1>1, <1>3 DEF Queued
<1> QED BY <1>1, <1>2, <1>3, <1>4 DEF Waiters

LEMMA TurnsStay ==
  ASSUME TypeOK, Queued, InTurn, UNCHANGED <<order, queue, passed>>,
         \A v \in Tasks : pc'[v] = "queued" <=> pc[v] = "queued"
  PROVE  TurnsOK'
<1>1. \A n : Waiters(n)' = Waiters(n)
  BY DEF Waiters
<1>2. Queued'
  BY <1>1 DEF Queued
<1>3. InTurn'
  BY DEF InTurn, Before
<1> QED BY <1>2, <1>3 DEF TurnsOK, TypeOK

\* A waiter joins the queue of its tenant, which gets in line if it was not.
LEMMA TurnsGain ==
  ASSUME TypeOK, Queued, InTurn, NEW t \in Tasks, pc[t] = "lane", Queues(t)
  PROVE  TurnsOK'
<1> DEFINE n == TenantOf[t]
<1>1. /\ pc' = [pc EXCEPT ![t] = "queued"]
      /\ order' = IF queue[n] = <<>> THEN Append(order, n) ELSE order
      /\ queue' = [queue EXCEPT ![n] = Append(queue[n], t)]
      /\ passed' = passed
  BY DEF Queues
<1>2. n \in Tenants /\ queue[n] \in Line(Tasks)
  BY DEF Tenants, TypeOK
<1> HIDE DEF n
<1>3. \A m \in Tenants : Waiters(m)' = IF m = n THEN Waiters(m) \cup {t} ELSE Waiters(m)
  BY <1>1 DEF Waiters, TypeOK, n
<1>4. t \notin ToSet(queue[n])
  BY <1>2 DEF Queued, Waiters
<1>5. /\ Append(queue[n], t) \in Line(Tasks)
      /\ ToSet(Append(queue[n], t)) = ToSet(queue[n]) \cup {t}
  BY <1>2, <1>4, AppendLine
<1>6. \A m \in Tenants : queue'[m] = IF m = n THEN Append(queue[n], t) ELSE queue[m]
  BY <1>1, <1>2 DEF TypeOK
<1>7. queue' \in [Tenants -> Line(Tasks)] /\ Append(queue[n], t) # <<>>
  <2>1. Append(queue[n], t) # <<>>
    BY <1>5, LineIs
  <2> QED BY <1>1, <1>5, <2>1 DEF TypeOK
<1>8. queue[n] = <<>> <=> n \notin ToSet(order)
  BY <1>2 DEF Queued
<1>9. /\ order' \in Line(Tenants)
      /\ ToSet(order') = ToSet(order) \cup {n}
      /\ \A a, b : Before(order', a, b) =>
           Before(order, a, b) \/ (b = n /\ n \notin ToSet(order))
  <2>1. CASE queue[n] = <<>>
    <3>1. order \in Line(Tenants) /\ n \notin ToSet(order) /\ order' = Append(order, n)
      BY <1>1, <1>8, <2>1 DEF TypeOK
    <3> QED BY <1>2, <3>1, AppendLine
  <2>2. CASE queue[n] # <<>>
    BY <1>1, <1>8, <2>2 DEF TypeOK
  <2> QED BY <2>1, <2>2
<1>10. Queued'
  <2>1. \A m \in Tenants : ToSet(queue'[m]) = Waiters(m)'
    BY <1>3, <1>5, <1>6 DEF Queued
  <2>2. ToSet(order') = {m \in Tenants : queue'[m] # <<>>}
    BY <1>2, <1>6, <1>7, <1>9 DEF Queued
  <2> QED BY <2>1, <2>2 DEF Queued
<1>11. InTurn'
  <2> SUFFICES ASSUME NEW m \in Tenants, NEW k \in Tenants, passed'[m][k] = 1
      PROVE m \in ToSet(order') /\ m # k /\ ~Before(order', k, m)
    BY DEF InTurn, Before
  <2>1. m \in ToSet(order) /\ m # k /\ ~Before(order, k, m)
    BY <1>1 DEF InTurn
  <2> QED BY <1>9, <2>1
<1> QED BY <1>1, <1>7, <1>9, <1>10, <1>11 DEF TurnsOK, TypeOK

\* A waiter gives up; its tenant leaves the line with its last one.
LEMMA TurnsLose ==
  ASSUME TypeOK, Queued, InTurn, NEW t \in Tasks, DropsQueued(t)
  PROVE  TurnsOK'
<1> DEFINE n == TenantOf[t]
           left == RemoveFirst(queue[n], t)
<1>1. /\ pc' = [pc EXCEPT ![t] = "left"] /\ pc[t] = "queued"
      /\ order' = IF left = <<>> THEN RemoveFirst(order, n) ELSE order
      /\ queue' = [queue EXCEPT ![n] = left]
      /\ passed' = IF left = <<>> THEN [passed EXCEPT ![n] = [m \in Tenants |-> 0]] ELSE passed
  BY DEF DropsQueued
<1>2. n \in Tenants /\ queue[n] \in Line(Tasks) /\ t \in ToSet(queue[n])
  BY <1>1 DEF Tenants, TypeOK, Queued, Waiters
<1>3. left \in Line(Tasks) /\ ToSet(left) = ToSet(queue[n]) \ {t}
  BY <1>2, RemoveLine
<1>4. \A m \in Tenants : Waiters(m)' = IF m = n THEN Waiters(m) \ {t} ELSE Waiters(m)
  BY <1>1 DEF Waiters, TypeOK
<1> HIDE DEF n, left
<1>5. \A m \in Tenants : queue'[m] = IF m = n THEN left ELSE queue[m]
  BY <1>1, <1>2 DEF TypeOK
<1>6. queue' \in [Tenants -> Line(Tasks)]
  BY <1>1, <1>3 DEF TypeOK
<1>7. n \in ToSet(order)
  <2>1. queue[n] # <<>>
    BY <1>2, LineIs
  <2> QED BY <1>2, <2>1 DEF Queued
<1>8. /\ order' \in Line(Tenants)
      /\ ToSet(order') = IF left = <<>> THEN ToSet(order) \ {n} ELSE ToSet(order)
      /\ \A a, b : Before(order', a, b) => Before(order, a, b)
  <2>1. CASE left = <<>>
    <3>1. order \in Line(Tenants) /\ order' = RemoveFirst(order, n)
      BY <1>1, <2>1 DEF TypeOK
    <3> QED BY <1>7, <2>1, <3>1, RemoveLine
  <2>2. CASE left # <<>>
    BY <1>1, <2>2 DEF TypeOK
  <2> QED BY <2>1, <2>2
<1>9. Queued'
  <2>1. \A m \in Tenants : ToSet(queue'[m]) = Waiters(m)'
    BY <1>3, <1>4, <1>5 DEF Queued
  <2>2. ToSet(order') = {m \in Tenants : queue'[m] # <<>>}
    <3>1. ToSet(order) = {m \in Tenants : queue[m] # <<>>}
      BY DEF Queued
    <3> QED BY <1>2, <1>5, <1>7, <1>8, <3>1
  <2> QED BY <2>1, <2>2 DEF Queued
<1>10. \A m, k \in Tenants : passed'[m][k] = IF m = n /\ left = <<>> THEN 0 ELSE passed[m][k]
  BY <1>1, <1>2 DEF TypeOK
<1>11. passed' \in [Tenants -> [Tenants -> {0, 1}]]
  <2>1. [m \in Tenants |-> 0] \in [Tenants -> {0, 1}]
    OBVIOUS
  <2> QED BY <1>1, <2>1 DEF TypeOK
<1>12. InTurn'
  <2> SUFFICES ASSUME NEW m \in Tenants, NEW k \in Tenants, passed'[m][k] = 1
      PROVE m \in ToSet(order') /\ m # k /\ ~Before(order', k, m)
    BY DEF InTurn, Before
  <2>1. passed[m][k] = 1 /\ ~(m = n /\ left = <<>>)
    BY <1>10
  <2>2. m \in ToSet(order) /\ m # k /\ ~Before(order, k, m)
    BY <2>1 DEF InTurn
  <2> QED BY <1>8, <2>1, <2>2
<1> QED BY <1>6, <1>8, <1>9, <1>11, <1>12 DEF TurnsOK

\* The first tenant's oldest waiter is granted: whoever is still ready has now
\* been passed by that tenant, which stands behind all of them.
LEMMA TurnsPass ==
  ASSUME TypeOK, Queued, InTurn, NEW t \in Tasks, HandsOver(t)
  PROVE  TurnsOK'
<1> DEFINE n == Head(order)
           u == Head(queue[n])
           left == Tail(queue[n])
<1>1. /\ pc[t] \in Owning /\ order # <<>>
      /\ pc' = [[pc EXCEPT ![u] = "granted"] EXCEPT ![t] = "left"]
      /\ order' = Turn(order, n, left # <<>>)
      /\ queue' = [queue EXCEPT ![n] = left]
      /\ passed' = PassedBy(Capacity, n)
  BY DEF HandsOver
<1>2. /\ n \in Tenants /\ n \in ToSet(order) /\ queue[n] # <<>>
      /\ u \in Tasks /\ u \in ToSet(queue[n]) /\ TenantOf[u] = n /\ pc[u] = "queued"
      /\ queue[n] \in Line(Tasks) /\ order \in Line(Tenants)
  BY <1>1, FirstReady DEF TypeOK
<1>3. left \in Line(Tasks) /\ ToSet(left) = ToSet(queue[n]) \ {u}
  BY <1>2, TailLine
<1>4. \A m \in Tenants : Waiters(m)' = IF m = n THEN Waiters(m) \ {u} ELSE Waiters(m)
  BY <1>1, <1>2 DEF Waiters, TypeOK, Owning
<1>5. /\ Tail(order) \in Line(Tenants) /\ ToSet(Tail(order)) = ToSet(order) \ {n}
      /\ \A a, b : Before(Tail(order), a, b) => Before(order, a, b)
      /\ \A b \in ToSet(order) \ {n} : Before(order, n, b)
  BY <1>1, <1>2, TailLine
<1> HIDE DEF n, u, left
<1>6. \A m \in Tenants : queue'[m] = IF m = n THEN left ELSE queue[m]
  BY <1>1, <1>2 DEF TypeOK
<1>7. queue' \in [Tenants -> Line(Tasks)]
  BY <1>1, <1>3 DEF TypeOK
<1>8. /\ order' \in Line(Tenants)
      /\ ToSet(order') = IF left = <<>> THEN ToSet(order) \ {n} ELSE ToSet(order)
      /\ \A a, b : Before(order', a, b) =>
           \/ Before(order, a, b)
           \/ a \in ToSet(order) /\ b = n
      /\ \A b : ~Before(order', n, b)
  <2>0. n \notin ToSet(Tail(order))
    BY <1>5
  <2>1. CASE left = <<>>
    <3>1. order' = Tail(order)
      BY <1>1, <2>1 DEF Turn
    <3>2. \A b : ~Before(order', n, b)
      BY <1>5, <2>0, <3>1, LineIsOrdered
    <3> QED BY <1>5, <2>1, <3>1, <3>2
  <2>2. CASE left # <<>>
    <3>1. order' = Append(Tail(order), n)
      BY <1>1, <2>2 DEF Turn
    <3>2. /\ order' \in Line(Tenants) /\ ToSet(order') = ToSet(Tail(order)) \cup {n}
          /\ \A a, b : Before(order', a, b) =>
               Before(Tail(order), a, b) \/ (a \in ToSet(Tail(order)) /\ b = n)
      BY <1>2, <1>5, <2>0, <3>1, AppendLine
    <3>3. ASSUME NEW b, Before(order', n, b) PROVE FALSE
      <4>1. Before(Tail(order), n, b)
        BY <2>0, <3>2, <3>3
      <4> QED BY <1>5, <2>0, <4>1, LineIsOrdered
    <3> QED BY <1>2, <1>5, <2>2, <3>2, <3>3
  <2> QED BY <2>1, <2>2
<1>9. Queued'
  <2>1. \A m \in Tenants : ToSet(queue'[m]) = Waiters(m)'
    BY <1>3, <1>4, <1>6 DEF Queued
  <2>2. ToSet(order') = {m \in Tenants : queue'[m] # <<>>}
    <3>1. ToSet(order) = {m \in Tenants : queue[m] # <<>>}
      BY DEF Queued
    <3> QED BY <1>2, <1>6, <1>8, <3>1
  <2> QED BY <2>1, <2>2 DEF Queued
<1>10. \A m, k \in Tenants :
         passed'[m][k] = IF m = n \/ queue[m] = <<>> THEN 0
                         ELSE IF k = n THEN (IF passed[m][k] < 2 THEN passed[m][k] + 1 ELSE 2)
                         ELSE passed[m][k]
  BY <1>1, <1>2, CapacityIs DEF PassedBy
<1>11. \A m \in Tenants : m \in ToSet(order) /\ m # n => passed[m][n] = 0
  <2> TAKE m \in Tenants
  <2> HAVE m \in ToSet(order) /\ m # n
  <2>1. Before(order, n, m)
    BY <1>5
  <2>2. passed[m][n] # 1 /\ passed[m][n] \in {0, 1}
    BY <1>2, <2>1 DEF InTurn, TypeOK
  <2> QED BY <2>2
<1>12. \A m \in Tenants : queue[m] # <<>> => m \in ToSet(order)
  BY DEF Queued
<1>13. \A m, k \in Tenants :
         passed'[m][k] = IF m = n \/ queue[m] = <<>> THEN 0
                         ELSE IF k = n THEN 1 ELSE passed[m][k]
  BY <1>2, <1>10, <1>11, <1>12
<1>14. passed' \in [Tenants -> [Tenants -> {0, 1}]]
  <2>1. passed' = [m \in Tenants |-> [k \in Tenants |-> passed'[m][k]]]
    BY <1>1, CapacityIs DEF PassedBy
  <2>2. \A m, k \in Tenants : passed'[m][k] \in {0, 1}
    BY <1>13 DEF TypeOK
  <2>3. \A m \in Tenants : [k \in Tenants |-> passed'[m][k]] \in [Tenants -> {0, 1}]
    BY <2>2
  <2> QED BY <2>1, <2>3
<1>15. InTurn'
  <2> SUFFICES ASSUME NEW m \in Tenants, NEW k \in Tenants, passed'[m][k] = 1
      PROVE m \in ToSet(order') /\ m # k /\ ~Before(order', k, m)
    BY DEF InTurn, Before
  <2>1. m # n /\ queue[m] # <<>> /\ (k = n \/ passed[m][k] = 1)
    BY <1>13
  <2>2. m \in ToSet(order) /\ m \in ToSet(order')
    BY <1>8, <1>12, <2>1
  <2>3. CASE k = n
    BY <1>8, <2>1, <2>2, <2>3
  <2>4. CASE passed[m][k] = 1
    <3>1. m # k /\ ~Before(order, k, m)
      BY <2>4 DEF InTurn
    <3> QED BY <1>8, <2>1, <2>2, <3>1
  <2> QED BY <2>1, <2>3, <2>4
<1> QED BY <1>7, <1>8, <1>9, <1>14, <1>15 DEF TurnsOK
-----------------------------------------------------------------------------
(***************************************************************************)
(* The invariant holds.                                                    *)
(***************************************************************************)
LEMMA InitInv == Init => Inv
<1> SUFFICES ASSUME Init PROVE Inv
  OBVIOUS
<1>1. /\ <<>> \in Line(Tasks) /\ <<>> \in Line(Tenants)
      /\ ToSet(<<>>) = {}
  BY EmptyLine
<1>2. TypeOK
  BY <1>1 DEF Init, TypeOK, Steps
<1>3. LaneInv
  <2>1. Referring
    BY DEF Init, Referring, InLane
  <2>2. Registered
    BY DEF Init, Registered
  <2>3. Locked
    <3>1. \A l \in Tasks : References(l) = {}
      BY NoneIsNoTask DEF Init, References
    <3>2. \A l \in Tasks : ToSet(lock[l]) = {}
      BY <1>1 DEF Init
    <3> QED BY <3>1, <3>2 DEF Init, Locked, Holding
  <2> QED BY <2>1, <2>2, <2>3 DEF LaneInv
<1>4. CapacityInv
  <2>1. Queued
    <3>1. \A n : Waiters(n) = {}
      BY DEF Init, Waiters
    <3>2. \A n \in Tenants : queue[n] = <<>> /\ ToSet(queue[n]) = {}
      BY <1>1 DEF Init
    <3>3. ToSet(order) = {}
      BY <1>1 DEF Init
    <3> QED BY <3>1, <3>2, <3>3 DEF Queued
  <2>2. Counted
    <3>1. At(Owning) = {} /\ \A x : Reserved(x) = {}
      BY DEF Init, At, Owning, Reserved, Admitting
    <3>2. Cardinality({}) = 0
      BY FS_EmptySet
    <3>3. active <= maxConcurrency
      BY LimitsNest DEF Init
    <3> QED BY <3>1, <3>2, <3>3 DEF Init, Counted
  <2>3. Bounded
    BY LimitsNest, ScopesAre DEF Init, Bounded
  <2>4. WorkConserving
    BY DEF Init, WorkConserving
  <2>5. InTurn
    BY DEF Init, InTurn
  <2> QED BY <2>1, <2>2, <2>3, <2>4, <2>5 DEF CapacityInv
<1> QED BY <1>2, <1>3, <1>4 DEF Inv

\* What a step shows of the invariant, in the parts of the lemmas above.
LEMMA Assembled ==
  ASSUME Inv, UNCHANGED maxConcurrency, pc' \in [Tasks -> Steps],
         LaneTypes' /\ LaneInv', ReservationsOK', TurnsOK', active' \in Int,
         active' = Cardinality(At(Owning))' /\ active' <= maxConcurrency',
         WorkConserving'
  PROVE  Inv'
<1>1. TypeOK'
  BY DEF Inv, TypeOK, LaneTypes, ReservationsOK, TurnsOK
<1>2. CapacityInv'
  BY DEF CapacityInv, Counted, ReservationsOK, TurnsOK
<1> QED BY <1>1, <1>2 DEF Inv

\* Steps of one task before it has its capacity.
LEMMA KeptByArrivals ==
  ASSUME Inv, UNCHANGED maxConcurrency,
         NEW t \in Tasks, Reject(t) \/ Arrive(t) \/ Resume(t)
  PROVE  Inv'
<1> USE DEF Inv, CapacityInv
<1>1. CASE Reject(t)
  <2>1. pc' = [pc EXCEPT ![t] = "left"] /\ pc[t] = "new" /\ UNCHANGED <<laneVars, capacityVars>>
    BY <1>1 DEF Reject
  <2>2. pc' \in [Tasks -> Steps] /\ UNCHANGED <<order, queue, passed>>
        /\ active' = active /\ waiting' = waiting
    BY <2>1 DEF TypeOK, Steps, capacityVars
  <2>3. \A v \in Tasks : /\ pc'[v] \in InLane <=> pc[v] \in InLane
                         /\ pc'[v] \in Holding <=> pc[v] \in Holding
                         /\ pc'[v] \in Admitting <=> pc[v] \in Admitting
                         /\ pc'[v] \in Owning <=> pc[v] \in Owning
                         /\ pc'[v] = "queued" <=> pc[v] = "queued"
    BY <2>1 DEF TypeOK, InLane, Holding, Admitting, Owning
  <2>4. LaneTypes' /\ LaneInv'
    BY <2>1, <2>3, LanesStay
  <2>5. ReservationsOK'
    BY <2>2, <2>3, ReservationsStay
  <2>6. TurnsOK'
    BY <2>2, <2>3, TurnsStay
  <2>7. active' = Cardinality(At(Owning))' /\ active' <= maxConcurrency'
    BY <2>2, <2>3, OwnersStay
  <2>8. WorkConserving' /\ active' \in Int
    BY <2>2 DEF WorkConserving, TypeOK
  <2> QED BY <2>2, <2>4, <2>5, <2>6, <2>7, <2>8, Assembled
<1>2. CASE Arrive(t)
  <2>1. /\ pc[t] = "new" /\ ~Full(t) /\ pc' = [pc EXCEPT ![t] = "lane"]
        /\ waiting' = [x \in Scopes |-> IF x \in ScopesOf(t) THEN waiting[x] + 1 ELSE waiting[x]]
        /\ Enter(t) /\ UNCHANGED <<order, queue, passed>> /\ active' = active
    BY <1>2 DEF Arrive
  <2>2. pc' \in [Tasks -> Steps]
    BY <2>1 DEF TypeOK, Steps
  <2>3. \A v \in Tasks : /\ pc'[v] \in Owning <=> pc[v] \in Owning
                         /\ pc'[v] = "queued" <=> pc[v] = "queued"
    BY <2>1 DEF TypeOK, Owning
  <2>4. LaneTypes' /\ LaneInv'
    BY <2>1, LanesEnter
  <2>5. ReservationsOK'
    BY <2>1, ReservationGained
  <2>6. TurnsOK'
    BY <2>1, <2>3, TurnsStay
  <2>7. active' = Cardinality(At(Owning))' /\ active' <= maxConcurrency'
    BY <2>1, <2>3, OwnersStay
  <2>8. WorkConserving' /\ active' \in Int
    BY <2>1 DEF WorkConserving, TypeOK
  <2> QED BY <2>2, <2>4, <2>5, <2>6, <2>7, <2>8, Assembled
<1>3. CASE Resume(t)
  <2>1. pc' = [pc EXCEPT ![t] = "running"] /\ pc[t] = "granted"
        /\ UNCHANGED <<laneVars, capacityVars>>
    BY <1>3 DEF Resume
  <2>2. pc' \in [Tasks -> Steps] /\ UNCHANGED <<order, queue, passed>>
        /\ active' = active /\ waiting' = waiting
    BY <2>1 DEF TypeOK, Steps, capacityVars
  <2>3. \A v \in Tasks : /\ pc'[v] \in InLane <=> pc[v] \in InLane
                         /\ pc'[v] \in Holding <=> pc[v] \in Holding
                         /\ pc'[v] \in Admitting <=> pc[v] \in Admitting
                         /\ pc'[v] \in Owning <=> pc[v] \in Owning
                         /\ pc'[v] = "queued" <=> pc[v] = "queued"
    BY <2>1 DEF TypeOK, InLane, Holding, Admitting, Owning
  <2>4. LaneTypes' /\ LaneInv'
    BY <2>1, <2>3, LanesStay
  <2>5. ReservationsOK'
    BY <2>2, <2>3, ReservationsStay
  <2>6. TurnsOK'
    BY <2>2, <2>3, TurnsStay
  <2>7. active' = Cardinality(At(Owning))' /\ active' <= maxConcurrency'
    BY <2>2, <2>3, OwnersStay
  <2>8. WorkConserving' /\ active' \in Int
    BY <2>2 DEF WorkConserving, TypeOK
  <2> QED BY <2>2, <2>4, <2>5, <2>6, <2>7, <2>8, Assembled
<1> QED BY <1>1, <1>2, <1>3

\* The first of a lane asks for capacity.
LEMMA KeptByCalls ==
  ASSUME Inv, UNCHANGED maxConcurrency,
         NEW t \in Tasks, RunsNow(t) \/ Queues(t)
  PROVE  Inv'
<1> USE DEF Inv, CapacityInv
<1>1. CASE RunsNow(t)
  <2>1. /\ pc' = [pc EXCEPT ![t] = "running"] /\ pc[t] = "lane" /\ HoldsLane(t)
        /\ waiting' = Dropped(t) /\ active' = active + 1 /\ UNCHANGED <<order, queue, passed>>
        /\ active < maxConcurrency /\ order = <<>> /\ UNCHANGED laneVars
    BY <1>1 DEF RunsNow, RunsAtOnce
  <2>2. pc' \in [Tasks -> Steps] /\ pc'[t] = "running"
    BY <2>1 DEF TypeOK, Steps
  <2>3. \A v \in Tasks \ {t} : pc'[v] = pc[v]
    BY <2>1 DEF TypeOK
  <2>4. LaneTypes' /\ LaneInv'
    <3>1. \A v \in Tasks : /\ pc'[v] \in InLane <=> pc[v] \in InLane
                           /\ pc'[v] \in Holding => pc[v] \in Holding \/ HoldsLane(v)
      BY <2>1, <2>2, <2>3 DEF InLane
    <3> QED BY <2>1, <3>1, LanesStay
  <2>5. ReservationsOK'
    <3>1. pc[t] \in Admitting /\ pc'[t] \notin Admitting
      BY <2>1, <2>2 DEF Admitting
    <3> QED BY <2>1, <2>3, <3>1, ReservationDropped
  <2>6. TurnsOK'
    <3>1. \A v \in Tasks : pc'[v] = "queued" <=> pc[v] = "queued"
      BY <2>1, <2>2, <2>3
    <3> QED BY <2>1, <3>1, TurnsStay
  <2>7. active' = Cardinality(At(Owning))' /\ active' <= maxConcurrency'
    <3>1. pc[t] \notin Owning /\ pc'[t] \in Owning
      BY <2>1, <2>2 DEF Owning
    <3> QED BY <2>1, <2>3, <3>1, OwnersGain
  <2>8. WorkConserving' /\ active' \in Int
    BY <2>1 DEF WorkConserving, TypeOK
  <2> QED BY <2>2, <2>4, <2>5, <2>6, <2>7, <2>8, Assembled
<1>2. CASE Queues(t)
  <2>1. /\ pc' = [pc EXCEPT ![t] = "queued"] /\ pc[t] = "lane" /\ HoldsLane(t)
        /\ waiting' = waiting /\ active' = active /\ ~RunsAtOnce /\ UNCHANGED laneVars
    BY <1>2 DEF Queues
  <2>2. pc' \in [Tasks -> Steps] /\ pc'[t] = "queued"
    BY <2>1 DEF TypeOK, Steps
  <2>3. \A v \in Tasks \ {t} : pc'[v] = pc[v]
    BY <2>1 DEF TypeOK
  <2>4. LaneTypes' /\ LaneInv'
    <3>1. \A v \in Tasks : /\ pc'[v] \in InLane <=> pc[v] \in InLane
                           /\ pc'[v] \in Holding => pc[v] \in Holding \/ HoldsLane(v)
      BY <2>1, <2>2, <2>3 DEF InLane
    <3> QED BY <2>1, <3>1, LanesStay
  <2>5. ReservationsOK'
    <3>1. \A v \in Tasks : pc'[v] \in Admitting <=> pc[v] \in Admitting
      BY <2>1, <2>2, <2>3 DEF Admitting
    <3> QED BY <2>1, <3>1, ReservationsStay
  <2>6. TurnsOK'
    BY <1>2, <2>1, TurnsGain
  <2>7. active' = Cardinality(At(Owning))' /\ active' <= maxConcurrency'
    <3>1. \A v \in Tasks : pc'[v] \in Owning <=> pc[v] \in Owning
      BY <2>1, <2>2, <2>3 DEF Owning
    <3> QED BY <2>1, <3>1, OwnersStay
  <2>8. WorkConserving' /\ active' \in Int
    <3>1. active \in Int /\ active <= maxConcurrency /\ maxConcurrency \in Int
      BY LimitsNest DEF TypeOK, Counted
    <3>2. active = maxConcurrency
      BY <2>1, <3>1 DEF RunsAtOnce, WorkConserving
    <3> QED BY <2>1, <3>1, <3>2 DEF WorkConserving
  <2> QED BY <2>2, <2>4, <2>5, <2>6, <2>7, <2>8, Assembled
<1> QED BY <1>1, <1>2

\* The ends of a task that still waits.
LEMMA KeptByDrops ==
  ASSUME Inv, UNCHANGED maxConcurrency,
         NEW t \in Tasks, DropsLane(t) \/ DropsQueued(t)
  PROVE  Inv'
<1> USE DEF Inv, CapacityInv
<1>1. /\ pc' = [pc EXCEPT ![t] = "left"] /\ pc[t] \in {"lane", "queued"}
      /\ waiting' = Dropped(t) /\ active' = active /\ ExitLane(t)
  BY DEF DropsLane, DropsQueued
<1>2. pc' \in [Tasks -> Steps] /\ pc'[t] = "left"
  BY <1>1 DEF TypeOK, Steps
<1>3. \A v \in Tasks \ {t} : pc'[v] = pc[v]
  BY <1>1 DEF TypeOK
<1>4. LaneTypes' /\ LaneInv'
  <2>1. pc[t] \in InLane
    BY <1>1 DEF InLane
  <2> QED BY <1>1, <1>2, <1>3, <2>1, LanesExit
<1>5. ReservationsOK'
  <2>1. pc[t] \in Admitting /\ pc'[t] \notin Admitting
    BY <1>1, <1>2 DEF Admitting
  <2> QED BY <1>1, <1>3, <2>1, ReservationDropped
<1>6. TurnsOK'
  <2>1. CASE DropsLane(t)
    <3>1. pc[t] = "lane" /\ UNCHANGED <<order, queue, passed>>
      BY <2>1 DEF DropsLane
    <3>2. \A v \in Tasks : pc'[v] = "queued" <=> pc[v] = "queued"
      BY <1>2, <1>3, <3>1
    <3> QED BY <3>1, <3>2, TurnsStay
  <2>2. CASE DropsQueued(t)
    BY <2>2, TurnsLose
  <2> QED BY <2>1, <2>2
<1>7. active' = Cardinality(At(Owning))' /\ active' <= maxConcurrency'
  <2>1. \A v \in Tasks : pc'[v] \in Owning <=> pc[v] \in Owning
    BY <1>1, <1>2, <1>3 DEF Owning
  <2> QED BY <1>1, <2>1, OwnersStay
<1>8. WorkConserving' /\ active' \in Int
  <2>1. CASE DropsLane(t)
    BY <1>1, <2>1 DEF DropsLane, WorkConserving, TypeOK
  <2>2. CASE DropsQueued(t)
    <3>1. TenantOf[t] \in Tenants /\ t \in ToSet(queue[TenantOf[t]])
      BY <2>2 DEF DropsQueued, Queued, Waiters, Tenants
    <3>2. queue[TenantOf[t]] # <<>>
      BY <3>1, LineIs DEF TypeOK
    <3>3. order # <<>>
      BY <3>1, <3>2, LineIs DEF Queued, TypeOK
    <3> QED BY <1>1, <3>3 DEF WorkConserving, TypeOK
  <2> QED BY <2>1, <2>2
<1> QED BY <1>2, <1>4, <1>5, <1>6, <1>7, <1>8, Assembled

\* The ends of a task that owns capacity.
LEMMA KeptByReleases ==
  ASSUME Inv, UNCHANGED maxConcurrency,
         NEW t \in Tasks, Releases(t) \/ HandsOver(t)
  PROVE  Inv'
<1> USE DEF Inv, CapacityInv
<1>1. CASE Releases(t)
  <2>1. /\ pc' = [pc EXCEPT ![t] = "left"] /\ pc[t] \in Owning /\ order = <<>>
        /\ active' = active - 1 /\ waiting' = waiting
        /\ UNCHANGED <<order, queue, passed>> /\ ExitLane(t)
    BY <1>1 DEF Releases
  <2>2. pc' \in [Tasks -> Steps] /\ pc'[t] = "left"
    BY <2>1 DEF TypeOK, Steps
  <2>3. \A v \in Tasks \ {t} : pc'[v] = pc[v]
    BY <2>1 DEF TypeOK
  <2>4. LaneTypes' /\ LaneInv'
    <3>1. pc[t] \in InLane
      BY <2>1 DEF InLane, Owning
    <3> QED BY <2>1, <2>2, <2>3, <3>1, LanesExit
  <2>5. ReservationsOK'
    <3>1. \A v \in Tasks : pc'[v] \in Admitting <=> pc[v] \in Admitting
      BY <2>1, <2>2, <2>3 DEF Admitting, Owning
    <3> QED BY <2>1, <3>1, ReservationsStay
  <2>6. TurnsOK'
    <3>1. \A v \in Tasks : pc'[v] = "queued" <=> pc[v] = "queued"
      BY <2>1, <2>2, <2>3 DEF Owning
    <3> QED BY <2>1, <3>1, TurnsStay
  <2>7. active' = Cardinality(At(Owning))' /\ active' <= maxConcurrency'
    <3>1. pc'[t] \notin Owning
      BY <2>2 DEF Owning
    <3> QED BY <2>1, <2>3, <3>1, OwnersLose
  <2>8. WorkConserving' /\ active' \in Int
    BY <2>1 DEF WorkConserving, TypeOK
  <2> QED BY <2>2, <2>4, <2>5, <2>6, <2>7, <2>8, Assembled
<1>2. CASE HandsOver(t)
  <2> DEFINE u == Head(queue[Head(order)])
  <2>1. /\ pc' = [[pc EXCEPT ![u] = "granted"] EXCEPT ![t] = "left"] /\ pc[t] \in Owning
        /\ active' = active - 1 + 1 /\ waiting' = Dropped(u) /\ ExitLane(t) /\ order # <<>>
    BY <1>2 DEF HandsOver
  <2>2. u \in Tasks /\ pc[u] = "queued"
    BY <2>1, FirstReady
  <2> HIDE DEF u
  <2>3. pc' \in [Tasks -> Steps] /\ u # t /\ pc'[t] = "left" /\ pc'[u] = "granted"
    BY <2>1, <2>2 DEF TypeOK, Steps, Owning
  <2>4. \A v \in Tasks \ {t, u} : pc'[v] = pc[v]
    BY <2>1 DEF TypeOK
  <2>5. LaneTypes' /\ LaneInv'
    <3>1. pc[t] \in InLane
      BY <2>1 DEF InLane, Owning
    <3>2. \A v \in Tasks \ {t} : /\ pc'[v] \in InLane <=> pc[v] \in InLane
                                 /\ pc'[v] \in Holding => pc[v] \in Holding
      BY <2>2, <2>3, <2>4 DEF InLane, Holding
    <3> QED BY <2>1, <2>3, <3>1, <3>2, LanesExit
  <2>6. ReservationsOK'
    <3>1. pc[u] \in Admitting /\ pc'[u] \notin Admitting
      BY <2>2, <2>3 DEF Admitting
    <3>2. \A v \in Tasks \ {u} : pc'[v] \in Admitting <=> pc[v] \in Admitting
      BY <2>1, <2>3, <2>4 DEF Admitting, Owning
    <3> QED BY <2>1, <2>2, <3>1, <3>2, ReservationDropped
  <2>7. TurnsOK'
    BY <1>2, TurnsPass
  <2>8. active' = Cardinality(At(Owning))' /\ active' <= maxConcurrency'
    <3>1. pc'[t] \notin Owning /\ pc[u] \notin Owning /\ pc'[u] \in Owning
      BY <2>2, <2>3 DEF Owning
    <3>2. TypeOK /\ Counted /\ active' = active - 1 + 1
      BY <2>1
    <3>3. \A v \in Tasks \ {t, u} : pc'[v] \in Owning <=> pc[v] \in Owning
      BY <2>4
    <3> QED BY <2>1, <2>2, <3>1, <3>2, <3>3, OwnersSwap
  <2>9. WorkConserving' /\ active' \in Int
    <3>1. active' = active /\ active \in Int
      BY <2>1 DEF TypeOK
    <3> QED BY <2>1, <3>1 DEF WorkConserving
  <2> QED BY <2>3, <2>5, <2>6, <2>7, <2>8, <2>9, Assembled
<1> QED BY <1>1, <1>2

LEMMA NextInv == Inv /\ [Next]_vars => Inv'
<1> SUFFICES ASSUME Inv, [Next]_vars PROVE Inv'
  OBVIOUS
<1>1. CASE Next
  <2>1. PICK t \in Tasks : UNCHANGED maxConcurrency /\ Step(t)
    BY <1>1, EveryStep
  <2> QED
    BY <2>1, KeptByArrivals, KeptByCalls, KeptByDrops, KeptByReleases DEF Step
<1>2. CASE UNCHANGED vars
  <2> USE <1>2 DEF vars, laneVars, capacityVars
  <2>1. TypeOK'
    BY DEF Inv, TypeOK
  <2>2. LaneInv'
    BY DEF Inv, LaneInv, Referring, Registered, Locked, References
  <2>3. CapacityInv'
    BY DEF Inv, CapacityInv, Queued, Waiters, Counted, At, Reserved, Bounded,
       WorkConserving, InTurn, Before
  <2> QED BY <2>1, <2>2, <2>3 DEF Inv
<1> QED BY <1>1, <1>2

-----------------------------------------------------------------------------
(***************************************************************************)
(* The theorems.                                                           *)
(***************************************************************************)
\* The state of the admission has its types and its parts agree.
THEOREM AdmissionIsConsistent == Spec => []Inv
BY InitInv, NextInv, PTL DEF Spec

\* Whatever mix of timeouts, cancellations and grants happens, the counters
\* that admission decides by agree with the tasks that wait and run, stay
\* within the limits, and the registry holds the lanes somebody refers to.
THEOREM CountersAreTrue == Spec => []Accounting
<1>1. Inv => Accounting
  <2> SUFFICES ASSUME Inv PROVE Accounting
    OBVIOUS
  <2>1. \A x \in Scopes :
          waiting[x] = Cardinality({t \in At({"lane", "queued"}) : x \in ScopesOf(t)})
    BY DEF Inv, CapacityInv, Counted, Reserved, Admitting
  <2>2. ASSUME NEW s \in Sessions
        PROVE lanes[s] = None <=> \A t \in Tasks : SessionOf[t] = s => laneOf[t] = None
    <3>1. ASSUME lanes[s] = None, NEW t \in Tasks, SessionOf[t] = s PROVE laneOf[t] = None
      BY <3>1 DEF Inv, LaneInv, Referring
    <3>2. ASSUME lanes[s] # None PROVE \E t \in Tasks : SessionOf[t] = s /\ laneOf[t] # None
      <4>1. SessionOf[lanes[s]] = s /\ References(lanes[s]) # {}
        BY <3>2 DEF Inv, LaneInv, Registered
      <4>2. PICK t \in Tasks : laneOf[t] = lanes[s]
        BY <4>1 DEF References
      <4>3. lanes[SessionOf[t]] = lanes[s] /\ SessionOf[t] \in Sessions
        BY <3>2, <4>2 DEF Inv, LaneInv, Referring, Sessions
      <4>4. SessionOf[lanes[s]] = SessionOf[t]
        BY <3>2, <4>3 DEF Inv, LaneInv, Registered
      <4> QED BY <3>2, <4>1, <4>2, <4>4
    <3> QED BY <3>1, <3>2
  <2> QED BY <2>1, <2>2 DEF Accounting, Inv, CapacityInv, Counted, Bounded, Owning
<1> QED BY <1>1, AdmissionIsConsistent, PTL

\* Two tasks of one session never own capacity together.
THEOREM OneExecutionPerSession == Spec => []Exclusive
<1>1. Inv => Exclusive
  <2> SUFFICES ASSUME Inv, NEW t \in Tasks, pc[t] \in Owning,
                      NEW u \in Tasks, pc[u] \in Owning, SessionOf[t] = SessionOf[u]
      PROVE t = u
    BY DEF Exclusive, At, Owning
  <2>1. pc[t] \in InLane /\ pc[u] \in InLane /\ pc[t] \in Holding /\ pc[u] \in Holding
    BY DEF Owning, InLane, Holding
  <2>2. laneOf[t] = laneOf[u]
    BY <2>1 DEF Inv, LaneInv, Referring
  <2> QED BY <2>1, <2>2 DEF Inv, LaneInv, Locked
<1> QED BY <1>1, AdmissionIsConsistent, PTL

\* No slot is idle while a session is ready.
THEOREM NoIdleCapacity == Spec => []WorkConserving
<1>1. Inv => WorkConserving
  BY DEF Inv, CapacityInv
<1> QED BY <1>1, AdmissionIsConsistent, PTL

\* While a tenant has a ready session, any other is given capacity at most
\* once before it.
THEOREM TenantsTakeTurns == Spec => []FairShare
<1>1. Inv => FairShare
  BY DEF Inv, TypeOK, FairShare
<1> QED BY <1>1, AdmissionIsConsistent, PTL

-----------------------------------------------------------------------------
(***************************************************************************)
(* Nobody waits for nobody.  A call that waits for a lane waits for the    *)
(* one that holds it, which is still in hold(); one that is queued waits   *)
(* for capacity that is all owned, by calls that wait for nothing.  This   *)
(* is what Admitted rests on.                                              *)
(***************************************************************************)
NobodyStranded ==
  \A t \in Tasks :
    /\ pc[t] = "lane" =>
         \E u \in Tasks : laneOf[u] = laneOf[t] /\ HoldsLane(u) /\ pc[u] \notin {"new", "left"}
    /\ pc[t] = "queued" =>
         active = maxConcurrency /\ \E u \in Tasks : pc[u] \in {"granted", "running"}

\* Every call that waits is behind another one that is under way: the holder
\* of its lane, or the owners of all the capacity there is.  So no timeout,
\* cancellation or hand-over leaves a call waiting for a lane or a slot that
\* nobody will give back.
THEOREM NobodyWaitsForNobody == Spec => []NobodyStranded
<1>1. Inv => NobodyStranded
  <2> SUFFICES ASSUME Inv, NEW t \in Tasks
      PROVE  /\ pc[t] = "lane" =>
                  \E u \in Tasks : /\ laneOf[u] = laneOf[t] /\ HoldsLane(u)
                                   /\ pc[u] \notin {"new", "left"}
             /\ pc[t] = "queued" =>
                  /\ active = maxConcurrency
                  /\ \E u \in Tasks : pc[u] \in {"granted", "running"}
    BY DEF NobodyStranded
  <2>1. ASSUME pc[t] = "lane"
        PROVE  \E u \in Tasks : /\ laneOf[u] = laneOf[t] /\ HoldsLane(u)
                                /\ pc[u] \notin {"new", "left"}
    <3> DEFINE l == laneOf[t]
    <3>1. l # None /\ l \in Tasks
      BY <2>1 DEF Inv, TypeOK, LaneInv, Referring, InLane
    <3>2. lock[l] \in Line(Tasks) /\ ToSet(lock[l]) = References(l)
      BY <3>1 DEF Inv, TypeOK, LaneInv, Locked
    <3>3. t \in ToSet(lock[l])
      BY <3>2 DEF References
    <3>4. Head(lock[l]) \in ToSet(lock[l])
      BY <3>2, <3>3, LineIs
    <3>5. PICK u \in Tasks : u = Head(lock[l]) /\ laneOf[u] = l
      BY <3>2, <3>4 DEF References
    <3>6. pc[u] \in InLane
      BY <3>1, <3>5 DEF Inv, LaneInv, Referring
    <3> QED BY <3>1, <3>5, <3>6 DEF HoldsLane, InLane
  <2>2. ASSUME pc[t] = "queued"
        PROVE  active = maxConcurrency /\ \E u \in Tasks : pc[u] \in {"granted", "running"}
    <3> DEFINE n == TenantOf[t]
    <3>1. n \in Tenants /\ t \in Waiters(n)
      BY <2>2 DEF Waiters, Tenants
    <3>2. queue[n] \in Line(Tasks) /\ t \in ToSet(queue[n])
      BY <3>1 DEF Inv, TypeOK, CapacityInv, Queued
    <3>3. queue[n] # <<>>
      BY <3>2, LineIs
    <3>4. n \in ToSet(order) /\ order \in Line(Tenants)
      BY <3>1, <3>3 DEF Inv, TypeOK, CapacityInv, Queued
    <3>5. order # <<>>
      BY <3>4, LineIs
    <3>6. active = maxConcurrency
      BY <3>5 DEF Inv, CapacityInv, WorkConserving
    <3>7. Cardinality(At(Owning)) # 0
      BY <3>6, LimitsNest DEF Inv, TypeOK, CapacityInv, Counted
    <3>8. At(Owning) # {}
      BY <3>7, FS_EmptySet
    <3> QED BY <3>6, <3>8 DEF At, Owning
  <2> QED BY <2>1, <2>2
<1> QED BY <1>1, AdmissionIsConsistent, PTL

=============================================================================
