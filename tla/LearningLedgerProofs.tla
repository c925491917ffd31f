------------------------ MODULE LearningLedgerProofs ------------------------
(***************************************************************************)
(* Theorems about LearningLedger, for any candidates, callers, workers and *)
(* worlds.                                                                 *)
(***************************************************************************)
EXTENDS LearningLedger, FiniteSetTheorems, NaturalsInduction, TLAPS

(***************************************************************************)
(* Type correctness, in parts.  Revisions only grow, so what was read or   *)
(* committed at a revision stays behind the record.                        *)
(***************************************************************************)
RecordType == [state : CandidateState, rev : Nat, stamp : 1..MaxStamp,
               request : [Operations -> 0..MaxKeys]]
CallType   == [stage : Stages, op : Operations, c : Candidates \cup {None},
               key : 0..MaxKeys, rev : Nat]
Item       == [rev : Nat, seen : {"nothing", "present", "absent"}]
Pages      == UNION {[D -> Item] : D \in SUBSET Candidates}
SweepType  == [stage : {"idle", "scan", "page", "release"}, page : Pages, cursor : Nat]

RecordInv ==
  /\ record \in [Candidates -> RecordType]
  /\ \A c \in Candidates : record[c].rev = 0 => record[c].state = "captured"

BegunInv ==
  /\ DOMAIN begun \subseteq Requests
  /\ \A r \in DOMAIN begun : begun[r] \in 1..record[r[2]].rev

CallFits(x, rec) ==
  x.stage # "idle" => x.c \in Candidates /\ x.key \in Keys /\ x.rev <= rec[x.c].rev
CallInv ==
  /\ call \in [Callers -> CallType]
  /\ \A w \in Callers : CallFits(call[w], record)

PageFits(p, rec) == \A c \in DOMAIN p : p[c].rev \in 1..rec[c].rev
SweepInv ==
  /\ sweep \in [Sweepers -> SweepType]
  /\ \A s \in Sweepers : PageFits(sweep[s].page, record)

RestInv ==
  /\ world \in Worlds
  /\ left \in [Faults -> Nat]
  /\ tried \in [Operations -> [Candidates -> 0..MaxKeys]]
  /\ effect \in [Candidates -> BOOLEAN]
  /\ flying \subseteq Operations \X Candidates
  /\ lease \in [holder : Sweepers \cup {None}, cursor : Nat]

TypeInv == RecordInv /\ BegunInv /\ CallInv /\ SweepInv /\ RestInv

LEMMA TypeInvImplies == TypeInv => TypeOK
<1> SUFFICES ASSUME TypeInv PROVE TypeOK
  OBVIOUS
<1>1. ASSUME NEW s \in Sweepers
      PROVE  /\ sweep[s].stage \in {"idle", "scan", "page", "release"} /\ sweep[s].cursor \in Nat
             /\ DOMAIN sweep[s].page \subseteq Candidates
             /\ \A c \in DOMAIN sweep[s].page :
                  /\ sweep[s].page[c].rev \in 1..record[c].rev
                  /\ sweep[s].page[c].seen \in {"nothing", "present", "absent"}
  BY DEF TypeInv, SweepInv, SweepType, Pages, Item, PageFits
<1> QED
  BY <1>1 DEF TypeInv, TypeOK, RecordInv, BegunInv, CallInv, CallFits, RestInv, RecordType, CallType

LEMMA Bounds == /\ MaxKeys \in Nat /\ MaxStamp \in Nat /\ 1 \in 1..MaxStamp
                /\ 0 \in 0..MaxKeys /\ Keys \subseteq 0..MaxKeys
BY BoundsArePositive DEF Keys

LEMMA WorldParts ==
  ASSUME world \in Worlds
  PROVE  /\ world.candidates \subseteq Candidates /\ world.sweepers \subseteq Sweepers
         /\ world.budget \in [Faults -> Nat]
BY WorldsAreWorlds DEF World

LEMMA EmptyPage == <<>> \in Pages /\ DOMAIN <<>> = {}
<1>1. <<>> \in [{} -> Item]
  OBVIOUS
<1> QED BY <1>1 DEF Pages

LEMMA AsleepFits == Asleep \in SweepType /\ (\A rec : PageFits(Asleep.page, rec))
BY EmptyPage DEF Asleep, SweepType, PageFits

LEMMA IdleFits == Idle \in CallType /\ (\A rec : CallFits(Idle, rec)) /\ Idle.stage = "idle"
BY Bounds DEF Idle, CallType, Stages, Operations, CallFits

LEMMA TypeInit == Init => TypeInv
<1> SUFFICES ASSUME Init PROVE TypeInv
  OBVIOUS
<1>1. RecordInv
  BY Bounds DEF Init, RecordInv, RecordType, CandidateState
<1>2. BegunInv
  BY DEF Init, BegunInv
<1>3. CallInv
  BY IdleFits DEF Init, CallInv
<1>4. SweepInv
  BY AsleepFits DEF Init, SweepInv
<1>5. RestInv
  <2>1. world \in Worlds /\ left \in [Faults -> Nat]
    BY WorldParts DEF Init
  <2> QED BY <2>1, Bounds DEF Init, RestInv
<1> QED BY <1>1, <1>2, <1>3, <1>4, <1>5 DEF TypeInv

-----------------------------------------------------------------------------
(***************************************************************************)
(* What the helpers of the actions do.                                     *)
(***************************************************************************)
LEMMA SpendFacts ==
  ASSUME RestInv, NEW f \in Faults, Spend(f)
  PROVE  /\ left' \in [Faults -> Nat] /\ left[f] # 0
         /\ \A g \in Faults : left[g] = 0 => left'[g] = 0
BY DEF Spend, RestInv

\* The record of one candidate moves to a new state at the next revision.
Moved(c, state) ==
  /\ record'[c].state = state
  /\ record'[c].rev = record[c].rev + 1
  /\ \A d \in Candidates : d # c => record'[d] = record[d]

LEMMA WrittenFacts ==
  ASSUME RecordInv, NEW c \in Candidates, NEW state \in CandidateState,
         NEW stamp \in 1..MaxStamp, NEW q \in [Operations -> 0..MaxKeys],
         Written(c, state, stamp, q)
  PROVE  RecordInv' /\ Moved(c, state) /\ record'[c].request = q
<1> DEFINE x == [state |-> state, rev |-> record[c].rev + 1, stamp |-> stamp, request |-> q]
<1>1. record[c].rev \in Nat /\ record[c].rev + 1 \in Nat /\ record[c].rev + 1 # 0
  BY DEF RecordInv, RecordType
<1>2. x \in RecordType
  BY <1>1 DEF RecordType
<1>3. x.state = state /\ x.rev = record[c].rev + 1 /\ x.request = q
  OBVIOUS
<1>4. record' = [record EXCEPT ![c] = x]
  BY DEF Written
<1> HIDE DEF x
<1> QED BY <1>1, <1>2, <1>3, <1>4 DEF RecordInv, Moved

LEMMA SavedFacts ==
  ASSUME RecordInv, NEW c \in Candidates, NEW state \in CandidateState, Saved(c, state)
  PROVE  RecordInv' /\ Moved(c, state) /\ record'[c].request = record[c].request
<1>1. PICK stamp \in 1..MaxStamp : Written(c, state, stamp, record[c].request)
  BY Bounds DEF Saved
<1>2. record[c].request \in [Operations -> 0..MaxKeys]
  BY DEF RecordInv, RecordType
<1> QED BY <1>1, <1>2, WrittenFacts

LEMMA IntendedFacts ==
  ASSUME RecordInv, NEW w \in Callers, call[w] \in CallType, CallFits(call[w], record),
         call[w].stage # "idle", Intended(w)
  PROVE  /\ RecordInv' /\ Moved(call[w].c, Doing[call[w].op])
         /\ record'[call[w].c].request[call[w].op] = call[w].key
<1>1. call[w].c \in Candidates
  BY DEF CallFits
<1>2. call[w].op \in Operations /\ call[w].key \in 0..MaxKeys
  BY DEF CallType
<1> DEFINE q == [record[call[w].c].request EXCEPT ![call[w].op] = call[w].key]
<1>3. record[call[w].c].stamp \in 1..MaxStamp
      /\ record[call[w].c].request \in [Operations -> 0..MaxKeys]
  BY <1>1 DEF RecordInv, RecordType
<1>4. q \in [Operations -> 0..MaxKeys] /\ q[call[w].op] = call[w].key
  BY <1>2, <1>3
<1>5. Doing[call[w].op] \in CandidateState
  BY <1>2 DEF Doing, CandidateState, DoubtStates, Operations
<1>6. Written(call[w].c, Doing[call[w].op], record[call[w].c].stamp, q)
  BY DEF Intended
<1> HIDE DEF q
<1> QED BY <1>1, <1>3, <1>4, <1>5, <1>6, WrittenFacts

Stays == \A c \in Candidates : record[c].rev <= record'[c].rev

LEMMA MovedStays ==
  ASSUME RecordInv, NEW c \in Candidates, NEW state, Moved(c, state)
  PROVE  Stays
BY DEF RecordInv, RecordType, Moved, Stays

\* What fits the records fits them at later revisions.
LEMMA Later ==
  ASSUME TypeInv, RecordInv', Stays
  PROVE  /\ begun' = begun => BegunInv'
         /\ \A x \in CallType : CallFits(x, record) => CallFits(x, record')
         /\ \A p \in Pages : PageFits(p, record) => PageFits(p, record')
<1>1. \A c \in Candidates : /\ record[c].rev \in Nat /\ record'[c].rev \in Nat
                            /\ record[c].rev <= record'[c].rev
  BY DEF TypeInv, RecordInv, RecordType, Stays
<1>2. begun' = begun => BegunInv'
  <2>1. \A r \in Requests : r[2] \in Candidates
    BY DEF Requests
  <2> QED BY <1>1, <2>1 DEF TypeInv, BegunInv
<1>3. ASSUME NEW x \in CallType, CallFits(x, record) PROVE CallFits(x, record')
  <2>1. x.rev \in Nat
    BY DEF CallType
  <2> QED BY <1>1, <1>3, <2>1 DEF CallFits
<1>4. ASSUME NEW p \in Pages, PageFits(p, record) PROVE PageFits(p, record')
  <2>1. DOMAIN p \subseteq Candidates
    BY DEF Pages
  <2>2. ASSUME NEW c \in DOMAIN p PROVE p[c].rev \in 1..record'[c].rev
    BY <1>1, <1>4, <2>1, <2>2 DEF PageFits
  <2> QED BY <2>2 DEF PageFits
<1> QED BY <1>2, <1>3, <1>4

LEMMA Unmoved ==
  ASSUME TypeInv, RecordInv', Stays
  PROVE  /\ call' = call => CallInv'
         /\ sweep' = sweep => SweepInv'
BY Later DEF TypeInv, CallInv, SweepInv, SweepType

LEMMA SameRecord == ASSUME TypeInv, record' = record PROVE RecordInv' /\ Stays
BY DEF TypeInv, RecordInv, RecordType, Stays

\* The record of one call takes a new value.
LEMMA CallChanges ==
  ASSUME TypeInv, RecordInv', Stays, NEW w \in Callers, NEW x \in CallType,
         CallFits(x, record'), call' = [call EXCEPT ![w] = x]
  PROVE  CallInv' /\ call'[w] = x /\ \A v \in Callers : v # w => call'[v] = call[v]
<1>1. call' \in [Callers -> CallType] /\ call'[w] = x
      /\ \A v \in Callers : v # w => call'[v] = call[v]
  BY DEF TypeInv, CallInv
<1>2. \A v \in Callers : v # w => CallFits(call[v], record')
  BY Later DEF TypeInv, CallInv
<1> QED BY <1>1, <1>2 DEF CallInv

LEMMA CallGoes ==
  ASSUME TypeInv, RecordInv', Stays, NEW w \in Callers, call[w].stage # "idle",
         NEW s \in Stages, NEW n \in Nat, n <= record'[call[w].c].rev, Goto(w, s, n)
  PROVE  /\ CallInv'
         /\ call'[w].stage = s /\ call'[w].rev = n /\ call'[w].op = call[w].op
         /\ call'[w].c = call[w].c /\ call'[w].key = call[w].key
         /\ \A v \in Callers : v # w => call'[v] = call[v]
<1> DEFINE x == [stage |-> s, op |-> call[w].op, c |-> call[w].c, key |-> call[w].key, rev |-> n]
<1>1. call[w] \in CallType /\ CallFits(call[w], record)
  BY DEF TypeInv, CallInv
<1>2. x \in CallType
  BY <1>1 DEF CallType
<1>3. x.stage = s /\ x.rev = n /\ x.op = call[w].op /\ x.c = call[w].c /\ x.key = call[w].key
  OBVIOUS
<1>4. CallFits(x, record')
  BY <1>1, <1>3 DEF CallFits
<1>5. call' = [call EXCEPT ![w] = x]
  BY DEF Goto
<1> HIDE DEF x
<1>6. CallInv' /\ call'[w] = x /\ \A v \in Callers : v # w => call'[v] = call[v]
  BY <1>2, <1>4, <1>5, CallChanges
<1> QED BY <1>3, <1>6

LEMMA CallIdles ==
  ASSUME TypeInv, RecordInv', Stays, NEW w \in Callers, call' = [call EXCEPT ![w] = Idle]
  PROVE  /\ CallInv' /\ call'[w].stage = "idle"
         /\ \A v \in Callers : v # w => call'[v] = call[v]
BY IdleFits, CallChanges

\* The page of one worker takes a new value.
LEMMA SweepChanges ==
  ASSUME TypeInv, RecordInv', Stays, NEW s \in Sweepers, NEW x \in SweepType,
         PageFits(x.page, record'), sweep' = [sweep EXCEPT ![s] = x]
  PROVE  SweepInv' /\ sweep'[s] = x /\ \A v \in Sweepers : v # s => sweep'[v] = sweep[v]
<1>1. sweep' \in [Sweepers -> SweepType] /\ sweep'[s] = x
      /\ \A v \in Sweepers : v # s => sweep'[v] = sweep[v]
  BY DEF TypeInv, SweepInv
<1>2. \A v \in Sweepers : v # s => PageFits(sweep[v].page, record')
  BY Later DEF TypeInv, SweepInv, SweepType
<1> QED BY <1>1, <1>2 DEF SweepInv

-----------------------------------------------------------------------------
(***************************************************************************)
(* The cursor of the next page is a position: a page that is not the last  *)
(* one has a first and a last candidate.                                   *)
(***************************************************************************)
LEMMA LeastOf ==
  ASSUME NEW S \in SUBSET Nat, S # {}
  PROVE  \E x \in S : \A y \in S : x <= y
<1>1. PICK x \in S : \A y \in S : ~ (<<y, x>> \in OpToRel(<, Nat))
  BY NatLessThanWellFounded, WFMin
<1>2. ASSUME NEW y \in S PROVE x <= y
  <2>1. <<y, x>> \in OpToRel(<, Nat) <=> y < x
    BY DEF OpToRel
  <2>2. ~ (y < x)
    BY <1>1, <2>1, Zenon
  <2> QED BY <2>2
<1> QED BY <1>2

LEMMA PositionsAreNumbers == TypeInv => \A c \in Candidates : Position(c) \in Nat
<1>1. \A a, b \in Nat : a * b \in Nat
  OBVIOUS
<1>2. Cardinality(Candidates) \in Nat
  BY CandidatesAreNumbers, FS_CardinalityType
<1> SUFFICES ASSUME TypeInv, NEW c \in Candidates PROVE Position(c) \in Nat
  OBVIOUS
<1>3. c \in Nat
  BY <1>2, CandidatesAreNumbers
<1>4. record[c].stamp \in Nat
  BY BoundsArePositive DEF TypeInv, RecordInv, RecordType
<1>5. record[c].stamp * (1 + Cardinality(Candidates)) \in Nat
  BY <1>1, <1>2, <1>4
<1> QED BY <1>3, <1>5 DEF Position

LEMMA CursorIsNumber == TypeInv => \A cursor : NextCursor(cursor) \in Nat
<1> SUFFICES ASSUME TypeInv, NEW cursor, PageAfter(cursor) # After(cursor)
             PROVE  LastPosition(PageAfter(cursor)) \in Nat
  BY DEF NextCursor
<1> DEFINE A == After(cursor)
           P == PageAfter(cursor)
           Below(c) == {d \in A : Position(d) < Position(c)}
           rank(c) == Cardinality(Below(c))
<1>1. A \subseteq Candidates /\ IsFiniteSet(A)
  <2>1. A \subseteq Candidates
    BY DEF After
  <2> QED BY <2>1, CandidatesAreNumbers, FS_Subset
<1>2. \A c \in A : Position(c) \in Nat
  BY <1>1, PositionsAreNumbers
<1>3. \A c \in A : Below(c) \subseteq A /\ IsFiniteSet(Below(c)) /\ rank(c) \in Nat
  <2>1. \A c \in A : Below(c) \in SUBSET A
    OBVIOUS
  <2>2. \A c \in A : IsFiniteSet(Below(c))
    BY <1>1, <2>1, FS_Subset
  <2> QED BY <2>1, <2>2, FS_CardinalityType
<1>4. P = {c \in A : rank(c) < PageLimit}
  BY DEF PageAfter
<1>5. \A c, d \in A : Position(c) < Position(d) => rank(c) < rank(d)
  <2> SUFFICES ASSUME NEW c \in A, NEW d \in A, Position(c) < Position(d)
               PROVE  rank(c) < rank(d)
    OBVIOUS
  <2> DEFINE more == Below(c) \cup {c}
  <2>1. c \notin Below(c) /\ more \in SUBSET Below(d)
    BY <1>2
  <2>2. IsFiniteSet(Below(c)) /\ IsFiniteSet(Below(d)) /\ rank(c) \in Nat /\ rank(d) \in Nat
    BY <1>3
  <2> HIDE DEF Below
  <2>3. Cardinality(more) = rank(c) + 1
    BY <2>1, <2>2, FS_AddElement
  <2>4. Cardinality(more) <= rank(d)
    BY <2>1, <2>2, FS_Subset
  <2> QED BY <2>2, <2>3, <2>4
<1>6. P # {}
  <2>1. A # {}
    BY <1>4
  <2>2. PICK a \in A : \A d \in A : Position(a) <= Position(d)
    <3>1. {Position(c) : c \in A} \in SUBSET Nat /\ {Position(c) : c \in A} # {}
      BY <1>2, <2>1
    <3>2. PICK p \in {Position(c) : c \in A} : \A q \in {Position(c) : c \in A} : p <= q
      BY <3>1, LeastOf
    <3> QED BY <3>2
  <2>3. Below(a) = {}
    BY <1>2, <2>2
  <2>4. rank(a) = 0
    BY <2>3, FS_EmptySet
  <2> QED BY <1>4, <2>4, BoundsArePositive
<1>7. PICK c \in P : \A d \in P : rank(d) <= rank(c)
  <2> DEFINE room(d) == PageLimit - rank(d)
             S == {room(d) : d \in P}
  <2>1. \A d \in P : rank(d) \in Nat /\ room(d) \in Nat
    <3>1. \A d \in P : rank(d) \in Nat /\ rank(d) < PageLimit
      BY <1>3, <1>4
    <3> HIDE DEF rank, P
    <3> QED BY <3>1, BoundsArePositive
  <2>2. S \in SUBSET Nat /\ S # {}
    BY <1>6, <2>1
  <2>3. PICK x \in S : \A y \in S : x <= y
    BY <2>2, LeastOf
  <2>4. PICK c \in P : x = room(c)
    BY <2>3
  <2>5. \A d \in P : room(c) <= room(d)
    BY <2>3, <2>4
  <2> HIDE DEF rank
  <2> QED BY <2>1, <2>5, BoundsArePositive
<1>8. \A d \in P : Position(d) <= Position(c)
  <2> HIDE DEF rank
  <2> SUFFICES ASSUME NEW d \in P, Position(c) < Position(d) PROVE FALSE
    BY <1>2, <1>4
  <2>1. c \in A /\ d \in A /\ rank(c) \in Nat /\ rank(d) \in Nat
    BY <1>3, <1>4
  <2> QED BY <1>5, <1>7, <2>1
<1> DEFINE T == {Position(d) : d \in P}
<1>9. T \subseteq Nat /\ Position(c) \in T /\ \A y \in T : Position(c) >= y
  BY <1>2, <1>4, <1>8
<1>10. Max(T) \in T
  BY <1>9 DEF Max
<1> QED BY <1>9, <1>10 DEF LastPosition

-----------------------------------------------------------------------------
(***************************************************************************)
(* Each step keeps the types, moves revisions only forward and never gives *)
(* back a fault that is spent.                                             *)
(***************************************************************************)
BudgetInv == \A f \in Faults : world.budget[f] = 0 => left[f] = 0

Kept == TypeInv' /\ Stays /\ BudgetInv' /\ world' = world

\* Most steps leave the knowledge store and the callers' ids alone.
Calm == /\ world' = world /\ tried' = tried /\ effect' = effect /\ flying' = flying
        /\ (left' = left \/ \E f \in Faults : Spend(f))

LEMMA CalmSteps ==
  ASSUME TypeInv, BudgetInv, Calm, lease' = lease,
         RecordInv', Stays, BegunInv', CallInv', SweepInv'
  PROVE  Kept
<1>1. left' \in [Faults -> Nat] /\ \A g \in Faults : left[g] = 0 => left'[g] = 0
  BY SpendFacts DEF Calm, TypeInv, RestInv
<1> QED BY <1>1 DEF Calm, Kept, TypeInv, RestInv, BudgetInv

\* A review or a reconciliation by the operator.
LEMMA RecordMoves ==
  ASSUME TypeInv, BudgetInv, NEW c \in Candidates, NEW state \in CandidateState, Saved(c, state),
         Calm, begun' = begun, call' = call, workers' = workers
  PROVE  Kept /\ Moved(c, state) /\ record'[c].request = record[c].request
<1>1. RecordInv' /\ Moved(c, state) /\ record'[c].request = record[c].request
  BY SavedFacts DEF TypeInv
<1>2. Stays
  BY <1>1, MovedStays DEF TypeInv
<1>3. BegunInv' /\ CallInv' /\ SweepInv'
  BY <1>1, <1>2, Later, Unmoved DEF workers
<1> QED BY <1>1, <1>2, <1>3, CalmSteps DEF workers

LEMMA TransitionStates ==
  \A state : Transitions(state) \subseteq {"quarantined", "captured", "deleted"}
BY DEF Transitions

LEMMA ResolvedStates ==
  ASSUME NEW state, NEW present \in BOOLEAN
  PROVE  /\ KindOf(state) \in Operations
         /\ Resolved(KindOf(state), present)
              = IF KindOf(state) = "promote"
                  THEN IF present THEN "promoted" ELSE "qualified"
                  ELSE IF present THEN "promoted" ELSE "rolled_back"
BY DEF KindOf, Resolved, Done, Undone, Operations

LEMMA ReviewKept ==
  ASSUME TypeInv, BudgetInv, NEW c \in Candidates, Evaluate(c) \/ Transition(c)
  PROVE  \E state \in {"captured", "qualified", "rejected", "quarantined", "deleted"} :
           /\ record[c].state \notin DoubtStates \cup {"promoted"}
           /\ Kept /\ Moved(c, state) /\ record'[c].request = record[c].request
<1>1. "edit" \in Faults
  BY DEF Faults
<1>2. PICK state \in {"captured", "qualified", "rejected", "quarantined", "deleted"} : Saved(c, state)
  BY TransitionStates DEF Evaluate, Judgements, Transition
<1>3. state \in CandidateState
  BY DEF CandidateState
<1>4. Calm /\ begun' = begun /\ call' = call /\ workers' = workers
  BY <1>1 DEF Evaluate, Transition, Calm, gateway, workers
<1>5. record[c].state \notin DoubtStates \cup {"promoted"}
  BY DEF Evaluate, Judgements, Transition, Transitions, DoubtStates, UnknownStates,
         Operations, Unknown, Doing
<1> QED BY <1>2, <1>3, <1>4, <1>5, RecordMoves

LEMMA OperatorKept ==
  ASSUME TypeInv, BudgetInv, NEW c \in Candidates, NEW present \in BOOLEAN,
         OperatorReconciles(c, present)
  PROVE  /\ Kept /\ Moved(c, Resolved(KindOf(record[c].state), present))
         /\ record'[c].request = record[c].request
<1>1. "hasty" \in Faults
  BY DEF Faults
<1>2. Resolved(KindOf(record[c].state), present) \in CandidateState
  BY ResolvedStates DEF CandidateState
<1>3. Calm /\ begun' = begun /\ call' = call /\ workers' = workers
  BY <1>1 DEF OperatorReconciles, Calm, gateway, workers
<1> QED BY <1>2, <1>3, RecordMoves DEF OperatorReconciles

LEMMA ReadKept ==
  ASSUME TypeInv, BudgetInv, NEW w \in Callers, NEW op \in Operations, NEW c \in Candidates,
         NEW k \in Keys, Read(w, op, c, k)
  PROVE  /\ Kept /\ record' = record
         /\ call'[w] = [stage |-> "read", op |-> op, c |-> c, key |-> k, rev |-> record[c].rev]
         /\ \A v \in Callers : v # w => call'[v] = call[v]
<1> DEFINE x == [stage |-> "read", op |-> op, c |-> c, key |-> k, rev |-> record[c].rev]
<1>1. RecordInv' /\ Stays /\ record' = record
  BY SameRecord DEF Read
<1>2. record[c].rev \in Nat /\ k \in 0..MaxKeys
  BY Bounds DEF TypeInv, RecordInv, RecordType
<1>3. x \in CallType /\ x.c = c /\ x.key = k /\ x.rev = record[c].rev
  BY <1>2 DEF CallType, Stages
<1>4. CallFits(x, record')
  BY <1>1, <1>2, <1>3 DEF CallFits
<1>5. call' = [call EXCEPT ![w] = x]
  BY DEF Read
<1> HIDE DEF x
<1>6. CallInv' /\ call'[w] = x /\ \A v \in Callers : v # w => call'[v] = call[v]
  BY <1>1, <1>3, <1>4, <1>5, CallChanges
<1>7. BegunInv' /\ SweepInv'
  BY <1>1, Later, Unmoved DEF Read, workers
<1>8. CASE k <= tried[op][c]
  <2>1. Spend("retry") /\ tried' = tried /\ "retry" \in Faults
    BY <1>8 DEF Read, Named, Faults
  <2> QED BY <1>1, <1>6, <1>7, <2>1, CalmSteps DEF Calm, Read, workers, x
<1>9. CASE ~(k <= tried[op][c])
  <2>1. tried' = [tried EXCEPT ![op][c] = k] /\ left' = left
    BY <1>9 DEF Read, Named
  <2>2. tried' \in [Operations -> [Candidates -> 0..MaxKeys]]
    BY <1>2, <2>1 DEF TypeInv, RestInv
  <2>3. RestInv' /\ BudgetInv' /\ world' = world
    BY <2>1, <2>2 DEF Read, workers, TypeInv, RestInv, BudgetInv
  <2> QED BY <1>1, <1>6, <1>7, <2>3 DEF Kept, TypeInv, x
<1> QED BY <1>8, <1>9

LEMMA BusyCall ==
  ASSUME TypeInv, NEW w \in Callers, call[w].stage # "idle"
  PROVE  /\ call[w].c \in Candidates /\ call[w].op \in Operations /\ call[w].key \in Keys
         /\ call[w].rev \in Nat /\ call[w].rev <= record[call[w].c].rev
         /\ call[w] \in CallType /\ CallFits(call[w], record)
         /\ Request(w) \in Requests /\ Request(w)[2] = call[w].c
         /\ record[call[w].c].rev \in Nat
BY DEF TypeInv, CallInv, CallType, CallFits, Request, Requests, RecordInv, RecordType

\* A call only changes its stage.
LEMMA StageKept ==
  ASSUME TypeInv, BudgetInv, NEW w \in Callers, call[w].stage # "idle", NEW s \in Stages,
         Goto(w, s, call[w].rev), ledger' = ledger, workers' = workers, world' = world,
         left' = left \/ \E f \in Faults : Spend(f),
         effect' \in [Candidates -> BOOLEAN], flying' \subseteq Operations \X Candidates
  PROVE  /\ Kept
         /\ call'[w].stage = s /\ call'[w].rev = call[w].rev /\ call'[w].op = call[w].op
         /\ call'[w].c = call[w].c /\ call'[w].key = call[w].key
         /\ \A v \in Callers : v # w => call'[v] = call[v]
<1>1. RecordInv' /\ Stays /\ record' = record
  BY SameRecord DEF ledger
<1>2. BegunInv' /\ SweepInv'
  BY <1>1, Later, Unmoved DEF ledger, workers
<1>3. call[w].rev \in Nat /\ call[w].rev <= record'[call[w].c].rev
  BY <1>1, BusyCall
<1>4. /\ CallInv'
      /\ call'[w].stage = s /\ call'[w].rev = call[w].rev /\ call'[w].op = call[w].op
      /\ call'[w].c = call[w].c /\ call'[w].key = call[w].key
      /\ \A v \in Callers : v # w => call'[v] = call[v]
  BY <1>1, <1>3, CallGoes
<1>5. left' \in [Faults -> Nat] /\ \A g \in Faults : left[g] = 0 => left'[g] = 0
  BY SpendFacts DEF TypeInv, RestInv
<1>6. RestInv' /\ BudgetInv'
  BY <1>5 DEF TypeInv, RestInv, BudgetInv, ledger, workers
<1> QED BY <1>1, <1>2, <1>4, <1>6 DEF Kept, TypeInv

LEMMA LandFacts ==
  ASSUME TypeInv, NEW op \in Operations, NEW c \in Candidates, Land(op, c)
  PROVE  /\ effect' \in [Candidates -> BOOLEAN]
         /\ effect'[c] <=> op = "promote"
         /\ \A d \in Candidates : d # c => effect'[d] = effect[d]
<1> DEFINE b == op = "promote"
<1>1. b \in BOOLEAN /\ effect' = [effect EXCEPT ![c] = b] /\ effect \in [Candidates -> BOOLEAN]
  BY DEF Land, TypeInv, RestInv
<1> HIDE DEF b
<1>2. /\ effect' \in [Candidates -> BOOLEAN] /\ effect'[c] = b
      /\ \A d \in Candidates : d # c => effect'[d] = effect[d]
  BY <1>1
<1> QED BY <1>2 DEF b

LEMMA ActKept ==
  ASSUME TypeInv, BudgetInv, NEW w \in Callers, Act(w)
  PROVE  /\ Kept /\ ledger' = ledger
         /\ call'[w].stage = "acted" /\ call'[w].rev = call[w].rev /\ call'[w].op = call[w].op
         /\ call'[w].c = call[w].c /\ call'[w].key = call[w].key
         /\ \A v \in Callers : v # w => call'[v] = call[v]
<1>1. "acted" \in Stages /\ call[w].stage # "idle"
  BY DEF Act, Stages
<1>2. effect' \in [Candidates -> BOOLEAN]
  BY <1>1, BusyCall, LandFacts DEF Act
<1> QED BY <1>1, <1>2, StageKept DEF Act, TypeInv, RestInv

LEMMA RaiseKept ==
  ASSUME TypeInv, BudgetInv, NEW w \in Callers, Raise(w) \/ RaiseEarly(w)
  PROVE  /\ Kept /\ ledger' = ledger
         /\ call'[w].stage = "raised" /\ call'[w].rev = call[w].rev /\ call'[w].op = call[w].op
         /\ call'[w].c = call[w].c /\ call'[w].key = call[w].key
         /\ \A v \in Callers : v # w => call'[v] = call[v]
<1>1. "raised" \in Stages /\ call[w].stage # "idle" /\ {"raise", "late"} \subseteq Faults
  BY DEF Raise, RaiseEarly, Stages, Faults
<1>2. flying' \subseteq Operations \X Candidates
  BY <1>1, BusyCall DEF Raise, RaiseEarly, TypeInv, RestInv
<1> QED BY <1>1, <1>2, StageKept DEF Raise, RaiseEarly, TypeInv, RestInv

LEMMA LandLateKept ==
  ASSUME TypeInv, BudgetInv, NEW op \in Operations, NEW c \in Candidates, LandLate(op, c)
  PROVE  Kept /\ ledger' = ledger /\ call' = call
<1>1. RecordInv' /\ Stays
  BY SameRecord DEF LandLate, ledger
<1>2. BegunInv' /\ CallInv' /\ SweepInv'
  BY <1>1, Later, Unmoved DEF LandLate, ledger, workers
<1>3. RestInv' /\ BudgetInv'
  BY LandFacts DEF LandLate, TypeInv, RestInv, BudgetInv, ledger, workers
<1> QED BY <1>1, <1>2, <1>3 DEF Kept, TypeInv, LandLate

LEMMA CallEndsKept ==
  ASSUME TypeInv, BudgetInv, NEW w \in Callers, CallEnds(w)
  PROVE  /\ Kept /\ ledger' = ledger /\ call'[w].stage = "idle"
         /\ \A v \in Callers : v # w => call'[v] = call[v]
<1>1. RecordInv' /\ Stays
  BY SameRecord DEF CallEnds, ledger
<1>2. BegunInv' /\ SweepInv'
  BY <1>1, Later, Unmoved DEF CallEnds, ledger, workers
<1>3. CallInv' /\ call'[w].stage = "idle" /\ \A v \in Callers : v # w => call'[v] = call[v]
  BY <1>1, CallIdles DEF CallEnds
<1>4. Calm /\ lease' = lease
  BY DEF CallEnds, Calm, Faults, gateway, ledger, workers
<1> QED BY <1>1, <1>2, <1>3, <1>4, CalmSteps DEF CallEnds

\* What a settlement does to the record.
MaySettle(w) ==
  record[call[w].c].rev = call[w].rev /\ record[call[w].c].state = Doing[call[w].op]

LEMMA SettleKept ==
  ASSUME TypeInv, BudgetInv, NEW w \in Callers, Settle(w)
  PROVE  /\ Kept /\ call'[w].stage = "idle"
         /\ \A v \in Callers : v # w => call'[v] = call[v]
         /\ begun' = begun /\ tried' = tried /\ effect' = effect /\ flying' = flying
         /\ workers' = workers
         /\ MaySettle(w) => Moved(call[w].c, Outcome(w))
              /\ record'[call[w].c].request = record[call[w].c].request
         /\ ~MaySettle(w) => record' = record
<1>1. call[w].stage # "idle" /\ call[w].c \in Candidates /\ call[w].op \in Operations
  BY BusyCall DEF Settle
<1>2. Outcome(w) \in CandidateState
  BY <1>1 DEF Outcome, Done, Unknown, Operations, CandidateState, DoubtStates, UnknownStates
<1>3. /\ RecordInv' /\ Stays
      /\ MaySettle(w) => Moved(call[w].c, Outcome(w))
           /\ record'[call[w].c].request = record[call[w].c].request
      /\ ~MaySettle(w) => record' = record
  <2>1. CASE MaySettle(w)
    <3>1. Saved(call[w].c, Outcome(w))
      BY <2>1 DEF Settle, MaySettle
    <3>2. RecordInv' /\ Moved(call[w].c, Outcome(w))
          /\ record'[call[w].c].request = record[call[w].c].request
      BY <1>1, <1>2, <3>1, SavedFacts DEF TypeInv
    <3> QED BY <1>1, <2>1, <3>2, MovedStays DEF TypeInv
  <2>2. CASE ~MaySettle(w)
    <3>1. record' = record
      BY <2>2 DEF Settle, MaySettle
    <3> QED BY <2>2, <3>1, SameRecord
  <2> QED BY <2>1, <2>2
<1>4. BegunInv' /\ SweepInv'
  BY <1>3, Later, Unmoved DEF Settle, workers
<1>5. CallInv' /\ call'[w].stage = "idle" /\ \A v \in Callers : v # w => call'[v] = call[v]
  BY <1>3, CallIdles DEF Settle
<1>6. Calm /\ lease' = lease
  BY DEF Settle, Calm, workers
<1> QED BY <1>3, <1>4, <1>5, <1>6, CalmSteps DEF Settle

\* begin_promotion and begin_rollback: the record of the intent, a replay of
\* it, or a refusal.
Fresh(w) == Request(w) \notin DOMAIN begun

LEMMA BeginKept ==
  ASSUME TypeInv, BudgetInv, NEW w \in Callers, Begin(w)
  PROVE  /\ Kept /\ tried' = tried /\ effect' = effect /\ flying' = flying /\ workers' = workers
         /\ \A v \in Callers : v # w => call'[v] = call[v]
         /\ Fresh(w) /\ MayBegin(w) =>
              /\ Moved(call[w].c, Doing[call[w].op])
              /\ record'[call[w].c].request[call[w].op] = call[w].key
              /\ DOMAIN begun' = DOMAIN begun \cup {Request(w)}
              /\ call'[w].stage = "sent" /\ call'[w].op = call[w].op /\ call'[w].c = call[w].c
              /\ call'[w].key = call[w].key /\ call'[w].rev = record'[call[w].c].rev
         /\ Fresh(w) /\ ~MayBegin(w) =>
              record' = record /\ begun' = begun /\ call'[w].stage = "idle"
<1>1. /\ call[w].stage # "idle" /\ call[w].stage = "read"
      /\ call[w].c \in Candidates /\ call[w].op \in Operations
      /\ call[w] \in CallType /\ CallFits(call[w], record)
      /\ Request(w) \in Requests /\ Request(w)[2] = call[w].c
      /\ record[call[w].c].rev \in Nat
  BY BusyCall DEF Begin
<1>2. Calm /\ lease' = lease /\ sweep' = sweep
  BY DEF Begin, Calm, workers
<1>3. "sent" \in Stages
  BY DEF Stages
<1>4. CASE ~Fresh(w)
  <2>1. record' = record /\ begun' = begun /\ Goto(w, "sent", begun[Request(w)])
    BY <1>4 DEF Begin, Fresh
  <2>2. RecordInv' /\ Stays
    BY <2>1, SameRecord
  <2>3. begun[Request(w)] \in Nat /\ begun[Request(w)] <= record'[call[w].c].rev
    BY <1>1, <1>4, <2>1 DEF Fresh, TypeInv, BegunInv
  <2>4. CallInv' /\ \A v \in Callers : v # w => call'[v] = call[v]
    BY <1>1, <1>3, <2>1, <2>2, <2>3, CallGoes
  <2>5. BegunInv' /\ SweepInv'
    BY <1>2, <2>1, <2>2, Later, Unmoved
  <2> QED BY <1>2, <1>4, <2>2, <2>4, <2>5, CalmSteps DEF Begin
<1>5. CASE Fresh(w) /\ MayBegin(w)
  <2> DEFINE c == call[w].c
             n == record[c].rev + 1
  <2>1. Intended(w) /\ Goto(w, "sent", n)
    BY <1>5 DEF Begin, Fresh
  <2>2. begun' = [r \in DOMAIN begun \cup {Request(w)} |->
                    IF r = Request(w) THEN n ELSE begun[r]]
    BY <1>5 DEF Begin, Fresh
  <2>3. RecordInv' /\ Moved(c, Doing[call[w].op])
        /\ record'[c].request[call[w].op] = call[w].key
    BY <1>1, <2>1, IntendedFacts DEF TypeInv
  <2>4. Stays
    BY <1>1, <2>3, MovedStays DEF TypeInv
  <2>5. n \in Nat /\ n = record'[c].rev /\ n >= 1
    BY <1>1, <2>3 DEF Moved
  <2>6. /\ CallInv'
        /\ call'[w].stage = "sent" /\ call'[w].rev = n /\ call'[w].op = call[w].op
        /\ call'[w].c = call[w].c /\ call'[w].key = call[w].key
        /\ \A v \in Callers : v # w => call'[v] = call[v]
    BY <1>1, <1>3, <2>1, <2>3, <2>4, <2>5, CallGoes
  <2>7. SweepInv'
    BY <1>2, <2>3, <2>4, Unmoved
  <2>8. BegunInv'
    <3>1. DOMAIN begun' = DOMAIN begun \cup {Request(w)} /\ DOMAIN begun \subseteq Requests
      BY <2>2 DEF TypeInv, BegunInv
    <3>2. begun'[Request(w)] \in 1..record'[c].rev
      BY <2>2, <2>5
    <3>3. ASSUME NEW r \in DOMAIN begun, r # Request(w) PROVE begun'[r] \in 1..record'[r[2]].rev
      <4>1. r[2] \in Candidates /\ begun'[r] = begun[r] /\ begun[r] \in 1..record[r[2]].rev
        BY <2>2, <3>1, <3>3 DEF TypeInv, BegunInv, Requests
      <4>2. record[r[2]].rev \in Nat /\ record'[r[2]].rev \in Nat
        BY <2>3, <4>1 DEF TypeInv, RecordInv, RecordType
      <4> QED BY <2>4, <4>1, <4>2 DEF Stays
    <3>4. \A r \in DOMAIN begun' : begun'[r] \in 1..record'[r[2]].rev
      BY <1>1, <3>1, <3>2, <3>3
    <3> QED BY <1>1, <3>1, <3>4 DEF BegunInv
  <2>9. Kept
    BY <1>2, <2>3, <2>4, <2>6, <2>7, <2>8, CalmSteps
  <2>10. DOMAIN begun' = DOMAIN begun \cup {Request(w)}
    BY <2>2
  <2> QED BY <1>5, <2>3, <2>5, <2>6, <2>9, <2>10 DEF Begin
<1>6. CASE Fresh(w) /\ ~MayBegin(w)
  <2>1. record' = record /\ begun' = begun /\ call' = [call EXCEPT ![w] = Idle]
    BY <1>6 DEF Begin, Fresh
  <2>2. RecordInv' /\ Stays
    BY <2>1, SameRecord
  <2>3. CallInv' /\ call'[w].stage = "idle" /\ \A v \in Callers : v # w => call'[v] = call[v]
    BY <2>1, <2>2, CallIdles
  <2>4. BegunInv' /\ SweepInv'
    BY <1>2, <2>1, <2>2, Later, Unmoved
  <2> QED BY <1>2, <1>6, <2>1, <2>2, <2>3, <2>4, CalmSteps DEF Begin
<1> QED BY <1>4, <1>5, <1>6

\* The steps of a worker that leave the ledger, the callers and the knowledge
\* store alone.
Apart == /\ world' = world /\ ledger' = ledger /\ effect' = effect /\ gateway' = gateway
         /\ (left' = left \/ \E f \in Faults : Spend(f))
         /\ lease' \in [holder : Sweepers \cup {None}, cursor : Nat]

LEMMA WorkerMoves ==
  ASSUME TypeInv, BudgetInv, Apart, NEW s \in Sweepers, NEW x \in SweepType,
         PageFits(x.page, record), sweep' = [sweep EXCEPT ![s] = x]
  PROVE  Kept /\ sweep'[s] = x /\ \A v \in Sweepers : v # s => sweep'[v] = sweep[v]
<1>1. RecordInv' /\ Stays /\ record' = record
  BY SameRecord DEF Apart, ledger
<1>2. BegunInv' /\ CallInv'
  BY <1>1, Later, Unmoved DEF Apart, ledger, gateway
<1>3. SweepInv' /\ sweep'[s] = x /\ \A v \in Sweepers : v # s => sweep'[v] = sweep[v]
  BY <1>1, SweepChanges
<1>4. left' \in [Faults -> Nat] /\ \A g \in Faults : left[g] = 0 => left'[g] = 0
  BY SpendFacts DEF Apart, TypeInv, RestInv
<1>5. RestInv' /\ BudgetInv'
  BY <1>4 DEF Apart, TypeInv, RestInv, BudgetInv, ledger, gateway
<1> QED BY <1>1, <1>2, <1>3, <1>5 DEF Kept, TypeInv, Apart

\* No page gains an item or changes one.
Shrinks ==
  \A s \in Sweepers : \A c \in DOMAIN sweep'[s].page :
    c \in DOMAIN sweep[s].page /\ sweep'[s].page[c] = sweep[s].page[c]

LEMMA WorkerRecord ==
  ASSUME TypeInv, NEW s \in Sweepers
  PROVE  /\ sweep[s] \in SweepType /\ PageFits(sweep[s].page, record)
         /\ sweep[s].page \in Pages /\ sweep[s].cursor \in Nat
         /\ DOMAIN sweep[s].page \subseteq Candidates
         /\ lease \in [holder : Sweepers \cup {None}, cursor : Nat]
         /\ lease.cursor \in Nat
BY DEF TypeInv, SweepInv, SweepType, RestInv, Pages

LEMMA FallsAsleep ==
  ASSUME TypeInv, BudgetInv, Apart, NEW s \in Sweepers, sweep' = [sweep EXCEPT ![s] = Asleep]
  PROVE  Kept /\ Shrinks
<1>1. Kept /\ sweep'[s] = Asleep /\ \A v \in Sweepers : v # s => sweep'[v] = sweep[v]
  BY AsleepFits, WorkerMoves
<1>2. DOMAIN Asleep.page = {}
  BY EmptyPage DEF Asleep
<1> QED BY <1>1, <1>2 DEF Shrinks

LEMMA RestKept ==
  ASSUME TypeInv, BudgetInv, NEW s \in Sweepers,
         Claim(s) \/ Checkpoint(s) \/ Release(s) \/ Abort(s) \/ SweeperDies(s)
  PROVE  Kept /\ Shrinks /\ ledger' = ledger /\ effect' = effect /\ gateway' = gateway
<1>0. lease \in [holder : Sweepers \cup {None}, cursor : Nat] /\ sweep[s].cursor \in Nat
      /\ sweep[s] \in SweepType /\ sweep[s].page \in Pages /\ PageFits(sweep[s].page, record)
      /\ lease.cursor \in Nat /\ lease.holder \in Sweepers \cup {None}
  BY WorkerRecord
<1>1. CASE Claim(s)
  <2> DEFINE x == [stage |-> "scan", page |-> <<>>, cursor |-> lease.cursor]
  <2>1. x \in SweepType /\ PageFits(x.page, record) /\ DOMAIN x.page = {}
    BY <1>0, EmptyPage DEF SweepType, PageFits
  <2>2. sweep' = [sweep EXCEPT ![s] = x]
    BY <1>1 DEF Claim
  <2>3. Apart
    BY <1>0, <1>1 DEF Claim, Apart
  <2> HIDE DEF x
  <2>4. Kept /\ sweep'[s] = x /\ \A v \in Sweepers : v # s => sweep'[v] = sweep[v]
    BY <2>1, <2>2, <2>3, WorkerMoves
  <2> QED BY <1>1, <2>1, <2>4 DEF Shrinks, Claim
<1>2. CASE Checkpoint(s)
  <2>1. lease' \in [holder : Sweepers \cup {None}, cursor : Nat]
    BY <1>0, <1>2 DEF Checkpoint
  <2>2. Apart
    BY <1>2, <2>1 DEF Checkpoint, Apart
  <2>3. CASE sweep' = [sweep EXCEPT ![s] = Asleep]
    BY <1>2, <2>2, <2>3, FallsAsleep DEF Checkpoint
  <2>4. CASE sweep' # [sweep EXCEPT ![s] = Asleep]
    <3>1. PICK stage \in {"release", "scan"} : sweep' = [sweep EXCEPT ![s].stage = stage]
      BY <1>2, <2>4 DEF Checkpoint
    <3> DEFINE x == [sweep[s] EXCEPT !.stage = stage]
    <3>2. x \in SweepType /\ x.page = sweep[s].page
      BY <1>0 DEF SweepType
    <3>3. sweep' = [sweep EXCEPT ![s] = x]
      BY <3>1 DEF TypeInv, SweepInv
    <3> HIDE DEF x
    <3>4. Kept /\ sweep'[s] = x /\ \A v \in Sweepers : v # s => sweep'[v] = sweep[v]
      BY <1>0, <2>2, <3>2, <3>3, WorkerMoves
    <3> QED BY <1>2, <3>2, <3>4 DEF Shrinks, Checkpoint
  <2> QED BY <2>3, <2>4
<1>3. CASE Release(s)
  <2>1. lease' \in [holder : Sweepers \cup {None}, cursor : Nat]
    BY <1>0, <1>3 DEF Release
  <2>2. Apart
    BY <1>3, <2>1 DEF Release, Apart
  <2> QED BY <1>3, <2>2, FallsAsleep DEF Release
<1>4. CASE Abort(s)
  <2>1. Apart
    BY <1>0, <1>4 DEF Abort, Apart
  <2> QED BY <1>4, <2>1, FallsAsleep DEF Abort
<1>5. CASE SweeperDies(s)
  <2>1. Apart
    BY <1>0, <1>5 DEF SweeperDies, Apart, Faults
  <2> QED BY <1>5, <2>1, FallsAsleep DEF SweeperDies
<1> QED BY <1>1, <1>2, <1>3, <1>4, <1>5

LEMMA LeaseKept ==
  ASSUME TypeInv, BudgetInv, LeaseExpires
  PROVE  Kept /\ Shrinks /\ ledger' = ledger /\ effect' = effect /\ gateway' = gateway
<1>1. RecordInv' /\ Stays /\ record' = record
  BY SameRecord DEF LeaseExpires, ledger
<1>2. BegunInv' /\ CallInv' /\ SweepInv'
  BY <1>1, Later, Unmoved DEF LeaseExpires, ledger, gateway
<1>3. left' = left \/ \E f \in Faults : Spend(f)
  BY DEF LeaseExpires, Faults
<1>4. left' \in [Faults -> Nat] /\ \A g \in Faults : left[g] = 0 => left'[g] = 0
  BY <1>3, SpendFacts DEF TypeInv, RestInv
<1>5. lease' \in [holder : Sweepers \cup {None}, cursor : Nat]
  BY DEF LeaseExpires, TypeInv, RestInv
<1>6. RestInv' /\ BudgetInv'
  BY <1>4, <1>5 DEF LeaseExpires, TypeInv, RestInv, BudgetInv, ledger, gateway
<1> QED BY <1>1, <1>2, <1>6 DEF Kept, TypeInv, LeaseExpires, Shrinks

\* A scanned page holds unknown effects, none of them observed yet.
LEMMA ScanKept ==
  ASSUME TypeInv, BudgetInv, NEW s \in Sweepers, Scan(s)
  PROVE  /\ Kept /\ ledger' = ledger /\ effect' = effect /\ gateway' = gateway
         /\ \A v \in Sweepers : v # s => sweep'[v] = sweep[v]
         /\ \A c \in DOMAIN sweep'[s].page :
              record[c].state \in UnknownStates /\ sweep'[s].page[c].seen = "nothing"
<1> DEFINE P == PageAfter(sweep[s].cursor)
           page == [c \in P |-> [rev |-> record[c].rev, seen |-> "nothing"]]
           x == [stage |-> "page", cursor |-> NextCursor(sweep[s].cursor), page |-> page]
<1>1. P \subseteq Candidates /\ \A c \in P : record[c].state \in UnknownStates
  BY DEF PageAfter, After
<1>2. \A c \in P : record[c].rev \in Nat /\ record[c].rev # 0
  <2>1. "captured" \notin UnknownStates
    BY DEF UnknownStates, Unknown, Operations
  <2> QED BY <1>1, <2>1 DEF TypeInv, RecordInv, RecordType
<1>3. page \in Pages /\ PageFits(page, record) /\ DOMAIN page = P
      /\ \A c \in P : page[c].seen = "nothing"
  <2>1. \A c \in P : [rev |-> record[c].rev, seen |-> "nothing"] \in Item
    BY <1>2 DEF Item
  <2>2. page \in [P -> Item]
    BY <2>1
  <2>3. PageFits(page, record)
    BY <1>2 DEF PageFits
  <2> HIDE DEF P
  <2> QED BY <1>1, <2>2, <2>3 DEF Pages
<1>4. sweep' = [sweep EXCEPT ![s] = x]
  BY DEF Scan
<1> HIDE DEF P, page
<1>5. x \in SweepType /\ x.page = page
  BY <1>3, CursorIsNumber DEF SweepType
<1>6. Apart
  BY WorkerRecord DEF Scan, Apart
<1> HIDE DEF x
<1>7. Kept /\ sweep'[s] = x /\ \A v \in Sweepers : v # s => sweep'[v] = sweep[v]
  BY <1>3, <1>4, <1>5, <1>6, WorkerMoves
<1> QED BY <1>1, <1>3, <1>5, <1>7 DEF Scan

LEMMA ObserveKept ==
  ASSUME TypeInv, BudgetInv, NEW s \in Sweepers, NEW c \in DOMAIN sweep[s].page, Observe(s, c)
  PROVE  /\ Kept /\ ledger' = ledger /\ effect' = effect /\ gateway' = gateway
         /\ \A v \in Sweepers : v # s => sweep'[v] = sweep[v]
         /\ DOMAIN sweep'[s].page = DOMAIN sweep[s].page
         /\ \A d \in DOMAIN sweep[s].page : d # c => sweep'[s].page[d] = sweep[s].page[d]
         /\ sweep'[s].page[c].rev = sweep[s].page[c].rev
         /\ sweep'[s].page[c].seen = IF effect[c] THEN "present" ELSE "absent"
<1> DEFINE p == sweep[s].page
           seen == IF effect[c] THEN "present" ELSE "absent"
           i == [rev |-> p[c].rev, seen |-> seen]
           q == [p EXCEPT ![c] = i]
           x == [stage |-> sweep[s].stage, page |-> q, cursor |-> sweep[s].cursor]
<1>1. /\ sweep[s] \in SweepType /\ PageFits(p, record) /\ p \in Pages
      /\ sweep \in [Sweepers -> SweepType]
  BY WorkerRecord DEF TypeInv, SweepInv
<1>2. i \in Item /\ i.rev = p[c].rev /\ i.seen = seen
  BY <1>1 DEF Item, Pages
<1>3. sweep' = [sweep EXCEPT ![s] = x]
  <2>1. sweep' = [sweep EXCEPT ![s].page[c].seen = seen]
    BY DEF Observe
  <2>2. x = [sweep[s] EXCEPT !.page = q]
    BY <1>1 DEF SweepType
  <2>3. i = [p[c] EXCEPT !.seen = seen]
    BY <1>1 DEF Pages, Item
  <2> HIDE DEF seen
  <2>4. [sweep EXCEPT ![s].page[c].seen = seen]
          = [sweep EXCEPT ![s] = [sweep[s] EXCEPT !.page = [p EXCEPT ![c] = [p[c] EXCEPT !.seen = seen]]]]
    OBVIOUS
  <2> QED BY <2>1, <2>2, <2>3, <2>4
<1> HIDE DEF i, seen
<1>4. q \in Pages /\ DOMAIN q = DOMAIN p /\ q[c] = i
      /\ \A d \in DOMAIN p : d # c => q[d] = p[d]
  BY <1>1, <1>2 DEF Pages
<1>5. PageFits(q, record)
  BY <1>1, <1>2, <1>4 DEF PageFits
<1> HIDE DEF q
<1>6. x \in SweepType /\ x.page = q
  BY <1>1, <1>4 DEF SweepType
<1>7. Apart
  BY WorkerRecord DEF Observe, Apart
<1> HIDE DEF x
<1>8. Kept /\ sweep'[s] = x /\ \A v \in Sweepers : v # s => sweep'[v] = sweep[v]
  BY <1>3, <1>5, <1>6, <1>7, WorkerMoves
<1> QED BY <1>2, <1>4, <1>6, <1>8 DEF Observe, seen

\* What is processed leaves the page.
LEMMA ProcessedFits ==
  ASSUME TypeInv, NEW s \in Sweepers, NEW c, Processed(s, c)
  PROVE  /\ \E x \in SweepType : /\ sweep' = [sweep EXCEPT ![s] = x]
                               /\ PageFits(x.page, record)
         /\ Shrinks
<1> DEFINE p == sweep[s].page
           q == [d \in DOMAIN p \ {c} |-> p[d]]
           x == [stage |-> sweep[s].stage, page |-> q, cursor |-> sweep[s].cursor]
<1>1. /\ sweep[s] \in SweepType /\ PageFits(p, record) /\ p \in Pages
      /\ sweep \in [Sweepers -> SweepType]
  BY WorkerRecord DEF TypeInv, SweepInv
<1>2. sweep' = [sweep EXCEPT ![s] = x]
  <2>1. x = [sweep[s] EXCEPT !.page = q]
    BY <1>1 DEF SweepType
  <2>2. sweep' = [sweep EXCEPT ![s].page = q]
    BY DEF Processed
  <2> HIDE DEF q
  <2> QED BY <2>1, <2>2
<1>3. q \in Pages /\ DOMAIN q = DOMAIN p \ {c} /\ \A d \in DOMAIN q : q[d] = p[d]
  BY <1>1 DEF Pages
<1> HIDE DEF q
<1>4. PageFits(q, record)
  BY <1>1, <1>3 DEF PageFits
<1>5. x \in SweepType /\ x.page = q
  BY <1>1, <1>3 DEF SweepType
<1> HIDE DEF x
<1>6. sweep'[s] = x /\ \A v \in Sweepers : v # s => sweep'[v] = sweep[v]
  BY <1>1, <1>2
<1>7. Shrinks
  BY <1>3, <1>5, <1>6 DEF Shrinks
<1> QED BY <1>2, <1>4, <1>5, <1>7

LEMMA DeferKept ==
  ASSUME TypeInv, BudgetInv, NEW s \in Sweepers, NEW c \in DOMAIN sweep[s].page, Defer(s, c)
  PROVE  Kept /\ Shrinks /\ ledger' = ledger /\ effect' = effect /\ gateway' = gateway
<1>1. Shrinks
  BY ProcessedFits DEF Defer
<1>2. PICK x \in SweepType : sweep' = [sweep EXCEPT ![s] = x] /\ PageFits(x.page, record)
  BY ProcessedFits DEF Defer
<1>3. Apart
  BY WorkerRecord DEF Defer, Apart, Faults
<1>4. Kept
  BY <1>2, <1>3, WorkerMoves
<1> QED BY <1>1, <1>4 DEF Defer

LEMMA CommitKept ==
  ASSUME TypeInv, BudgetInv, NEW s \in Sweepers, NEW c \in DOMAIN sweep[s].page, Commit(s, c)
  PROVE  LET state == Resolved(KindOf(record[c].state), sweep[s].page[c].seen = "present") IN
         /\ Kept /\ Shrinks /\ begun' = begun /\ tried' = tried /\ effect' = effect
         /\ gateway' = gateway /\ c \in Candidates
         /\ Current(s, c) => Moved(c, state) /\ record'[c].request = record[c].request
         /\ ~Current(s, c) => record' = record
<1> DEFINE b == sweep[s].page[c].seen = "present"
           state == Resolved(KindOf(record[c].state), b)
<1>1. c \in Candidates /\ b \in BOOLEAN
  BY WorkerRecord
<1>2. state \in CandidateState
  BY <1>1, ResolvedStates DEF CandidateState
<1>3. (Current(s, c) => Saved(c, state)) /\ (~Current(s, c) => record' = record)
  BY DEF Commit
<1> HIDE DEF state
<1>4. /\ RecordInv' /\ Stays
      /\ Current(s, c) => Moved(c, state) /\ record'[c].request = record[c].request
  <2>1. CASE Current(s, c)
    <3>1. RecordInv' /\ Moved(c, state) /\ record'[c].request = record[c].request
      BY <1>1, <1>2, <1>3, <2>1, SavedFacts DEF TypeInv
    <3> QED BY <1>1, <3>1, MovedStays DEF TypeInv
  <2>2. CASE ~Current(s, c)
    BY <1>3, <2>2, SameRecord
  <2> QED BY <2>1, <2>2
<1>5. Shrinks
  BY ProcessedFits DEF Commit
<1>6. PICK x \in SweepType : sweep' = [sweep EXCEPT ![s] = x] /\ PageFits(x.page, record)
  BY ProcessedFits DEF Commit
<1>7. x.page \in Pages
  BY DEF SweepType
<1>8. SweepInv'
  BY <1>4, <1>6, <1>7, Later, SweepChanges
<1>9. BegunInv' /\ CallInv'
  BY <1>4, Later, Unmoved DEF Commit, gateway
<1>10. Calm /\ lease' = lease
  BY DEF Commit, Calm, gateway
<1>11. Kept
  BY <1>4, <1>8, <1>9, <1>10, CalmSteps
<1> QED BY <1>1, <1>3, <1>4, <1>5, <1>11 DEF Commit, state

-----------------------------------------------------------------------------
LEMMA TypeStep ==
  ASSUME TypeInv, BudgetInv, [Next]_vars
  PROVE  TypeInv' /\ BudgetInv'
<1>1. CASE \E c \in world.candidates : Evaluate(c) \/ Transition(c)
  BY <1>1, ReviewKept, WorldParts DEF TypeInv, RestInv, Kept
<1>2. CASE \E w \in Callers : Calls(w)
  <2> SUFFICES ASSUME NEW w \in Callers, Calls(w) PROVE Kept
    BY <1>2 DEF Kept
  <2>1. CASE \E op \in Operations, c \in Candidates, k \in Keys : Read(w, op, c, k)
    BY <2>1, ReadKept
  <2>2. CASE Begin(w)
    BY <2>2, BeginKept
  <2>3. CASE Act(w)
    BY <2>3, ActKept
  <2>4. CASE Raise(w) \/ RaiseEarly(w)
    BY <2>4, RaiseKept
  <2>5. CASE Settle(w)
    BY <2>5, SettleKept
  <2>6. CASE CallEnds(w)
    BY <2>6, CallEndsKept
  <2> QED BY <2>1, <2>2, <2>3, <2>4, <2>5, <2>6 DEF Calls
<1>3. CASE \E op \in Operations, c \in Candidates : LandLate(op, c)
  BY <1>3, LandLateKept DEF Kept
<1>4. CASE \E c \in Candidates, present \in BOOLEAN : OperatorReconciles(c, present)
  BY <1>4, OperatorKept DEF Kept
<1>5. CASE \E s \in Sweepers : Sweeps(s) \/ SweeperDies(s)
  <2> SUFFICES ASSUME NEW s \in Sweepers, Sweeps(s) \/ SweeperDies(s) PROVE Kept
    BY <1>5 DEF Kept
  <2>1. CASE Claim(s) \/ Checkpoint(s) \/ Release(s) \/ Abort(s) \/ SweeperDies(s)
    BY <2>1, RestKept
  <2>2. CASE Scan(s)
    BY <2>2, ScanKept
  <2>3. CASE \E c \in DOMAIN sweep[s].page : Observe(s, c) \/ Commit(s, c)
    BY <2>3, ObserveKept, CommitKept
  <2> QED BY <2>1, <2>2, <2>3 DEF Sweeps
<1>6. CASE \E s \in Sweepers : \E c \in DOMAIN sweep[s].page : Defer(s, c)
  BY <1>6, DeferKept DEF Kept
<1>7. CASE LeaseExpires
  BY <1>7, LeaseKept DEF Kept
<1>8. CASE UNCHANGED vars
  BY <1>8 DEF vars, ledger, gateway, workers, TypeInv, RecordInv, BegunInv, CallInv, CallFits,
              SweepInv, PageFits, RestInv, BudgetInv
<1> QED BY <1>1, <1>2, <1>3, <1>4, <1>5, <1>6, <1>7, <1>8 DEF Next

LEMMA BudgetInit == Init => BudgetInv
BY DEF Init, BudgetInv

\* Every variable keeps its type: a revision only grows, an intent is begun at
\* a revision that was reached and the cursor of a page is a position.
THEOREM TypeCorrect == Spec => []TypeOK
<1>1. Init => TypeInv /\ BudgetInv
  BY TypeInit, BudgetInit
<1>2. TypeInv /\ BudgetInv /\ [Next]_vars => TypeInv' /\ BudgetInv'
  BY TypeStep
<1> QED BY <1>1, <1>2, TypeInvImplies, PTL DEF Spec

-----------------------------------------------------------------------------
(***************************************************************************)
(* The inductive invariant of the two safety properties.  What a page says *)
(* at the revision of a record is about an unknown effect; the intent of a *)
(* call is its own, since mutation ids that were begun are behind those    *)
(* that callers have used; and what was seen or done is still so.          *)
(***************************************************************************)
UnderWay == {"sent", "acted", "raised"}
Unrepeated == world.budget["retry"] = 0 /\ world.budget["hasty"] = 0

PageInv ==
  \A s \in Sweepers : \A c \in DOMAIN sweep[s].page :
    sweep[s].page[c].rev = record[c].rev => record[c].state \in UnknownStates

ReadsAreFresh ==
  \A w \in Callers : call[w].stage = "read" =>
    Request(w) \notin DOMAIN begun /\ call[w].key <= tried[call[w].op][call[w].c]
ReadsDiffer ==
  \A w, v \in Callers :
    call[w].stage = "read" /\ call[v].stage = "read" /\ Request(w) = Request(v) => w = v
OneUnderWay ==
  \A w, v \in Callers :
    call[w].stage \in UnderWay /\ call[v].stage \in UnderWay /\ call[w].c = call[v].c => w = v
BegunWereTried == \A r \in DOMAIN begun : r[3] <= tried[r[1]][r[2]]
IntentInv == CallsUnderIntent /\ ReadsAreFresh /\ ReadsDiffer /\ OneUnderWay /\ BegunWereTried

ActsHappened ==
  \A w \in Callers : call[w].stage = "acted" => (effect[call[w].c] <=> call[w].op = "promote")
PagesAreTrue ==
  \A s \in Sweepers : \A c \in DOMAIN sweep[s].page :
    sweep[s].page[c].rev = record[c].rev /\ sweep[s].page[c].seen # "nothing" =>
      (sweep[s].page[c].seen = "present" <=> effect[c])
TruthInv == LedgerIsTrue /\ flying = {} /\ ActsHappened /\ PagesAreTrue

Inv == TypeInv /\ BudgetInv /\ PageInv /\ (Unrepeated => IntentInv) /\ (Careful => TruthInv)

LEMMA CarefulIsUnrepeated == Careful => Unrepeated
BY DEF Careful, Unrepeated

LEMMA SameWorld ==
  world' = world => (Unrepeated' <=> Unrepeated) /\ (Careful' <=> Careful)
BY DEF Unrepeated, Careful

LEMMA InvInit == Init => Inv
<1> SUFFICES ASSUME Init PROVE Inv
  OBVIOUS
<1>1. \A s \in Sweepers : DOMAIN sweep[s].page = {}
  BY EmptyPage DEF Init, Asleep
<1>2. \A w \in Callers : call[w].stage = "idle"
  BY IdleFits DEF Init
<1>3. PageInv /\ PagesAreTrue
  BY <1>1 DEF PageInv, PagesAreTrue
<1>4. IntentInv
  <2>1. DOMAIN begun = {}
    BY DEF Init
  <2> QED BY <1>2, <2>1 DEF IntentInv, CallsUnderIntent, ReadsAreFresh, ReadsDiffer, OneUnderWay,
                      BegunWereTried, UnderWay
<1>5. TruthInv
  BY <1>2, <1>3 DEF Init, TruthInv, LedgerIsTrue, ActsHappened
<1> QED BY <1>3, <1>4, <1>5, TypeInit, BudgetInit DEF Inv

\* A record moves past the pages that were read from it.
LEMMA PagePast ==
  ASSUME TypeInv, NEW c \in Candidates, NEW state, Moved(c, state), Shrinks,
         NEW s \in Sweepers, NEW d \in DOMAIN sweep'[s].page,
         sweep'[s].page[d].rev = record'[d].rev
  PROVE  d # c /\ d \in Candidates /\ record'[d] = record[d]
<1>1. d \in DOMAIN sweep[s].page /\ sweep'[s].page[d] = sweep[s].page[d]
  BY DEF Shrinks
<1>2. sweep[s].page[d].rev \in 1..record[d].rev /\ d \in Candidates
  BY <1>1, WorkerRecord DEF PageFits
<1>3. record[c].rev \in Nat
  BY DEF TypeInv, RecordInv, RecordType
<1>4. d # c
  BY <1>1, <1>2, <1>3 DEF Moved
<1> QED BY <1>2, <1>4 DEF Moved

LEMMA PageMoves ==
  ASSUME TypeInv, PageInv, Shrinks,
         record' = record \/ \E c \in Candidates : \E state \in CandidateState : Moved(c, state)
  PROVE  PageInv'
<1> SUFFICES ASSUME NEW s \in Sweepers, NEW d \in DOMAIN sweep'[s].page,
                    sweep'[s].page[d].rev = record'[d].rev
             PROVE  record'[d].state \in UnknownStates
  BY DEF PageInv
<1>1. record'[d] = record[d]
  BY PagePast
<1> QED BY <1>1 DEF PageInv, Shrinks

\* The record moves on while the calls stay as they are.
LEMMA IntentMoves ==
  ASSUME TypeInv, IntentInv, call' = call, begun' = begun, tried' = tried,
         record' = record \/ \E c \in Candidates : \E state \in CandidateState :
           Moved(c, state) /\ \A w \in Callers : call[w].stage \in UnderWay => call[w].c # c
  PROVE  IntentInv'
<1>1. ASSUME NEW w \in Callers, call[w].stage \in UnderWay
      PROVE  record'[call[w].c] = record[call[w].c]
  <2>1. call[w].c \in Candidates
    BY <1>1, BusyCall DEF UnderWay
  <2> QED BY <1>1, <2>1 DEF Moved
<1>2. CallsUnderIntent'
  BY <1>1 DEF IntentInv, CallsUnderIntent, UnderWay
<1> QED BY <1>2 DEF IntentInv, ReadsAreFresh, ReadsDiffer, OneUnderWay, BegunWereTried, Request

\* A call under way goes on with what it has.
LEMMA IntentGoes ==
  ASSUME TypeInv, IntentInv, ledger' = ledger, NEW w \in Callers,
         call[w].stage \in UnderWay, call'[w].stage \in UnderWay,
         call'[w].rev = call[w].rev, call'[w].op = call[w].op,
         call'[w].c = call[w].c, call'[w].key = call[w].key,
         \A v \in Callers : v # w => call'[v] = call[v]
  PROVE  IntentInv'
<1>1. record' = record /\ begun' = begun /\ tried' = tried
  BY DEF ledger
<1>2. \A v \in Callers : /\ call'[v].stage \in UnderWay <=> call[v].stage \in UnderWay
                         /\ call'[v].stage = "read" <=> call[v].stage = "read"
                         /\ call'[v].rev = call[v].rev /\ call'[v].op = call[v].op
                         /\ call'[v].c = call[v].c /\ call'[v].key = call[v].key
  BY DEF UnderWay
<1>3. \A v \in Callers : Request(v)' = Request(v)
  BY <1>2 DEF Request
<1>4. CallsUnderIntent'
  BY <1>1, <1>2 DEF IntentInv, CallsUnderIntent, UnderWay
<1>5. ReadsAreFresh' /\ ReadsDiffer'
  BY <1>1, <1>2, <1>3 DEF IntentInv, ReadsAreFresh, ReadsDiffer
<1>6. OneUnderWay' /\ BegunWereTried'
  BY <1>1, <1>2 DEF IntentInv, OneUnderWay, BegunWereTried
<1> QED BY <1>4, <1>5, <1>6 DEF IntentInv

\* A call ends; the record of its candidate may move.
LEMMA IntentEnds ==
  ASSUME TypeInv, IntentInv, begun' = begun, tried' = tried, NEW w \in Callers,
         call'[w].stage = "idle", \A v \in Callers : v # w => call'[v] = call[v],
         record' = record \/ ( /\ call[w].stage \in UnderWay
                             /\ \E state \in CandidateState : Moved(call[w].c, state))
  PROVE  IntentInv'
<1>1. ASSUME NEW v \in Callers, call'[v].stage # "idle"
      PROVE  v # w /\ call'[v] = call[v] /\ Request(v)' = Request(v)
  BY <1>1 DEF Request
<1>2. ASSUME NEW v \in Callers, call'[v].stage \in UnderWay
      PROVE  record'[call[v].c] = record[call[v].c]
  <2>1. v # w /\ call'[v] = call[v]
    BY <1>1, <1>2 DEF UnderWay
  <2>2. call[v].c \in Candidates
    BY <1>2, <2>1, BusyCall DEF UnderWay
  <2> QED BY <1>2, <2>1, <2>2 DEF IntentInv, OneUnderWay, Moved
<1>3. CallsUnderIntent'
  <2> SUFFICES ASSUME NEW v \in Callers, call'[v].stage \in UnderWay
               PROVE  /\ record'[call'[v].c].state = Doing[call'[v].op]
                      /\ record'[call'[v].c].rev = call'[v].rev
                      /\ record'[call'[v].c].request[call'[v].op] = call'[v].key
    BY DEF CallsUnderIntent, UnderWay
  <2>1. call'[v] = call[v] /\ record'[call[v].c] = record[call[v].c]
    BY <1>1, <1>2 DEF UnderWay
  <2> QED BY <2>1 DEF IntentInv, CallsUnderIntent, UnderWay
<1>4. ReadsAreFresh' /\ ReadsDiffer'
  BY <1>1 DEF IntentInv, ReadsAreFresh, ReadsDiffer
<1>5. OneUnderWay' /\ BegunWereTried'
  BY <1>1 DEF IntentInv, OneUnderWay, BegunWereTried, UnderWay
<1> QED BY <1>3, <1>4, <1>5 DEF IntentInv

\* The store and the calls that acted stay as they are.
LEMMA TruthMoves ==
  ASSUME TypeInv, TruthInv, Shrinks, effect' = effect, flying' = flying,
         \A w \in Callers : call'[w].stage = "acted" => call'[w] = call[w],
         record' = record \/ \E c \in Candidates : \E state \in CandidateState :
           /\ Moved(c, state)
           /\ state \notin DoubtStates => (effect[c] <=> state = "promoted")
  PROVE  TruthInv'
<1>1. LedgerIsTrue'
  <2>1. CASE record' = record
    BY <2>1 DEF TruthInv, LedgerIsTrue
  <2>2. CASE record' # record
    <3>1. PICK c \in Candidates, state \in CandidateState :
            /\ Moved(c, state)
            /\ state \notin DoubtStates => (effect[c] <=> state = "promoted")
      BY <2>2
    <3>2. ASSUME NEW d \in Candidates, record'[d].state \notin DoubtStates
          PROVE  effect'[d] <=> record'[d].state = "promoted"
      <4>1. CASE d = c
        BY <3>1, <3>2, <4>1 DEF Moved
      <4>2. CASE d # c
        BY <3>1, <3>2, <4>2 DEF Moved, TruthInv, LedgerIsTrue
      <4> QED BY <4>1, <4>2
    <3> QED BY <3>2 DEF LedgerIsTrue
  <2> QED BY <2>1, <2>2
<1>2. ActsHappened'
  BY DEF TruthInv, ActsHappened
<1>3. PagesAreTrue'
  <2> SUFFICES ASSUME NEW s \in Sweepers, NEW d \in DOMAIN sweep'[s].page,
                      sweep'[s].page[d].rev = record'[d].rev, sweep'[s].page[d].seen # "nothing"
               PROVE  sweep'[s].page[d].seen = "present" <=> effect[d]
    BY DEF PagesAreTrue
  <2>1. record'[d] = record[d]
    BY PagePast
  <2> QED BY <2>1 DEF TruthInv, PagesAreTrue, Shrinks
<1> QED BY <1>1, <1>2, <1>3 DEF TruthInv

-----------------------------------------------------------------------------
(***************************************************************************)
(* Every step keeps the parts of the invariant.                            *)
(***************************************************************************)
StepKeeps == PageInv' /\ (Unrepeated => IntentInv') /\ (Careful => TruthInv')

LEMMA UnderIntent ==
  ASSUME TypeInv, IntentInv, NEW w \in Callers, call[w].stage \in UnderWay
  PROVE  /\ record[call[w].c].state = Doing[call[w].op] /\ record[call[w].c].rev = call[w].rev
         /\ record[call[w].c].state \in DoubtStates \ UnknownStates
         /\ call[w].c \in Candidates /\ call[w].op \in Operations
<1>1. call[w].c \in Candidates /\ call[w].op \in Operations
  BY BusyCall DEF UnderWay
<1>2. record[call[w].c].state = Doing[call[w].op] /\ record[call[w].c].rev = call[w].rev
  BY DEF IntentInv, CallsUnderIntent, UnderWay
<1> QED BY <1>1, <1>2 DEF DoubtStates, UnknownStates, Doing, Unknown, Operations

LEMMA Spent ==
  ASSUME TypeInv, BudgetInv, NEW f \in Faults, world.budget[f] = 0
  PROVE  ~Spend(f)
BY SpendFacts DEF TypeInv, BudgetInv

LEMMA SameSweep == sweep' = sweep => Shrinks
BY DEF Shrinks

LEMMA ReviewKeeps ==
  ASSUME Inv, NEW c \in Candidates, Evaluate(c) \/ Transition(c)
  PROVE  StepKeeps
<1>0. TypeInv /\ BudgetInv /\ PageInv
  BY DEF Inv
<1>1. PICK state \in {"captured", "qualified", "rejected", "quarantined", "deleted"} :
        record[c].state \notin DoubtStates \cup {"promoted"} /\ Moved(c, state)
  BY <1>0, ReviewKept
<1>2. state \in CandidateState /\ state # "promoted"
  BY DEF CandidateState
<1>3. Shrinks /\ call' = call /\ begun' = begun /\ tried' = tried /\ effect' = effect /\ flying' = flying
  BY SameSweep DEF Evaluate, Transition, gateway, workers
<1>4. PageInv'
  BY <1>0, <1>1, <1>2, <1>3, PageMoves
<1>5. ASSUME Unrepeated PROVE IntentInv'
  <2>1. \A w \in Callers : call[w].stage \in UnderWay => call[w].c # c
    BY <1>0, <1>1, <1>5, UnderIntent DEF Inv
  <2> QED BY <1>0, <1>1, <1>2, <1>3, <1>5, <2>1, IntentMoves DEF Inv
<1>6. ASSUME Careful PROVE TruthInv'
  <2>1. ~effect[c]
    BY <1>1, <1>6 DEF Inv, TruthInv, LedgerIsTrue
  <2> QED BY <1>0, <1>1, <1>2, <1>3, <1>6, <2>1, TruthMoves DEF Inv
<1> QED BY <1>4, <1>5, <1>6 DEF StepKeeps

LEMMA OperatorKeeps ==
  ASSUME Inv, NEW c \in Candidates, NEW present \in BOOLEAN, OperatorReconciles(c, present)
  PROVE  StepKeeps
<1> DEFINE state == Resolved(KindOf(record[c].state), present)
<1>0. TypeInv /\ BudgetInv /\ PageInv
  BY DEF Inv
<1>1. Moved(c, state)
  BY <1>0, OperatorKept
<1>2. state \in CandidateState /\ (state = "promoted" <=> present)
  BY ResolvedStates DEF CandidateState
<1> HIDE DEF state
<1>3. Shrinks /\ call' = call /\ begun' = begun /\ tried' = tried /\ effect' = effect /\ flying' = flying
  BY SameSweep DEF OperatorReconciles, gateway, workers
<1>4. PageInv'
  BY <1>0, <1>1, <1>2, <1>3, PageMoves
<1>5. Unrepeated => present = effect[c] /\ ~InFlight(c)
  <2>1. "hasty" \in Faults
    BY DEF Faults
  <2>2. Unrepeated => ~Spend("hasty")
    BY <1>0, <2>1, Spent DEF Unrepeated
  <2> QED BY <2>2 DEF OperatorReconciles
<1>6. ASSUME Unrepeated PROVE IntentInv'
  <2>1. \A w \in Callers : call[w].stage \in UnderWay => call[w].c # c
    BY <1>5, <1>6 DEF InFlight, UnderWay
  <2> QED BY <1>0, <1>1, <1>2, <1>3, <1>6, <2>1, IntentMoves DEF Inv
<1>7. ASSUME Careful PROVE TruthInv'
  <2>1. effect[c] <=> present
    BY <1>5, <1>7, CarefulIsUnrepeated
  <2> QED BY <1>0, <1>1, <1>2, <1>3, <1>7, <2>1, TruthMoves DEF Inv
<1> QED BY <1>4, <1>6, <1>7 DEF StepKeeps

LEMMA ReadKeeps ==
  ASSUME Inv, NEW w \in Callers, NEW op \in Operations, NEW c \in Candidates,
         NEW k \in Keys, Read(w, op, c, k)
  PROVE  StepKeeps
<1>0. TypeInv /\ BudgetInv /\ PageInv
  BY DEF Inv
<1>1. /\ record' = record /\ begun' = begun /\ effect' = effect /\ flying' = flying /\ Shrinks
      /\ call'[w].stage = "read" /\ call'[w].op = op /\ call'[w].c = c /\ call'[w].key = k
      /\ \A v \in Callers : v # w => call'[v] = call[v]
  <2> DEFINE x == [stage |-> "read", op |-> op, c |-> c, key |-> k, rev |-> record[c].rev]
  <2>1. x.stage = "read" /\ x.op = op /\ x.c = c /\ x.key = k
    OBVIOUS
  <2>2. record' = record /\ call'[w] = x /\ \A v \in Callers : v # w => call'[v] = call[v]
    BY <1>0, ReadKept
  <2>3. begun' = begun /\ effect' = effect /\ flying' = flying /\ sweep' = sweep
    BY DEF Read, workers
  <2> HIDE DEF x
  <2> QED BY <2>1, <2>2, <2>3, SameSweep
<1>2. PageInv'
  BY <1>0, <1>1, PageMoves
<1>3. ASSUME Unrepeated PROVE IntentInv'
  <2>0. IntentInv
    BY <1>3 DEF Inv
  <2>1. "retry" \in Faults
    BY DEF Faults
  <2>2. ~Spend("retry")
    BY <1>0, <1>3, <2>1, Spent DEF Unrepeated
  <2>3. k = tried[op][c] + 1 /\ tried' = [tried EXCEPT ![op][c] = k]
    BY <2>2 DEF Read, Named
  <2>4. tried \in [Operations -> [Candidates -> Nat]] /\ k \in Nat
    BY Bounds DEF Inv, TypeInv, RestInv, Keys
  <2>5. \A o \in Operations, d \in Candidates :
          tried[o][d] \in Nat /\ tried'[o][d] \in Nat /\ tried[o][d] <= tried'[o][d]
    BY <2>3, <2>4
  <2>6. tried'[op][c] = k /\ tried[op][c] < k
    BY <2>3, <2>4
  <2>7. Request(w)' = <<op, c, k>> /\ \A v \in Callers : v # w => Request(v)' = Request(v)
    BY <1>1 DEF Request
  <2>8. \A r \in DOMAIN begun : r \in Requests /\ r[1] \in Operations /\ r[2] \in Candidates /\ r[3] \in Nat
    BY Bounds DEF Inv, TypeInv, BegunInv, Requests, Keys
  <2>9. <<op, c, k>> \notin DOMAIN begun
    BY <2>0, <2>4, <2>6 DEF IntentInv, BegunWereTried
  <2>10. ReadsAreFresh'
    <3> SUFFICES ASSUME NEW v \in Callers, call'[v].stage = "read"
                 PROVE  /\ Request(v)' \notin DOMAIN begun'
                        /\ call'[v].key <= tried'[call'[v].op][call'[v].c]
      BY DEF ReadsAreFresh
    <3>1. CASE v = w
      BY <1>1, <2>4, <2>6, <2>7, <2>9, <3>1
    <3>2. CASE v # w
      <4>1. call'[v] = call[v] /\ call[v].stage = "read"
        BY <1>1, <3>2
      <4>2. call[v].op \in Operations /\ call[v].c \in Candidates /\ call[v].key \in Nat
        BY <1>0, <4>1, BusyCall, Bounds DEF Keys
      <4>3. Request(v) \notin DOMAIN begun /\ call[v].key <= tried[call[v].op][call[v].c]
        BY <2>0, <4>1 DEF IntentInv, ReadsAreFresh
      <4> QED BY <1>1, <2>5, <2>7, <3>2, <4>1, <4>2, <4>3
    <3> QED BY <3>1, <3>2
  <2>11. ReadsDiffer'
    <3>1. ASSUME NEW v \in Callers, v # w, call[v].stage = "read" PROVE Request(v) # <<op, c, k>>
      <4>1. call[v].key <= tried[call[v].op][call[v].c] /\ call[v].key \in Nat
        BY <1>0, <2>0, <3>1, BusyCall, Bounds DEF IntentInv, ReadsAreFresh, Keys
      <4> QED BY <2>4, <2>6, <4>1 DEF Request
    <3> QED BY <1>1, <2>0, <2>7, <3>1 DEF IntentInv, ReadsDiffer
  <2>12. CallsUnderIntent' /\ OneUnderWay'
    BY <1>1, <2>0 DEF IntentInv, CallsUnderIntent, OneUnderWay, UnderWay
  <2>13. BegunWereTried'
    <3> SUFFICES ASSUME NEW r \in DOMAIN begun PROVE r[3] <= tried'[r[1]][r[2]]
      BY <1>1 DEF BegunWereTried
    <3>1. r[3] <= tried[r[1]][r[2]]
      BY <2>0 DEF IntentInv, BegunWereTried
    <3> QED BY <2>5, <2>8, <3>1
  <2> QED BY <2>10, <2>11, <2>12, <2>13 DEF IntentInv
<1>4. ASSUME Careful PROVE TruthInv'
  <2>1. \A v \in Callers : call'[v].stage = "acted" => call'[v] = call[v]
    BY <1>1
  <2> QED BY <1>0, <1>1, <1>4, <2>1, TruthMoves DEF Inv
<1> QED BY <1>2, <1>3, <1>4 DEF StepKeeps

LEMMA BeginKeeps ==
  ASSUME Inv, NEW w \in Callers, Begin(w)
  PROVE  StepKeeps
<1> DEFINE c == call[w].c
           op == call[w].op
<1>0. TypeInv /\ BudgetInv /\ PageInv
  BY DEF Inv
<1>1. /\ call[w].stage = "read" /\ c \in Candidates /\ op \in Operations
      /\ Request(w) \in Requests /\ call[w].key \in Nat
  BY <1>0, BusyCall, Bounds DEF Begin, Keys
<1>2. /\ tried' = tried /\ effect' = effect /\ flying' = flying /\ Shrinks
      /\ \A v \in Callers : v # w => call'[v] = call[v]
  BY <1>0, BeginKept, SameSweep DEF workers
<1>3. Doing[op] \in CandidateState /\ Doing[op] \in DoubtStates
  BY <1>1 DEF CandidateState, DoubtStates
<1>4. /\ Fresh(w) /\ MayBegin(w) =>
           /\ Moved(c, Doing[op]) /\ record'[c].request[op] = call[w].key
           /\ DOMAIN begun' = DOMAIN begun \cup {Request(w)}
           /\ call'[w].stage = "sent" /\ call'[w].op = op /\ call'[w].c = c
           /\ call'[w].key = call[w].key /\ call'[w].rev = record'[c].rev
      /\ Fresh(w) /\ ~MayBegin(w) => record' = record /\ begun' = begun /\ call'[w].stage = "idle"
  BY <1>0, BeginKept
<1>5. ~Fresh(w) => record' = record /\ call'[w].stage = "sent"
  BY <1>0, <1>1 DEF Begin, Fresh, Goto, TypeInv, CallInv
<1>6. PageInv'
  BY <1>0, <1>1, <1>2, <1>3, <1>4, <1>5, PageMoves
<1>7. ASSUME Unrepeated PROVE IntentInv'
  <2>0. IntentInv /\ Fresh(w)
    BY <1>1, <1>7 DEF Inv, IntentInv, ReadsAreFresh, Fresh
  <2>1. CASE ~MayBegin(w)
    BY <1>0, <1>2, <1>4, <2>0, <2>1, IntentEnds
  <2>2. CASE MayBegin(w)
    <3>1. ASSUME NEW v \in Callers, call[v].stage \in UnderWay PROVE call[v].c # c /\ v # w
      <4>1. record[call[v].c].state \in DoubtStates
        BY <1>0, <2>0, <3>1, UnderIntent
      <4>2. record[c].state \notin DoubtStates
        BY <1>1, <2>2 DEF MayBegin, From, DoubtStates, UnknownStates, Unknown, Doing, Operations
      <4> QED BY <1>1, <3>1, <4>1, <4>2 DEF UnderWay
    <3>2. /\ Moved(c, Doing[op]) /\ record'[c].request[op] = call[w].key
          /\ DOMAIN begun' = DOMAIN begun \cup {Request(w)}
          /\ call'[w].stage = "sent" /\ call'[w].op = op /\ call'[w].c = c
          /\ call'[w].key = call[w].key /\ call'[w].rev = record'[c].rev
      BY <1>4, <2>0, <2>2
    <3>3. \A v \in Callers : v # w => Request(v)' = Request(v)
      BY <1>2 DEF Request
    <3>4. CallsUnderIntent'
      <4> SUFFICES ASSUME NEW v \in Callers, call'[v].stage \in UnderWay
                   PROVE  /\ record'[call'[v].c].state = Doing[call'[v].op]
                          /\ record'[call'[v].c].rev = call'[v].rev
                          /\ record'[call'[v].c].request[call'[v].op] = call'[v].key
        BY DEF CallsUnderIntent, UnderWay
      <4>1. CASE v = w
        BY <3>2, <4>1 DEF Moved
      <4>2. CASE v # w
        <5>1. call'[v] = call[v] /\ call[v].c # c /\ call[v].c \in Candidates
          BY <1>0, <1>2, <3>1, <4>2, BusyCall DEF UnderWay
        <5>2. record'[call[v].c] = record[call[v].c]
          BY <3>2, <5>1 DEF Moved
        <5> QED BY <2>0, <5>1, <5>2 DEF IntentInv, CallsUnderIntent, UnderWay
      <4> QED BY <4>1, <4>2
    <3>5. ReadsAreFresh'
      <4> SUFFICES ASSUME NEW v \in Callers, call'[v].stage = "read"
                   PROVE  /\ Request(v)' \notin DOMAIN begun'
                          /\ call'[v].key <= tried'[call'[v].op][call'[v].c]
        BY DEF ReadsAreFresh
      <4>1. v # w /\ call'[v] = call[v] /\ Request(v)' = Request(v)
        BY <1>2, <3>2, <3>3
      <4>2. Request(v) # Request(w) /\ Request(v) \notin DOMAIN begun
        BY <1>1, <2>0, <4>1 DEF IntentInv, ReadsAreFresh, ReadsDiffer
      <4> QED BY <1>2, <2>0, <3>2, <4>1, <4>2 DEF IntentInv, ReadsAreFresh
    <3>6. ReadsDiffer'
      BY <1>2, <2>0, <3>2, <3>3 DEF IntentInv, ReadsDiffer
    <3>7. OneUnderWay'
      BY <1>2, <2>0, <3>1, <3>2 DEF IntentInv, OneUnderWay
    <3>8. BegunWereTried'
      <4>1. Request(w)[1] = op /\ Request(w)[2] = c /\ Request(w)[3] = call[w].key
        BY DEF Request
      <4>2. call[w].key <= tried[op][c]
        BY <1>1, <2>0 DEF IntentInv, ReadsAreFresh
      <4> QED BY <1>2, <2>0, <3>2, <4>1, <4>2 DEF IntentInv, BegunWereTried
    <3> QED BY <3>4, <3>5, <3>6, <3>7, <3>8 DEF IntentInv
  <2> QED BY <2>1, <2>2
<1>8. ASSUME Careful PROVE TruthInv'
  <2>1. \A v \in Callers : call'[v].stage = "acted" => call'[v] = call[v]
    BY <1>2, <1>4, <1>5
  <2> QED BY <1>0, <1>1, <1>2, <1>3, <1>4, <1>5, <1>8, <2>1, TruthMoves DEF Inv
<1> QED BY <1>6, <1>7, <1>8 DEF StepKeeps

LEMMA ActKeeps ==
  ASSUME Inv, NEW w \in Callers, Act(w)
  PROVE  StepKeeps
<1> DEFINE c == call[w].c
<1>0. TypeInv /\ BudgetInv /\ PageInv /\ call[w].stage = "sent"
  BY DEF Inv, Act
<1>1. /\ ledger' = ledger /\ record' = record /\ flying' = flying /\ Shrinks
      /\ call'[w].stage = "acted" /\ call'[w].rev = call[w].rev /\ call'[w].op = call[w].op
      /\ call'[w].c = c /\ call'[w].key = call[w].key
      /\ \A v \in Callers : v # w => call'[v] = call[v]
  BY <1>0, ActKept, SameSweep DEF Act, workers, ledger
<1>2. PageInv'
  BY <1>0, <1>1, PageMoves
<1>3. Unrepeated => IntentInv'
  BY <1>0, <1>1, IntentGoes DEF Inv, UnderWay
<1>4. ASSUME Careful PROVE TruthInv'
  <2>0. IntentInv /\ TruthInv
    BY <1>4, CarefulIsUnrepeated DEF Inv
  <2>1. /\ record[c].state \in DoubtStates \ UnknownStates
        /\ c \in Candidates /\ call[w].op \in Operations
    BY <1>0, <2>0, UnderIntent DEF UnderWay
  <2>2. /\ effect'[c] <=> call[w].op = "promote"
        /\ \A d \in Candidates : d # c => effect'[d] = effect[d]
    BY <1>0, <2>1, LandFacts DEF Act
  <2>3. LedgerIsTrue'
    BY <1>1, <2>0, <2>1, <2>2 DEF TruthInv, LedgerIsTrue
  <2>4. ActsHappened'
    <3> SUFFICES ASSUME NEW v \in Callers, call'[v].stage = "acted"
                 PROVE  effect'[call'[v].c] <=> call'[v].op = "promote"
      BY DEF ActsHappened
    <3>1. CASE v = w
      BY <1>1, <2>2, <3>1
    <3>2. CASE v # w
      <4>1. call'[v] = call[v] /\ call[v].c \in Candidates
        BY <1>0, <1>1, <3>2, BusyCall
      <4>2. call[v].c # c
        BY <1>0, <2>0, <3>2, <4>1 DEF IntentInv, OneUnderWay, UnderWay
      <4> QED BY <2>0, <2>2, <4>1, <4>2 DEF TruthInv, ActsHappened
    <3> QED BY <3>1, <3>2
  <2>5. PagesAreTrue'
    <3> SUFFICES ASSUME NEW s \in Sweepers, NEW d \in DOMAIN sweep'[s].page,
                        sweep'[s].page[d].rev = record'[d].rev, sweep'[s].page[d].seen # "nothing"
                 PROVE  sweep'[s].page[d].seen = "present" <=> effect'[d]
      BY DEF PagesAreTrue
    <3>1. d \in DOMAIN sweep[s].page /\ sweep'[s].page[d] = sweep[s].page[d]
      BY <1>1 DEF Shrinks
    <3>2. record[d].state \in UnknownStates /\ d \in Candidates
      BY <1>0, <1>1, <3>1, WorkerRecord DEF PageInv
    <3>3. effect'[d] = effect[d]
      BY <2>1, <2>2, <3>2
    <3> QED BY <1>1, <2>0, <3>1, <3>3 DEF TruthInv, PagesAreTrue
  <2> QED BY <1>1, <2>0, <2>3, <2>4, <2>5 DEF TruthInv
<1> QED BY <1>2, <1>3, <1>4 DEF StepKeeps

LEMMA RaiseKeeps ==
  ASSUME Inv, NEW w \in Callers, Raise(w) \/ RaiseEarly(w)
  PROVE  StepKeeps
<1>0. TypeInv /\ BudgetInv /\ PageInv /\ call[w].stage \in UnderWay
  BY DEF Inv, Raise, RaiseEarly, UnderWay
<1>1. /\ ledger' = ledger /\ record' = record /\ effect' = effect /\ Shrinks
      /\ call'[w].stage = "raised" /\ call'[w].rev = call[w].rev /\ call'[w].op = call[w].op
      /\ call'[w].c = call[w].c /\ call'[w].key = call[w].key
      /\ \A v \in Callers : v # w => call'[v] = call[v]
  BY <1>0, RaiseKept, SameSweep DEF Raise, RaiseEarly, workers, ledger
<1>2. PageInv'
  BY <1>0, <1>1, PageMoves
<1>3. Unrepeated => IntentInv'
  BY <1>0, <1>1, IntentGoes DEF Inv, UnderWay
<1>4. ASSUME Careful PROVE TruthInv'
  <2>1. "late" \in Faults
    BY DEF Faults
  <2>2. ~Spend("late")
    BY <1>0, <1>4, <2>1, Spent DEF Careful
  <2>3. flying' = flying
    BY <2>2 DEF Raise, RaiseEarly
  <2>4. \A v \in Callers : call'[v].stage = "acted" => call'[v] = call[v]
    BY <1>1
  <2> QED BY <1>0, <1>1, <1>4, <2>3, <2>4, TruthMoves DEF Inv
<1> QED BY <1>2, <1>3, <1>4 DEF StepKeeps

LEMMA SettleKeeps ==
  ASSUME Inv, NEW w \in Callers, Settle(w)
  PROVE  StepKeeps
<1> DEFINE c == call[w].c
<1>0. TypeInv /\ BudgetInv /\ PageInv /\ call[w].stage \in {"acted", "raised"}
      /\ call[w].stage \in UnderWay /\ c \in Candidates /\ call[w].op \in Operations
  BY BusyCall DEF Inv, Settle, UnderWay
<1>1. /\ begun' = begun /\ tried' = tried /\ effect' = effect /\ flying' = flying /\ Shrinks
      /\ call'[w].stage = "idle" /\ \A v \in Callers : v # w => call'[v] = call[v]
      /\ MaySettle(w) => Moved(c, Outcome(w))
      /\ ~MaySettle(w) => record' = record
  BY <1>0, SettleKept, SameSweep DEF workers
<1>2. Outcome(w) \in CandidateState
  BY <1>0 DEF Outcome, Done, Unknown, Operations, CandidateState, DoubtStates, UnknownStates
<1>3. PageInv'
  BY <1>0, <1>1, <1>2, PageMoves
<1>4. Unrepeated => IntentInv'
  BY <1>0, <1>1, <1>2, IntentEnds DEF Inv
<1>5. ASSUME Careful PROVE TruthInv'
  <2>1. TruthInv
    BY <1>5 DEF Inv
  <2>2. ASSUME Outcome(w) \notin DoubtStates PROVE effect[c] <=> Outcome(w) = "promoted"
    <3>1. call[w].stage = "acted"
      BY <1>0, <2>2 DEF Outcome, DoubtStates, UnknownStates
    <3>2. effect[c] <=> call[w].op = "promote"
      BY <2>1, <3>1 DEF TruthInv, ActsHappened
    <3> QED BY <1>0, <3>1, <3>2 DEF Outcome, Done, Operations
  <2>3. \A v \in Callers : call'[v].stage = "acted" => call'[v] = call[v]
    BY <1>1
  <2> QED BY <1>0, <1>1, <1>2, <2>1, <2>2, <2>3, TruthMoves
<1> QED BY <1>3, <1>4, <1>5 DEF StepKeeps

LEMMA CallEndsKeeps ==
  ASSUME Inv, NEW w \in Callers, CallEnds(w)
  PROVE  StepKeeps
<1>0. TypeInv /\ BudgetInv /\ PageInv
  BY DEF Inv
<1>1. /\ record' = record /\ begun' = begun /\ tried' = tried /\ effect' = effect
      /\ flying' = flying /\ Shrinks
      /\ call'[w].stage = "idle" /\ \A v \in Callers : v # w => call'[v] = call[v]
  BY <1>0, CallEndsKept, SameSweep DEF CallEnds, ledger, workers
<1>2. PageInv'
  BY <1>0, <1>1, PageMoves
<1>3. Unrepeated => IntentInv'
  BY <1>0, <1>1, IntentEnds DEF Inv
<1>4. ASSUME Careful PROVE TruthInv'
  <2>1. \A v \in Callers : call'[v].stage = "acted" => call'[v] = call[v]
    BY <1>1
  <2> QED BY <1>0, <1>1, <1>4, <2>1, TruthMoves DEF Inv
<1> QED BY <1>2, <1>3, <1>4 DEF StepKeeps

LEMMA LandLateKeeps ==
  ASSUME Inv, NEW op \in Operations, NEW c \in Candidates, LandLate(op, c)
  PROVE  StepKeeps
<1>0. TypeInv /\ BudgetInv /\ PageInv
  BY DEF Inv
<1>1. /\ record' = record /\ begun' = begun /\ tried' = tried /\ call' = call /\ Shrinks
  BY SameSweep DEF LandLate, ledger, workers
<1>2. PageInv'
  BY <1>0, <1>1, PageMoves
<1>3. Unrepeated => IntentInv'
  BY <1>0, <1>1, IntentMoves DEF Inv
<1>4. ~Careful
  BY DEF Inv, TruthInv, LandLate
<1> QED BY <1>2, <1>3, <1>4 DEF StepKeeps

\* Steps of the workers and the lease that only take items off a page.
LEMMA WorkerKeeps ==
  ASSUME Inv, Shrinks, ledger' = ledger, effect' = effect, gateway' = gateway
  PROVE  StepKeeps
<1>0. TypeInv /\ BudgetInv /\ PageInv
  BY DEF Inv
<1>1. /\ record' = record /\ begun' = begun /\ tried' = tried /\ call' = call /\ flying' = flying
  BY DEF ledger, gateway
<1>2. PageInv'
  BY <1>0, <1>1, PageMoves
<1>3. Unrepeated => IntentInv'
  BY <1>0, <1>1, IntentMoves DEF Inv
<1>4. Careful => TruthInv'
  BY <1>0, <1>1, TruthMoves DEF Inv
<1> QED BY <1>2, <1>3, <1>4 DEF StepKeeps

\* Steps that put items on a page or say what was seen.
LEMMA PageKeeps ==
  ASSUME Inv, ledger' = ledger, effect' = effect, gateway' = gateway, PageInv',
         Careful => PagesAreTrue'
  PROVE  StepKeeps
<1>0. TypeInv /\ BudgetInv /\ PageInv
  BY DEF Inv
<1>1. /\ record' = record /\ begun' = begun /\ tried' = tried /\ call' = call /\ flying' = flying
  BY DEF ledger, gateway
<1>2. Unrepeated => IntentInv'
  BY <1>0, <1>1, IntentMoves DEF Inv
<1>3. Careful => TruthInv'
  BY <1>1 DEF Inv, TruthInv, LedgerIsTrue, ActsHappened
<1> QED BY <1>2, <1>3 DEF StepKeeps

LEMMA ScanKeeps ==
  ASSUME Inv, NEW s \in Sweepers, Scan(s)
  PROVE  StepKeeps
<1>0. TypeInv /\ BudgetInv /\ PageInv
  BY DEF Inv
<1>1. /\ ledger' = ledger /\ effect' = effect /\ gateway' = gateway /\ record' = record
      /\ \A v \in Sweepers : v # s => sweep'[v] = sweep[v]
      /\ \A c \in DOMAIN sweep'[s].page :
           record[c].state \in UnknownStates /\ sweep'[s].page[c].seen = "nothing"
  BY <1>0, ScanKept DEF ledger
<1>2. PageInv'
  BY <1>0, <1>1 DEF PageInv
<1>3. Careful => PagesAreTrue'
  BY <1>1 DEF Inv, TruthInv, PagesAreTrue
<1> QED BY <1>1, <1>2, <1>3, PageKeeps

LEMMA ObserveKeeps ==
  ASSUME Inv, NEW s \in Sweepers, NEW c \in DOMAIN sweep[s].page, Observe(s, c)
  PROVE  StepKeeps
<1>0. TypeInv /\ BudgetInv /\ PageInv
  BY DEF Inv
<1>1. /\ ledger' = ledger /\ effect' = effect /\ gateway' = gateway /\ record' = record
      /\ \A v \in Sweepers : v # s => sweep'[v] = sweep[v]
      /\ DOMAIN sweep'[s].page = DOMAIN sweep[s].page
      /\ \A d \in DOMAIN sweep[s].page : d # c => sweep'[s].page[d] = sweep[s].page[d]
      /\ sweep'[s].page[c].rev = sweep[s].page[c].rev
      /\ sweep'[s].page[c].seen = IF effect[c] THEN "present" ELSE "absent"
  BY <1>0, ObserveKept DEF ledger
<1>2. PageInv'
  BY <1>0, <1>1 DEF PageInv
<1>3. Careful => PagesAreTrue'
  BY <1>1 DEF Inv, TruthInv, PagesAreTrue
<1> QED BY <1>1, <1>2, <1>3, PageKeeps

LEMMA CommitKeeps ==
  ASSUME Inv, NEW s \in Sweepers, NEW c \in DOMAIN sweep[s].page, Commit(s, c)
  PROVE  StepKeeps
<1> DEFINE b == sweep[s].page[c].seen = "present"
           state == Resolved(KindOf(record[c].state), b)
<1>0. TypeInv /\ BudgetInv /\ PageInv
  BY DEF Inv
<1>1. /\ Shrinks /\ begun' = begun /\ tried' = tried /\ effect' = effect /\ gateway' = gateway
      /\ c \in Candidates
      /\ Current(s, c) => Moved(c, state)
      /\ ~Current(s, c) => record' = record
  BY <1>0, CommitKept
<1>2. call' = call /\ flying' = flying
  BY <1>1 DEF gateway
<1>3. b \in BOOLEAN
  OBVIOUS
<1> HIDE DEF b
<1>4. state \in CandidateState /\ (state = "promoted" <=> b)
  BY <1>3, ResolvedStates DEF CandidateState
<1> HIDE DEF state
<1>5. PageInv'
  BY <1>0, <1>1, <1>4, PageMoves
<1>6. Current(s, c) => record[c].state \in UnknownStates
  BY <1>0 DEF PageInv, Current
<1>7. ASSUME Unrepeated PROVE IntentInv'
  <2>1. ASSUME Current(s, c), NEW w \in Callers, call[w].stage \in UnderWay PROVE call[w].c # c
    BY <1>0, <1>6, <1>7, <2>1, UnderIntent DEF Inv
  <2> QED BY <1>0, <1>1, <1>2, <1>4, <1>7, <2>1, IntentMoves DEF Inv
<1>8. ASSUME Careful PROVE TruthInv'
  <2>1. Current(s, c) => (b <=> effect[c])
    BY <1>8 DEF Inv, TruthInv, PagesAreTrue, Commit, Current, b
  <2> QED BY <1>0, <1>1, <1>2, <1>4, <1>8, <2>1, TruthMoves DEF Inv
<1> QED BY <1>5, <1>7, <1>8 DEF StepKeeps

-----------------------------------------------------------------------------
LEMMA NextKeeps == ASSUME Inv, [Next]_vars PROVE StepKeeps
<1>0. TypeInv /\ BudgetInv
  BY DEF Inv
<1>1. CASE \E c \in world.candidates : Evaluate(c) \/ Transition(c)
  BY <1>0, <1>1, ReviewKeeps, WorldParts DEF TypeInv, RestInv
<1>2. CASE \E w \in Callers : Calls(w)
  BY <1>2, ReadKeeps, BeginKeeps, ActKeeps, RaiseKeeps, SettleKeeps, CallEndsKeeps DEF Calls
<1>3. CASE \E op \in Operations, c \in Candidates : LandLate(op, c)
  BY <1>3, LandLateKeeps
<1>4. CASE \E c \in Candidates, present \in BOOLEAN : OperatorReconciles(c, present)
  BY <1>4, OperatorKeeps
<1>5. CASE \E s \in Sweepers : Sweeps(s) \/ SweeperDies(s)
  <2> SUFFICES ASSUME NEW s \in Sweepers, Sweeps(s) \/ SweeperDies(s) PROVE StepKeeps
    BY <1>5
  <2>1. CASE Claim(s) \/ Checkpoint(s) \/ Release(s) \/ Abort(s) \/ SweeperDies(s)
    BY <1>0, <2>1, RestKept, WorkerKeeps
  <2>2. CASE Scan(s)
    BY <2>2, ScanKeeps
  <2>3. CASE \E c \in DOMAIN sweep[s].page : Observe(s, c) \/ Commit(s, c)
    BY <2>3, ObserveKeeps, CommitKeeps
  <2> QED BY <2>1, <2>2, <2>3 DEF Sweeps
<1>6. CASE \E s \in Sweepers : \E c \in DOMAIN sweep[s].page : Defer(s, c)
  BY <1>0, <1>6, DeferKept, WorkerKeeps
<1>7. CASE LeaseExpires
  BY <1>0, <1>7, LeaseKept, WorkerKeeps
<1>8. CASE UNCHANGED vars
  BY <1>8, WorkerKeeps, SameSweep DEF vars, ledger, gateway, workers
<1> QED BY <1>1, <1>2, <1>3, <1>4, <1>5, <1>6, <1>7, <1>8 DEF Next

LEMMA InvStep == Inv /\ [Next]_vars => Inv'
<1> SUFFICES ASSUME Inv, [Next]_vars PROVE Inv'
  OBVIOUS
<1>1. TypeInv' /\ BudgetInv'
  BY TypeStep DEF Inv
<1>2. StepKeeps
  BY NextKeeps
<1>3. world' = world
  BY DEF Next, vars, Evaluate, Transition, Calls, Read, Begin, Act, Raise, RaiseEarly, Settle,
         CallEnds, LandLate, OperatorReconciles, Sweeps, Claim, Scan, Observe, Commit, Checkpoint,
         Release, Abort, SweeperDies, Defer, LeaseExpires
<1> QED BY <1>1, <1>2, <1>3, SameWorld DEF Inv, StepKeeps

\* docs/learning-candidates.md: while the adapter is called the record is under
\* the intent that the call committed, when mutation ids are not repeated and
\* no live call is reconciled.
THEOREM IntentsAreTheirs == Spec => []CallsUnderIntentOnce
<1>1. Inv => CallsUnderIntentOnce
  BY DEF Inv, CallsUnderIntentOnce, Unrepeated, IntentInv
<1> QED BY <1>1, InvInit, InvStep, PTL DEF Spec

\* What the ledger says without doubt, the knowledge store does, when besides
\* no effect lands after its call was given up.
THEOREM LedgerTellsTheTruth == Spec => []LedgerIsTrueWithCare
<1>1. Inv => LedgerIsTrueWithCare
  BY DEF Inv, LedgerIsTrueWithCare, TruthInv
<1> QED BY <1>1, InvInit, InvStep, PTL DEF Spec
=============================================================================
