-------------------------- MODULE SyncStreamProofs --------------------------
(***************************************************************************)
(* A stream that ends cleanly tells the truth, for any number of events    *)
(* and any capacity of either queue.  What the consumer received, what     *)
(* waits in the queue of the iterator and what waits in the presentation   *)
(* are, put end to end, the events published so far; where that ceases to  *)
(* hold the notice takes the place of the rest.                            *)
(***************************************************************************)
EXTENDS SyncStream, SequenceTheorems, TLAPS

-----------------------------------------------------------------------------
(***************************************************************************)
(* The inductive invariant.                                                *)
(***************************************************************************)
Display == (1..Events) \cup {Detached}   \* what the consumer may get
Pumping == {"submitted", "create", "queue", "read", "wait", "drain", "end", "over",
            "lost", "spin"}
Unlaunched == {"none", "created", "queued"}
Settled == {"settling", "completed", "failed"}

StreamTypes ==
  /\ run \in Unlaunched \cup {"live"} \cup Settled
  /\ published \in 0..Events
  /\ pres \in [queue : Seq(Display \cup {Finished}), closed : BOOLEAN]
  /\ pump \in [at : Pumping, call : {"none", "working", "done", "failed"}, cancel : BOOLEAN]
  /\ queue \in Seq(Display \cup {End}) /\ received \in Seq(Display)
  /\ pump.at # "over" => queue \in Seq(Display)
  /\ error \in BOOLEAN
  /\ loop \in [at : {"running", "stopping", "closed"}, gathers : BOOLEAN]

\* Before the launch there is no event; only a started pump calls the store.
Launch ==
  /\ pump.at \in {"submitted", "create", "queue", "lost", "spin"} =>
       run \in Unlaunched /\ published = 0
  /\ pump.at \in {"submitted", "create", "queue"} =>
       received = <<>> /\ queue = <<>> /\ pres = [queue |-> <<>>, closed |-> FALSE]
  /\ pump.call # "none" => pump.at \in {"create", "queue", "spin"}
  /\ run = "completed" => published = Events

\* Events stay in order on their way, and none comes twice.
Shown(s) == {s[i] : i \in DOMAIN s} \cap (1..Events)
Below(s, t) == \A a \in Shown(s), b \in Shown(t) : a < b
Ordered ==
  /\ InOrder(received) /\ InOrder(queue) /\ InOrder(pres.queue)
  /\ Below(received, queue) /\ Below(received, pres.queue) /\ Below(queue, pres.queue)
  /\ Shown(received) \cup Shown(queue) \cup Shown(pres.queue) \subseteq 1..published

\* Nobody closed the iterator or stopped the loop.
Quiet == closer = "no" /\ loop.at = "running"

First(k) == [i \in 1..k |-> i]
Delivered == received \o queue
Noticed(s) == s # <<>> /\ s[Len(s)] = Detached

\* What a stream that ends may say about the run.
Told(s) == error \/ (run = "completed" /\ s = First(Events)) \/ Noticed(s)

\* The presentation lost nothing and is open, or ends with its marker, or was
\* detached; the notice is on its way or delivered.
Reading ==
  \/ ~pres.closed /\ run = "live" /\ Delivered \o pres.queue = First(published)
  \/ /\ pres.closed /\ run \in Settled
     /\ Delivered \o pres.queue = Append(First(published), Finished)
  \/ pres.closed /\ pres.queue = <<Detached>>
  \/ pres.closed /\ pres.queue = <<>> /\ Noticed(Delivered)

Waiting == (run \in Settled /\ Delivered = First(published)) \/ Noticed(Delivered)

Ended ==
  /\ consumer = "exhausted" => ~error /\ Told(received)
  /\ End \in {queue[i] : i \in DOMAIN queue} =>
       \E s \in Seq(Display) : Delivered = Append(s, End) /\ Told(s)

Progress ==
  /\ ~pump.cancel /\ pump.at \notin {"lost", "spin"}
  /\ pump.at = "read" => Reading
  /\ pump.at = "wait" => Waiting
  /\ pump.at = "end" => Told(Delivered)
  /\ pump.at = "over" => Ended
  /\ pump.at # "over" => consumer # "exhausted"

StreamInv == StreamTypes /\ Launch /\ Ordered /\ (Quiet => Progress)

-----------------------------------------------------------------------------
(***************************************************************************)
(* Sequences on their way.                                                 *)
(***************************************************************************)
\* The first events.
LEMMA FirstEvents ==
  ASSUME NEW k \in Nat
  PROVE  /\ First(k) \in Seq(Nat) /\ Len(First(k)) = k
         /\ \A i \in 1..k : First(k)[i] = i
         /\ First(0) = <<>>
         /\ First(k + 1) = Append(First(k), k + 1)
<1>1. \A n \in Nat : /\ First(n) \in Seq(Nat) /\ Len(First(n)) = n
                     /\ \A i \in 1..n : First(n)[i] = i
  BY DEF First
<1>2. First(0) = <<>>
  BY <1>1
<1>3. First(k + 1) = Append(First(k), k + 1)
  <2>1. /\ Append(First(k), k + 1) \in Seq(Nat)
        /\ Len(Append(First(k), k + 1)) = k + 1
        /\ \A i \in 1..k : Append(First(k), k + 1)[i] = First(k)[i]
        /\ Append(First(k), k + 1)[k + 1] = k + 1
    BY <1>1, AppendProperties
  <2>2. \A i \in 1..(k + 1) : i \in 1..k \/ i = k + 1
    OBVIOUS
  <2>3. k + 1 \in Nat
    OBVIOUS
  <2>4. \A i \in 1..(k + 1) : First(k + 1)[i] = Append(First(k), k + 1)[i]
    BY <1>1, <2>1, <2>2, <2>3
  <2> QED BY <1>1, <2>1, <2>3, <2>4, SeqEqual
<1> QED BY <1>1, <1>2, <1>3

\* An item moves from one queue to the next, or joins the last one.
LEMMA Moves ==
  ASSUME NEW S, NEW s \in Seq(S), NEW t \in Seq(S)
  PROVE  /\ s \o <<>> = s /\ s \o t \in Seq(S)
         /\ \A e \in S : s \o Append(t, e) = Append(s \o t, e)
         /\ t # <<>> => Append(s, Head(t)) \o Tail(t) = s \o t
<1>1. s \o <<>> = s /\ s \o t \in Seq(S)
  BY ConcatEmptySeq, ConcatProperties
<1>2. ASSUME NEW e \in S PROVE s \o Append(t, e) = Append(s \o t, e)
  <2>1. <<e>> \in Seq(S)
    OBVIOUS
  <2>2. Append(t, e) = t \o <<e>> /\ Append(s \o t, e) = (s \o t) \o <<e>>
    BY <1>1, AppendIsConcat
  <2> QED BY <2>1, <2>2, ConcatAssociative
<1>3. ASSUME t # <<>> PROVE Append(s, Head(t)) \o Tail(t) = s \o t
  <2>1. Head(t) \in S /\ Tail(t) \in Seq(S) /\ <<Head(t)>> \in Seq(S)
    BY <1>3, HeadTailProperties
  <2>2. Append(s, Head(t)) = s \o <<Head(t)>>
    BY <2>1, AppendIsConcat
  <2>3. <<Head(t)>> \o Tail(t) = t
    <3>1. /\ <<Head(t)>> \o Tail(t) \in Seq(S)
          /\ Len(<<Head(t)>> \o Tail(t)) = 1 + Len(Tail(t))
          /\ \A i \in 1..(1 + Len(Tail(t))) : (<<Head(t)>> \o Tail(t))[i] =
               IF i <= 1 THEN <<Head(t)>>[i] ELSE Tail(t)[i - 1]
      BY <2>1, ConcatProperties
    <3>2. /\ Len(Tail(t)) = Len(t) - 1 /\ Len(t) \in Nat
          /\ \A i \in 1..Len(Tail(t)) : Tail(t)[i] = t[i + 1]
      BY <1>3, HeadTailProperties
    <3>3. ASSUME NEW i \in 1..Len(t) PROVE (<<Head(t)>> \o Tail(t))[i] = t[i]
      <4>1. CASE i = 1
        <5>1. Head(t) = t[1]
          BY <1>3
        <5> QED BY <3>1, <3>2, <4>1, <5>1
      <4>2. CASE i # 1
        <5>1. i - 1 \in 1..Len(Tail(t)) /\ (i - 1) + 1 = i /\ ~(i <= 1)
          BY <3>2, <4>2
        <5> QED BY <3>1, <3>2, <5>1
      <4> QED BY <4>1, <4>2
    <3>4. Len(<<Head(t)>> \o Tail(t)) = Len(t)
      BY <3>1, <3>2
    <3> HIDE <3>1, <3>2
    <3> QED BY <3>1, <3>3, <3>4, SeqEqual
  <2> QED BY <2>1, <2>2, <2>3, ConcatAssociative
<1> QED BY <1>1, <1>2, <1>3

\* An item moves, in a form to cite.
LEMMA MoveHead ==
  ASSUME NEW S, NEW s \in Seq(S), NEW t \in Seq(S), t # <<>>
  PROVE  Append(s, Head(t)) \o Tail(t) = s \o t
BY Moves

\* Where the item that ends a stream comes out, the rest is what was before.
LEMMA LastComesOut ==
  ASSUME NEW S, NEW e \in S
  PROVE  \A s, u \in Seq(S \ {e}), t \in Seq(S) :
           t # <<>> /\ Head(t) = e /\ s \o t = Append(u, e)
             => t = <<e>> /\ s = u /\ Tail(t) = <<>>
<1> SUFFICES ASSUME NEW s \in Seq(S \ {e}), NEW u \in Seq(S \ {e}), NEW t \in Seq(S),
                    t # <<>>, Head(t) = e, s \o t = Append(u, e)
             PROVE  t = <<e>> /\ s = u /\ Tail(t) = <<>>
  OBVIOUS
<1>1. s \in Seq(S) /\ u \in Seq(S)
  BY SeqMonotonic
<1>2. /\ Len(s \o t) = Len(s) + Len(t)
      /\ \A i \in 1..(Len(s) + Len(t)) : (s \o t)[i] = IF i <= Len(s) THEN s[i] ELSE t[i - Len(s)]
  BY <1>1, ConcatProperties
<1>3. /\ Len(Append(u, e)) = Len(u) + 1
      /\ \A i \in 1..Len(u) : Append(u, e)[i] = u[i]
  BY <1>1, AppendProperties
<1>4. Len(s) \in Nat /\ Len(t) \in Nat \ {0} /\ Len(u) \in Nat /\ t[1] = e
  BY <1>1
<1>5. (s \o t)[Len(s) + 1] = e
  <2>1. Len(s) + 1 \in 1..(Len(s) + Len(t)) /\ ~(Len(s) + 1 <= Len(s))
        /\ (Len(s) + 1) - Len(s) = 1
    BY <1>4
  <2> QED BY <1>2, <1>4, <2>1
<1>6. Len(s) + Len(t) = Len(u) + 1
  BY <1>2, <1>3
<1>7. ~(Len(s) + 1 <= Len(u))
  <2> SUFFICES ASSUME Len(s) + 1 <= Len(u) PROVE FALSE
    OBVIOUS
  <2>1. Len(s) + 1 \in 1..Len(u)
    BY <1>4
  <2>2. u[Len(s) + 1] = e
    BY <1>3, <1>5, <2>1
  <2>3. u[Len(s) + 1] \in S \ {e}
    BY <2>1, ElementOfSeq
  <2> QED BY <2>2, <2>3
<1>8. Len(t) = 1
  <2>1. \A a, b, c \in Nat : a + b = c + 1 /\ b # 0 /\ ~(a + 1 <= c) => b = 1
    OBVIOUS
  <2>2. Len(s) \in Nat /\ Len(t) \in Nat /\ Len(t) # 0 /\ Len(u) \in Nat
    BY <1>4
  <2> QED BY <1>6, <1>7, <2>1, <2>2, Zenon
<1>9. t = <<e>>
  <2>1. <<e>> \in Seq(S) /\ Len(<<e>>) = 1 /\ <<e>>[1] = e
    OBVIOUS
  <2>2. \A i \in 1..Len(t) : i = 1
    BY <1>8
  <2>3. \A i \in 1..Len(t) : t[i] = <<e>>[i]
    BY <1>4, <2>1, <2>2
  <2> QED BY <1>8, <2>1, <2>3, SeqEqual
<1>10. s \o t = Append(s, e)
  BY <1>1, <1>9, AppendIsConcat
<1>11. s = u
  <2>1. Append(s, e) = Append(u, e)
    BY <1>10
  <2>2. Append(s, e) = Append(u, e) <=> s = u /\ e = e
    <3> HIDE <1>10
    <3> QED BY <1>1, AppendInjective
  <2> QED BY <2>1, <2>2
<1>12. Tail(t) = <<>>
  <2>1. Tail(t) \in Seq(S) /\ Len(Tail(t)) = 0
    BY <1>8, HeadTailProperties
  <2> QED BY <2>1, EmptySeq, Zenon
<1> QED BY <1>9, <1>11, <1>12

-----------------------------------------------------------------------------
(***************************************************************************)
(* The order of the events.                                                *)
(***************************************************************************)
\* A queue whose events are all below one that joins it.
LEMMA OrderAppend ==
  ASSUME NEW S, NEW s \in Seq(S), NEW e \in S, InOrder(s), Events \in Nat,
         e \in 1..Events => \A a \in Shown(s) : a < e
  PROVE  /\ InOrder(Append(s, e))
         /\ Shown(Append(s, e)) = Shown(s) \cup ({e} \cap (1..Events))
<1> DEFINE r == Append(s, e)
<1>1. /\ r \in Seq(S) /\ Len(r) = Len(s) + 1 /\ Len(s) \in Nat
      /\ \A i \in 1..Len(s) : r[i] = s[i]
      /\ r[Len(s) + 1] = e
  BY AppendProperties
<1>2. DOMAIN s = 1..Len(s) /\ DOMAIN r = 1..(Len(s) + 1)
  BY <1>1
<1> HIDE DEF r
<1>3. \A i \in DOMAIN r : i \in DOMAIN s \/ i = Len(s) + 1
  BY <1>1, <1>2
<1>4. Shown(r) = Shown(s) \cup ({e} \cap (1..Events))
  <2>1. {r[i] : i \in DOMAIN r} = {s[i] : i \in DOMAIN s} \cup {e}
    <3>1. DOMAIN r = DOMAIN s \cup {Len(s) + 1}
      BY <1>1, <1>2
    <3> QED BY <1>1, <1>2, <3>1
  <2> QED BY <2>1 DEF Shown
<1>5. InOrder(r)
  <2> SUFFICES ASSUME NEW i \in DOMAIN r, NEW j \in DOMAIN r, i < j,
                      {r[i], r[j]} \subseteq 1..Events
      PROVE r[i] < r[j]
    BY DEF InOrder
  <2>1. i \in DOMAIN s /\ r[i] = s[i]
    BY <1>1, <1>2
  <2>2. CASE j \in DOMAIN s
    BY <1>1, <1>2, <2>1, <2>2 DEF InOrder
  <2>3. CASE j = Len(s) + 1
    <3>1. s[i] \in Shown(s)
      BY <2>1 DEF Shown
    <3> QED BY <1>1, <2>1, <2>3, <3>1
  <2> QED BY <1>3, <2>2, <2>3
<1> QED BY <1>4, <1>5 DEF r

\* The head of a queue is below the rest.
LEMMA OrderTail ==
  ASSUME NEW S, NEW s \in Seq(S), s # <<>>, InOrder(s)
  PROVE  /\ InOrder(Tail(s)) /\ Shown(Tail(s)) \subseteq Shown(s)
         /\ Head(s) \in 1..Events =>
              Head(s) \in Shown(s) /\ \A b \in Shown(Tail(s)) : Head(s) < b
<1> DEFINE r == Tail(s)
<1>1. /\ r \in Seq(S) /\ Len(r) = Len(s) - 1 /\ Len(s) \in Nat \ {0}
      /\ \A i \in 1..Len(r) : r[i] = s[i + 1]
      /\ Head(s) = s[1]
  BY HeadTailProperties
<1>2. DOMAIN s = 1..Len(s) /\ DOMAIN r = 1..Len(r)
  BY <1>1
<1> HIDE DEF r
<1>3. \A i \in DOMAIN r : i \in Nat /\ i + 1 \in DOMAIN s /\ r[i] = s[i + 1]
  BY <1>1, <1>2
<1>4. Shown(r) \subseteq Shown(s)
  BY <1>3 DEF Shown
<1>5. InOrder(r)
  <2> SUFFICES ASSUME NEW i \in DOMAIN r, NEW j \in DOMAIN r, i < j,
                      {r[i], r[j]} \subseteq 1..Events
      PROVE r[i] < r[j]
    BY DEF InOrder
  <2>1. i + 1 \in DOMAIN s /\ j + 1 \in DOMAIN s /\ i + 1 < j + 1
    BY <1>3
  <2> QED BY <1>3, <2>1 DEF InOrder
<1>6. ASSUME Head(s) \in 1..Events
      PROVE Head(s) \in Shown(s) /\ \A b \in Shown(r) : Head(s) < b
  <2>1. 1 \in DOMAIN s /\ s[1] \in Shown(s)
    BY <1>1, <1>2, <1>6 DEF Shown
  <2>2. ASSUME NEW b \in Shown(r) PROVE s[1] < b
    <3>1. PICK i \in DOMAIN r : r[i] = b
      BY <2>2 DEF Shown
    <3>2. i + 1 \in DOMAIN s /\ 1 < i + 1 /\ s[i + 1] = b /\ b \in 1..Events
      BY <1>2, <1>3, <2>2, <3>1 DEF Shown
    <3> QED BY <1>1, <1>6, <2>1, <3>2 DEF InOrder
  <2> QED BY <1>1, <2>1, <2>2
<1> QED BY <1>4, <1>5, <1>6 DEF r

\* Short queues.
LEMMA OrderShort ==
  /\ InOrder(<<>>) /\ Shown(<<>>) = {}
  /\ \A e : InOrder(<<e>>) /\ Shown(<<e>>) \subseteq {e}
  /\ MarkersAreNoEvents => Shown(<<Detached>>) = {}
<1>1. InOrder(<<>>) /\ Shown(<<>>) = {}
  BY DEF InOrder, Shown
<1>2. ASSUME NEW e PROVE InOrder(<<e>>) /\ Shown(<<e>>) \subseteq {e}
  BY DEF InOrder, Shown
<1>3. MarkersAreNoEvents => Shown(<<Detached>>) = {}
  BY <1>2 DEF Shown, MarkersAreNoEvents
<1> QED BY <1>1, <1>2, <1>3

-----------------------------------------------------------------------------
(***************************************************************************)
(* Types, and what holds before the launch.                                *)
(***************************************************************************)
Presentation == [queue : Seq(Display \cup {Finished}), closed : BOOLEAN]

\* The operations of the presentation.
LEMMA PresentationOps ==
  ASSUME NEW p \in Presentation, NEW item \in Display \cup {Finished}
  PROVE  /\ Detach(p) \in Presentation /\ Put(p, item) \in Presentation
         /\ Publish(p, item) = Put(p, item)
         /\ Finish(p) \in Presentation
         /\ Detach(p).closed /\ Finish(p).closed
         /\ Finish(p).queue = Put(p, Finished).queue
         /\ p.closed => Detach(p) = p /\ Put(p, item) = p
         /\ ~p.closed => Detach(p).queue = <<Detached>>
         /\ ~p.closed => \/ /\ Put(p, item).queue = Append(p.queue, item)
                            /\ ~Put(p, item).closed
                         \/ Put(p, item) = Detach(p)
<1>1. <<Detached>> \in Seq(Display \cup {Finished})
  BY DEF Display
<1>2. Detach(p) \in Presentation /\ Detach(p).closed
      /\ (p.closed => Detach(p) = p) /\ (~p.closed => Detach(p).queue = <<Detached>>)
  BY <1>1 DEF Detach, Presentation
<1>3. ASSUME NEW e \in Display \cup {Finished}
      PROVE /\ Put(p, e) \in Presentation /\ (p.closed => Put(p, e) = p)
            /\ ~p.closed => \/ /\ Put(p, e).queue = Append(p.queue, e)
                               /\ ~Put(p, e).closed
                            \/ Put(p, e) = Detach(p)
  <2>1. Append(p.queue, e) \in Seq(Display \cup {Finished})
    BY AppendProperties DEF Presentation
  <2>2. CASE p.closed
    BY <2>2 DEF Put
  <2>3. CASE ~p.closed /\ Len(p.queue) < PresCapacity
    <3>1. Put(p, e) = [p EXCEPT !.queue = Append(p.queue, e)]
      BY <2>3 DEF Put
    <3> QED BY <2>1, <2>3, <3>1 DEF Presentation
  <2>4. CASE ~p.closed /\ ~(Len(p.queue) < PresCapacity)
    BY <1>2, <2>4 DEF Put
  <2> QED BY <2>2, <2>3, <2>4
<1>4. /\ Finish(p) \in Presentation /\ Finish(p).closed
      /\ Finish(p).queue = Put(p, Finished).queue
  <2>1. Put(p, Finished) \in Presentation
    BY <1>3
  <2> QED BY <2>1 DEF Finish, Presentation
<1> QED BY <1>2, <1>3, <1>4 DEF Publish

\* A queue after an item was put.
LEMMA PutQueue ==
  ASSUME NEW p \in Presentation, NEW item \in Display \cup {Finished}
  PROVE  Put(p, item).queue \in {p.queue, <<Detached>>, Append(p.queue, item)}
<1>1. CASE p.closed
  BY <1>1, PresentationOps
<1>2. CASE ~p.closed
  <2>1. Put(p, item).queue = Append(p.queue, item) \/ Put(p, item) = Detach(p)
    BY <1>2, PresentationOps
  <2>2. Detach(p).queue = <<Detached>>
    BY <1>2, PresentationOps
  <2> QED BY <2>1, <2>2
<1> QED BY <1>1, <1>2

\* The steps of the worker.
LEMMA WorkerTypes ==
  ASSUME StreamTypes, Launch, CapacitiesArePositive, Worker
  PROVE  StreamTypes' /\ Launch'
<1> USE DEF CapacitiesArePositive
<1>0. pres \in Presentation
  BY DEF StreamTypes, Presentation
<1>1. CASE WorkerPublishes
  <2>1. published + 1 \in Display \cup {Finished} /\ published + 1 \in 0..Events
    BY <1>1 DEF WorkerPublishes, StreamTypes, Display
  <2>2. pres' \in Presentation
    BY <1>0, <1>1, <2>1, PresentationOps DEF WorkerPublishes
  <2>3. StreamTypes'
    BY <1>1, <2>1, <2>2 DEF WorkerPublishes, StreamTypes, Presentation, userVars
  <2>4. Launch'
    BY <1>1 DEF WorkerPublishes, StreamTypes, Launch, Unlaunched, userVars
  <2> QED BY <2>3, <2>4
<1>2. CASE WorkerFinishes
  <2>1. pres' \in Presentation
    BY <1>0, <1>2, PresentationOps DEF WorkerFinishes
  <2>2. StreamTypes'
    BY <1>2, <2>1 DEF WorkerFinishes, StreamTypes, Presentation, userVars, Settled
  <2>3. Launch'
    BY <1>2 DEF WorkerFinishes, Launch, Unlaunched, userVars
  <2> QED BY <2>2, <2>3
<1>3. CASE WorkerSettles
  <2>1. StreamTypes'
    BY <1>3 DEF WorkerSettles, StreamTypes, userVars, Settled
  <2>2. Launch'
    BY <1>3 DEF WorkerSettles, Launch, Unlaunched, userVars
  <2> QED BY <2>1, <2>2
<1> QED BY <1>1, <1>2, <1>3 DEF Worker

\* The steps of the pump before it reads.
LEMMA OpenerTypes ==
  ASSUME StreamTypes, Launch, CapacitiesArePositive, PumpStarts \/ StoreCall \/ StoreReturns
  PROVE  StreamTypes' /\ Launch'
<1>1. CASE PumpStarts
  <2>1. StreamTypes'
    BY <1>1 DEF PumpStarts, StreamTypes, runVars, userVars, Pumping
  <2>2. Launch'
    BY <1>1 DEF PumpStarts, Launch, StreamTypes, runVars, userVars, Pumping
  <2> QED BY <2>1, <2>2
<1>2. CASE StoreCall
  <2>1. pump.at \in {"create", "queue", "spin"} /\ run \in Unlaunched /\ run' \in Unlaunched
    BY <1>2 DEF StoreCall, Launch, Unlaunched
  <2>2. StreamTypes'
    BY <1>2, <2>1 DEF StoreCall, StreamTypes, userVars
  <2>3. Launch'
    BY <1>2, <2>1 DEF StoreCall, Launch, StreamTypes, userVars, Unlaunched
  <2> QED BY <2>2, <2>3
<1>3. CASE StoreReturns
  <2>1. StreamTypes'
    BY <1>3 DEF StoreReturns, StreamTypes, userVars, Pumping
  <2>2. Launch'
    BY <1>3 DEF StoreReturns, Launch, StreamTypes, userVars, Pumping, Unlaunched
  <2> QED BY <2>1, <2>2
<1> QED BY <1>1, <1>2, <1>3

\* The pump while it reads, and its end.
LEMMA PumpTypes ==
  ASSUME StreamTypes, Launch, CapacitiesArePositive, MarkersAreNoEvents,
         \/ PumpForwards \/ PumpOverflows \/ PumpSeesFinished \/ PumpSeesDetached
         \/ PumpDrains \/ PumpGivesUp \/ PumpWaits \/ PumpCancelled \/ PumpEnds
  PROVE  StreamTypes' /\ Launch'
<1>0. /\ pres \in Presentation /\ Detach(pres) \in Presentation
      /\ pres.queue # <<>> => [pres EXCEPT !.queue = Tail(@)] \in Presentation
      /\ queue # <<>> => /\ Tail(queue) \in Seq(Display \cup {End})
                         /\ pump.at # "over" => Tail(queue) \in Seq(Display)
  <2>1. pres \in Presentation
    BY DEF StreamTypes, Presentation
  <2>2. Detach(pres) \in Presentation
    <3>1. Finished \in Display \cup {Finished}
      OBVIOUS
    <3> QED BY <2>1, <3>1, PresentationOps
  <2>3. pres.queue # <<>> => Tail(pres.queue) \in Seq(Display \cup {Finished})
    BY <2>1, HeadTailProperties DEF Presentation
  <2>4. queue # <<>> => /\ Tail(queue) \in Seq(Display \cup {End})
                        /\ pump.at # "over" => Tail(queue) \in Seq(Display)
    BY HeadTailProperties DEF StreamTypes
  <2> QED BY <2>1, <2>2, <2>3, <2>4 DEF Presentation
<1>1. CASE PumpForwards
  <2>1. PICK item \in Display : Reads(item, "read") /\ queue' = Append(queue, item)
    BY <1>1 DEF PumpForwards, Display
  <2>2. queue' \in Seq(Display) /\ pump.at = "read"
    BY <2>1, AppendProperties DEF Reads, StreamTypes
  <2>3. queue' \in Seq(Display \cup {End})
    BY <2>2, SeqMonotonic
  <2>4. StreamTypes'
    BY <1>0, <2>1, <2>2, <2>3 DEF Reads, StreamTypes, Presentation, runVars, userVars, Pumping
  <2>5. Launch'
    BY <2>1 DEF Reads, Launch, StreamTypes, runVars, userVars
  <2> QED BY <2>4, <2>5
<1>2. CASE PumpOverflows \/ PumpSeesFinished
  <2>1. PICK item \in Display \cup {Finished}, then \in {"drain", "wait"} : Reads(item, then)
    BY <1>2 DEF PumpOverflows, PumpSeesFinished, Display
  <2>2. queue' = queue
    BY <1>2 DEF PumpOverflows, PumpSeesFinished
  <2>3. StreamTypes'
    BY <1>0, <2>1, <2>2 DEF Reads, StreamTypes, Presentation, runVars, userVars, Pumping
  <2>4. Launch'
    BY <2>1, <2>2 DEF Reads, Launch, StreamTypes, runVars, userVars
  <2> QED BY <2>3, <2>4
<1>3. CASE PumpSeesDetached
  <2>1. StreamTypes'
    BY <1>3 DEF PumpSeesDetached, StreamTypes, runVars, userVars, Pumping
  <2>2. Launch'
    BY <1>3 DEF PumpSeesDetached, StreamTypes, Launch, runVars, userVars
  <2> QED BY <2>1, <2>2
<1>4. CASE PumpDrains
  <2>1. StreamTypes'
    BY <1>0, <1>4 DEF PumpDrains, StreamTypes, runVars, userVars
  <2>2. Launch'
    BY <1>4 DEF PumpDrains, Launch, runVars, userVars
  <2> QED BY <2>1, <2>2
<1>5. CASE PumpGivesUp
  <2>1. queue' \in Seq(Display) /\ queue' \in Seq(Display \cup {End})
    BY <1>5 DEF PumpGivesUp, Notice, Display
  <2>2. StreamTypes'
    BY <1>0, <1>5, <2>1 DEF PumpGivesUp, StreamTypes, Presentation, runVars, userVars, Pumping
  <2>3. Launch'
    BY <1>5 DEF PumpGivesUp, StreamTypes, Launch, runVars, userVars
  <2> QED BY <2>2, <2>3
<1>6. CASE PumpWaits
  <2>1. StreamTypes'
    BY <1>6 DEF PumpWaits, StreamTypes, runVars, userVars, Pumping
  <2>2. Launch'
    BY <1>6 DEF PumpWaits, StreamTypes, Launch, runVars, userVars
  <2> QED BY <2>1, <2>2
<1>7. CASE PumpCancelled
  <2>1. pump.at \in {"read", "wait"}
    BY <1>7 DEF PumpCancelled, DeliveredAt
  <2>2. StreamTypes'
    BY <1>0, <1>7, <2>1 DEF PumpCancelled, StreamTypes, Presentation, runVars, userVars, Pumping
  <2>3. Launch'
    BY <1>7, <2>1 DEF PumpCancelled, StreamTypes, Launch, runVars, userVars
  <2> QED BY <2>2, <2>3
<1>8. CASE PumpEnds
  <2>1. Append(queue, End) \in Seq(Display \cup {End})
    BY AppendProperties DEF StreamTypes
  <2>2. StreamTypes'
    BY <1>8, <2>1 DEF PumpEnds, StreamTypes, runVars, userVars, Pumping
  <2>3. Launch'
    BY <1>8 DEF PumpEnds, StreamTypes, Launch, runVars, userVars
  <2> QED BY <2>2, <2>3
<1> QED BY <1>1, <1>2, <1>3, <1>4, <1>5, <1>6, <1>7, <1>8

\* The consumer, close() and the shutdown.
LEMMA UserTypes ==
  ASSUME StreamTypes, Launch, CapacitiesArePositive,
         \/ NextCalled \/ NextReturns \/ CloseCalled \/ CloseCancels
         \/ HarnessCloses \/ HarnessDrained \/ CoordinatorStops \/ LoopCloses
  PROVE  StreamTypes' /\ Launch'
<1>1. CASE NextReturns
  <2>1. /\ Head(queue) \in Display \cup {End} /\ Tail(queue) \in Seq(Display \cup {End})
        /\ pump.at # "over" => Tail(queue) \in Seq(Display)
    BY <1>1, HeadTailProperties DEF NextReturns, StreamTypes
  <2>2. received' \in Seq(Display)
    <3>1. CASE Head(queue) = End
      BY <1>1, <3>1 DEF NextReturns, StreamTypes
    <3>2. CASE Head(queue) # End
      <4>1. received \in Seq(Display) /\ Head(queue) \in Display
        BY <2>1, <3>2 DEF StreamTypes
      <4>2. Append(received, Head(queue)) \in Seq(Display)
        BY <4>1, AppendProperties
      <4> QED BY <1>1, <3>2, <4>2 DEF NextReturns
    <3> QED BY <3>1, <3>2
  <2>3. StreamTypes'
    BY <1>1, <2>1, <2>2 DEF NextReturns, StreamTypes, runVars
  <2>4. Launch'
    BY <1>1 DEF NextReturns, Launch, runVars
  <2> QED BY <2>3, <2>4
<1>2. CASE CloseCancels
  <2>1. (pump.at \notin {"over", "lost"}) \in BOOLEAN
    OBVIOUS
  <2>2. StreamTypes'
    BY <1>2, <2>1 DEF CloseCancels, StreamTypes, runVars
  <2>3. Launch'
    BY <1>2 DEF CloseCancels, StreamTypes, Launch, runVars
  <2> QED BY <2>2, <2>3
<1>3. CASE CoordinatorStops
  <2>1. \/ pump.at = "submitted" /\ pump' = [pump EXCEPT !.at = "lost"]
        \/ /\ pump.at # "submitted" /\ pump.call = "working"
           /\ pump' = [pump EXCEPT !.at = "spin"]
        \/ /\ pump.at # "submitted" /\ pump.call # "working"
           /\ pump' = [pump EXCEPT !.cancel = pump.at # "over"]
    <3>1. pump.at = "submitted" => pump.call # "working"
      BY DEF Launch
    <3> QED BY <1>3, <3>1 DEF CoordinatorStops
  <2>0. loop' \in [at : {"running", "stopping", "closed"}, gathers : BOOLEAN]
    <3>1. (run \in Working) \in BOOLEAN
      OBVIOUS
    <3> QED BY <1>3, <3>1 DEF CoordinatorStops
  <2>2. StreamTypes'
    BY <1>3, <2>0, <2>1 DEF CoordinatorStops, Launch, StreamTypes, runVars, userVars, Pumping
  <2>3. Launch'
    BY <1>3, <2>1 DEF CoordinatorStops, StreamTypes, Launch, runVars, userVars
  <2> QED BY <2>2, <2>3
<1>4. CASE NextCalled \/ CloseCalled \/ HarnessCloses \/ HarnessDrained \/ LoopCloses
  BY <1>4 DEF NextCalled, CloseCalled, HarnessCloses, HarnessDrained, LoopCloses,
     StreamTypes, Launch, runVars, userVars
<1> QED BY <1>1, <1>2, <1>3, <1>4

LEMMA TypesKept ==
  ASSUME StreamTypes, Launch, CapacitiesArePositive, MarkersAreNoEvents, Next
  PROVE  StreamTypes' /\ Launch'
BY WorkerTypes, OpenerTypes, PumpTypes, UserTypes DEF Next, PumpRuns

-----------------------------------------------------------------------------
(***************************************************************************)
(* The events stay in order.                                               *)
(***************************************************************************)
\* Queues only lose events, or are replaced by others that do.
LEMMA FewerInOrder ==
  ASSUME Ordered, published' = published,
         InOrder(received') /\ Shown(received') \subseteq Shown(received),
         InOrder(queue') /\ Shown(queue') \subseteq Shown(queue),
         InOrder(pres'.queue) /\ Shown(pres'.queue) \subseteq Shown(pres.queue)
  PROVE  Ordered'
<1>1. Below(received', queue') /\ Below(received', pres'.queue) /\ Below(queue', pres'.queue)
  BY DEF Ordered, Below
<1>2. Shown(received') \cup Shown(queue') \cup Shown(pres'.queue) \subseteq 1..published'
  BY DEF Ordered
<1>3. (InOrder(received) /\ InOrder(queue) /\ InOrder(pres.queue))'
  BY DEF InOrder
<1>4. (Below(received, queue) /\ Below(received, pres.queue) /\ Below(queue, pres.queue))'
  BY <1>1 DEF Below, Shown
<1>5. (Shown(received) \cup Shown(queue) \cup Shown(pres.queue) \subseteq 1..published)'
  BY <1>2 DEF Shown
<1> QED BY <1>3, <1>4, <1>5 DEF Ordered

\* Order after a step, from the queues after it.
LEMMA OrderedThen ==
  ASSUME InOrder(received') /\ InOrder(queue') /\ InOrder(pres'.queue),
         Below(received', queue'), Below(received', pres'.queue), Below(queue', pres'.queue),
         Shown(received') \cup Shown(queue') \cup Shown(pres'.queue) \subseteq 1..published'
  PROVE  Ordered'
<1>1. (InOrder(received) /\ InOrder(queue) /\ InOrder(pres.queue))'
  BY DEF InOrder
<1>2. (Below(received, queue) /\ Below(received, pres.queue) /\ Below(queue, pres.queue))'
  BY DEF Below, Shown
<1>3. (Shown(received) \cup Shown(queue) \cup Shown(pres.queue) \subseteq 1..published)'
  BY DEF Shown
<1> QED BY <1>1, <1>2, <1>3 DEF Ordered

\* Taking the first of a queue, or replacing one by a notice.
LEMMA LosesEvents ==
  ASSUME StreamTypes, Ordered, MarkersAreNoEvents
  PROVE  /\ queue # <<>> => InOrder(Tail(queue)) /\ Shown(Tail(queue)) \subseteq Shown(queue)
         /\ pres.queue # <<>> =>
              InOrder(Tail(pres.queue)) /\ Shown(Tail(pres.queue)) \subseteq Shown(pres.queue)
         /\ InOrder(<<Detached>>) /\ Shown(<<Detached>>) = {}
         /\ InOrder(Detach(pres).queue) /\ Shown(Detach(pres).queue) \subseteq Shown(pres.queue)
<1>1. queue \in Seq(Display \cup {End}) /\ pres.queue \in Seq(Display \cup {Finished})
  BY DEF StreamTypes
<1>2. InOrder(queue) /\ InOrder(pres.queue)
  BY DEF Ordered
<1>3. queue # <<>> => InOrder(Tail(queue)) /\ Shown(Tail(queue)) \subseteq Shown(queue)
  BY <1>1, <1>2, OrderTail
<1>4. pres.queue # <<>> =>
        InOrder(Tail(pres.queue)) /\ Shown(Tail(pres.queue)) \subseteq Shown(pres.queue)
  BY <1>1, <1>2, OrderTail
<1>5. InOrder(<<Detached>>) /\ Shown(<<Detached>>) = {}
  BY OrderShort
<1>6. Detach(pres) = pres \/ Detach(pres).queue = <<Detached>>
  BY DEF Detach
<1> QED BY <1>2, <1>3, <1>4, <1>5, <1>6

LEMMA WorkerInOrder ==
  ASSUME StreamTypes, Ordered, CapacitiesArePositive, MarkersAreNoEvents, Worker
  PROVE  Ordered'
<1>0. /\ pres \in Presentation /\ pres.queue \in Seq(Display \cup {Finished})
      /\ Events \in Nat /\ published \in Nat /\ Finished \notin 1..Events
  BY DEF StreamTypes, Presentation, CapacitiesArePositive, MarkersAreNoEvents
<1>1. CASE WorkerPublishes
  <2> DEFINE e == published + 1
  <2>1. /\ published' = e /\ pres' = Publish(pres, e) /\ e \in 1..Events
        /\ received' = received /\ queue' = queue
    BY <1>0, <1>1 DEF WorkerPublishes, userVars
  <2>2. \A a \in 1..published : a \in 1..e /\ a < e
    BY <1>0
  <2>3. e \in 1..e /\ e \in Display \cup {Finished}
    BY <1>0, <2>1 DEF Display
  <2> HIDE DEF e
  <2>4. CASE pres'.queue = Append(pres.queue, e)
    <3>1. \A a \in Shown(pres.queue) : a < e
      BY <2>2 DEF Ordered
    <3>2. /\ InOrder(pres'.queue)
          /\ Shown(pres'.queue) = Shown(pres.queue) \cup ({e} \cap (1..Events))
      BY <1>0, <2>3, <2>4, <3>1, OrderAppend DEF Ordered
    <3>3. Below(received', pres'.queue) /\ Below(queue', pres'.queue)
      BY <2>1, <2>2, <3>2 DEF Ordered, Below
    <3>4. Shown(received') \cup Shown(queue') \cup Shown(pres'.queue) \subseteq 1..published'
      BY <2>1, <2>2, <2>3, <3>2 DEF Ordered
    <3> QED BY <2>1, <3>2, <3>3, <3>4, OrderedThen DEF Ordered
  <2>5. CASE pres'.queue = pres.queue \/ pres'.queue = <<Detached>>
    <3>1. InOrder(pres'.queue) /\ Shown(pres'.queue) \subseteq Shown(pres.queue)
      BY <2>5, LosesEvents DEF Ordered
    <3>2. Below(received', pres'.queue) /\ Below(queue', pres'.queue)
      BY <2>1, <3>1 DEF Ordered, Below
    <3>3. Shown(received') \cup Shown(queue') \cup Shown(pres'.queue) \subseteq 1..published'
      BY <2>1, <2>2, <3>1 DEF Ordered
    <3> QED BY <2>1, <3>1, <3>2, <3>3, OrderedThen DEF Ordered
  <2>6. Publish(pres, e) = Put(pres, e)
    BY DEF Publish
  <2>7. pres'.queue \in {pres.queue, <<Detached>>, Append(pres.queue, e)}
    <3>1. Put(pres, e).queue \in {pres.queue, <<Detached>>, Append(pres.queue, e)}
      BY <1>0, <2>3, PutQueue
    <3> QED BY <2>1, <2>6, <3>1
  <2> QED BY <2>4, <2>5, <2>7
<1>2. CASE WorkerFinishes
  <2>1. /\ published' = published /\ pres' = Finish(pres)
        /\ received' = received /\ queue' = queue
    BY <1>2 DEF WorkerFinishes, userVars
  <2>2. /\ pres'.queue = Put(pres, Finished).queue
        /\ pres'.queue \in {pres.queue, <<Detached>>, Append(pres.queue, Finished)}
    <3>1. Finished \in Display \cup {Finished}
      OBVIOUS
    <3>2. Put(pres, Finished).queue \in {pres.queue, <<Detached>>, Append(pres.queue, Finished)}
      BY <1>0, <3>1, PutQueue
    <3>3. Finish(pres).queue = Put(pres, Finished).queue
      BY <1>0, <3>1, PresentationOps
    <3> QED BY <2>1, <3>2, <3>3
  <2>3. /\ InOrder(Append(pres.queue, Finished))
        /\ Shown(Append(pres.queue, Finished)) = Shown(pres.queue)
    <3>1. Finished \in Display \cup {Finished} /\ InOrder(pres.queue)
      BY DEF Ordered
    <3>2. /\ InOrder(Append(pres.queue, Finished))
          /\ Shown(Append(pres.queue, Finished)) = Shown(pres.queue) \cup ({Finished} \cap (1..Events))
      BY <1>0, <3>1, OrderAppend
    <3> QED BY <1>0, <3>2
  <2>4. InOrder(pres'.queue) /\ Shown(pres'.queue) \subseteq Shown(pres.queue)
    BY <2>2, <2>3, LosesEvents DEF Ordered
  <2> QED BY <2>1, <2>4, FewerInOrder DEF Ordered
<1>3. CASE WorkerSettles
  BY <1>3, FewerInOrder DEF WorkerSettles, userVars, Ordered
<1> QED BY <1>1, <1>2, <1>3 DEF Worker

LEMMA OthersInOrder ==
  ASSUME StreamTypes, Ordered, CapacitiesArePositive, MarkersAreNoEvents, Next, ~Worker
  PROVE  Ordered'
<1>0. /\ queue \in Seq(Display \cup {End}) /\ received \in Seq(Display)
      /\ pres.queue \in Seq(Display \cup {Finished}) /\ Events \in Nat
      /\ End \notin 1..Events /\ Detached \notin 1..Events
      /\ received \in Seq(Display \cup {End})
  <2>1. received \in Seq(Display)
    BY DEF StreamTypes
  <2>2. received \in Seq(Display \cup {End})
    BY <2>1, SeqMonotonic
  <2> QED BY <2>1, <2>2 DEF StreamTypes, CapacitiesArePositive, MarkersAreNoEvents
<1>1. CASE PumpForwards
  <2>1. PICK item \in Display : Reads(item, "read") /\ queue' = Append(queue, item)
    BY <1>1 DEF PumpForwards, Display
  <2>2. /\ pres.queue # <<>> /\ item = Head(pres.queue) /\ pres'.queue = Tail(pres.queue)
        /\ received' = received /\ published' = published
    BY <2>1 DEF Reads, runVars, userVars, StreamTypes
  <2>3. /\ InOrder(pres'.queue) /\ Shown(pres'.queue) \subseteq Shown(pres.queue)
        /\ item \in 1..Events =>
             item \in Shown(pres.queue) /\ \A b \in Shown(pres'.queue) : item < b
    BY <1>0, <2>2, OrderTail DEF Ordered
  <2>4. item \in 1..Events => \A a \in Shown(queue) : a < item
    BY <2>3 DEF Ordered, Below
  <2>5. InOrder(queue') /\ Shown(queue') = Shown(queue) \cup ({item} \cap (1..Events))
    BY <1>0, <2>1, <2>4, OrderAppend DEF Ordered
  <2>6. Below(received', queue') /\ Below(received', pres'.queue) /\ Below(queue', pres'.queue)
    BY <2>2, <2>3, <2>5 DEF Ordered, Below
  <2>7. Shown(received') \cup Shown(queue') \cup Shown(pres'.queue) \subseteq 1..published'
    BY <2>2, <2>3, <2>5 DEF Ordered
  <2> QED BY <2>2, <2>3, <2>5, <2>6, <2>7, OrderedThen DEF Ordered
<1>2. CASE NextReturns
  <2>1. /\ queue # <<>> /\ queue' = Tail(queue) /\ published' = published /\ pres' = pres
        /\ received' = received \/ (received' = Append(received, Head(queue)))
    BY <1>2 DEF NextReturns, runVars
  <2>2. /\ InOrder(queue') /\ Shown(queue') \subseteq Shown(queue)
        /\ Head(queue) \in 1..Events =>
             Head(queue) \in Shown(queue) /\ \A b \in Shown(queue') : Head(queue) < b
    BY <1>0, <2>1, OrderTail DEF Ordered
  <2>3. CASE received' = received
    BY <2>1, <2>2, <2>3, FewerInOrder DEF Ordered
  <2>4. CASE received' = Append(received, Head(queue))
    <3>1. Head(queue) \in 1..Events => \A a \in Shown(received) : a < Head(queue)
      BY <2>2 DEF Ordered, Below
    <3>2. Head(queue) \in Display \cup {End}
      BY <1>0, <2>1, HeadTailProperties
    <3>3. /\ InOrder(received')
          /\ Shown(received') = Shown(received) \cup ({Head(queue)} \cap (1..Events))
      BY <1>0, <2>4, <3>1, <3>2, OrderAppend DEF Ordered
    <3>4. Below(received', queue') /\ Below(received', pres'.queue) /\ Below(queue', pres'.queue)
      BY <2>1, <2>2, <3>3 DEF Ordered, Below
    <3>5. Shown(received') \cup Shown(queue') \cup Shown(pres'.queue) \subseteq 1..published'
      BY <2>1, <2>2, <3>3 DEF Ordered
    <3> QED BY <2>1, <2>2, <3>3, <3>4, <3>5, OrderedThen DEF Ordered
  <2> QED BY <2>1, <2>3, <2>4
<1>3. CASE PumpEnds
  <2>1. /\ queue' = queue \/ queue' = Append(queue, End)
        /\ received' = received /\ published' = published /\ pres' = pres
    BY <1>3 DEF PumpEnds, runVars, userVars
  <2>2. InOrder(Append(queue, End)) /\ Shown(Append(queue, End)) = Shown(queue)
    <3>1. End \in Display \cup {End} /\ InOrder(queue)
      BY DEF Ordered
    <3>2. /\ InOrder(Append(queue, End))
          /\ Shown(Append(queue, End)) = Shown(queue) \cup ({End} \cap (1..Events))
      BY <1>0, <3>1, OrderAppend
    <3> QED BY <1>0, <3>2
  <2>3. InOrder(queue') /\ Shown(queue') \subseteq Shown(queue)
    BY <2>1, <2>2 DEF Ordered
  <2> QED BY <2>1, <2>3, FewerInOrder DEF Ordered
<1>4. CASE PumpOverflows \/ PumpSeesFinished
  <2>1. /\ pres.queue # <<>> /\ pres'.queue = Tail(pres.queue)
        /\ received' = received /\ published' = published /\ queue' = queue
    BY <1>4 DEF PumpOverflows, PumpSeesFinished, Reads, runVars, userVars, StreamTypes
  <2>2. InOrder(pres'.queue) /\ Shown(pres'.queue) \subseteq Shown(pres.queue)
    BY <2>1, LosesEvents
  <2> QED BY <2>1, <2>2, FewerInOrder DEF Ordered
<1>5. CASE PumpDrains
  <2>1. /\ queue # <<>> /\ queue' = Tail(queue)
        /\ received' = received /\ published' = published /\ pres' = pres
    BY <1>5 DEF PumpDrains, runVars, userVars
  <2>2. InOrder(queue') /\ Shown(queue') \subseteq Shown(queue)
    BY <2>1, LosesEvents
  <2> QED BY <2>1, <2>2, FewerInOrder DEF Ordered
<1>6. CASE PumpGivesUp
  <2>1. /\ queue' = <<Detached>> /\ pres' = Detach(pres)
        /\ received' = received /\ published' = published
    BY <1>6 DEF PumpGivesUp, Notice, runVars, userVars
  <2>2. InOrder(queue') /\ Shown(queue') \subseteq Shown(queue)
    BY <2>1, LosesEvents
  <2>3. InOrder(pres'.queue) /\ Shown(pres'.queue) \subseteq Shown(pres.queue)
    BY <2>1, LosesEvents
  <2> QED BY <2>1, <2>2, <2>3, FewerInOrder DEF Ordered
<1>7. CASE PumpCancelled
  <2>1. /\ queue' = queue /\ pres' \in {Detach(pres), pres}
        /\ received' = received /\ published' = published
    BY <1>7 DEF PumpCancelled, runVars, userVars
  <2>2. InOrder(pres'.queue) /\ Shown(pres'.queue) \subseteq Shown(pres.queue)
    BY <2>1, LosesEvents DEF Ordered
  <2> QED BY <2>1, <2>2, FewerInOrder DEF Ordered
<1>8. ASSUME UNCHANGED <<received, queue, pres, published>> PROVE Ordered'
  BY <1>8, FewerInOrder DEF Ordered
<1>9. CASE \/ PumpStarts \/ StoreCall \/ StoreReturns \/ PumpSeesDetached \/ PumpWaits
           \/ NextCalled \/ CloseCalled \/ CloseCancels
           \/ HarnessCloses \/ HarnessDrained \/ CoordinatorStops \/ LoopCloses
  <2>1. UNCHANGED <<received, queue, pres, published>>
    BY <1>9 DEF PumpStarts, StoreCall, StoreReturns, PumpSeesDetached, PumpWaits,
       NextCalled, CloseCalled, CloseCancels, HarnessCloses, HarnessDrained,
       CoordinatorStops, LoopCloses, runVars, userVars
  <2> QED BY <1>8, <2>1
<1> QED
  BY <1>1, <1>2, <1>3, <1>4, <1>5, <1>6, <1>7, <1>9 DEF Next, PumpRuns

-----------------------------------------------------------------------------
(***************************************************************************)
(* What a stream that ends may say.                                        *)
(***************************************************************************)
Items == Display \cup {Finished, End}

LEMMA DeliveredIs ==
  ASSUME StreamTypes
  PROVE  /\ received \in Seq(Items) /\ queue \in Seq(Items) /\ pres.queue \in Seq(Items)
         /\ Delivered \in Seq(Items)
         /\ pump.at # "over" => queue \in Seq(Display) /\ Delivered \in Seq(Display)
         /\ published \in Nat
<1>1. received \in Seq(Display) /\ queue \in Seq(Display \cup {End})
      /\ pres.queue \in Seq(Display \cup {Finished})
  BY DEF StreamTypes
<1>2. Display \subseteq Items /\ Display \cup {End} \subseteq Items
      /\ Display \cup {Finished} \subseteq Items
  BY DEF Items
<1>3. received \in Seq(Items) /\ queue \in Seq(Items) /\ pres.queue \in Seq(Items)
  BY <1>1, <1>2, SeqMonotonic
<1>4. Delivered \in Seq(Items)
  BY <1>3, Moves DEF Delivered
<1>5. ASSUME pump.at # "over" PROVE queue \in Seq(Display) /\ Delivered \in Seq(Display)
  <2>1. queue \in Seq(Display)
    BY <1>5 DEF StreamTypes
  <2> QED BY <1>1, <2>1, Moves DEF Delivered
<1> QED BY <1>3, <1>4, <1>5 DEF StreamTypes

\* The notice at the end of what was delivered.
LEMMA NoticedAppend ==
  ASSUME NEW S, NEW s \in Seq(S), Detached \in S
  PROVE  Noticed(Append(s, Detached))
BY AppendProperties DEF Noticed

\* First(n) is a sequence of events, so also of items.
LEMMA FirstAreEvents ==
  ASSUME NEW n \in 0..Events, CapacitiesArePositive
  PROVE  First(n) \in Seq(Display) /\ n \in Nat
<1>1. n \in Nat /\ Events \in Nat
  BY DEF CapacitiesArePositive
<1>2. \A i \in 1..n : i \in Display
  BY <1>1 DEF Display
<1>3. First(n) \in [1..n -> Display]
  BY <1>2 DEF First
<1> QED BY <1>1, <1>3

LEMMA QuietBefore ==
  ASSUME StreamTypes, Next, Quiet'
  PROVE  Quiet /\ closer' = "no"
<1>1. closer' = "no" /\ loop'.at = "running"
  BY DEF Quiet
<1>2. CASE Worker \/ PumpRuns \/ PumpCancelled \/ StoreCall \/ NextCalled \/ NextReturns
           \/ HarnessCloses \/ HarnessDrained
  <2>1. UNCHANGED <<closer, loop>>
    BY <1>2 DEF Worker, WorkerPublishes, WorkerFinishes, WorkerSettles, PumpRuns, PumpStarts,
       StoreReturns, PumpForwards, PumpOverflows, PumpSeesFinished, PumpSeesDetached,
       PumpDrains, PumpGivesUp, PumpWaits, PumpEnds, Reads, PumpCancelled, StoreCall,
       NextCalled, NextReturns, HarnessCloses, HarnessDrained, userVars
  <2> QED BY <1>1, <2>1 DEF Quiet
<1>3. CASE CloseCalled \/ CloseCancels \/ CoordinatorStops \/ LoopCloses
  BY <1>1, <1>3 DEF CloseCalled, CloseCancels, CoordinatorStops, LoopCloses, StreamTypes
<1> QED BY <1>2, <1>3 DEF Next

\* Steps of the worker: what is published joins what is on its way, or the
\* presentation is detached.
LEMMA WorkerProgress ==
  ASSUME StreamTypes, Launch, Quiet, Progress, CapacitiesArePositive, MarkersAreNoEvents, Worker
  PROVE  Progress'
<1>1. /\ UNCHANGED <<pump, queue, received, error, consumer>>
      /\ run \in {"live", "settling"} /\ pump.at \notin {"drain", "end", "spin"}
      /\ published' \in {published, published + 1}
      /\ run = "live" \/ run' \in {"completed", "failed"}
      /\ run = "live" => run' \in {"live", "settling"}
      /\ run = "settling" => pres' = pres
  BY DEF Worker, WorkerPublishes, WorkerFinishes, WorkerSettles, userVars, LoopIsFree
<1>2. pump.at \in {"read", "wait", "over"}
  BY <1>1 DEF StreamTypes, Pumping, Launch, Progress, Unlaunched
<1>3. Delivered' = Delivered /\ \A s : Noticed(s)' = Noticed(s)
  BY <1>1 DEF Delivered, Noticed
<1>4. \A s : Told(s) => Told(s)'
  BY <1>1, <1>3 DEF Told
<1>5. pump.at = "over" => Ended'
  <2> HAVE pump.at = "over"
  <2>1. Ended
    BY DEF Progress
  <2> QED BY <1>1, <1>3, <1>4, <2>1 DEF Ended
<1>6. pump.at = "wait" => Waiting'
  <2> HAVE pump.at = "wait"
  <2>1. Waiting
    BY DEF Progress
  <2>2. CASE Noticed(Delivered)
    <3>1. Noticed(Delivered)'
      BY <1>3, <2>2 DEF Noticed
    <3> QED BY <3>1 DEF Waiting
  <2>3. CASE run \in Settled /\ Delivered = First(published)
    <3>1. run = "settling"
      BY <1>1, <2>3 DEF Settled
    <3>2. run' \in Settled /\ published' = published
      BY <3>1 DEF Worker, WorkerPublishes, WorkerFinishes, WorkerSettles, Settled
    <3> QED BY <1>3, <2>3, <3>2 DEF Waiting, First
  <2> QED BY <2>1, <2>2, <2>3 DEF Waiting
<1>7. pump.at = "read" => Reading'
  <2> HAVE pump.at = "read"
  <2>0. /\ pres \in Presentation /\ Finished \in Display \cup {Finished}
        /\ received \in Seq(Items) /\ queue \in Seq(Items) /\ pres.queue \in Seq(Items)
        /\ Delivered \in Seq(Items) /\ published \in Nat
    BY DeliveredIs DEF StreamTypes, Presentation
  <2>1. Reading
    BY DEF Progress
  <2>2. CASE \/ pres.closed /\ pres.queue = <<Detached>>
             \/ pres.closed /\ pres.queue = <<>> /\ Noticed(Delivered)
    <3>1. pres'.closed /\ pres'.queue = pres.queue
      <4>1. CASE WorkerPublishes
        <5>1. published + 1 \in Display \cup {Finished}
          BY <2>0, <4>1 DEF WorkerPublishes, StreamTypes, CapacitiesArePositive, Display
        <5>2. Publish(pres, published + 1) = pres
          BY <2>0, <2>2, <5>1, PresentationOps
        <5> QED BY <2>2, <4>1, <5>2 DEF WorkerPublishes
      <4>2. CASE WorkerFinishes
        <5>1. Finish(pres).closed /\ Finish(pres).queue = Put(pres, Finished).queue
          BY <2>0, PresentationOps
        <5>2. Put(pres, Finished) = pres
          BY <2>0, <2>2, PresentationOps
        <5> QED BY <4>2, <5>1, <5>2 DEF WorkerFinishes
      <4>3. CASE WorkerSettles
        BY <2>2, <4>3 DEF WorkerSettles
      <4> QED BY <4>1, <4>2, <4>3 DEF Worker
    <3>2. Noticed(Delivered)' <=> Noticed(Delivered)
      BY <1>3 DEF Noticed
    <3> QED BY <2>2, <3>1, <3>2 DEF Reading
  <2>3. CASE /\ pres.closed /\ run \in Settled
             /\ Delivered \o pres.queue = Append(First(published), Finished)
    <3>1. run = "settling"
      BY <1>1, <2>3 DEF Settled
    <3>2. run' \in Settled /\ published' = published /\ pres' = pres
      BY <3>1 DEF Worker, WorkerPublishes, WorkerFinishes, WorkerSettles, Settled
    <3> QED BY <1>3, <2>3, <3>2 DEF Reading, First
  <2>4. CASE ~pres.closed /\ run = "live" /\ Delivered \o pres.queue = First(published)
    <3>1. CASE WorkerPublishes
      <4>1. published + 1 \in Display /\ published' = published + 1 /\ run' = "live"
            /\ pres' = Publish(pres, published + 1)
        BY <2>0, <2>4, <3>1 DEF WorkerPublishes, StreamTypes, CapacitiesArePositive, Display
      <4>2. /\ published + 1 \in Items /\ published + 1 \in Display \cup {Finished}
            /\ Publish(pres, published + 1) = Put(pres, published + 1)
        BY <4>1 DEF Items, Publish
      <4>3. \/ pres'.queue = Append(pres.queue, published + 1) /\ ~pres'.closed
            \/ pres' = Detach(pres) /\ pres'.queue = <<Detached>> /\ pres'.closed
        BY <2>0, <2>4, <4>1, <4>2, PresentationOps
      <4>4. CASE pres'.queue = Append(pres.queue, published + 1) /\ ~pres'.closed
        <5>1. Delivered \o Append(pres.queue, published + 1)
                = Append(Delivered \o pres.queue, published + 1)
          BY <2>0, <4>2, Moves
        <5>2. First(published + 1) = Append(First(published), published + 1)
          BY <2>0, FirstEvents
        <5>3. Delivered' \o pres'.queue = First(published')
          BY <1>3, <2>4, <4>1, <4>4, <5>1, <5>2
        <5> QED BY <4>1, <4>4, <5>3 DEF Reading, First
      <4>5. CASE pres'.queue = <<Detached>> /\ pres'.closed
        BY <4>5 DEF Reading
      <4> QED BY <4>3, <4>4, <4>5
    <3>2. CASE WorkerFinishes
      <4>1. run' = "settling" /\ published' = published /\ pres' = Finish(pres)
        BY <3>2 DEF WorkerFinishes
      <4>2. pres'.closed /\ pres'.queue = Put(pres, Finished).queue
        BY <2>0, <4>1, PresentationOps
      <4>3. \/ Put(pres, Finished).queue = Append(pres.queue, Finished)
            \/ Put(pres, Finished).queue = <<Detached>>
        BY <2>0, <2>4, PresentationOps
      <4>4. CASE pres'.queue = Append(pres.queue, Finished)
        <5>1. Delivered \o Append(pres.queue, Finished) = Append(Delivered \o pres.queue, Finished)
          BY <2>0, Moves DEF Items
        <5>2. Delivered' \o pres'.queue = Append(First(published'), Finished)
          BY <1>3, <2>4, <4>1, <4>4, <5>1
        <5> QED BY <4>1, <4>2, <5>2 DEF Reading, First, Settled
      <4>5. CASE pres'.queue = <<Detached>>
        BY <4>2, <4>5 DEF Reading
      <4> QED BY <4>2, <4>3, <4>4, <4>5
    <3>3. CASE WorkerSettles
      BY <2>4, <3>3 DEF WorkerSettles
    <3> QED BY <3>1, <3>2, <3>3 DEF Worker
  <2> QED BY <2>1, <2>2, <2>3, <2>4 DEF Reading
<1>8. /\ ~pump'.cancel /\ pump'.at \notin {"lost", "spin"}
      /\ pump'.at # "over" => consumer' # "exhausted"
  BY <1>1 DEF Progress
<1> QED BY <1>1, <1>2, <1>5, <1>6, <1>7, <1>8 DEF Progress

\* The pump before it reads.
LEMMA OpenerProgress ==
  ASSUME StreamTypes, Launch, Quiet, Progress, CapacitiesArePositive,
         PumpStarts \/ StoreCall \/ StoreReturns
  PROVE  Progress'
<1>1. /\ pump.at \in {"submitted", "create", "queue"} /\ consumer' = consumer
      /\ received' = received /\ queue' = queue /\ pres' = pres /\ published' = published
      /\ ~pump'.cancel
  BY DEF PumpStarts, StoreCall, StoreReturns, Launch, Progress, StreamTypes, userVars, runVars
<1>2. consumer' # "exhausted"
  BY <1>1 DEF Progress
<1>3. \/ pump'.at \in {"create", "queue"}
      \/ pump'.at = "end" /\ error'
      \/ pump'.at = "read" /\ run' = "live"
  <2>1. CASE PumpStarts
    BY <2>1 DEF PumpStarts, StreamTypes
  <2>2. CASE StoreCall
    <3>1. pump'.at = pump.at /\ pump.call = "working"
      BY <2>2 DEF StoreCall, StreamTypes
    <3> QED BY <1>1, <3>1 DEF Launch
  <2>3. CASE StoreReturns
    BY <2>3 DEF StoreReturns, StreamTypes
  <2> QED BY <2>1, <2>2, <2>3
<1>4. CASE pump'.at \in {"create", "queue"}
  BY <1>1, <1>2, <1>4 DEF Progress
<1>5. CASE pump'.at = "end" /\ error'
  BY <1>1, <1>2, <1>5 DEF Progress, Told
<1>6. CASE pump'.at = "read" /\ run' = "live"
  <2>1. received' = <<>> /\ queue' = <<>> /\ pres'.queue = <<>> /\ ~pres'.closed /\ published' = 0
    BY <1>1 DEF Launch
  <2>2. <<>> \o <<>> = <<>> /\ First(0) = <<>>
    <3>1. <<>> \in Seq(Nat) /\ 0 \in Nat
      OBVIOUS
    <3> QED BY <3>1, Moves, FirstEvents
  <2>3. (Delivered \o pres.queue = First(published))'
    BY <2>1, <2>2 DEF Delivered, First
  <2>4. Reading'
    BY <1>6, <2>1, <2>3 DEF Reading
  <2> QED BY <1>1, <1>2, <1>6, <2>4 DEF Progress
<1> QED BY <1>3, <1>4, <1>5, <1>6

\* The pump reads: an item goes on its way, the marker or the notice tells it
\* to stop.
LEMMA ReaderProgress ==
  ASSUME StreamTypes, Launch, Quiet, Progress, CapacitiesArePositive, MarkersAreNoEvents,
         PumpForwards \/ PumpOverflows \/ PumpSeesFinished \/ PumpSeesDetached
  PROVE  Progress'
<1>1. /\ pump.at = "read" /\ UNCHANGED <<run, published, error, received, consumer>>
      /\ pres'.closed = pres.closed /\ ~pump'.cancel
  BY DEF PumpForwards, PumpOverflows, PumpSeesFinished, PumpSeesDetached, Reads,
     StreamTypes, Progress, runVars, userVars
<1>2. /\ Reading /\ consumer' # "exhausted"
  BY <1>1 DEF Progress
<1>3. /\ received \in Seq(Items) /\ queue \in Seq(Items) /\ pres.queue \in Seq(Items)
      /\ Delivered \in Seq(Items) /\ Delivered \in Seq(Display) /\ queue \in Seq(Display)
      /\ published \in Nat /\ published \in 0..Events
      /\ First(published) \in Seq(Display) /\ Finished \notin Display /\ Detached # Finished
      /\ Detached \in Display /\ Detached \in Items /\ Display \subseteq Items
  <2>1. Finished \notin Display /\ Detached # Finished /\ Detached \in Display
    BY DEF MarkersAreNoEvents, Display
  <2>2. published \in 0..Events
    BY DEF StreamTypes
  <2> QED BY <1>1, <2>1, <2>2, DeliveredIs, FirstAreEvents DEF Items
<1>4. CASE PumpForwards
  <2>1. PICK item \in Display : /\ pres.queue # <<>> /\ item = Head(pres.queue)
                                /\ queue' = Append(queue, item)
                                /\ pres'.queue = Tail(pres.queue)
                                /\ pump'.at = "read"
    BY <1>4 DEF PumpForwards, Reads, Display, StreamTypes
  <2>2. Delivered' = Append(Delivered, item)
    <3>1. item \in Items
      BY <1>3
    <3>2. received \o Append(queue, item) = Append(received \o queue, item)
      BY <1>3, <3>1, Moves
    <3> QED BY <1>1, <2>1, <3>2 DEF Delivered
  <2>3. Delivered' \o pres'.queue = Delivered \o pres.queue
    <3>1. Append(Delivered, Head(pres.queue)) \o Tail(pres.queue) = Delivered \o pres.queue
      BY <1>3, <2>1, MoveHead
    <3> QED BY <2>1, <2>2, <3>1
  <2>4. Reading'
    <3>1. CASE \/ ~pres.closed /\ run = "live" /\ Delivered \o pres.queue = First(published)
               \/ /\ pres.closed /\ run \in Settled
                  /\ Delivered \o pres.queue = Append(First(published), Finished)
      BY <1>1, <2>3, <3>1 DEF Reading, First
    <3>2. CASE pres.closed /\ pres.queue = <<Detached>>
      <4>1. item = Detached /\ pres'.queue = <<>>
        BY <2>1, <3>2
      <4>2. Noticed(Append(Delivered, Detached))
        BY <1>3, NoticedAppend
      <4>3. Noticed(Delivered)'
        BY <2>2, <4>1, <4>2 DEF Noticed
      <4> QED BY <1>1, <3>2, <4>1, <4>3 DEF Reading
    <3>3. CASE pres.closed /\ pres.queue = <<>> /\ Noticed(Delivered)
      BY <2>1, <3>3
    <3> QED BY <1>2, <3>1, <3>2, <3>3 DEF Reading
  <2> QED BY <1>1, <1>2, <2>1, <2>4 DEF Progress
<1>5. CASE PumpOverflows
  <2>1. pump'.at = "drain"
    BY <1>5 DEF PumpOverflows, Reads, StreamTypes
  <2> QED BY <1>1, <1>2, <2>1 DEF Progress
<1>6. CASE PumpSeesFinished
  <2>1. /\ pres.queue # <<>> /\ Head(pres.queue) = Finished /\ queue' = queue /\ pump'.at = "wait"
    BY <1>6 DEF PumpSeesFinished, Reads, StreamTypes
  <2>2. Delivered' = Delivered
    BY <1>1, <2>1 DEF Delivered
  <2>3. ASSUME NEW u \in Seq(Display), Delivered \o pres.queue = u PROVE FALSE
    <3>2. /\ Len(Delivered) \in Nat /\ Len(pres.queue) \in Nat \ {0}
          /\ Len(u) = Len(Delivered) + Len(pres.queue)
          /\ \A i \in 1..(Len(Delivered) + Len(pres.queue)) : u[i] =
               IF i <= Len(Delivered) THEN Delivered[i] ELSE pres.queue[i - Len(Delivered)]
      BY <1>3, <2>1, <2>3, ConcatProperties
    <3>3. /\ Len(Delivered) + 1 \in 1..(Len(Delivered) + Len(pres.queue))
          /\ ~(Len(Delivered) + 1 <= Len(Delivered))
          /\ (Len(Delivered) + 1) - Len(Delivered) = 1
      BY <3>2
    <3>4. u[Len(Delivered) + 1] = pres.queue[1]
      BY <3>2, <3>3
    <3>5. pres.queue[1] = Finished
      BY <1>3, <2>1
    <3>6. u[Len(Delivered) + 1] \in Display
      BY <3>2, <3>3, ElementOfSeq
    <3> QED BY <1>3, <3>4, <3>5, <3>6
  <2>4. CASE ~pres.closed /\ run = "live" /\ Delivered \o pres.queue = First(published)
    BY <1>3, <2>3, <2>4
  <2>5. CASE /\ pres.closed /\ run \in Settled
             /\ Delivered \o pres.queue = Append(First(published), Finished)
    <3>1. Finished \in Items /\ Display \subseteq Items \ {Finished}
      BY <1>3 DEF Items
    <3>2. Delivered \in Seq(Items \ {Finished}) /\ First(published) \in Seq(Items \ {Finished})
      BY <1>3, <3>1, SeqMonotonic
    <3>3. Delivered = First(published)
      <4>1. pres.queue \in Seq(Items) /\ pres.queue # <<>> /\ Head(pres.queue) = Finished
        BY <1>3, <2>1
      <4>2. Delivered \o pres.queue = Append(First(published), Finished)
        BY <2>5
      <4>3. Finished \in Items
        BY <3>1
      <4>4. \A s, u \in Seq(Items \ {Finished}), t \in Seq(Items) :
              t # <<>> /\ Head(t) = Finished /\ s \o t = Append(u, Finished)
                => t = <<Finished>> /\ s = u /\ Tail(t) = <<>>
        BY <4>3, LastComesOut
      <4> QED BY <3>2, <4>1, <4>2, <4>4, Zenon
    <3>4. Waiting'
      BY <1>1, <2>2, <2>5, <3>3 DEF Waiting, First
    <3> QED BY <1>1, <1>2, <2>1, <3>4 DEF Progress
  <2>6. CASE pres.closed /\ pres.queue = <<Detached>>
    BY <1>3, <2>1, <2>6
  <2> QED BY <1>2, <2>1, <2>4, <2>5, <2>6 DEF Reading
<1>7. CASE PumpSeesDetached
  <2>1. pres.closed /\ pres.queue = <<>> /\ queue' = queue /\ pump'.at = "wait"
    BY <1>7 DEF PumpSeesDetached, StreamTypes
  <2>2. Delivered' = Delivered
    BY <1>1, <2>1 DEF Delivered
  <2>3. ASSUME Delivered \o pres.queue = Append(First(published), Finished) PROVE FALSE
    <3>1. Delivered \o <<>> = Delivered
      BY <1>3, Moves
    <3>2. /\ Len(Append(First(published), Finished)) = Len(First(published)) + 1
          /\ Append(First(published), Finished)[Len(First(published)) + 1] = Finished
          /\ Len(First(published)) \in Nat
      <4>1. First(published) \in Seq(Items) /\ Finished \in Items
        BY <1>3, SeqMonotonic DEF Items
      <4> QED BY <4>1, AppendProperties
    <3>3. Len(First(published)) + 1 \in 1..Len(Delivered)
      BY <2>1, <2>3, <3>1, <3>2
    <3>4. Delivered[Len(First(published)) + 1] \in Display
      BY <1>3, <3>3, ElementOfSeq
    <3> QED BY <1>3, <2>1, <2>3, <3>1, <3>2, <3>4
  <2>4. <<Detached>> # <<>>
    OBVIOUS
  <2>5. Noticed(Delivered)
    BY <1>2, <2>1, <2>3, <2>4 DEF Reading
  <2>6. Waiting'
    BY <2>2, <2>5 DEF Waiting, Noticed
  <2> QED BY <1>1, <1>2, <2>1, <2>6 DEF Progress
<1> QED BY <1>4, <1>5, <1>6, <1>7

\* The pump stops reading and ends.
LEMMA PumpProgress ==
  ASSUME StreamTypes, Launch, Quiet, Progress, CapacitiesArePositive, MarkersAreNoEvents,
         PumpDrains \/ PumpGivesUp \/ PumpWaits \/ PumpCancelled \/ PumpEnds
  PROVE  Progress'
<1>1. /\ UNCHANGED <<run, published, received, consumer>> /\ ~pump'.cancel
      /\ pump.at \in {"drain", "wait", "end"} /\ consumer' # "exhausted"
  BY DEF PumpDrains, PumpGivesUp, PumpWaits, PumpCancelled, PumpEnds, StreamTypes, Progress,
     runVars, userVars
<1>2. /\ received \in Seq(Items) /\ Delivered \in Seq(Items) /\ Delivered \in Seq(Display)
      /\ queue \in Seq(Display) /\ End \notin Display /\ End \in Items /\ Detached \in Items
  <2>1. End \notin Display /\ End \in Items /\ Detached \in Items
    BY DEF MarkersAreNoEvents, Display, Items
  <2> QED BY <1>1, <2>1, DeliveredIs
<1>3. CASE PumpDrains
  <2>1. pump'.at = "drain"
    BY <1>3 DEF PumpDrains
  <2> QED BY <1>1, <2>1 DEF Progress
<1>4. CASE PumpGivesUp
  <2>1. pump'.at = "end" /\ queue' = <<Detached>>
    BY <1>4 DEF PumpGivesUp, StreamTypes, Notice
  <2>2. Delivered' = Append(received, Detached)
    <3>1. Append(received, Detached) = received \o <<Detached>>
      BY <1>2, AppendIsConcat
    <3> QED BY <1>1, <2>1, <3>1 DEF Delivered
  <2>3. Noticed(Append(received, Detached))
    BY <1>2, NoticedAppend
  <2>4. Told(Delivered)'
    BY <2>2, <2>3 DEF Told, Noticed
  <2> QED BY <1>1, <2>1, <2>4 DEF Progress
<1>5. CASE PumpWaits
  <2>1. /\ pump.at = "wait" /\ pump'.at = "end" /\ queue' = queue /\ run \in Terminal
        /\ error' = (run = "failed")
    BY <1>5 DEF PumpWaits, StreamTypes
  <2>2. Delivered' = Delivered
    BY <1>1, <2>1 DEF Delivered
  <2>3. Waiting
    BY <2>1 DEF Progress
  <2>4. Told(Delivered)'
    <3>1. CASE Noticed(Delivered)
      BY <2>2, <3>1 DEF Told, Noticed
    <3>2. CASE run \in Settled /\ Delivered = First(published)
      <4>1. CASE run = "failed"
        BY <2>1, <4>1 DEF Told
      <4>2. CASE run = "completed"
        <5>1. published = Events
          BY <4>2 DEF Launch
        <5> QED BY <1>1, <2>2, <3>2, <4>2, <5>1 DEF Told, First
      <4> QED BY <2>1, <4>1, <4>2 DEF Terminal
    <3> QED BY <2>3, <3>1, <3>2 DEF Waiting
  <2> QED BY <1>1, <2>1, <2>4 DEF Progress
<1>6. CASE PumpCancelled
  BY <1>6 DEF PumpCancelled, Progress
<1>7. CASE PumpEnds
  <2>1. /\ pump.at = "end" /\ pump'.at = "over" /\ error' = error
        /\ queue' \in {queue, Append(queue, End)}
    BY <1>7 DEF PumpEnds, StreamTypes
  <2>2. PICK s \in Seq(Display) : s = Delivered
    BY <1>2
  <2>3. Told(s)'
    <3>1. Told(s)
      BY <2>1, <2>2 DEF Progress
    <3> QED BY <1>1, <2>1, <3>1 DEF Told, Noticed
  <2>4. CASE queue' = Append(queue, End)
    <3>1. Delivered' = Append(s, End)
      <4>1. queue \in Seq(Items)
        BY DeliveredIs
      <4>2. received \o Append(queue, End) = Append(received \o queue, End)
        BY <1>2, <4>1, Moves
      <4> QED BY <1>1, <2>2, <2>4, <4>2 DEF Delivered
    <3>2. Ended'
      BY <1>1, <2>3, <3>1 DEF Ended
    <3> QED BY <1>1, <2>1, <3>2 DEF Progress
  <2>5. CASE queue' = queue
    <3>1. \A i \in DOMAIN queue : queue[i] # End
      BY <1>2, ElementOfSeq
    <3>2. Ended'
      BY <1>1, <2>5, <3>1 DEF Ended
    <3> QED BY <1>1, <2>1, <3>2 DEF Progress
  <2> QED BY <2>1, <2>4, <2>5
<1> QED BY <1>3, <1>4, <1>5, <1>6, <1>7

\* The consumer gets what is next.
LEMMA ConsumerProgress ==
  ASSUME StreamTypes, Progress, MarkersAreNoEvents, NextReturns
  PROVE  Progress'
<1>1. /\ UNCHANGED <<run, published, pump, error, pres>> /\ consumer = "blocked"
      /\ queue # <<>> /\ queue' = Tail(queue)
  BY DEF NextReturns, runVars
<1>2. /\ received \in Seq(Items) /\ queue \in Seq(Items) /\ received \in Seq(Display)
      /\ Display \subseteq Items \ {End} /\ End \in Items
  BY DeliveredIs DEF StreamTypes, MarkersAreNoEvents, Display, Items
<1>3. CASE Head(queue) = End
  <2>1. /\ consumer' = (IF error THEN "raised" ELSE "exhausted") /\ received' = received
    BY <1>3 DEF NextReturns
  <2>2. End \in {queue[i] : i \in DOMAIN queue}
    <3>1. 1 \in DOMAIN queue /\ queue[1] = End
      BY <1>1, <1>2, <1>3
    <3> QED BY <3>1
  <2>3. pump.at = "over"
    <3> SUFFICES ASSUME pump.at # "over" PROVE FALSE
      OBVIOUS
    <3>1. queue \in Seq(Display)
      BY DEF StreamTypes
    <3>2. Head(queue) \in Display
      BY <1>1, <3>1, HeadTailProperties
    <3> QED BY <1>2, <1>3, <3>2
  <2>4. Ended
    BY <2>3 DEF Progress
  <2>5. PICK s \in Seq(Display) : Delivered = Append(s, End) /\ Told(s)
    BY <2>2, <2>4 DEF Ended
  <2>6. received = s /\ Tail(queue) = <<>>
    <3>1. received \in Seq(Items \ {End}) /\ s \in Seq(Items \ {End})
      BY <1>2, SeqMonotonic
    <3>2. \A a, u \in Seq(Items \ {End}), t \in Seq(Items) :
            t # <<>> /\ Head(t) = End /\ a \o t = Append(u, End)
              => t = <<End>> /\ a = u /\ Tail(t) = <<>>
      BY <1>2, LastComesOut
    <3>3. received \o queue = Append(s, End)
      BY <2>5 DEF Delivered
    <3> QED BY <1>1, <1>2, <1>3, <3>1, <3>2, <3>3, Zenon
  <2>7. Told(received)'
    BY <1>1, <2>1, <2>5, <2>6 DEF Told, Noticed
  <2>8. Ended'
    <3>1. consumer' = "exhausted" => ~error'
      BY <1>1, <2>1
    <3>2. queue' = <<>>
      BY <1>1, <2>6
    <3>3. End \notin {queue'[i] : i \in DOMAIN queue'}
      BY <3>2
    <3> QED BY <2>7, <3>1, <3>3 DEF Ended
  <2> QED BY <1>1, <2>3, <2>8 DEF Progress
<1>4. CASE Head(queue) # End
  <2>1. consumer' = "idle" /\ received' = Append(received, Head(queue))
    BY <1>4 DEF NextReturns
  <2>2. Delivered' = Delivered
    <3>1. Append(received, Head(queue)) \o Tail(queue) = received \o queue
      BY <1>1, <1>2, MoveHead
    <3> QED BY <1>1, <2>1, <3>1 DEF Delivered
  <2>3. \A s : Told(s) => Told(s)'
    BY <1>1 DEF Told, Noticed
  <2>4. {queue'[i] : i \in DOMAIN queue'} \subseteq {queue[i] : i \in DOMAIN queue}
    <3>1. /\ Tail(queue) \in Seq(Items) /\ Len(Tail(queue)) = Len(queue) - 1
          /\ Len(queue) \in Nat
          /\ \A i \in 1..Len(Tail(queue)) : Tail(queue)[i] = queue[i + 1]
      BY <1>1, <1>2, HeadTailProperties
    <3>2. ASSUME NEW i \in DOMAIN queue' PROVE queue'[i] \in {queue[j] : j \in DOMAIN queue}
      <4>1. i \in 1..Len(Tail(queue)) /\ i + 1 \in DOMAIN queue
        BY <1>1, <1>2, <3>1, <3>2
      <4> QED BY <1>1, <3>1, <4>1
    <3> QED BY <3>2
  <2>5. pump.at = "over" => Ended'
    <3> HAVE pump.at = "over"
    <3>1. Ended
      BY DEF Progress
    <3> QED BY <2>1, <2>2, <2>3, <2>4, <3>1 DEF Ended
  <2>6. pump.at = "read" => Reading'
    BY <1>1, <2>2 DEF Progress, Reading, Noticed, First
  <2>7. pump.at = "wait" => Waiting'
    BY <1>1, <2>2 DEF Progress, Waiting, Noticed, First
  <2>8. pump.at = "end" => Told(Delivered)'
    BY <1>1, <2>2 DEF Progress, Told, Noticed
  <2> QED BY <1>1, <2>1, <2>5, <2>6, <2>7, <2>8 DEF Progress
<1> QED BY <1>3, <1>4

\* Steps that touch nothing of the stream, or after which it is not quiet.
LEMMA OtherProgress ==
  ASSUME StreamTypes, Progress, Next, Quiet',
         \/ NextCalled \/ CloseCalled \/ CloseCancels
         \/ HarnessCloses \/ HarnessDrained \/ CoordinatorStops \/ LoopCloses
  PROVE  Progress'
<1>1. /\ UNCHANGED <<run, published, pres, pump, queue, error, received>>
      /\ consumer' \in {consumer, "refused", "blocked"}
  BY DEF NextCalled, CloseCalled, CloseCancels, HarnessCloses, HarnessDrained,
     CoordinatorStops, LoopCloses, Quiet, userVars, runVars, StreamTypes
<1>2. Delivered' = Delivered
  BY <1>1 DEF Delivered
<1>3. (\A s : Told(s) => Told(s)') /\ (\A s : Noticed(s) => Noticed(s)')
  BY <1>1 DEF Told, Noticed
<1>4. pump.at = "over" => Ended'
  <2> HAVE pump.at = "over"
  <2>1. Ended
    BY DEF Progress
  <2>2. consumer' = "exhausted" => consumer = "exhausted"
    BY <1>1
  <2>3. Told(received) => Told(received)'
    BY <1>1 DEF Told, Noticed
  <2> QED BY <1>1, <1>2, <1>3, <2>1, <2>2, <2>3 DEF Ended
<1>5. pump.at = "read" => Reading'
  BY <1>1, <1>2 DEF Progress, Reading, Noticed, First
<1>6. pump.at = "wait" => Waiting'
  BY <1>1, <1>2 DEF Progress, Waiting, Noticed, First
<1>7. pump.at = "end" => Told(Delivered)'
  BY <1>1, <1>2 DEF Progress, Told, Noticed
<1> QED BY <1>1, <1>4, <1>5, <1>6, <1>7 DEF Progress

LEMMA ProgressKept ==
  ASSUME StreamTypes, Launch, Quiet => Progress, CapacitiesArePositive, MarkersAreNoEvents,
         Next, Quiet'
  PROVE  Progress'
<1>1. Quiet /\ Progress
  BY QuietBefore
<1>2. CASE Worker
  BY <1>1, <1>2, WorkerProgress
<1>3. CASE PumpStarts \/ StoreCall \/ StoreReturns
  BY <1>1, <1>3, OpenerProgress
<1>4. CASE PumpForwards \/ PumpOverflows \/ PumpSeesFinished \/ PumpSeesDetached
  BY <1>1, <1>4, ReaderProgress
<1>5. CASE PumpDrains \/ PumpGivesUp \/ PumpWaits \/ PumpCancelled \/ PumpEnds
  BY <1>1, <1>5, PumpProgress
<1>6. CASE NextReturns
  BY <1>1, <1>6, ConsumerProgress
<1>7. CASE \/ NextCalled \/ CloseCalled \/ CloseCancels
           \/ HarnessCloses \/ HarnessDrained \/ CoordinatorStops \/ LoopCloses
  BY <1>1, <1>7, OtherProgress
<1> QED BY <1>2, <1>3, <1>4, <1>5, <1>6, <1>7 DEF Next, PumpRuns

-----------------------------------------------------------------------------
(***************************************************************************)
(* The theorem.                                                            *)
(***************************************************************************)
LEMMA StreamBegins ==
  ASSUME CapacitiesArePositive, Init
  PROVE  StreamInv
<1> USE DEF Init
<1>1. StreamTypes
  <2>1. pres \in [queue : Seq(Display \cup {Finished}), closed : BOOLEAN]
    <3>1. <<>> \in Seq(Display \cup {Finished})
      OBVIOUS
    <3> QED BY <3>1
  <2>2. pump \in [at : Pumping, call : {"none", "working", "done", "failed"}, cancel : BOOLEAN]
    BY DEF Pumping
  <2>3. queue \in Seq(Display \cup {End}) /\ received \in Seq(Display) /\ queue \in Seq(Display)
    <3>1. \A S : <<>> \in Seq(S)
      OBVIOUS
    <3> QED BY <3>1
  <2>4. loop \in [at : {"running", "stopping", "closed"}, gathers : BOOLEAN]
    OBVIOUS
  <2>5. published \in 0..Events
    BY DEF CapacitiesArePositive
  <2>6. run \in Unlaunched /\ error \in BOOLEAN
    BY Zenon DEF Unlaunched
  <2> QED BY <2>1, <2>2, <2>3, <2>4, <2>5, <2>6 DEF StreamTypes
<1>2. Launch
  BY DEF Launch, Unlaunched
<1>3. Ordered
  <2>1. InOrder(<<>>) /\ Shown(<<>>) = {}
    BY OrderShort
  <2>2. pres.queue = <<>>
    OBVIOUS
  <2> QED BY <2>1, <2>2 DEF Ordered, Below
<1>4. Progress
  BY DEF Progress
<1> QED BY <1>1, <1>2, <1>3, <1>4 DEF StreamInv

LEMMA StreamSteps ==
  ASSUME CapacitiesArePositive, MarkersAreNoEvents, StreamInv, [Next]_vars
  PROVE  StreamInv'
<1>1. CASE Next
  <2>1. StreamTypes' /\ Launch'
    BY <1>1, TypesKept DEF StreamInv
  <2>2. Ordered'
    <3>1. StreamTypes /\ Ordered
      BY DEF StreamInv
    <3>2. CASE Worker
      BY <3>1, <3>2, WorkerInOrder
    <3>3. CASE ~Worker
      BY <1>1, <3>1, <3>3, OthersInOrder
    <3> QED BY <3>2, <3>3
  <2>3. ASSUME Quiet' PROVE Progress'
    <3>1. StreamTypes /\ Launch /\ (Quiet => Progress)
      BY DEF StreamInv
    <3> QED BY <1>1, <2>3, <3>1, ProgressKept
  <2> QED BY <2>1, <2>2, <2>3 DEF StreamInv
<1>2. CASE UNCHANGED vars
  <2> USE <1>2 DEF vars
  <2>1. StreamTypes' <=> StreamTypes
    BY DEF StreamTypes
  <2>2. Launch' <=> Launch
    BY DEF Launch
  <2>3. Ordered' <=> Ordered
    BY DEF Ordered, InOrder, Below, Shown
  <2>4. Quiet' <=> Quiet
    BY DEF Quiet
  <2>5. Progress => Progress'
    <3> HAVE Progress
    <3>1. Delivered' = Delivered
      BY DEF Delivered
    <3>2. \A s : Told(s) => Told(s)'
      BY DEF Told, Noticed
    <3>3. Told(received) => Told(received)'
      BY DEF Told, Noticed
    <3>4. Ended => Ended'
      BY <3>1, <3>2, <3>3 DEF Ended
    <3>5. Reading => Reading'
      BY <3>1 DEF Reading, Noticed, First
    <3>6. Waiting => Waiting'
      BY <3>1 DEF Waiting, Noticed, First
    <3>7. Told(Delivered) => Told(Delivered)'
      BY <3>1 DEF Told, Noticed
    <3> QED BY <3>4, <3>5, <3>6, <3>7 DEF Progress
  <2> QED BY <2>1, <2>2, <2>3, <2>4, <2>5 DEF StreamInv
<1> QED BY <1>1, <1>2

\* What the invariant says of a stream that ended.
LEMMA StreamTells ==
  ASSUME StreamInv, CapacitiesArePositive
  PROVE  CleanEndIsTruth
<1>1. InOrder(received)
  BY DEF StreamInv, Ordered
<1>2. ASSUME consumer = "exhausted", closer = "no", loop.at = "running"
      PROVE  \/ run = "completed" /\ received = [i \in 1..Events |-> i]
             \/ received # <<>> /\ received[Len(received)] = Detached
  <2>1. Ended
    BY <1>2 DEF StreamInv, Quiet, Progress
  <2>2. ~error /\ Told(received)
    BY <1>2, <2>1 DEF Ended
  <2> QED BY <2>2 DEF Told, Noticed, First
<1> QED BY <1>1, <1>2 DEF CleanEndIsTruth

\* The iterator of a consumer whom nobody disturbs never ends cleanly over a
\* gap: what it yielded is in order, and the end means a completed run with
\* all its events or comes after the notice (_pump and __next__).
THEOREM CleanEndsAreTrue == Spec => []CleanEndIsTruth
<1>1. Init => StreamInv
  BY StreamBegins, CapacitiesArePositive
<1>2. StreamInv /\ [Next]_vars => StreamInv'
  BY StreamSteps, CapacitiesArePositive, MarkersAreNoEvents
<1>3. StreamInv => CleanEndIsTruth
  BY StreamTells, CapacitiesArePositive
<1> QED BY <1>1, <1>2, <1>3, PTL DEF Spec

-----------------------------------------------------------------------------
(***************************************************************************)
(* The marker.  It has a slot of its own, which nothing else takes, so the *)
(* put_nowait that ends the pump never raises; and it is the last item, so *)
(* a consumer that waits after the end of the pump has it before it.  This *)
(* is what ConsumerReturns rests on.                                       *)
(***************************************************************************)
MarkerFits == pump.at = "end" => Len(queue) < QueueSize
MarkerWaits == pump.at = "over" /\ consumer = "blocked" => queue # <<>>

MarkerInv ==
  /\ pump.at # "over" => Len(queue) <= Capacity
  /\ pump.at = "over" =>
       consumer \in {"exhausted", "raised"} \/ (queue # <<>> /\ queue[Len(queue)] = End)

LEMMA MarkerBegins ==
  ASSUME CapacitiesArePositive, Init PROVE MarkerInv
BY DEF MarkerInv, Init, CapacitiesArePositive

\* A step that leaves the queue and the consumer alone and does not end the
\* pump.
LEMMA MarkerStays ==
  ASSUME MarkerInv, UNCHANGED <<queue, consumer>>, pump'.at = "over" <=> pump.at = "over"
  PROVE  MarkerInv'
BY DEF MarkerInv

\* An item is taken out.
LEMMA MarkerBehind ==
  ASSUME NEW S, NEW q \in Seq(S), q # <<>>
  PROVE  /\ Len(Tail(q)) \in Nat /\ Len(q) \in Nat /\ Len(Tail(q)) = Len(q) - 1
         /\ q[Len(q)] = End /\ Head(q) # End =>
              Tail(q) # <<>> /\ Tail(q)[Len(Tail(q))] = End
<1>1. /\ Tail(q) \in Seq(S) /\ Len(Tail(q)) = Len(q) - 1 /\ Len(q) \in Nat \ {0}
      /\ \A i \in 1..Len(Tail(q)) : Tail(q)[i] = q[i + 1]
      /\ Head(q) = q[1]
  BY HeadTailProperties
<1>2. ASSUME q[Len(q)] = End, Head(q) # End
      PROVE  Tail(q) # <<>> /\ Tail(q)[Len(Tail(q))] = End
  <2>1. Len(q) # 1
    BY <1>1, <1>2
  <2>2. Len(Tail(q)) \in 1..Len(Tail(q)) /\ Len(Tail(q)) + 1 = Len(q)
    BY <1>1, <2>1
  <2>3. Tail(q)[Len(Tail(q))] = q[Len(Tail(q)) + 1]
    BY <1>1, <2>2
  <2>4. Tail(q) # <<>>
    <3>1. Len(Tail(q)) # 0
      BY <2>2
    <3> QED BY <1>1, <3>1, EmptySeq
  <2> QED BY <1>2, <2>2, <2>3, <2>4
<1> QED BY <1>1, <1>2

LEMMA MarkerSteps ==
  ASSUME CapacitiesArePositive, StreamTypes, Launch, MarkerInv, [Next]_vars
  PROVE  MarkerInv'
<1>1. /\ queue \in Seq(Display \cup {End}) /\ Len(queue) \in Nat
      /\ Capacity \in Nat \ {0} /\ pump.at \in Pumping
      /\ pump \in [at : Pumping, call : {"none", "working", "done", "failed"}, cancel : BOOLEAN]
  BY DEF StreamTypes, CapacitiesArePositive
<1>2. CASE Worker
  BY <1>2, MarkerStays DEF Worker, WorkerPublishes, WorkerFinishes, WorkerSettles, userVars
<1>3. CASE StoreCall
  <2>1. UNCHANGED <<queue, consumer>> /\ pump'.at = pump.at
    BY <1>1, <1>3 DEF StoreCall, userVars
  <2> QED BY <2>1, MarkerStays
<1>4. CASE PumpStarts \/ StoreReturns \/ PumpSeesFinished \/ PumpSeesDetached \/ PumpWaits
           \/ PumpCancelled \/ PumpOverflows
  <2>1. UNCHANGED <<queue, consumer>> /\ pump.at # "over" /\ pump'.at # "over"
    BY <1>1, <1>4 DEF PumpStarts, StoreReturns, PumpSeesFinished, PumpSeesDetached,
       PumpWaits, PumpCancelled, PumpOverflows, Reads, DeliveredAt, userVars
  <2> QED BY <2>1, MarkerStays
<1>5. CASE PumpForwards
  <2>1. PICK item \in (1..Events) \cup {Detached} :
          Len(queue) < Capacity /\ queue' = Append(queue, item)
    BY <1>5 DEF PumpForwards
  <2>2. pump'.at # "over"
    BY <1>1, <1>5 DEF PumpForwards, Reads
  <2>3. Len(Append(queue, item)) = Len(queue) + 1
    BY <1>1
  <2>4. Len(queue') <= Capacity
    BY <1>1, <2>1, <2>3
  <2> QED BY <2>2, <2>4 DEF MarkerInv
<1>6. CASE PumpDrains
  <2>1. queue # <<>> /\ queue' = Tail(queue) /\ pump' = pump /\ pump.at = "drain"
    BY <1>6 DEF PumpDrains
  <2>2. Len(Tail(queue)) <= Len(queue)
    BY <1>1, <2>1, MarkerBehind
  <2>3. Len(queue) <= Capacity
    BY <2>1 DEF MarkerInv
  <2>4. Len(queue') <= Capacity
    BY <1>1, <2>1, <2>2, <2>3, MarkerBehind
  <2> QED BY <2>1, <2>4 DEF MarkerInv
<1>7. CASE PumpGivesUp
  <2>1. queue' = <<Detached>> /\ pump'.at # "over"
    BY <1>1, <1>7 DEF PumpGivesUp, Notice
  <2>2. Len(queue') = 1
    BY <2>1
  <2> QED BY <1>1, <2>1, <2>2 DEF MarkerInv
<1>8. CASE PumpEnds
  <2>1. pump.at = "end" /\ pump'.at = "over"
    BY <1>1, <1>8 DEF PumpEnds
  <2>2. Len(queue) < QueueSize
    BY <1>1, <2>1 DEF MarkerInv, QueueSize
  <2>3. queue' = Append(queue, End)
    BY <1>8, <2>2 DEF PumpEnds
  <2>4. Append(queue, End) # <<>> /\ Append(queue, End)[Len(Append(queue, End))] = End
    BY <1>1, AppendProperties
  <2> QED BY <2>1, <2>3, <2>4 DEF MarkerInv
<1>9. CASE NextCalled
  <2>1. UNCHANGED <<queue, pump>> /\ consumer = "idle"
    BY <1>9 DEF NextCalled
  <2> QED BY <2>1 DEF MarkerInv
<1>10. CASE NextReturns
  <2>1. queue # <<>> /\ queue' = Tail(queue) /\ pump' = pump /\ consumer = "blocked"
    BY <1>10 DEF NextReturns
  <2>2. Head(queue) = End => consumer' \in {"raised", "exhausted"}
    BY <1>10 DEF NextReturns
  <2>3. pump'.at # "over" => Len(queue') <= Capacity
    <3>1. Len(Tail(queue)) = Len(queue) - 1 /\ Len(Tail(queue)) \in Nat
      BY <1>1, <2>1, MarkerBehind
    <3> QED BY <1>1, <2>1, <3>1 DEF MarkerInv
  <2>4. ASSUME pump'.at = "over", Head(queue) # End
        PROVE queue' # <<>> /\ queue'[Len(queue')] = End
    <3>1. queue[Len(queue)] = End
      BY <2>1, <2>4 DEF MarkerInv
    <3>2. Tail(queue) # <<>> /\ Tail(queue)[Len(Tail(queue))] = End
      BY <1>1, <2>1, <2>4, <3>1, MarkerBehind
    <3> QED BY <2>1, <3>2
  <2> QED BY <2>2, <2>3, <2>4 DEF MarkerInv
<1>11. CASE CloseCalled \/ HarnessCloses \/ HarnessDrained \/ LoopCloses \/ UNCHANGED vars
  <2>1. UNCHANGED <<queue, consumer, pump>>
    BY <1>11 DEF CloseCalled, HarnessCloses, HarnessDrained, LoopCloses, userVars, vars
  <2> QED BY <2>1, MarkerStays
<1>12. CASE CloseCancels
  <2>1. UNCHANGED <<queue, consumer>> /\ pump'.at = pump.at
    BY <1>1, <1>12 DEF CloseCancels
  <2> QED BY <2>1, MarkerStays
<1>13. CASE CoordinatorStops
  <2>1. UNCHANGED <<queue, consumer>>
    BY <1>13 DEF CoordinatorStops, userVars
  <2>2. pump.at # "submitted" /\ pump.call # "working" => pump'.at = pump.at
    BY <1>1, <1>13 DEF CoordinatorStops
  <2>3. pump.call = "working" => pump.at \in {"create", "queue", "spin"}
    BY DEF Launch
  <2>4. pump.at = "submitted" => pump'.at = "lost"
    <3> HAVE pump.at = "submitted"
    <3>1. pump.call # "working"
      BY <2>3
    <3>2. pump' = [pump EXCEPT !.at = "lost"]
      BY <1>13, <3>1 DEF CoordinatorStops
    <3> QED BY <1>1, <3>2
  <2>5. pump.call = "working" => pump'.at = "spin" /\ pump.at # "over"
    <3> HAVE pump.call = "working"
    <3>1. pump.at # "submitted" /\ pump.at # "over"
      BY <2>3
    <3>2. pump' = [pump EXCEPT !.at = "spin"]
      BY <1>13, <3>1 DEF CoordinatorStops
    <3> QED BY <1>1, <3>1, <3>2
  <2> QED BY <2>1, <2>2, <2>4, <2>5, MarkerStays
<1> QED
  BY <1>2, <1>3, <1>4, <1>5, <1>6, <1>7, <1>8, <1>9, <1>10, <1>11, <1>12, <1>13
  DEF Next, PumpRuns

\* The put_nowait of the marker finds a slot however the pump ended, and the
\* marker is still there for a consumer that calls __next__ after that: he
\* blocks on a pump that is over only with an item before him.
THEOREM MarkerComes == Spec => [](MarkerFits /\ MarkerWaits)
<1>1. Init => StreamTypes /\ MarkerInv
  BY StreamBegins, MarkerBegins, CapacitiesArePositive DEF StreamInv
<1>2. StreamInv /\ MarkerInv /\ [Next]_vars => StreamInv' /\ MarkerInv'
  BY StreamSteps, MarkerSteps, CapacitiesArePositive, MarkersAreNoEvents DEF StreamInv
<1>3. StreamInv /\ MarkerInv => MarkerFits /\ MarkerWaits
  <2> SUFFICES ASSUME StreamInv, MarkerInv PROVE MarkerFits /\ MarkerWaits
    OBVIOUS
  <2>1. Len(queue) \in Nat /\ Capacity \in Nat
    BY CapacitiesArePositive DEF StreamInv, StreamTypes, CapacitiesArePositive
  <2> QED BY <2>1 DEF MarkerInv, MarkerFits, MarkerWaits, QueueSize
<1>4. Init => StreamInv
  BY StreamBegins, CapacitiesArePositive
<1> QED BY <1>1, <1>2, <1>3, <1>4, PTL DEF Spec

=============================================================================
