----------------------------- MODULE MCRunStore -----------------------------
(* Instance of RunStore for TLC. *)
EXTENDS RunStore, TLC

CONSTANTS r1, r2, r3, t1, t2, t3, q1, q2, i1

ThreeRuns   == {r1, r2, r3}
ThreeIds    == {t1, t2, t3}
TwoRequests == {q1, q2}
OneInput    == {i1}

\* Run, transition and request ids are only compared for equality.
Symmetry == Permutations(ThreeRuns) \cup Permutations(ThreeIds) \cup Permutations(TwoRequests)

Opened    == {r \in Runs : run[r].state # Absent}
UsedIds   == Tids \cap UNION {decided[r] : r \in Runs}
Requested == {q \in Requests : approval[q].state # Absent}

\* Either two runs with long histories, or a tree of three with short ones.
Explored ==
  Cardinality(Opened) = 3 => Cardinality(UsedIds) <= 2 /\ Cardinality(Requested) <= 1
=============================================================================
