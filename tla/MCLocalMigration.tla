------------------------- MODULE MCLocalMigration -------------------------
EXTENDS LocalMigration, TLC

CONSTANTS learning, runtime

TwoTargets == {learning, runtime}

(* The learning import is one transaction; a job is upserted in one and    *)
(* the run history is archived in another.                                 *)
PieceHome == (1 :> learning @@ 2 :> runtime @@ 3 :> runtime)

Existing(rows, clash) ==
  [NoFile EXCEPT !.there = TRUE, !.rows = rows, !.clash = clash, !.native = TRUE]

(* The targets are absent, hold other data, or hold an identity of the     *)
(* plan already, with the same or with other content.                      *)
Preimages ==
  {learning :> l @@ runtime :> r :
     l \in {NoFile, Existing({}, {}), Existing({1}, {})},
     r \in {NoFile, Existing({2}, {}), Existing({}, {3})}}

SmallWorlds ==
  {[pre |-> pre, held |-> held, careful |-> careful, deaths |-> 3] :
     pre \in Preimages, held \in {{}, {runtime}}, careful \in BOOLEAN}
===========================================================================
