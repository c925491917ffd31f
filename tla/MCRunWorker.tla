----------------------------- MODULE MCRunWorker -----------------------------
(* Instances of RunWorker for TLC. *)
EXTENDS RunWorker

CONSTANTS w1, w2, w3

\* The stalling world, the largest, has two harnesses.
Everyone   == {w1, w2, w3}
AllWorlds  == [orderly |-> Everyone, crowded |-> Everyone, stalling |-> {w1, w2}]
=============================================================================
