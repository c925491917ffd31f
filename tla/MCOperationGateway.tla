------------------------- MODULE MCOperationGateway -------------------------
(* Instance of OperationGateway for TLC. *)
EXTENDS OperationGateway, TLC

CONSTANTS c1, c2, c3, w1, w2, w3

ThreeCalls   == {c1, c2, c3}
ThreeWorkers == {w1, w2, w3}

\* Each call runs in a process of its own, or two calls of one harness share
\* the worker id of its gateway.
OwnOrShared ==
  {c1 :> w1 @@ c2 :> w2 @@ c3 :> w3, c1 :> w1 @@ c2 :> w1 @@ c3 :> w2}
=============================================================================
