--------------------------- MODULE MCSessionLanes ---------------------------
(***************************************************************************)
(* Tenant hot has three calls for one session and one for another; tenant  *)
(* cool has two sessions with one call each.                               *)
(***************************************************************************)
EXTENDS SessionLanes, TLC

CONSTANTS t1, t2, t3, t4, t5, t6

SixTasks == {t1, t2, t3, t4, t5, t6}
SixSessions ==
  t1 :> "hot1" @@ t2 :> "hot1" @@ t3 :> "hot1" @@ t4 :> "hot2" @@ t5 :> "cool1" @@ t6 :> "cool2"
TwoTenants == [t \in SixTasks |-> IF t \in {t5, t6} THEN "cool" ELSE "hot"]
=============================================================================
