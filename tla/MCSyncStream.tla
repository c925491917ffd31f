----------------------------- MODULE MCSyncStream -----------------------------
(* Four events for two queues of two: both may overflow, the consumer may    *)
(* come in while two items are thrown away, and all events pass when he      *)
(* keeps up.                                                                 *)
EXTENDS SyncStream
=============================================================================
