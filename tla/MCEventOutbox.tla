---------------------------- MODULE MCEventOutbox ----------------------------
(* Instance of EventOutbox for TLC. *)
EXTENDS EventOutbox

CONSTANTS e1, e2, reader1

TwoExporters == {e1, e2}
ExportersOrReader == {{e1, e2}, {e1, reader1}}
=============================================================================
