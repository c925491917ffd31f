-------------------------- MODULE MCWriterAuthority --------------------------
(***************************************************************************)
(* Two servers, leases of four ticks and time for two leases in turn.      *)
(* Threads meet only in the guard's record of the latest generation, which *)
(* refuses and never admits; one is enough to find what could commit.      *)
(***************************************************************************)
EXTENDS WriterAuthority, TLC

CONSTANTS s1, s2, t1

TwoServers == {s1, s2}
OneThread == {t1}
Symmetric == Permutations(TwoServers)
=============================================================================
