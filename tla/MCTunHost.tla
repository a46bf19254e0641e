----------------------------- MODULE MCTunHost -----------------------------
(* TunHost with small sets of interfaces and dialers for TLC.              *)
EXTENDS TunHost, TLC
=============================================================================
