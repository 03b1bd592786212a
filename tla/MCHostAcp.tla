----------------------------- MODULE MCHostAcp ------------------------------
(* HostAcp on a small instance. *)
EXTENDS HostAcp, TLC
=============================================================================
