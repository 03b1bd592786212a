------------------------- MODULE MCSidecarTerminal --------------------------
(* SidecarTerminal on a small instance. *)
EXTENDS SidecarTerminal, TLC
CallSymmetry == Permutations(Calls)
=============================================================================
