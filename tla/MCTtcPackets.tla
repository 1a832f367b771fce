----------------------------- MODULE MCTtcPackets -----------------------------
(* Two threads; packets shorter and longer than the reply of a register. *)
EXTENDS TtcPackets, TLC

CONSTANTS c1, c2
MCCallers == {c1, c2}
MCLens == {2, 6}
Symmetry == Permutations(MCCallers)
=============================================================================
