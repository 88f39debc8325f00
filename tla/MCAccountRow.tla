----------------------------- MODULE MCAccountRow -----------------------------
(* AccountRow on small sets for TLC. *)
EXTENDS AccountRow, TLC

Symmetry == Permutations(Request) \cup Permutations(ResetToken)
==============================================================================
