----------------------------- MODULE MCLoginFlow -----------------------------
(* LoginFlow on small sets for TLC. *)
EXTENDS LoginFlow, TLC

Symmetry == Permutations(Request) \cup Permutations(Pair)
==============================================================================
