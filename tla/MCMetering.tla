----------------------------- MODULE MCMetering -----------------------------
(* Instances of Metering for TLC; the constants are given in the .cfg files. *)
EXTENDS Metering, TLC

Symmetry == Permutations(Workers) \cup Permutations(Keys)
=============================================================================
