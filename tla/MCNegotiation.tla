--------------------------- MODULE MCNegotiation ---------------------------
(* Instances of Negotiation for TLC; the constants are given in the .cfg    *)
(* files.                                                                    *)
EXTENDS Negotiation, TLC

Symmetry == Permutations(Callers) \cup Permutations(Redlines)
=============================================================================
