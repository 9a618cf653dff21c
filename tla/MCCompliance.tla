---------------------------- MODULE MCCompliance ----------------------------
(* Instances of Compliance for TLC; the constants are given in the .cfg      *)
(* files.                                                                    *)
EXTENDS Compliance
=============================================================================
