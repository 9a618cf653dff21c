------------------------------ MODULE MCReview ------------------------------
(* Instances of Review for TLC; the constants are given in the .cfg files.   *)
EXTENDS Review
=============================================================================
