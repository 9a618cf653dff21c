---------------------------- MODULE MCDocuments -----------------------------
(* Instances of DocumentProcessing for TLC; the constants are given in the   *)
(* .cfg files.                                                               *)
EXTENDS DocumentProcessing
=============================================================================
