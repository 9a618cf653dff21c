--------------------------- MODULE MCGuestSigning ---------------------------
(* Instances of GuestSigning for TLC; the constants are given in the .cfg    *)
(* files.                                                                    *)
EXTENDS GuestSigning
=============================================================================
