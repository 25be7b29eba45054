--------------------------- MODULE MCGuestProcess ----------------------------
(* GuestProcess with timeouts that are over, null, under half a            *)
(* millisecond and above one.                                              *)
EXTENDS GuestProcess

MCDurations == {-1, 0, 1, 5}
=============================================================================
