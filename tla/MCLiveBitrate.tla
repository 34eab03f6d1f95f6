--------------------------- MODULE MCLiveBitrate ---------------------------
(* Instances of LiveBitrate for TLC: the configurations give the values. *)
EXTENDS LiveBitrate
=============================================================================
