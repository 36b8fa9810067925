---------------------------- MODULE MCImageVolume ----------------------------
(* Small instances of ImageVolume for TLC. *)
EXTENDS ImageVolume

CONSTANTS g1, b1, q1, q2
=============================================================================
