------------------------------- MODULE MCFec --------------------------------
(* Instance of Fec for TLC: rings of two and two descriptors, more frames    *)
(* than descriptors in both directions, two starts of the interface and one  *)
(* run of the probe, before, during or after any of it.                      *)
EXTENDS Fec
=============================================================================
