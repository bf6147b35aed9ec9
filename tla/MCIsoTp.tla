------------------------------ MODULE MCIsoTp -------------------------------
(* Instance of IsoTp for TLC: single-frame payloads and payloads of more     *)
(* Consecutive Frames than there are sequence numbers and ring entries, so   *)
(* that the numbers wrap and the ring overflows.                             *)
EXTENDS IsoTp

MCLengths == {0, 3}
=============================================================================
