-------------------------------- MODULE MCUds -------------------------------
(* Instance of Uds for TLC: two clients, both faults, a reading service of   *)
(* the state, a reading and a clearing one of the trouble codes.             *)
EXTENDS Uds, TLC

CONSTANTS tool, shell, hot, low

MCClients == {tool, shell}
MCFaults  == {hot, low}
MCReads   == {"22", "19"}
MCClears  == {"14"}
Symmetry  == Permutations(MCClients) \cup Permutations(MCFaults)
=============================================================================
