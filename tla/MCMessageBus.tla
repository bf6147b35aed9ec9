---------------------------- MODULE MCMessageBus ----------------------------
(* Instance of MessageBus for TLC: two sources, one of them careless, and a  *)
(* notifier on queues of one entry, so that both queues fill and several     *)
(* threads wait for room.                                                    *)
EXTENDS MessageBus

CONSTANTS s1, s2, n1
MCSources == {s1, s2}
MCCareless == {s1}
MCNotifiers == {n1}
=============================================================================
