------------------------------ MODULE MCFlexCan -----------------------------
(* Instance of FlexCan for TLC: three receive mailboxes, so that frames can  *)
(* fill mailboxes out of order and run over, and more messages than one can  *)
(* be on its way.                                                            *)
EXTENDS FlexCan
=============================================================================
