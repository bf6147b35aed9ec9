------------------------------- MODULE MCCron -------------------------------
(* Instance of Cron for TLC.                                                 *)
EXTENDS Cron

MCDelays == {0, 1}
=============================================================================
