---------------------------- MODULE MCCycleTimes ----------------------------
(* Short cycles for TLC.                                                   *)
EXTENDS CycleTimes
=============================================================================
