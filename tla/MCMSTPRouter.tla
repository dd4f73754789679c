---------------------------- MODULE MCMSTPRouter ----------------------------
(* Small instances of the MS/TP router's supervisor for TLC.               *)
EXTENDS MSTPRouter, TLC
=============================================================================
