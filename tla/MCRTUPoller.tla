---------------------------- MODULE MCRTUPoller ----------------------------
(* A small RS485 line for TLC.                                             *)
EXTENDS RTUPoller
=============================================================================
