----------------------------- MODULE MCDIReader -----------------------------
(* Small instances of the digital inputs for TLC.                          *)
EXTENDS DIReader
=============================================================================
