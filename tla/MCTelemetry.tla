----------------------------- MODULE MCTelemetry -----------------------------
(* Small instances of the telemetry path for TLC.                          *)
EXTENDS TelemetryProperties, TLC

\* Places in the heap are interchangeable; used by the safety runs only.
ObjectSymmetry == Permutations(Objects)
=============================================================================
