---------------------------- MODULE MCStatusPath ----------------------------
(* Small instances of the status pages for TLC.                            *)
EXTENDS StatusPath, TLC

\* Places in the heap are interchangeable; used by the safety runs only.
ObjectSymmetry == Permutations(Objects)
=============================================================================
