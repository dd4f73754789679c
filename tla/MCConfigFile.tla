---------------------------- MODULE MCConfigFile ----------------------------
(* Small instances of the configuration file for TLC.                      *)
(* No symmetry: the run checks a liveness property.                        *)
EXTENDS ConfigFile
=============================================================================
