---------------------------- MODULE SettingsStore ----------------------------
(***************************************************************************)
(* What the wizard promises of the settings, without files and threads:    *)
(* a form replaces the settings under all keys of one step and under no    *)
(* other key, in one step; what a start of the appliance is given is what  *)
(* was stored last.  Only once the store is lost may it be given something *)
(* else, and then still a whole configuration.  ConfigFile implements it   *)
(* as long as its mapping says what is lost.                               *)
(***************************************************************************)
CONSTANTS
    Steps,          \* the wizard's steps
    Keys,           \* the keys of a configuration
    StepOf,         \* [Keys -> the step whose form sets the key]
    Forms,          \* the forms that may be submitted
    First,          \* the configuration of an appliance nobody has set up
    Lost,           \* the store is no longer what was saved
    Stopped         \* the appliance is not running

VARIABLES
    stored,         \* every key's newest settings, or Lost
    running         \* the configuration the services were started with

storeVars == <<stored, running>>

StoreInit == stored = First /\ running = Stopped

\* One step's form is saved, from a page of the running appliance.
Save ==
    /\ running # Stopped /\ stored # Lost
    /\ \E s \in Steps, f \in Forms :
          stored' = [k \in Keys |-> IF StepOf[k] = s THEN f ELSE stored[k]]
    /\ UNCHANGED running

Lose ==
    /\ running # Stopped /\ stored' = Lost
    /\ UNCHANGED running

\* The process ends, and may take the store with it.
Stop ==
    /\ running # Stopped /\ running' = Stopped
    /\ stored' \in {stored, Lost}

Start ==
    /\ running = Stopped
    /\ running' \in IF stored = Lost THEN [Keys -> Forms] ELSE {stored}
    /\ UNCHANGED stored

StoreNext == Save \/ Lose \/ Stop \/ Start

StoreSpec == StoreInit /\ [][StoreNext]_storeVars
=============================================================================
