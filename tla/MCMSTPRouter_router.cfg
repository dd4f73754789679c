\* Starts, exits, status requests and up to two signals.
SPECIFICATION FairSpec
CONSTANTS
    MaxSpawns = 3
    MaxSignals = 2
INVARIANTS
    TypeOK
    AtMostOneRouter
    OnlyLateSurvive
    MonitorDiesOnlyOnStop
PROPERTIES
    RouterIsRestarted
    StopEnds
CHECK_DEADLOCK FALSE
