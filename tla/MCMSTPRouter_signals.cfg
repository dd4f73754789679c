\* main.py:229 against the code: two signals.
SPECIFICATION FairSpec
CONSTANTS
    MaxSpawns = 1
    MaxSignals = 2
PROPERTIES
    GracefulShutdown
CHECK_DEADLOCK FALSE
