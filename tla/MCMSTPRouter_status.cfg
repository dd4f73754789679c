\* mstp_router.py:69 against the code.
SPECIFICATION Spec
CONSTANTS
    MaxSpawns = 1
    MaxSignals = 0
INVARIANTS
    StatusAnswers
