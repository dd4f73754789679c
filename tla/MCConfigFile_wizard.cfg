\* Two requests, two forms, crashes at any moment.  Deadlock is not checked:
\* with an unreadable file the process really stays down.
CHECK_DEADLOCK FALSE
SPECIFICATION FairSpec
CONSTANTS
    Requests = {r1, r2}
    MaxForms = 2
    Absent = Absent
    Garbage = Garbage
    Down = Down
INVARIANTS
    NeverHalfConfig
    NothingLost
    NetworkWasSaved
PROPERTIES
    SettingsRefined
    RestartsAgain
