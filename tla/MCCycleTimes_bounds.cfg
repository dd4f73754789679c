\* The defaults, in ticks of fifteen seconds; a pass that needs every retry takes three.
SPECIFICATION Spec
CONSTANTS
    PollInterval = 2
    RetryDelay = 2
    ConnectMax = 1
    PassMax = 3
    StaleTimeout = 8
    Refresh = 1
    MaxJump = 1
    Cap = 18
INVARIANTS
    TypeOK
    RecoversInTime
    TableIsRecent
    FreshIsRecent
    NoFalseAlarm
    LossIsShown
