\* The path from the plant to the BACnet table, with shutdown, without web requests.
SPECIFICATION Spec
CONSTANTS
    Objects = {o1, o2, o3}
    Readers = {bacnet}
    Bacnet = bacnet
    None = None
    Commands = {0}
    StaleTimeout = 0
    AgeCap = 1
    MaxBlock = 2
SYMMETRY ObjectSymmetry
INVARIANTS
    TypeOK
    TableIsOnePoll
    CrashOnlyOnStop
PROPERTIES
    ServedNeverGoesBack
    FeedRefined
    SocketRefined
