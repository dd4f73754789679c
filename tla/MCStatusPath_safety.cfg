\* One status request next to the poller and the server's socket.
SPECIFICATION Spec
CONSTANTS
    Objects = {o1, o2, o3}
    Readers = {w1}
    Requests = {w1}
    None = None
    Commands = {0}
    StaleTimeout = 1
    AgeCap = 2
    MaxBlock = 1
SYMMETRY ObjectSymmetry
INVARIANTS
    AllOkShowsConnected
    AllOkWasGreen
    StaleWarningIsTrue
PROPERTIES
    SuccessOnlyDrops
