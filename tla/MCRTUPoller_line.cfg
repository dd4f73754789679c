\* Two devices of two points on the line, in every mode of the port.
SPECIFICATION FairSpec
CONSTANTS
    NumDevices = 2
    NumPoints = 2
    MaxChange = 2
    MaxErrors = 1
INVARIANTS
    PortHasOneOwner
PROPERTIES
    ValuesNeverGoBack
    StatusIsAnswered
CHECK_DEADLOCK FALSE
