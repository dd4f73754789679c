\* A reader that opened the board and simulates all the same.
SPECIFICATION Spec
CONSTANTS
    NumChannels = 2
    Enabled = {1, 2}
    Closed = {2}
    MaxTurn = 1
INVARIANT OpenBoardIsRead
CHECK_DEADLOCK FALSE
