\* Three inputs, one without a name and one normally closed, and a signal at any moment.
SPECIFICATION FairSpec
CONSTANTS
    NumChannels = 3
    Enabled = {1, 3}
    Closed = {3}
    MaxTurn = 1
INVARIANTS
    AnswerTornByScanOnly
    MadeUpByLateScanOnly
PROPERTIES
    RefreshIsCurrent
    InputFeedRefined
    SteadyInputIsShown
    RequestsAreAnswered
CHECK_DEADLOCK FALSE
