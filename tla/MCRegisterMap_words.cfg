\* The simulator's registers, and power commands, at the edges of a word.
SPECIFICATION MapSpec
CONSTANTS
    Base = 32
    Capacity = 20
    Powers <- EdgePowers
    Energy0 = 31
    MaxEnergy = 32
    Commands <- EdgeCommands
INVARIANTS
    SimulatedIsPolled
    CommandReadsBack
