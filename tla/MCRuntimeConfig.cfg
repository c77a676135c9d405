CONSTANTS
    Updates <- MCUpdates
    MaxGen = 4
    MaxSetup = 2
    MaxFault = 1
    MaxCut = 1
SPECIFICATION ConfigSpec
INVARIANTS
    SetupAtomic
    AnsweredUpdatesKept
PROPERTY
    BadNetworkUndone
CHECK_DEADLOCK FALSE
