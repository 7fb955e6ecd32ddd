SPECIFICATION FairSpec
CONSTANTS
    a1 = a1
    a2 = a2
    NoAttempt = NoAttempt
    Attempts = {a1, a2}
    MaxCrashes = 1
    ParentOf <- AsksUnder
    Says <- Tells
INVARIANT
    UnownedHostBlocks
PROPERTIES
    SettledNeverSpawns
    CancelSettles
CHECK_DEADLOCK FALSE
