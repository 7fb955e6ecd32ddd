SPECIFICATION Spec
CONSTANTS
    m1 = m1
    m2 = m2
    c1 = c1
    c2 = c2
    c3 = c3
    Merges = {m1, m2}
    Challenges = {c1, c3}
    Asks <- AsksFor
    FreshProjection = FALSE
    MaxCrashes = 1
    MaxDrifts = 1
    MaxMoves = 1
INVARIANT UpdateHasExecutor
PROPERTIES LandsOnce KeepsPromise
CHECK_DEADLOCK FALSE
