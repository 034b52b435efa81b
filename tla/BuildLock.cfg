SPECIFICATION FairSpec
CONSTANTS
    Writers = {w1, w2, w3}
    MaxCalls = 1
    LiveLocksAge = TRUE
    Empty = Empty
    NoLock = NoLock
    Obstacle = Obstacle
INVARIANTS ExclusiveUnlessExposed HolderOwnsLock
PROPERTIES NeverStolen WaitEnds
CHECK_DEADLOCK FALSE
