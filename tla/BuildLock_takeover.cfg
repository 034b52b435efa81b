SPECIFICATION LockSpec
CONSTANTS
    Writers = {w1, w2}
    MaxCalls = 2
    LiveLocksAge = FALSE
    Empty = Empty
    NoLock = NoLock
    Obstacle = Obstacle
INVARIANT MutualExclusion
CHECK_DEADLOCK FALSE
SYMMETRY Perms
