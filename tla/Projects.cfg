SPECIFICATION Spec
CONSTANTS
    p = p
    q = q
    Procs <- MCProcs
    Dirs = {"d"}
    Others = {"x"}
    Order <- MCOrder
    Elsewhere = {"f", "g"}
    MaxRecent = 2
    MaxCommands = 2
    MaxOthers = 2
SYMMETRY Symmetry
INVARIANTS ServersKept RecentSound
PROPERTIES TheirsKept SetUpWholeOrGone
CHECK_DEADLOCK FALSE
