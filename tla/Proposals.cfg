SPECIFICATION Spec
CONSTANTS
    c1 = c1
    c2 = c2
    Calls <- MCCalls
    Paths <- MCPaths
    Requests <- MCRequests
    Ids = {"p1", "p2"}
    MaxTries = 2
    MaxWrites = 2
SYMMETRY Symmetry
INVARIANTS AnsweredWhole WholeIfValidated CheckedAsBuilt
CHECK_DEADLOCK FALSE
