SPECIFICATION Spec
CONSTANTS
    s1 = s1
    s2 = s2
    Shells = {s1, s2}
    MaxVersion = 2
    FirstPin = 1
SYMMETRY Alike
INVARIANT RunsPinned
PROPERTIES MovedWhenClean NeverLowered DeclinedStays
CHECK_DEADLOCK FALSE
