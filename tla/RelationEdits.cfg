SPECIFICATION PanelSpec
CONSTANTS
    k1 = k1
    k2 = k2
    hides = hides
    aside = aside
    Tabs = {t1, t2}
    Keys = {k1, k2}
    Notes = {NoNote, aside}
    NoNote = NoNote
    Conds = {hides}
    Worldline = {}
    BaseLists <- MCLists
    MaxEdits = 2
INVARIANTS ReplayExact RightRelation
PROPERTY DraftReadable
CHECK_DEADLOCK FALSE
SYMMETRY Perms
