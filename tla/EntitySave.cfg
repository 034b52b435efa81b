SPECIFICATION Spec
CONSTANTS
    Servers = {s1, s2}
    Entities = {a}
    NewFiles = {g}
    Edited = {a}
    Marks = {m1}
    Absent = Absent
    NoDraft = NoDraft
    NoBody = NoBody
INVARIANTS NoDanglingLink RetryNotBlocked
PROPERTIES NoLostProse SavedIsOnDisk
CHECK_DEADLOCK FALSE
SYMMETRY Perms
