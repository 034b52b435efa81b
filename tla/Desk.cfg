SPECIFICATION Spec
CONSTANTS
    Entities = {"a","b","c"}
    Editors = {"e", "f"}
    Actions = {"save", "switcher"}
    Typed = {"Ctrl+S", "Ctrl+K", "Ctrl+Shift+P", "shift+ctrl+p", "Ctrl+W", "p"}
    Norm <- MCNorm
    Default <- MCDefault
    Reserved = {"Ctrl+W"}
    Lists <- MCLists
    MaxOps = 5
INVARIANT LostWasNamed KeysReachable
PROPERTIES UnsavedTabKept OtherBindingsKept
CHECK_DEADLOCK FALSE
