CONSTANTS
    Texts <- Words
    Keys = {1, 37}
    Addrs = {1, 2, 3, 4, 5, 6, 7, 8, 9, 10, 11, 12, 13, 14, 15}
    MaxLines = 5
    NULL = NULL
SPECIFICATION Spec
CHECK_DEADLOCK FALSE
INVARIANT
    NodesOwnedOnce
PROPERTY
    ImplementsUndoQueue
