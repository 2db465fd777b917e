CONSTANTS
    NPROCS = 4
    NFDS = 6
    TOKENSIZE = 3
    MAXTOKENS = 3
    Typed <- AllTyped
    Shown <- AllShown
    MaxLines = 2
    Dirs <- Directories
    HOME <- Home
    Strtol <- Numbers
    Lists <- AllLists
    NULL = NULL
SPECIFICATION Spec
CHECK_DEADLOCK FALSE
INVARIANT
    OneShell
