CONSTANTS
    k1 = k1
    k2 = k2
    x = x
    y = y
    c1 = c1
    c2 = c2
    w1 = w1
    w2 = w2
    Keys <- SomeKeys
    Vals <- Strings
    HB_MAX_SIZE = 2
    TABLE_MAX = 1
    Hash <- InjectiveHash
    NULL = NULL
    FREED = FREED
    Clients = {c1, c2}
    Workers = {w1}
    Requests <- SetGetQuit
    Bytes = {x, y}
    JUNK = JUNK
    Fragmented = TRUE
    BADFD = BADFD
    MaxTasks = 1
    MaxFails = 0
SPECIFICATION FairSpec
CHECK_DEADLOCK FALSE
PROPERTIES
    ClientsFinish
    QuitEnds
