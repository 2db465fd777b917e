CONSTANTS
    w1 = w1
    w2 = w2
    n1 = n1
    n2 = n2
    n3 = n3
    Workers = {w1, w2}
    Tasks = {n1, n2, n3}
    NULL = NULL
    MaxConns = 4
SPECIFICATION FairSpec
INVARIANTS
    TypeOK
    ListWellFormed
    TasksOwned
    NoSleepOnWork
PROPERTIES
    ImplementsFifo
    EveryConnectionServed
