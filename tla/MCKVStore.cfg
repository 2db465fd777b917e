CONSTANTS
    k1 = k1
    k2 = k2
    k3 = k3
    v1 = v1
    v2 = v2
    w1 = w1
    w2 = w2
    Keys <- TwoKeys
    Vals = {v1, v2}
    HB_MAX_SIZE = 2
    TABLE_MAX = 2
    Hash <- CollidingHash
    NULL = NULL
    FREED = FREED
    Workers = {w1, w2}
    Console = console
SPECIFICATION FairSpec
INVARIANTS
    TypeOK
    Exclusion
    ActiveUsersExact
    NoLostWakeup
    ChainsWellFormed
    NoFreedValueSeen
    DumpIsSnapshot
    CapacityBound
PROPERTIES
    ImplementsMap
    Quiescence
