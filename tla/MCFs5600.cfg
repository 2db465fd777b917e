SPECIFICATION TreeSpec
CONSTANTS
    Names = {a, b}
    LongNames = {l}
    MAX_LEVELS = 2
    FS_BLOCK_SIZE = 2
    NUM_PTRS_INODE = 2
    NUM_DIRENT_BLOCK = 2
    BITMAP_BITS = 7
    DISK_SIZE = 6
    ROOT_DATA = 5
    Perms = {p1, p2}
    Bytes = {x, y}
    MAX_WRITE = 2
    NULL = NULL
    JUNK = JUNK
VIEW View
SYMMETRY Symmetry
CHECK_DEADLOCK FALSE
INVARIANTS
    TypeOK
    OwnedOnce
    NothingLeaked
PROPERTY ImplementsTree
