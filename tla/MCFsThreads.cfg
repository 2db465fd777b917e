CONSTANTS
    Threads = {t1, t2}
    BITMAP_BITS = 6
SPECIFICATION Spec
INVARIANT
    AllocatedOnce
