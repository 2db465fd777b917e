------------------------------ MODULE MCFs5600 ------------------------------
EXTENDS Fs5600RefinesTree

\* What decides nothing of what a handler does: the permissions, which chmod
\* sets and stat shows (every step is still compared with the tree's), a free
\* block that once held an inode or entries, a block that a process which died
\* left marked and unused, and the pointers of a file past its last block.
LivePtrs(in) ==
    [k \in Ptrs |-> IF k < DIV_ROUND_UP(in.size) THEN in.ptrs[k] ELSE JUNK]
LiveBlock(b, lost) ==
    CASE b \in lost -> [kind |-> "zero"]
      [] b \in (bitmap \cup loose) \ lost /\ disk[b].kind = "inode" ->
             [disk[b] EXCEPT !.ptrs = LivePtrs(disk[b]), !.perm = {}]
      [] b \notin bitmap \cup loose /\ disk[b].kind \in {"inode", "dirents"} -> [kind |-> "zero"]
      [] OTHER -> disk[b]
Lost == IF aborted # "died" THEN {} ELSE bitmap \ ({0, 1} \cup {r[3] : r \in References})

\* OwnedOnce asks which call was killed.
View ==
    LET lost == Lost
    IN  <<bitmap, [b \in Blocks |-> LiveBlock(b, lost)], up, loose, aborted,
          IF ~up /\ returned.code = -1 /\ loose # {} THEN returned.call.path ELSE <<>> >>

\* Nothing tells one name, or one byte, from another.
Symmetry == Permutations(Names) \cup Permutations(Bytes)
=============================================================================
