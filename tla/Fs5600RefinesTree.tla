------------------------- MODULE Fs5600RefinesTree -------------------------
(***************************************************************************)
(* Fs5600 implements FsTree, but for the departures named below.  The tree *)
(* an image holds: the paths that resolve, with the type, the permissions  *)
(* and the bytes of what they resolve to.                                  *)
(***************************************************************************)
EXTENDS Fs5600

NodeOf(image, inum) ==
    [type |-> image[inum].type, perm |-> image[inum].perm,
     data |-> IF image[inum].type = "dir" THEN <<>>
              ELSE [i \in 1..image[inum].size |-> FileByte(image, inum, i - 1)]]
TreeOf(image) ==
    LET inum == [p \in Paths |-> Walk(image, p)]
    IN  [p \in {q \in Paths : inum[q] > 0 /\ image[inum[q]].kind = "inode"} |-> NodeOf(image, inum[p])]

\* tree follows the image, so that TLC computes it once a step, as long as no
\* block has two owners.
VARIABLE tree

TreeInit == Init /\ tree = TreeOf(disk)
TreeNext ==
    Next /\ tree' = IF disk' = disk \/ aborted' = "reused" THEN tree ELSE TreeOf(disk')
TreeSpec == TreeInit /\ [][TreeNext]_<<vars, tree>>

Tree == INSTANCE FsTree WITH
    MAX_ENTRIES <- NUM_DIRENT_BLOCK, ROOT_PERM <- CHOOSE m \in Perms : TRUE

-----------------------------------------------------------------------------
(* Where the code does not keep what its notes promise. *)

\* A write that finds no free block is to return -ENOSPC (fs5600.c:69, 905 and
\* the test at 935).  The test fails, and an assertion ends the process: the
\* image is full, and what the file had is overwritten as by a kill.
AbortsWhenFull ==
    LET c == returned'.call
    IN  /\ up /\ c.op = "write" /\ returned'.code = -SIGABRT
        /\ 3..(BITMAP_BITS - 1) \subseteq bitmap'
        /\ Tree!Tear(c.path, c.data, c.at)

\* A path through a file is to be refused with -ENOTDIR (fs5600.c:106-116).
\* These handlers answer -ENOENT for every path they cannot follow.
HidesNotDir ==
    LET c == returned'.call
    IN  /\ up /\ c.op \in {"rename", "chmod", "create", "mkdir", "unlink", "rmdir"}
        /\ ~Tree!Exists(c.path) /\ Tree!PathError(c.path) = -ENOTDIR
        /\ Tree!Fails({-ENOENT})

\* utime has no error for a directory in its notes (fs5600.c:1005-1006).
UtimeRefusesDir ==
    LET c == returned'.call
    IN  up /\ c.op = "utime" /\ Tree!IsDir(c.path) /\ Tree!Fails({-EISDIR})

\* A process that was killed in a removal has left blocks free that are still
\* referred to, and alloc_blk hands one of them out again.
Reallocates == loose # {} /\ aborted' = "reused"

Departs == AbortsWhenFull \/ HidesNotDir \/ UtimeRefusesDir \/ Reallocates

\* Whatever blocks the handlers of fs5600.c use, a caller sees a tree of
\* files that keep exactly the bytes written to them: no block shared or
\* reused between files, no stale or uninitialised byte, no entry lost by a
\* rename or a removal shows in any answer.  A process that is killed in the
\* middle of a call has made its change to the tree or not, and tears at most
\* the bytes a write was overwriting; the next one serves that tree.  The steps
\* in which the code departs from its notes are the four above and no others.
ImplementsTree == Tree!Init /\ [][Tree!Next \/ Departs]_(Tree!vars)
=============================================================================
