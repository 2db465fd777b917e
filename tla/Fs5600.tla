------------------------------- MODULE Fs5600 -------------------------------
(***************************************************************************)
(* The fs5600 file system (lab4/fs5600.c over the block device of          *)
(* lab4/misc.c), as the FUSE handlers leave the disk image.  Every handler *)
(* is one action: the callers modelled here (test1, test2) issue one call  *)
(* at a time.  A handler changes the image by a sequence of block writes,  *)
(* and the process may die between any two of them.                        *)
(*                                                                         *)
(* A path is the sequence of its components, which is what sep_path makes  *)
(* of it.  An errno is returned negated, as in the code.  uid, gid and the *)
(* two times of an inode are left out: no handler reads them back except   *)
(* to copy them to a stat buffer.                                          *)
(***************************************************************************)
EXTENDS Integers, SequencesExt

CONSTANTS
    Names,             \* component names that fit a dirent (at most 27 letters)
    LongNames,         \* component names that do not
    MAX_LEVELS,        \* the ten levels a path may have
    FS_BLOCK_SIZE,     \* bytes in a block
    NUM_PTRS_INODE,    \* block pointers in an inode
    NUM_DIRENT_BLOCK,  \* directory entries in a block
    BITMAP_BITS,       \* bits in the bitmap block: FS_BLOCK_SIZE * 8
    DISK_SIZE,         \* blocks of the image, from the superblock
    ROOT_DATA,         \* block of the root directory's entries
    Perms,             \* permission bits
    Bytes,             \* file bytes
    MAX_WRITE,         \* bound: bytes in one write or read
    NULL,              \* a directory entry that is not valid
    JUNK               \* a byte or pointer nobody initialised

ASSUME SizesAssumption ==
    /\ {MAX_LEVELS, MAX_WRITE} \subseteq Nat
    /\ {FS_BLOCK_SIZE, NUM_PTRS_INODE, NUM_DIRENT_BLOCK} \subseteq Nat \ {0}
    /\ {BITMAP_BITS, DISK_SIZE} \subseteq Nat
    /\ ROOT_DATA \in 3..(DISK_SIZE - 1)
    /\ DISK_SIZE =< BITMAP_BITS

ASSUME NamesAssumption == Names \cap LongNames = {}

ASSUME SentinelAssumption == JUNK \notin Bytes \cup Int /\ NULL \notin [name : Names, inode : Nat]

ASSUME PermsAssumption == Perms # {}

VARIABLES
    bitmap,    \* the blocks whose bit is set
    disk,      \* the content of every block
    up,        \* the process that serves the image is running
    returned,  \* the last call and what it returned
    loose,     \* history: the blocks a removal that was cut short has freed
               \* and left in the tree
    aborted    \* history: whether a process died over the image, and whether
               \* one of those blocks was allocated again

vars == <<bitmap, disk, up, returned, loose, aborted>>

-----------------------------------------------------------------------------
(* The layout of the image. *)

ENOENT == 2
EEXIST == 17
ENOTDIR == 20
EISDIR == 21
EINVAL == 22
ENOSPC == 28
ENOTEMPTY == 39
SIGABRT == 6  \* the signal of a failed assertion

ROOT == 2
Blocks == 0..(BITMAP_BITS - 1)
Ptrs == 0..(NUM_PTRS_INODE - 1)
Slots == 1..NUM_DIRENT_BLOCK
BlockBytes == 0..(FS_BLOCK_SIZE - 1)
MAX_FILE == FS_BLOCK_SIZE * NUM_PTRS_INODE
DIV_ROUND_UP(n) == (n + FS_BLOCK_SIZE - 1) \div FS_BLOCK_SIZE

Inode == [kind : {"inode"}, type : {"dir", "file"}, perm : Perms,
          size : 0..MAX_FILE, ptrs : [Ptrs -> Blocks \cup {JUNK}]]
Dirent == [name : Names, inode : Blocks]
DirBlock == [kind : {"dirents"}, slots : [Slots -> Dirent \cup {NULL}]]
DataBlock == [kind : {"data"}, bytes : [BlockBytes -> Bytes \cup {JUNK}]]
OtherBlock == [kind : {"super", "bitmap", "zero"}]

NoPtrs == [k \in Ptrs |-> JUNK]
NewFile(perm) ==
    [kind |-> "inode", type |-> "file", perm |-> perm, size |-> 0, ptrs |-> NoPtrs]
NewDir(perm, data) ==
    [kind |-> "inode", type |-> "dir", perm |-> perm, size |-> FS_BLOCK_SIZE,
     ptrs |-> [NoPtrs EXCEPT ![0] = data]]
NoEntries == [kind |-> "dirents", slots |-> [i \in Slots |-> NULL]]

(* What a handler may be called with. *)
\* Bound: a name that is too long occurs only directly under the root.
Paths == (UNION {[1..n -> Names] : n \in 0..MAX_LEVELS}) \cup [1..1 -> LongNames]
NonRoot == {p \in Paths : p # <<>>}
\* A renamed entry fits its dirent: callers keep to the f_namemax of statfs.
Nameable == {p \in Paths : p = <<>> \/ p[Len(p)] \in Names}
Payloads == UNION {[1..n -> Bytes] : n \in 0..MAX_WRITE}
Offsets == 0..MAX_FILE
Parent(p) == SubSeq(p, 1, Len(p) - 1)
Name(p) == p[Len(p)]

\* A call with its arguments.
On(op, p) == [op |-> op, path |-> p]

(* The image gen-disk.py writes from disk2.in: an empty root directory. *)
FreshImage ==
    [[b \in Blocks |-> [kind |-> "zero"]] EXCEPT
        ![0] = [kind |-> "super"],
        ![1] = [kind |-> "bitmap"],
        ![ROOT] = NewDir(CHOOSE m \in Perms : TRUE, ROOT_DATA),
        ![ROOT_DATA] = NoEntries]

Init ==
    /\ bitmap = {0, 1, ROOT, ROOT_DATA}
    /\ disk = FreshImage
    /\ up = TRUE
    /\ returned = [call |-> On("init", <<>>), code |-> 0]
    /\ loose = {}
    /\ aborted = "no"

-----------------------------------------------------------------------------
(* The helpers the handlers share. *)

Lowest(S) == CHOOSE i \in S : \A j \in S : i =< j

\* The first block from 3 on whose bit is clear: every bit of the bitmap
\* block is tried, whatever the superblock says the size of the disk is.
alloc_blk(map) ==
    LET free == 3..(BITMAP_BITS - 1) \ map
    IN  IF free = {} THEN -ENOSPC ELSE Lowest(free)

\* 0 stands for the null pointer: slots are numbered from 1.
FirstSlot(S) == IF S = {} THEN 0 ELSE Lowest(S)
find_dirent(slots, name) ==
    FirstSlot({i \in Slots : slots[i] # NULL /\ slots[i].name = name})
find_empty(slots) == FirstSlot({i \in Slots : slots[i] = NULL})
find_full(slots) == FirstSlot({i \in Slots : slots[i] # NULL})

IsDir(inum) == disk[inum].type = "dir"
DataOf(inum) == disk[inum].ptrs[0]
SlotsOf(inum) == disk[DataOf(inum)].slots

\* One component of the walk from the root, on an image of the disk.  A block
\* of zeroes, read as an inode, has the type of no directory.
Lookup(image, par, name) ==
    IF name \in LongNames THEN -ENOENT
    ELSE IF \/ image[par].kind # "inode"
            \/ image[par].type # "dir"
            \/ image[par].size = 0
         THEN -ENOTDIR
    ELSE LET slots == image[image[par].ptrs[0]].slots
             i == find_dirent(slots, name)
         IN  IF i = 0 THEN -ENOENT ELSE slots[i].inode

Walk(image, p) ==
    LET walk[k \in 0..Len(p)] ==
            IF k = 0 THEN ROOT
            ELSE LET par == walk[k-1]
                 IN  IF par < 0 THEN par ELSE Lookup(image, par, p[k])
    IN  walk[Len(p)]
path2inum(p) == Walk(disk, p)

\* The bytes of a data block; anything else read as data is junk.
BytesOf(block) ==
    IF block.kind = "data" THEN block.bytes ELSE [i \in BlockBytes |-> JUNK]

FileByte(image, inum, pos) ==
    BytesOf(image[image[inum].ptrs[pos \div FS_BLOCK_SIZE]])[pos % FS_BLOCK_SIZE]

inode2stat(inum) ==
    [ino |-> inum, type |-> disk[inum].type, perm |-> disk[inum].perm,
     size |-> disk[inum].size,
     blocks |-> IF IsDir(inum) THEN 1 ELSE DIV_ROUND_UP(disk[inum].size)]

\* A call returns, with what it left in the caller's buffer.
Reply(call, code) == returned' = [call |-> call, code |-> code]
Answer(call, code, out) == returned' = [call |-> call, code |-> code, out |-> out]

\* An early return: the image is as it was.
Refuse(call, code) ==
    /\ code < 0
    /\ Reply(call, code)
    /\ UNCHANGED <<bitmap, disk, up, loose, aborted>>

\* A process serves calls.  Bound: what it makes of an image on which a block
\* has two owners is not followed.
Serving == up /\ aborted # "reused"
ReadOnly == Serving /\ UNCHANGED <<bitmap, disk, up, loose, aborted>>

(* The writes of a handler: block_write of the bitmap with one bit changed, *)
(* by alloc_blk or free_blk, or of another block.                           *)
Set(b) == [op |-> "set", blk |-> b]
Clear(b) == [op |-> "clear", blk |-> b]
Put(b, block) == [op |-> "put", blk |-> b, block |-> block]

\* After the first n writes every block holds what was last written to it, and
\* every bit of the bitmap what was last made of it.
WritesTo(b, ops, writes, n) == {i \in 1..n : writes[i].op \in ops /\ writes[i].blk = b}
block_write(image, writes, n) ==
    [b \in Blocks |-> LET W == WritesTo(b, {"put"}, writes, n)
                      IN  IF W = {} THEN image[b] ELSE writes[Max(W)].block]
MarkedAfter(map, writes, n) ==
    {b \in Blocks : LET W == WritesTo(b, {"set", "clear"}, writes, n)
                    IN  IF W = {} THEN b \in map ELSE writes[Max(W)].op = "set"}

\* The image holds the first n of the writes.  The blocks of a removal are
\* freed first: until another block is written they are still referred to.
Cleared(writes, n) == {writes[i].blk : i \in {j \in 1..n : writes[j].op = "clear"}}
Performed(writes, n) ==
    /\ bitmap' = MarkedAfter(bitmap, writes, n)
    /\ disk' = block_write(disk, writes, n)
    /\ loose' = IF \A i \in 1..n : writes[i].op = "clear"
                THEN loose \cup Cleared(writes, n) ELSE loose \ Cleared(writes, n)

\* alloc_blk has handed out a block that is still referred to.
Reuses(writes, n) == \E i \in 1..n : writes[i].op = "set" /\ writes[i].blk \in loose

\* The process dies, and the call never returns: -1 stands for a kill, and
\* -SIGABRT for a failed assertion.
Dies(call, code, writes, n) ==
    /\ Performed(writes, n)
    /\ Reply(call, code)
    /\ up' = FALSE
    /\ aborted' = IF Reuses(writes, n) THEN "reused" ELSE "died"

\* The handler makes its writes and returns code, or is killed on the way.
\* Bound: that happens only to the first process that dies.
Commit(call, code, writes) ==
    \/ /\ Performed(writes, Len(writes))
       /\ Reply(call, code)
       /\ up' = TRUE
       /\ aborted' = IF Reuses(writes, Len(writes)) THEN "reused" ELSE aborted
    \/ /\ aborted = "no"
       /\ \E n \in 1..(Len(writes) - 1) : Dies(call, -1, writes, n)

-----------------------------------------------------------------------------
(* Handlers that only read. *)

\* A new process mounts the image, whatever the last one left of it.
fs_init ==
    /\ ~up
    /\ disk[0].kind = "super"
    /\ up' = TRUE
    /\ Reply(On("init", <<>>), 0)
    /\ UNCHANGED <<bitmap, disk, loose, aborted>>

\* f_bfree is an unsigned 64-bit difference; WORD stands for 2^64.
WORD == 2 ^ 16
Used == Cardinality(bitmap \ {0, 1})
fs_statfs ==
    /\ ReadOnly
    /\ Answer(On("statfs", <<>>), 0, (DISK_SIZE - 2 - Used) % WORD)

fs_getattr(p) ==
    LET inum == path2inum(p)
    IN  /\ ReadOnly
        /\ \/ Refuse(On("getattr", p), inum)
           \/ inum >= 0 /\ Answer(On("getattr", p), 0, inode2stat(inum))

ReaddirError(inum) ==
    IF inum < 0 THEN inum ELSE IF ~IsDir(inum) THEN -ENOTDIR ELSE 0
fs_readdir(p) ==
    LET inum == path2inum(p)
        err == ReaddirError(inum)
    IN  /\ ReadOnly
        /\ \/ Refuse(On("readdir", p), err)
           \/ /\ err = 0
              /\ LET valid == {i \in Slots : SlotsOf(inum)[i] # NULL}
                     entry(i) == SlotsOf(inum)[i]
                 IN  Answer(On("readdir", p), 0,
                            {[name |-> entry(i).name, stat |-> inode2stat(entry(i).inode)] :
                                i \in valid})

\* How many bytes a read of len bytes at offset delivers.
ReadLength(size, len, offset) ==
    IF offset >= size THEN 0 ELSE IF offset + len > size THEN size - offset ELSE len
ReadError(inum) ==
    IF inum < 0 THEN inum ELSE IF IsDir(inum) THEN -EISDIR ELSE 0
fs_read(p, len, offset) ==
    LET call == [op |-> "read", path |-> p, len |-> len, at |-> offset]
        inum == path2inum(p)
        err == ReadError(inum)
    IN  /\ ReadOnly
        /\ \/ Refuse(call, err)
           \/ /\ err = 0
              /\ LET n == ReadLength(disk[inum].size, len, offset)
                 IN  Answer(call, n, [k \in 1..n |-> FileByte(disk, inum, offset + k - 1)])

-----------------------------------------------------------------------------
(* Handlers that change names and modes. *)

RenameError(src, dst) ==
    IF path2inum(src) < 0 THEN -ENOENT
    ELSE IF path2inum(dst) > 0 THEN -EEXIST
    ELSE IF Len(src) # Len(dst) THEN -EINVAL
    ELSE IF Parent(src) # Parent(dst) THEN -EINVAL
    ELSE 0
fs_rename(src, dst) ==
    LET call == [op |-> "rename", path |-> src, dst |-> dst]
        err == RenameError(src, dst)
    IN  /\ Serving
        /\ \/ Refuse(call, err)
           \/ /\ err = 0
              /\ LET par == path2inum(Parent(src))
                     i == find_dirent(SlotsOf(par), Name(src))
                     entries == [disk[DataOf(par)] EXCEPT !.slots[i].name = Name(dst)]
                 IN  Commit(call, 0, <<Put(DataOf(par), entries)>>)

ChmodError(inum) == IF inum < 0 THEN -ENOENT ELSE 0
\* The type bits of the mode survive.
fs_chmod(p, perm) ==
    LET call == [op |-> "chmod", path |-> p, perm |-> perm]
        inum == path2inum(p)
    IN  /\ Serving
        /\ \/ Refuse(call, ChmodError(inum))
           \/ /\ inum >= 0
              /\ Commit(call, 0, <<Put(inum, [disk[inum] EXCEPT !.perm = perm])>>)

\* The checks fs_create and fs_mkdir make before they allocate.
MakeError(p) ==
    LET par == path2inum(Parent(p))
    IN  IF path2inum(p) > 0 THEN -EEXIST
        ELSE IF Name(p) \in LongNames THEN -EINVAL
        ELSE IF par < 0 THEN -ENOENT
        ELSE IF ~IsDir(par) THEN -ENOTDIR
        ELSE IF find_empty(SlotsOf(par)) = 0 THEN -ENOSPC
        ELSE 0

\* The parent's entries are written with that of the new file or directory.
Enter(p, inum) ==
    LET par == path2inum(Parent(p))
    IN  Put(DataOf(par), [disk[DataOf(par)] EXCEPT
                            !.slots[find_empty(SlotsOf(par))] = [name |-> Name(p), inode |-> inum]])

\* A plausible bug: the entry is written before the block is marked.
fs_createEntersFirst(p, perm) ==
    LET call == [op |-> "create", path |-> p, perm |-> perm]
        err == MakeError(p)
        inum == alloc_blk(bitmap)
    IN  /\ Serving
        /\ \/ Refuse(call, err)
           \/ err = 0 /\ Refuse(call, inum)
           \/ /\ err = 0 /\ inum > 0
              /\ Commit(call, 0, <<Enter(p, inum), Set(inum), Put(inum, NewFile(perm))>>)

fs_create(p, perm) ==
    LET call == [op |-> "create", path |-> p, perm |-> perm]
        err == MakeError(p)
        inum == alloc_blk(bitmap)
    IN  /\ Serving
        /\ \/ Refuse(call, err)
           \/ err = 0 /\ Refuse(call, inum)
           \/ /\ err = 0 /\ inum > 0
              /\ Commit(call, 0, <<Set(inum), Put(inum, NewFile(perm)), Enter(p, inum)>>)

\* A plausible bug: the inode is not given back.
MkdirWritesKeepsInode(p, perm, inum, data) ==
    IF data < 0
    THEN <<Set(inum)>>
    ELSE <<Set(inum), Set(data), Put(data, NoEntries), Put(inum, NewDir(perm, data)),
           Enter(p, inum)>>

\* mkdir allocates the inode and then the block of entries; when the second
\* allocation fails the first is given back.
MkdirWrites(p, perm, inum, data) ==
    IF data < 0
    THEN <<Set(inum), Clear(inum)>>
    ELSE <<Set(inum), Set(data), Put(data, NoEntries), Put(inum, NewDir(perm, data)),
           Enter(p, inum)>>

fs_mkdir(p, perm) ==
    LET call == [op |-> "mkdir", path |-> p, perm |-> perm]
        err == MakeError(p)
        inum == alloc_blk(bitmap)
        data == alloc_blk(bitmap \cup {inum})
    IN  /\ Serving
        /\ \/ Refuse(call, err)
           \/ err = 0 /\ Refuse(call, inum)
           \/ /\ err = 0 /\ inum > 0
              /\ Commit(call, IF data < 0 THEN data ELSE 0, MkdirWrites(p, perm, inum, data))

-----------------------------------------------------------------------------
(* Handlers that remove. *)

\* The parent's inode, or the error unlink and rmdir return for it.
FindError(p) ==
    LET par == path2inum(Parent(p))
    IN  IF par < 0 THEN -ENOENT
        ELSE IF ~IsDir(par) THEN -ENOTDIR
        ELSE IF find_dirent(SlotsOf(par), Name(p)) = 0 THEN -ENOENT
        ELSE 0
ChildSlot(p) == find_dirent(SlotsOf(path2inum(Parent(p))), Name(p))
Child(p) == SlotsOf(path2inum(Parent(p)))[ChildSlot(p)].inode

\* The entry becomes invalid; then the parent's inode gets a new time.
ClearEntry(p) ==
    LET par == path2inum(Parent(p))
    IN  <<Put(DataOf(par), [disk[DataOf(par)] EXCEPT !.slots[ChildSlot(p)] = NULL]),
          Put(par, disk[par])>>

\* free_blk for the data blocks of a file, in their order.
FreeData(inum) ==
    [k \in 1..DIV_ROUND_UP(disk[inum].size) |-> Clear(disk[inum].ptrs[k - 1])]

UnlinkError(p) ==
    IF FindError(p) # 0 THEN FindError(p) ELSE IF IsDir(Child(p)) THEN -EISDIR ELSE 0

fs_unlink(p) ==
    LET err == UnlinkError(p)
    IN  /\ Serving
        /\ \/ Refuse(On("unlink", p), err)
           \/ /\ err = 0
              /\ Commit(On("unlink", p), 0,
                        FreeData(Child(p)) \o <<Clear(Child(p))>> \o ClearEntry(p))

RmdirError(p) ==
    IF p = <<>> THEN -ENOENT
    ELSE IF FindError(p) # 0 THEN FindError(p)
    ELSE IF ~IsDir(Child(p)) THEN -ENOTDIR
    ELSE IF find_full(SlotsOf(Child(p))) # 0 THEN -ENOTEMPTY
    ELSE 0
fs_rmdir(p) ==
    LET err == RmdirError(p)
    IN  /\ Serving
        /\ \/ Refuse(On("rmdir", p), err)
           \/ /\ err = 0
              /\ Commit(On("rmdir", p), 0,
                        <<Clear(DataOf(Child(p))), Clear(Child(p))>> \o ClearEntry(p))

-----------------------------------------------------------------------------
(* Handlers that change a file's data. *)

WriteError(inum, len, offset) ==
    IF inum < 0 THEN inum
    ELSE IF IsDir(inum) THEN -EISDIR
    ELSE IF offset > disk[inum].size THEN -EINVAL
    ELSE IF offset + len > MAX_FILE THEN -ENOSPC
    ELSE 0

\* The pointers the loop covers, and their values once it has allocated the
\* missing ones in turn; alloc_blk's error is stored like a block number.
Touched(len, offset) ==
    {k \in Ptrs : /\ offset < (k + 1) * FS_BLOCK_SIZE
                  /\ k * FS_BLOCK_SIZE < offset + len}
WrittenPtrs(inum, len, offset) ==
    LET have == DIV_ROUND_UP(disk[inum].size)
        fresh[k \in Ptrs] ==
            IF k < have THEN disk[inum].ptrs[k]
            ELSE alloc_blk(bitmap \cup {fresh[j] : j \in have..(k - 1)})
    IN  [k \in Ptrs |-> IF k \in Touched(len, offset) THEN fresh[k] ELSE disk[inum].ptrs[k]]

\* A plausible bug: the block is not read before the data is copied into it.
OverlaidUnread(k, b, data, offset) ==
    LET start == k * FS_BLOCK_SIZE - offset + 1
    IN  [kind |-> "data",
         bytes |-> [i \in BlockBytes |->
                       IF start + i \in DOMAIN data THEN data[start + i] ELSE JUNK]]

\* A plausible bug: one byte too many is taken to fit the block's buffer.
OverlaidOverruns(k, b, data, offset) ==
    LET start == k * FS_BLOCK_SIZE - offset + 1
        covered == {i \in 0..FS_BLOCK_SIZE : start + i \in DOMAIN data}
    IN  [kind |-> "data",
         bytes |-> [i \in BlockBytes \cup covered |->
                       IF i \in covered THEN data[start + i] ELSE BytesOf(disk[b])[i]]]

\* Block k of the file, in block b, once the data has been copied into it.
Overlaid(k, b, data, offset) ==
    LET start == k * FS_BLOCK_SIZE - offset + 1
    IN  [kind |-> "data",
         bytes |-> [i \in BlockBytes |->
                       IF start + i \in DOMAIN data THEN data[start + i]
                       ELSE BytesOf(disk[b])[i]]]

\* A round of the loop: a block past the end of the file is allocated first.
Round(inum, ptrs, k, data, offset) ==
    (IF k >= DIV_ROUND_UP(disk[inum].size) THEN <<Set(ptrs[k])>> ELSE <<>>)
        \o <<Put(ptrs[k], Overlaid(k, ptrs[k], data, offset))>>

\* alloc_blk's -ENOSPC is stored in a uint32_t, so the test for a negative
\* pointer never succeeds and block_write's assertion on the block number
\* stops the process: the blocks before are written, the inode is not.
fs_write(p, data, offset) ==
    LET call == [op |-> "write", path |-> p, data |-> data, at |-> offset]
        inum == path2inum(p)
        len == Len(data)
        err == WriteError(inum, len, offset)
    IN  /\ Serving
        /\ \/ Refuse(call, err)
           \/ /\ err = 0
              /\ LET K == Touched(len, offset)
                     ptrs == WrittenPtrs(inum, len, offset)
                     bad == {k \in K : ptrs[k] < 0}
                     good == {k \in K : \A j \in bad : k < j}
                     size == disk[inum].size
                     rounds == FlattenSeq([i \in 1..Cardinality(good) |->
                                   Round(inum, ptrs, Lowest(good) + i - 1, data, offset)])
                 IN  \/ /\ bad = {}
                        /\ Commit(call, len, Append(rounds,
                                Put(inum, [disk[inum] EXCEPT
                                    !.ptrs = ptrs,
                                    !.size = IF offset + len > size THEN offset + len ELSE size])))
                     \/ bad # {} /\ Dies(call, -SIGABRT, rounds, Len(rounds))

TruncateError(inum, len) ==
    IF len # 0 THEN -EINVAL
    ELSE IF inum < 0 THEN inum
    ELSE IF IsDir(inum) THEN -EISDIR
    ELSE 0

fs_truncate(p, len) ==
    LET call == [op |-> "truncate", path |-> p, len |-> len]
        inum == path2inum(p)
        err == TruncateError(inum, len)
    IN  /\ Serving
        /\ \/ Refuse(call, err)
           \/ /\ err = 0
              /\ Commit(call, 0, Append(FreeData(inum), Put(inum, [disk[inum] EXCEPT !.size = 0])))

\* Only the time of a file changes, and times are not modelled.
fs_utime(p) ==
    LET inum == path2inum(p)
    IN  /\ ReadOnly
        /\ \/ Refuse(On("utime", p), ReadError(inum))
           \/ ReadError(inum) = 0 /\ Reply(On("utime", p), 0)

-----------------------------------------------------------------------------
Next ==
    \/ fs_init
    \/ fs_statfs
    \/ \E p \in Paths :
          \/ fs_getattr(p)
          \/ fs_readdir(p)
          \/ \E len \in 0..MAX_WRITE, off \in Offsets : fs_read(p, len, off)
          \/ \E dst \in Nameable : fs_rename(p, dst)
          \/ \E perm \in Perms : fs_chmod(p, perm)
          \/ fs_rmdir(p)
          \/ \E data \in Payloads, off \in Offsets : fs_write(p, data, off)
          \/ \E len \in {0, 1} : fs_truncate(p, len)
          \/ fs_utime(p)
    \/ \E p \in NonRoot :
          \/ \E perm \in Perms : fs_create(p, perm) \/ fs_mkdir(p, perm)
          \/ fs_unlink(p)

Spec == Init /\ [][Next]_vars

-----------------------------------------------------------------------------
(* Properties. *)

\* Every block holds an inode, a block of entries or data, in its format.
TypeOK ==
    /\ bitmap \subseteq Blocks
    /\ disk \in [Blocks -> Inode \cup DirBlock \cup DataBlock \cup OtherBlock]
    /\ up \in BOOLEAN
    /\ loose \subseteq Blocks
    /\ aborted \in {"no", "died", "reused"}

Inodes == {path2inum(p) : p \in Paths} \cap Blocks

\* Everything on the image that refers to a block, as <<holder, place, block>>.
References ==
    {<<0, 0, ROOT>>}
    \cup UNION {IF disk[b].type = "file"
                THEN {<<b, k, disk[b].ptrs[k]>> : k \in 0..(DIV_ROUND_UP(disk[b].size) - 1)}
                ELSE {<<b, 0, DataOf(b)>>}
                     \cup {<<DataOf(b), i, SlotsOf(b)[i].inode>> :
                              i \in {j \in Slots : SlotsOf(b)[j] # NULL}}
                : b \in {c \in Inodes : disk[c].kind = "inode"}}
\* The blocks of what the last call is about.
Victim == LET inum == path2inum(returned.call.path)
          IN  {inum} \cup {r[3] : r \in {q \in References : q[1] = inum}}

\* No block belongs to two files or directories and none of them is free in
\* the bitmap, so that no later alloc_blk hands it out again: through every
\* sequence of creations, writes, truncations and removals, and on an image a
\* process died over between any two writes of create, mkdir or write.  Only a
\* removal that is cut short leaves references to free blocks, and only those
\* of what it was removing; the next processes mount that image too, and until
\* one allocates such a block there is no other reference to a free block.
\* Every entry leads to an inode.
OwnedOnce ==
    aborted # "reused" =>
        /\ \A b \in Inodes : disk[b].kind = "inode"
        /\ \A r \in References : r[3] \in (bitmap \cup loose) \ {0, 1}
        /\ \A r, s \in References : r[3] = s[3] => r = s
        /\ ~up /\ returned.code = -1 => loose \subseteq Victim

\* The blocks in use are exactly those of the files and directories: unlink,
\* rmdir, truncate and a failed mkdir give everything back.
NothingLeaked == aborted = "no" => bitmap = {0, 1} \cup {r[3] : r \in References}
=============================================================================
