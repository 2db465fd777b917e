----------------------------- MODULE FsThreads -----------------------------
(***************************************************************************)
(* lab4fuse.c hands the handlers of lab4 to fuse_main, which serves calls  *)
(* from several threads.  This module takes alloc_blk and free_blk apart   *)
(* into the system calls of misc.c, as threads make them on one disk_fd,   *)
(* whose offset they share.  What else a handler does is left out.         *)
(***************************************************************************)
EXTENDS Integers, FiniteSets

CONSTANTS
    Threads,
    BITMAP_BITS  \* bits in the bitmap block, more than 3

VARIABLES
    bitmap,  \* block 1 of the image: the blocks whose bit is set
    offset,  \* of disk_fd, in blocks
    pc,      \* where each thread is
    job,     \* the call it makes, and the block the call is about
    buf,     \* its copy of the bitmap
    held     \* the blocks alloc_blk gave it and it has not freed

vars == << bitmap, offset, pc, job, buf, held >>

Blocks == 3 .. BITMAP_BITS - 1

Init ==
    /\ bitmap = {}
    /\ offset = 0
    /\ pc = [t \in Threads |-> "idle"]
    /\ job = [t \in Threads |-> [op |-> "alloc", blk |-> 0]]
    /\ buf = [t \in Threads |-> {}]
    /\ held = [t \in Threads |-> {}]

Goto(t, label) == pc' = [pc EXCEPT ![t] = label]

\* A handler needs a block, or gives one of its own back.
Begin(t) ==
    /\ pc[t] = "idle"
    /\ \/ /\ job' = [job EXCEPT ![t] = [op |-> "alloc", blk |-> 0]]
          /\ UNCHANGED held
       \/ \E b \in held[t] :
            /\ job' = [job EXCEPT ![t] = [op |-> "free", blk |-> b]]
            /\ held' = [held EXCEPT ![t] = @ \ {b}]
    /\ Goto(t, "seek")
    /\ UNCHANGED << bitmap, offset, buf >>

-----------------------------------------------------------------------------
\* block_read and block_write of block 1, one system call at a time: lseek,
\* read; lseek to the end of the block, lseek back, write.
Lseek(t, from, block, to) ==
    /\ pc[t] = from
    /\ offset' = block
    /\ Goto(t, to)
    /\ UNCHANGED << bitmap, job, buf, held >>

\* A block other than the bitmap may be read in its place, and its bits taken
\* for those of the bitmap.
Read(t) ==
    /\ pc[t] = "read"
    /\ \E bits \in IF offset = 1 THEN {bitmap} ELSE SUBSET Blocks :
          buf' = [buf EXCEPT ![t] = bits]
    /\ offset' = offset + 1
    /\ Goto(t, "change")
    /\ UNCHANGED << bitmap, job, held >>

\* A write that lands elsewhere leaves the bitmap as it was.  alloc_blk returns
\* the block it found.
Write(t) ==
    /\ pc[t] = "write"
    /\ bitmap' = IF offset = 1 THEN buf[t] ELSE bitmap
    /\ offset' = offset + 1
    /\ held' = IF job[t].op = "free" THEN held ELSE [held EXCEPT ![t] = @ \cup {job[t].blk}]
    /\ Goto(t, "idle")
    /\ UNCHANGED << job, buf >>

-----------------------------------------------------------------------------
Lowest(S) == CHOOSE i \in S : \A j \in S : i <= j

\* alloc_blk sets the first bit that is clear in its copy; if there is none it
\* returns -ENOSPC.
SetBit(t) ==
    LET free == Blocks \ buf[t] IN
    /\ pc[t] = "change" /\ job[t].op = "alloc"
    /\ \/ /\ free # {}
          /\ job' = [job EXCEPT ![t].blk = Lowest(free)]
          /\ buf' = [buf EXCEPT ![t] = @ \cup {Lowest(free)}]
          /\ Goto(t, "end")
       \/ /\ free = {}
          /\ Goto(t, "idle")
          /\ UNCHANGED << job, buf >>
    /\ UNCHANGED << bitmap, offset, held >>

ClearBit(t) ==
    /\ pc[t] = "change" /\ job[t].op = "free"
    /\ buf' = [buf EXCEPT ![t] = @ \ {job[t].blk}]
    /\ Goto(t, "end")
    /\ UNCHANGED << bitmap, offset, job, held >>

Next ==
    \E t \in Threads :
        \/ Begin(t)
        \/ Lseek(t, "seek", 1, "read") \/ Read(t)
        \/ SetBit(t) \/ ClearBit(t)
        \/ Lseek(t, "end", 2, "start") \/ Lseek(t, "start", 1, "write") \/ Write(t)

Spec == Init /\ [][Next]_vars

\* What alloc_blk returns is a free block, as its comment says (fs5600.c, "success -
\* return free block number"): no two files are given the same one.
AllocatedOnce == \A s, t \in Threads : s # t => held[s] \cap held[t] = {}
=============================================================================
