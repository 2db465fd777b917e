------------------------------ MODULE KVStore ------------------------------
(***************************************************************************)
(* The key-value store of lab3/kvstore.c: a hash table guarded by a        *)
(* readers/writer monitor.  The mutex kvm only protects activeUsers; the   *)
(* table itself is touched between two short locked sections, so that the  *)
(* protocol on activeUsers is all that keeps a walk of a chain away from   *)
(* an update of it.                                                        *)
(*                                                                         *)
(* A locked section is one action: nobody else runs between lock and       *)
(* unlock.  An update of the table outside the mutex is one action per     *)
(* assignment that another thread could see.                               *)
(***************************************************************************)
EXTENDS KVTable

CONSTANTS
    Workers,  \* the worker threads: read, write, delete
    Console   \* the control thread of dbserver.c: list, that is kv_dump

ASSUME ThreadsAssumption == Console \notin Workers /\ IsFiniteSet(Workers)

Threads == Workers \cup {Console}

ReaderOps == {"read", "dump"}
WriterOps == {"write", "delete"}

Request ==
    [op : ReaderOps \cup WriterOps, key : Keys \cup {NULL}, val : Vals \cup {NULL}]

\* The calls a thread makes: worker.c for the workers, dbserver.c for list.
Requests(t) ==
    IF t = Console
    THEN {[op |-> "dump", key |-> NULL, val |-> NULL]}
    ELSE [op : {"read", "delete"}, key : Keys, val : {NULL}]
           \cup [op : {"write"}, key : Keys, val : Vals]

NoRequest == [op |-> "read", key |-> NULL, val |-> NULL]

\* What kv_read returned: the buffer of key's value, and what became of it.
Pointer == [key : Keys, val : Vals \cup {FREED}, status : {"live", "freed", "leaked"}]

\* The buffer of a stored value is never at the null pointer.
ASSUME PointerAssumption == NULL \notin Pointer

VARIABLES
    table,       \* kv->buckets
    size,        \* kv->size
    activeUsers, \* number of readers inside, or -1 for a writer
    pc,          \* where each thread is
    call,        \* the call it is making
    ptr,         \* the pointer kv_read gave it, until it has used it
    ret,         \* what kv_write returned
    seen         \* the chains kv_dump has printed so far

vars == << table, size, activeUsers, pc, call, ptr, ret, seen >>

PC == {"idle", "lock", "asleep", "crit", "copy", "inc", "clear", "dec",
       "leave", "return"}

TypeOK ==
    /\ table \in Table
    /\ size \in Int
    /\ activeUsers \in Int
    /\ pc \in [Threads -> PC]
    /\ call \in [Threads -> Request]
    /\ ptr \in [Threads -> Pointer \cup {NULL}]
    /\ ret \in [Threads -> {0, 1}]
    /\ seen \in [Threads -> Seq(Seq(Entry))]

Init ==
    /\ table = EmptyTable
    /\ size = 0
    /\ activeUsers = 0
    /\ pc = [t \in Threads |-> "idle"]
    /\ call = [t \in Threads |-> NoRequest]
    /\ ptr = [t \in Threads |-> NULL]
    /\ ret = [t \in Threads |-> 0]
    /\ seen = [t \in Threads |-> << >>]

-----------------------------------------------------------------------------
(***************************************************************************)
(* The condition variable nonuser: the threads asleep on it.               *)
(***************************************************************************)
Asleep == {t \in Threads : pc[t] = "asleep"}

Goto(t, l) == pc' = [pc EXCEPT ![t] = l]

\* t goes on at l and pthread_cond_signal wakes one sleeper, if there is one.
GotoAndSignal(t, l) ==
    IF Asleep = {}
    THEN Goto(t, l)
    ELSE \E w \in Asleep : pc' = [pc EXCEPT ![t] = l, ![w] = "lock"]

\* t goes on at l and pthread_cond_broadcast wakes every sleeper.
GotoAndBroadcast(t, l) ==
    pc' = [u \in Threads |-> IF u = t THEN l
                             ELSE IF u \in Asleep THEN "lock" ELSE pc[u]]

\* The pointers into the stored values of the keys in S get status s.
PointersTo(S, s) ==
    [t \in Threads |->
        IF ptr[t] # NULL /\ ptr[t].key \in S /\ ptr[t].status = "live"
        THEN [ptr[t] EXCEPT !.status = s]
        ELSE ptr[t]]

-----------------------------------------------------------------------------
(***************************************************************************)
(* Faulty variants of single actions, used to see that the properties can  *)
(* tell: none of them is part of Next.                                     *)
(***************************************************************************)
\* kv_write waits only for other writers.
EnterWriterIgnoresReaders(t) ==
    /\ pc[t] = "lock"
    /\ call[t].op \in WriterOps
    /\ IF activeUsers < 0
       THEN Goto(t, "asleep") /\ UNCHANGED activeUsers
       ELSE Goto(t, "crit") /\ activeUsers' = -1
    /\ UNCHANGED << table, size, call, ptr, ret, seen >>

\* kv_read and kv_dump do not wait.
EnterReaderUnguarded(t) ==
    /\ pc[t] = "lock"
    /\ call[t].op \in ReaderOps
    /\ Goto(t, "crit")
    /\ activeUsers' = activeUsers + 1
    /\ UNCHANGED << table, size, call, ptr, ret, seen >>

\* kv_write reports failure as -1.
WriteFullNegative(t) ==
    /\ pc[t] = "crit"
    /\ call[t].op = "write"
    /\ Find(table, call[t].key) = 0
    /\ size = TABLE_MAX
    /\ ret' = [ret EXCEPT ![t] = -1]
    /\ Goto(t, "leave")
    /\ UNCHANGED << table, size, activeUsers, call, ptr, seen >>

\* kv_write prepends without having searched, or tests size > TABLE_MAX.
LinkWhen(t, guard) ==
    /\ pc[t] = "crit"
    /\ call[t].op = "write"
    /\ guard
    /\ table' = Prepend(table, call[t].key, call[t].val)
    /\ ret' = [ret EXCEPT ![t] = 0]
    /\ Goto(t, "inc")
    /\ UNCHANGED << size, activeUsers, call, ptr, seen >>

WriteLinkUnsearched(t) == LinkWhen(t, size # TABLE_MAX)
WriteLinkOffByOne(t) ==
    LinkWhen(t, Find(table, call[t].key) = 0 /\ size <= TABLE_MAX)

\* kv_delete forgets size--.
DeleteCountForgotten(t) ==
    /\ pc[t] = "dec"
    /\ Goto(t, "leave")
    /\ UNCHANGED << table, size, activeUsers, call, ptr, ret, seen >>

\* kv_read leaves the monitor as if it had been alone in it.
LeaveReaderResets(t) ==
    /\ pc[t] = "leave"
    /\ call[t].op \in ReaderOps
    /\ activeUsers' = 0
    /\ GotoAndSignal(t, "return")
    /\ UNCHANGED << table, size, call, ptr, ret, seen >>

\* kv_read leaves without signalling.
LeaveReaderSilent(t) ==
    /\ pc[t] = "leave"
    /\ call[t].op \in ReaderOps
    /\ activeUsers' = activeUsers - 1
    /\ Goto(t, "return")
    /\ UNCHANGED << table, size, call, ptr, ret, seen >>

\* kv_write signals where it should broadcast.
LeaveWriterSignals(t) ==
    /\ pc[t] = "leave"
    /\ call[t].op \in WriterOps
    /\ activeUsers' = 0
    /\ GotoAndSignal(t, "return")
    /\ UNCHANGED << table, size, call, ptr, ret, seen >>

-----------------------------------------------------------------------------
Call(t, c) ==
    /\ pc[t] = "idle"
    /\ c \in Requests(t)
    /\ call' = [call EXCEPT ![t] = c]
    /\ Goto(t, "lock")
    /\ UNCHANGED << table, size, activeUsers, ptr, ret, seen >>

EnterReader(t) ==
    /\ pc[t] = "lock"
    /\ call[t].op \in ReaderOps
    /\ IF activeUsers < 0
       THEN Goto(t, "asleep") /\ UNCHANGED activeUsers
       ELSE Goto(t, "crit") /\ activeUsers' = activeUsers + 1
    /\ UNCHANGED << table, size, call, ptr, ret, seen >>

EnterWriter(t) ==
    /\ pc[t] = "lock"
    /\ call[t].op \in WriterOps
    /\ IF activeUsers # 0
       THEN Goto(t, "asleep") /\ UNCHANGED activeUsers
       ELSE Goto(t, "crit") /\ activeUsers' = -1
    /\ UNCHANGED << table, size, call, ptr, ret, seen >>

\* pthread_cond_wait may return without a signal.
SpuriousWakeup(t) ==
    /\ pc[t] = "asleep"
    /\ Goto(t, "lock")
    /\ UNCHANGED << table, size, activeUsers, call, ptr, ret, seen >>

ReadBody(t) ==
    /\ pc[t] = "crit"
    /\ call[t].op = "read"
    /\ LET k == call[t].key IN
       ptr' = [ptr EXCEPT ![t] =
                 IF Find(table, k) = 0
                 THEN NULL
                 ELSE [key |-> k, val |-> ValueOf(table, k), status |-> "live"]]
    /\ Goto(t, "leave")
    /\ UNCHANGED << table, size, activeUsers, call, ret, seen >>

\* One bucket of kv_dump's loop.
DumpBody(t) ==
    /\ pc[t] = "crit"
    /\ call[t].op = "dump"
    /\ seen' = [seen EXCEPT ![t] = Append(@, table[Len(@)])]
    /\ IF Len(seen'[t]) = HB_MAX_SIZE THEN Goto(t, "leave") ELSE UNCHANGED pc
    /\ UNCHANGED << table, size, activeUsers, call, ptr, ret >>

\* The key is there: its old value is freed before the new one is copied.
WriteFound(t) ==
    /\ pc[t] = "crit"
    /\ call[t].op = "write"
    /\ Find(table, call[t].key) # 0
    /\ table' = SetValue(table, call[t].key, FREED)
    /\ ptr' = PointersTo({call[t].key}, "freed")
    /\ ret' = [ret EXCEPT ![t] = 0]
    /\ Goto(t, "copy")
    /\ UNCHANGED << size, activeUsers, call, seen >>

WriteCopy(t) ==
    /\ pc[t] = "copy"
    /\ table' = SetValue(table, call[t].key, call[t].val)
    /\ Goto(t, "leave")
    /\ UNCHANGED << size, activeUsers, call, ptr, ret, seen >>

WriteFull(t) ==
    /\ pc[t] = "crit"
    /\ call[t].op = "write"
    /\ Find(table, call[t].key) = 0
    /\ size = TABLE_MAX
    /\ ret' = [ret EXCEPT ![t] = 1]
    /\ Goto(t, "leave")
    /\ UNCHANGED << table, size, activeUsers, call, ptr, seen >>

WriteLink(t) ==
    /\ pc[t] = "crit"
    /\ call[t].op = "write"
    /\ Find(table, call[t].key) = 0
    /\ size # TABLE_MAX
    /\ table' = Prepend(table, call[t].key, call[t].val)
    /\ ret' = [ret EXCEPT ![t] = 0]
    /\ Goto(t, "inc")
    /\ UNCHANGED << size, activeUsers, call, ptr, seen >>

WriteCount(t) ==
    /\ pc[t] = "inc"
    /\ size' = size + 1
    /\ Goto(t, "leave")
    /\ UNCHANGED << table, activeUsers, call, ptr, ret, seen >>

DeleteMissing(t) ==
    /\ pc[t] = "crit"
    /\ call[t].op = "delete"
    /\ Find(table, call[t].key) = 0
    /\ Goto(t, "leave")
    /\ UNCHANGED << table, size, activeUsers, call, ptr, ret, seen >>

\* prev == h: the head node is freed while the bucket still points to it ...
DeleteHead(t) ==
    /\ pc[t] = "crit"
    /\ call[t].op = "delete"
    /\ Find(table, call[t].key) = 1
    /\ table' = SetValue(table, call[t].key, FREED)
    /\ ptr' = PointersTo({call[t].key}, "freed")
    /\ Goto(t, "clear")
    /\ UNCHANGED << size, activeUsers, call, ret, seen >>

\* ... and then the bucket is set to NULL: the nodes behind the head are leaked.
DeleteClear(t) ==
    /\ pc[t] = "clear"
    /\ table' = DropChain(table, call[t].key)
    /\ ptr' = PointersTo({k \in Keys : Hash[k] = Hash[call[t].key]}, "leaked")
    /\ Goto(t, "dec")
    /\ UNCHANGED << size, activeUsers, call, ret, seen >>

DeleteInner(t) ==
    /\ pc[t] = "crit"
    /\ call[t].op = "delete"
    /\ Find(table, call[t].key) > 1
    /\ table' = Unlink(table, call[t].key)
    /\ ptr' = PointersTo({call[t].key}, "freed")
    /\ Goto(t, "dec")
    /\ UNCHANGED << size, activeUsers, call, ret, seen >>

DeleteCount(t) ==
    /\ pc[t] = "dec"
    /\ size' = size - 1
    /\ Goto(t, "leave")
    /\ UNCHANGED << table, activeUsers, call, ptr, ret, seen >>

LeaveReader(t) ==
    /\ pc[t] = "leave"
    /\ call[t].op \in ReaderOps
    /\ activeUsers' = activeUsers - 1
    /\ IF activeUsers' = 0 THEN GotoAndSignal(t, "return") ELSE Goto(t, "return")
    /\ UNCHANGED << table, size, call, ptr, ret, seen >>

LeaveWriter(t) ==
    /\ pc[t] = "leave"
    /\ call[t].op \in WriterOps
    /\ activeUsers' = 0
    /\ GotoAndBroadcast(t, "return")
    /\ UNCHANGED << table, size, call, ptr, ret, seen >>

\* The caller is done with the result: handle_read has sent *ret, the
\* console has its listing.
Return(t) ==
    /\ pc[t] = "return"
    /\ Goto(t, "idle")
    /\ call' = [call EXCEPT ![t] = NoRequest]
    /\ ptr' = [ptr EXCEPT ![t] = NULL]
    /\ ret' = [ret EXCEPT ![t] = 0]
    /\ seen' = [seen EXCEPT ![t] = << >>]
    /\ UNCHANGED << table, size, activeUsers >>

\* What a thread does of itself once it has made a call.
Step(t) ==
    \/ EnterReader(t)   \/ EnterWriter(t)
    \/ ReadBody(t)      \/ DumpBody(t)
    \/ WriteFound(t)    \/ WriteCopy(t)
    \/ WriteFull(t)     \/ WriteLink(t)    \/ WriteCount(t)
    \/ DeleteMissing(t) \/ DeleteHead(t)   \/ DeleteClear(t)
    \/ DeleteInner(t)   \/ DeleteCount(t)
    \/ LeaveReader(t)   \/ LeaveWriter(t)
    \/ Return(t)

Next ==
    \E t \in Threads :
        \/ \E c \in Requests(t) : Call(t, c)
        \/ SpuriousWakeup(t)
        \/ Step(t)

Spec == Init /\ [][Next]_vars

\* A thread that can run is eventually run; nobody is obliged to make a call.
FairSpec == Spec /\ \A t \in Threads : WF_vars(Step(t))

-----------------------------------------------------------------------------
(***************************************************************************)
(* Properties                                                              *)
(***************************************************************************)
Inside(t) == pc[t] \in {"crit", "copy", "inc", "clear", "dec", "leave"}

Readers == {t \in Threads : Inside(t) /\ call[t].op \in ReaderOps}
Writers == {t \in Threads : Inside(t) /\ call[t].op \in WriterOps}

\* The monitor of kv_read, kv_write, kv_delete and kv_dump: two threads are
\* between the two locked sections together only if both of them only read.
Exclusion ==
    \A t, u \in Threads :
        t # u /\ t \in Writers => u \notin Readers \cup Writers

\* activeUsers counts the threads between the two locked sections, in the
\* encoding the wait loops of kvstore.c rely on.
ActiveUsersExact ==
    activeUsers = IF Writers # {} THEN -1 ELSE Cardinality(Readers)

\* No wakeup is lost: kv_read's single signal and kv_write's broadcast are
\* enough.  A reader sleeps only while a writer is inside; when nobody is
\* inside and somebody sleeps, another thread is on its way in and will
\* signal or broadcast when it leaves.
NoLostWakeup ==
    \A t \in Asleep :
        /\ call[t].op \in ReaderOps => activeUsers = -1
        /\ activeUsers = 0 => \E u \in Threads : pc[u] = "lock"

\* Every node is on the chain hash33 says, and no key is stored twice: the
\* search that stops at the first match sees all there is.
ChainsWellFormed == WellFormed(table)

\* A node whose value is freed is seen only by the writer that freed it: no
\* walk by kv_read or kv_dump ever meets one, and what kv_read found stays
\* allocated until it leaves.
NoFreedValueSeen ==
    /\ \A t \in Threads : ptr[t] # NULL =>
          ptr[t].val # FREED /\ (Inside(t) => ptr[t].status = "live")
    /\ \A t \in Threads : \A b \in 1 .. Len(seen[t]) :
          \A i \in 1 .. Len(seen[t][b]) : seen[t][b][i].val # FREED

\* kv_dump prints the store as it is at one moment, though it works without
\* the mutex: what it printed is still what the buckets hold when it leaves.
DumpIsSnapshot ==
    \A t \in Threads : Inside(t) =>
        \A b \in 1 .. Len(seen[t]) : seen[t][b] = table[b - 1]

\* The keys size has to account for, in the middle of kv_write or kv_delete.
Uncounted(l) == IF \E t \in Threads : pc[t] = l THEN 1 ELSE 0

\* kv_write never exceeds TABLE_MAX, and kv->size never falls below the number
\* of keys that a search can find (so it never becomes negative).
CapacityBound ==
    /\ Cardinality(Stored(table)) + Uncounted("dec") <= size + Uncounted("inc")
    /\ size + Uncounted("inc") <= TABLE_MAX

\* When calls stop coming, every call that was made returns: nobody sleeps on
\* nonuser for ever.
Quiescence ==
    <>[][\A t \in Threads : ~ (pc[t] = "idle" /\ pc'[t] = "lock")]_vars
        => <>[](\A t \in Threads : pc[t] = "idle")

-----------------------------------------------------------------------------
(***************************************************************************)
(* What the comments of kvstore.c say, and the code does not do            *)
(***************************************************************************)
\* kvstore.c:160 "if the key exists, delete it": a step of kv_delete makes no
\* other key disappear.
DeleteRemovesOnlyItsKey ==
    [][\A k \in Keys :
         k \in Stored(table) /\ k \notin Stored(table')
             => \E t \in Threads : call[t].op = "delete" /\ call[t].key = k]_vars

\* kvstore.c:67 "kv-store must be implemented as a monitor": the string a read
\* hands out is still allocated when handle_read sends it.
ReadPointerLive ==
    \A t \in Threads : ptr[t] # NULL => ptr[t].status # "freed"
=============================================================================
