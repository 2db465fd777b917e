--------------------------- MODULE KVStoreProofs ---------------------------
(***************************************************************************)
(* Proofs about the monitor of kvstore.c, for any number of workers, keys, *)
(* values and buckets and any hash function: who may be inside it, what    *)
(* the table holds, what its readers see, and last that KVStore implements *)
(* KVMap: each call of kvstore.c takes effect at one moment between its    *)
(* invocation and its response.                                            *)
(***************************************************************************)
EXTENDS KVStoreRefinesMap, KVTableProofs

\* A thread at work runs a call it may make, and only kv_write and kv_delete
\* get to the steps that belong to them.
CallInv ==
    \A t \in Threads :
        /\ pc[t] # "idle" => call[t] \in Requests(t)
        /\ pc[t] \in {"copy", "inc"} => call[t].op = "write"
        /\ pc[t] \in {"clear", "dec"} => call[t].op = "delete"

MonitorInv ==
    /\ pc \in [Threads -> PC]
    /\ call \in [Threads -> Request]
    /\ activeUsers \in Int
    /\ CallInv
    /\ Exclusion
    /\ ActiveUsersExact
    /\ NoLostWakeup

LEMMA ThreadsFinite == IsFiniteSet(Threads)
BY ThreadsAssumption, FS_AddElement DEF Threads

LEMMA ReadersFinite ==
    /\ IsFiniteSet(Readers)
    /\ Cardinality(Readers) \in Nat
    /\ Cardinality(Readers) = 0 <=> Readers = {}
<1>1. Readers \in SUBSET Threads
  BY DEF Readers
<1>2. IsFiniteSet(Readers)
  BY <1>1, ThreadsFinite, FS_Subset
<1> QED
  BY <1>2, FS_CardinalityType, FS_EmptySet

LEMMA RequestsType ==
    ASSUME NEW t \in Threads
    PROVE  Requests(t) \subseteq Request
BY DEF Requests, Request, ReaderOps, WriterOps

LEMMA MonitorInit == Init => MonitorInv
<1> SUFFICES ASSUME Init PROVE MonitorInv
  OBVIOUS
<1>1. Readers = {} /\ Writers = {} /\ Asleep = {}
  BY DEF Init, Readers, Writers, Asleep, Inside
<1>2. ActiveUsersExact
  BY <1>1, FS_EmptySet DEF Init, ActiveUsersExact
<1>3. call \in [Threads -> Request]
  BY DEF Init, NoRequest, Request, ReaderOps
<1>4. CallInv
  BY DEF Init, CallInv
<1>5. Exclusion /\ NoLostWakeup
  BY <1>1 DEF Exclusion, NoLostWakeup
<1> QED
  BY <1>2, <1>3, <1>4, <1>5 DEF Init, MonitorInv, PC

Inner == {"crit", "copy", "inc", "clear", "dec", "leave"}

(***************************************************************************)
(* A step of a thread that stays between the two locked sections.          *)
(***************************************************************************)
LEMMA MonitorInner ==
    ASSUME MonitorInv, NEW t \in Threads, NEW l \in Inner,
           pc[t] \in Inner, Goto(t, l),
           l \in {"copy", "inc"} => call[t].op = "write",
           l \in {"clear", "dec"} => call[t].op = "delete",
           UNCHANGED << activeUsers, call >>
    PROVE  MonitorInv'
<1> USE DEF MonitorInv, Goto, Inner
<1>1. pc' \in [Threads -> PC]
  BY DEF PC
<1>2. Readers' = Readers /\ Writers' = Writers /\ Asleep' = Asleep
  BY DEF Readers, Writers, Asleep, Inside
<1>3. CallInv'
  BY DEF CallInv
<1>4. Exclusion' /\ ActiveUsersExact'
  BY <1>2 DEF Exclusion, ActiveUsersExact
<1>5. NoLostWakeup'
  BY <1>2 DEF NoLostWakeup
<1> QED
  BY <1>1, <1>3, <1>4, <1>5

(***************************************************************************)
(* What activeUsers says about who is inside.                              *)
(***************************************************************************)
LEMMA ActiveUsersMeaning ==
    ASSUME MonitorInv
    PROVE  /\ activeUsers < 0 <=> Writers # {}
           /\ activeUsers = 0 <=> Writers = {} /\ Readers = {}
           /\ activeUsers >= -1
           /\ Readers # {} => activeUsers = Cardinality(Readers) /\ activeUsers > 0
<1>1. Writers # {} => Readers = {}
  BY DEF MonitorInv, Exclusion, Readers, Writers, ReaderOps, WriterOps
<1> QED
  BY <1>1, ReadersFinite DEF MonitorInv, ActiveUsersExact

LEMMA MonitorCall ==
    ASSUME MonitorInv, NEW t \in Threads, NEW c \in Requests(t), Call(t, c)
    PROVE  MonitorInv'
<1> USE DEF MonitorInv, Call, Goto
<1>1. pc' \in [Threads -> PC] /\ call' \in [Threads -> Request]
  BY RequestsType DEF PC
<1>2. Readers' = Readers /\ Writers' = Writers /\ Asleep' = Asleep
  BY DEF Readers, Writers, Asleep, Inside
<1>3. CallInv'
  BY DEF CallInv
<1>4. Exclusion' /\ ActiveUsersExact'
  BY <1>2 DEF Exclusion, ActiveUsersExact
<1>5. NoLostWakeup'
  BY <1>2 DEF NoLostWakeup, Asleep
<1> QED
  BY <1>1, <1>3, <1>4, <1>5

LEMMA MonitorSpurious ==
    ASSUME MonitorInv, NEW t \in Threads, SpuriousWakeup(t)
    PROVE  MonitorInv'
<1> USE DEF MonitorInv, SpuriousWakeup, Goto
<1>1. pc' \in [Threads -> PC] /\ pc'[t] = "lock"
  BY DEF PC
<1>2. Readers' = Readers /\ Writers' = Writers /\ Asleep' = Asleep \ {t}
  BY DEF Readers, Writers, Asleep, Inside
<1>3. CallInv'
  BY DEF CallInv
<1>4. Exclusion' /\ ActiveUsersExact'
  BY <1>2 DEF Exclusion, ActiveUsersExact
<1>5. NoLostWakeup'
  BY <1>1, <1>2 DEF NoLostWakeup, Asleep
<1> QED
  BY <1>1, <1>3, <1>4, <1>5

LEMMA MonitorSleep ==
    ASSUME MonitorInv, NEW t \in Threads, pc[t] = "lock", Goto(t, "asleep"),
           activeUsers # 0, call[t].op \in ReaderOps => activeUsers < 0,
           UNCHANGED << activeUsers, call >>
    PROVE  MonitorInv'
<1> USE DEF MonitorInv, Goto
<1>1. pc' \in [Threads -> PC]
  BY DEF PC
<1>2. Readers' = Readers /\ Writers' = Writers /\ Asleep' = Asleep \cup {t}
  BY DEF Readers, Writers, Asleep, Inside
<1>3. CallInv'
  BY DEF CallInv
<1>4. Exclusion' /\ ActiveUsersExact'
  BY <1>2 DEF Exclusion, ActiveUsersExact
<1>5. NoLostWakeup'
  BY <1>2, ActiveUsersMeaning DEF NoLostWakeup, Asleep
<1> QED
  BY <1>1, <1>3, <1>4, <1>5

LEMMA MonitorEnterReader ==
    ASSUME MonitorInv, NEW t \in Threads, EnterReader(t)
    PROVE  MonitorInv'
<1> USE DEF MonitorInv, EnterReader, Goto
<1>1. CASE activeUsers < 0
  BY <1>1, MonitorSleep
<1>2. CASE ~ (activeUsers < 0)
  <2>1. pc' \in [Threads -> PC] /\ pc' = [pc EXCEPT ![t] = "crit"]
    BY <1>2 DEF PC
  <2>2. /\ Readers' = Readers \cup {t} /\ t \notin Readers
        /\ Writers' = Writers /\ Asleep' = Asleep
    BY <2>1 DEF Readers, Writers, Asleep, Inside, ReaderOps, WriterOps
  <2>3. CallInv'
    BY <2>1 DEF CallInv
  <2>4. Writers = {}
    BY <1>2, ActiveUsersMeaning
  <2>5. Exclusion'
    BY <2>2, <2>4 DEF Exclusion
  <2>6. Cardinality(Readers') = Cardinality(Readers) + 1
    BY <2>2, ReadersFinite, FS_AddElement
  <2>7. ActiveUsersExact'
    BY <1>2, <2>2, <2>4, <2>6 DEF ActiveUsersExact
  <2>8. NoLostWakeup'
    BY <1>2, <2>2 DEF NoLostWakeup, Asleep
  <2> QED
    BY <1>2, <2>1, <2>3, <2>5, <2>7, <2>8
<1> QED
  BY <1>1, <1>2

LEMMA MonitorEnterWriter ==
    ASSUME MonitorInv, NEW t \in Threads, EnterWriter(t)
    PROVE  MonitorInv'
<1> USE DEF MonitorInv, EnterWriter, Goto
<1>1. CASE activeUsers # 0
  BY <1>1, MonitorSleep DEF ReaderOps, WriterOps
<1>2. CASE activeUsers = 0
  <2>1. pc' \in [Threads -> PC] /\ pc' = [pc EXCEPT ![t] = "crit"]
    BY <1>2 DEF PC
  <2>2. Writers = {} /\ Readers = {}
    BY <1>2, ActiveUsersMeaning
  <2>3. Readers' = {} /\ Writers' = {t} /\ Asleep' = Asleep
    BY <2>1, <2>2 DEF Readers, Writers, Asleep, Inside, ReaderOps, WriterOps
  <2>4. CallInv'
    BY <2>1 DEF CallInv
  <2>5. Exclusion' /\ ActiveUsersExact'
    BY <1>2, <2>3 DEF Exclusion, ActiveUsersExact
  <2>6. NoLostWakeup'
    BY <1>2, <2>3 DEF NoLostWakeup, Asleep
  <2> QED
    BY <1>2, <2>1, <2>4, <2>5, <2>6
<1> QED
  BY <1>1, <1>2

LEMMA MonitorLeaveReader ==
    ASSUME MonitorInv, NEW t \in Threads, LeaveReader(t)
    PROVE  MonitorInv'
<1> USE DEF MonitorInv, LeaveReader
<1>1. t \in Readers
  BY DEF Readers, Inside
<1>2. activeUsers > 0 /\ activeUsers = Cardinality(Readers) /\ Writers = {}
  BY <1>1, ActiveUsersMeaning
<1>3. \A u \in Asleep : call[u].op \notin ReaderOps
  BY <1>2 DEF NoLostWakeup
<1>4. /\ pc' \in [Threads -> PC] /\ pc'[t] = "return"
      /\ \A u \in Threads \ {t} :
            \/ pc'[u] = pc[u]
            \/ pc[u] = "asleep" /\ pc'[u] = "lock"
      /\ activeUsers' = 0 /\ Asleep # {} => \E u \in Threads : pc'[u] = "lock"
  <2>1. CASE Goto(t, "return") /\ (activeUsers' = 0 => Asleep = {})
    BY <2>1 DEF Goto, PC
  <2>2. CASE \E w \in Asleep : pc' = [pc EXCEPT ![t] = "return", ![w] = "lock"]
    <3>1. PICK w \in Asleep : pc' = [pc EXCEPT ![t] = "return", ![w] = "lock"]
      BY <2>2
    <3>2. w \in Threads /\ pc[w] = "asleep" /\ w # t
      BY DEF Asleep
    <3> QED
      BY <3>1, <3>2 DEF PC
  <2> QED
    BY <2>1, <2>2 DEF GotoAndSignal
<1>5. Readers' = Readers \ {t} /\ Writers' = {}
  BY <1>2, <1>4 DEF Readers, Writers, Inside
<1>6. Asleep' \subseteq Asleep
  BY <1>4 DEF Asleep
<1>7. CallInv'
  BY <1>4 DEF CallInv
<1>8. Exclusion'
  BY <1>5 DEF Exclusion
<1>9. ActiveUsersExact'
  BY <1>1, <1>2, <1>5, ReadersFinite, FS_RemoveElement DEF ActiveUsersExact
<1>10. NoLostWakeup'
  BY <1>3, <1>4, <1>6 DEF NoLostWakeup
<1> QED
  BY <1>4, <1>7, <1>8, <1>9, <1>10

LEMMA MonitorLeaveWriter ==
    ASSUME MonitorInv, NEW t \in Threads, LeaveWriter(t)
    PROVE  MonitorInv'
<1> USE DEF MonitorInv, LeaveWriter, GotoAndBroadcast
<1>1. t \in Writers
  BY DEF Writers, Inside
<1>2. Writers = {t} /\ Readers = {}
  BY <1>1 DEF Exclusion, Writers, Readers, ReaderOps, WriterOps
<1>3. pc' \in [Threads -> PC]
  BY DEF PC, Asleep
<1>4. Writers' = {} /\ Readers' = {} /\ Asleep' = {}
  BY <1>2, <1>3 DEF Writers, Readers, Asleep, Inside
<1>5. CallInv'
  BY DEF CallInv, Asleep
<1>6. Exclusion' /\ NoLostWakeup'
  BY <1>4 DEF Exclusion, NoLostWakeup
<1>7. ActiveUsersExact'
  BY <1>4, FS_EmptySet DEF ActiveUsersExact
<1> QED
  BY <1>3, <1>5, <1>6, <1>7

LEMMA MonitorReturn ==
    ASSUME MonitorInv, NEW t \in Threads, Return(t)
    PROVE  MonitorInv'
<1> USE DEF MonitorInv, Return, Goto
<1>1. pc' \in [Threads -> PC] /\ call' \in [Threads -> Request]
  BY DEF PC, NoRequest, Request, ReaderOps
<1>2. Readers' = Readers /\ Writers' = Writers /\ Asleep' = Asleep
  BY DEF Readers, Writers, Asleep, Inside
<1>3. CallInv'
  BY DEF CallInv
<1>4. Exclusion' /\ ActiveUsersExact'
  BY <1>2 DEF Exclusion, ActiveUsersExact
<1>5. NoLostWakeup'
  BY <1>2 DEF NoLostWakeup, Asleep
<1> QED
  BY <1>1, <1>3, <1>4, <1>5

LEMMA MonitorNext == MonitorInv /\ [Next]_vars => MonitorInv'
<1> SUFFICES ASSUME MonitorInv, [Next]_vars PROVE MonitorInv'
  OBVIOUS
<1>1. CASE UNCHANGED vars
  BY <1>1 DEF vars, MonitorInv, CallInv, Exclusion, ActiveUsersExact, NoLostWakeup,
              Readers, Writers, Asleep, Inside
<1>2. ASSUME NEW t \in Threads, NEW c \in Requests(t), Call(t, c) PROVE MonitorInv'
  BY <1>2, MonitorCall
<1>3. ASSUME NEW t \in Threads, SpuriousWakeup(t) PROVE MonitorInv'
  BY <1>3, MonitorSpurious
<1>4. ASSUME NEW t \in Threads, Step(t) PROVE MonitorInv'
  <2>1. CASE EnterReader(t)
    BY <2>1, MonitorEnterReader
  <2>2. CASE EnterWriter(t)
    BY <2>2, MonitorEnterWriter
  <2>3. CASE ReadBody(t)
    BY <2>3, MonitorInner DEF ReadBody, Inner
  <2>4. CASE DumpBody(t)
    <3>1. Goto(t, "leave") \/ Goto(t, "crit")
      BY <2>4 DEF DumpBody, Goto, MonitorInv
    <3> QED
      BY <2>4, <3>1, MonitorInner DEF DumpBody, Inner
  <2>5. CASE WriteFound(t) \/ WriteLink(t) \/ WriteFull(t)
    BY <2>5, MonitorInner DEF WriteFound, WriteLink, WriteFull, Inner
  <2>6. CASE WriteCopy(t) \/ WriteCount(t)
    BY <2>6, MonitorInner DEF WriteCopy, WriteCount, Inner
  <2>7. CASE DeleteMissing(t) \/ DeleteHead(t) \/ DeleteInner(t)
    BY <2>7, MonitorInner DEF DeleteMissing, DeleteHead, DeleteInner, Inner
  <2>8. CASE DeleteClear(t) \/ DeleteCount(t)
    <3>1. call[t].op = "delete"
      BY <2>8 DEF DeleteClear, DeleteCount, MonitorInv, CallInv
    <3> QED
      BY <2>8, <3>1, MonitorInner DEF DeleteClear, DeleteCount, Inner
  <2>9. CASE LeaveReader(t)
    BY <2>9, MonitorLeaveReader
  <2>10. CASE LeaveWriter(t)
    BY <2>10, MonitorLeaveWriter
  <2>11. CASE Return(t)
    BY <2>11, MonitorReturn
  <2> QED
    BY <1>4, <2>1, <2>2, <2>3, <2>4, <2>5, <2>6, <2>7, <2>8, <2>9, <2>10, <2>11
       DEF Step
<1> QED
  BY <1>1, <1>2, <1>3, <1>4 DEF Next

LEMMA MonitorAlways == Spec => []MonitorInv
BY MonitorInit, MonitorNext, PTL DEF Spec

(***************************************************************************)
(* The readers/writer protocol of kvstore.c excludes what it should, for   *)
(* any number of threads: a writer is alone between its two locked         *)
(* sections.                                                               *)
(***************************************************************************)
THEOREM MonitorCorrect == Spec => []Exclusion
BY MonitorAlways, PTL DEF MonitorInv

(***************************************************************************)
(* activeUsers counts the threads between the two locked sections of       *)
(* kv_read, kv_dump, kv_write and kv_delete, however many there are.       *)
(***************************************************************************)
THEOREM CountCorrect == Spec => []ActiveUsersExact
BY MonitorAlways, PTL DEF MonitorInv

(***************************************************************************)
(* kv_read's single signal and kv_write's broadcast never leave a sleeper  *)
(* that nobody is on the way to wake.                                      *)
(***************************************************************************)
THEOREM WakeupCorrect == Spec => []NoLostWakeup
BY MonitorAlways, PTL DEF MonitorInv

-----------------------------------------------------------------------------
(***************************************************************************)
(* The table.  A dump in progress has buckets left to print; a writer in   *)
(* the middle of its update finds its key there.                           *)
(***************************************************************************)
SeenShape ==
    \A t \in Threads :
        /\ call[t].op # "dump" => seen[t] = << >>
        /\ pc[t] \in {"idle", "lock", "asleep"} => seen[t] = << >>
        /\ pc[t] = "crit" => Len(seen[t]) < HB_MAX_SIZE

TableInv ==
    /\ TypeOK
    /\ SeenShape
    /\ ChainsWellFormed
    /\ \A t \in Threads :
          pc[t] \in {"copy", "clear"} => call[t].key \in Stored(table)
    /\ CapacityBound

LEMMA RequestFields ==
    ASSUME NEW t \in Threads, NEW c \in Requests(t)
    PROVE  /\ c.op \in {"read", "write", "delete"} => c.key \in Keys
           /\ c.op = "write" => c.val \in Vals
BY DEF Requests

\* While a writer is inside nobody else is, so that the number of uncounted
\* keys is known from its own pc.
LEMMA WriterAlone ==
    ASSUME MonitorInv, NEW t \in Writers
    PROVE  /\ \A u \in Threads \ {t} : pc[u] \notin Inner
           /\ Uncounted("inc") = IF pc[t] = "inc" THEN 1 ELSE 0
           /\ Uncounted("dec") = IF pc[t] = "dec" THEN 1 ELSE 0
<1>1. t \in Threads
  BY DEF Writers
<1>2. \A u \in Threads \ {t} : pc[u] \notin Inner
  <2> SUFFICES ASSUME NEW u \in Threads \ {t}, pc[u] \in Inner PROVE FALSE
    OBVIOUS
  <2>1. u \notin Readers \cup Writers
    BY <1>1 DEF MonitorInv, Exclusion
  <2>2. call[u].op \in ReaderOps \cup WriterOps
    BY DEF MonitorInv, Request
  <2> QED
    BY <2>1, <2>2 DEF Readers, Writers, Inside, Inner
<1> QED
  BY <1>1, <1>2 DEF Uncounted, Inner

LEMMA TableInit == Init => TableInv
<1> SUFFICES ASSUME Init PROVE TableInv
  OBVIOUS
<1>1. table \in Table /\ \A b \in Buckets : table[b] = << >>
  BY DEF Init, EmptyTable, Table
<1>2. TypeOK
  BY <1>1, MonitorInit DEF Init, TypeOK, MonitorInv
<1>3. ChainsWellFormed
  BY <1>1 DEF ChainsWellFormed, WellFormed
<1>4. Stored(table) = {}
  <2>1. ASSUME NEW k \in Keys PROVE k \notin Stored(table)
    <3>1. Hash[k] \in Buckets
      BY HashAssumption
    <3> QED
      BY <1>1, <3>1, StoredMeaning
  <2> QED
    BY <2>1 DEF Stored
<1>5. CapacityBound
  BY <1>4, SizesAssumption, FS_EmptySet DEF CapacityBound, Uncounted, Init
<1> QED
  BY <1>2, <1>3, <1>5 DEF TableInv, Init, SeenShape

(***************************************************************************)
(* A step that leaves the table and the counter alone.                     *)
(***************************************************************************)
LEMMA TableFrame ==
    ASSUME TableInv, MonitorInv', SeenShape', UNCHANGED << table, size >>,
           ptr' \in [Threads -> Pointer \cup {NULL}],
           ret' \in [Threads -> {0, 1}],
           seen' \in [Threads -> Seq(Seq(Entry))],
           \A u \in Threads : pc'[u] \in {"copy", "clear", "inc", "dec"}
                                => pc'[u] = pc[u] /\ call'[u] = call[u],
           \A u \in Threads : pc[u] \in {"inc", "dec"} => pc'[u] = pc[u]
    PROVE  TableInv'
<1>1. TypeOK'
  BY DEF TableInv, TypeOK, MonitorInv
<1>2. ChainsWellFormed'
  BY DEF TableInv, ChainsWellFormed
<1>3. \A t \in Threads : pc'[t] \in {"copy", "clear"} => call'[t].key \in Stored(table')
  BY DEF TableInv
<1>4. Uncounted("inc")' = Uncounted("inc") /\ Uncounted("dec")' = Uncounted("dec")
  BY DEF Uncounted
<1>5. CapacityBound'
  BY <1>4 DEF TableInv, CapacityBound
<1> QED
  BY <1>1, <1>2, <1>3, <1>5 DEF TableInv

LEMMA PointersToType ==
    ASSUME TypeOK, NEW S, NEW st \in {"live", "freed", "leaked"}
    PROVE  PointersTo(S, st) \in [Threads -> Pointer \cup {NULL}]
<1> SUFFICES ASSUME NEW t \in Threads, ptr[t] # NULL
             PROVE  [ptr[t] EXCEPT !.status = st] \in Pointer
  BY DEF PointersTo, TypeOK
<1>1. ptr[t] \in Pointer
  BY DEF TypeOK
<1> QED
  BY <1>1 DEF Pointer

(***************************************************************************)
(* A step of the writer inside: what it has to establish.                  *)
(***************************************************************************)
One(l, m) == IF l = m THEN 1 ELSE 0

LEMMA TableWriter ==
    ASSUME TableInv, MonitorInv, MonitorInv', NEW t \in Writers, NEW l \in Inner,
           Goto(t, l), UNCHANGED << call, seen >>,
           ptr' \in [Threads -> Pointer \cup {NULL}],
           ret' \in [Threads -> {0, 1}],
           table' \in Table, WellFormed(table'), size' \in Int,
           l \in {"copy", "clear"} => call[t].key \in Stored(table'),
           Cardinality(Stored(table')) + One(l, "dec") <= size' + One(l, "inc"),
           size' + One(l, "inc") <= TABLE_MAX
    PROVE  TableInv'
<1>1. t \in Threads /\ pc \in [Threads -> PC] /\ pc'[t] = l
      /\ \A u \in Threads \ {t} : pc'[u] = pc[u]
  BY DEF Writers, MonitorInv, Goto
<1>2. \A u \in Threads \ {t} : pc[u] \notin Inner
  BY WriterAlone
<1>3. TypeOK'
  BY DEF TableInv, TypeOK, MonitorInv
<1>4. \A u \in Threads : pc'[u] \in {"copy", "clear"} => call'[u].key \in Stored(table')
  BY <1>1, <1>2 DEF Inner
<1>5. Uncounted("inc")' = One(l, "inc") /\ Uncounted("dec")' = One(l, "dec")
  BY <1>1, <1>2 DEF Uncounted, One, Inner
<1>6. CapacityBound'
  BY <1>5 DEF CapacityBound
<1>7. SeenShape'
  <2>1. call[t].op # "dump"
    BY DEF Writers, WriterOps
  <2>2. Len(<< >>) < HB_MAX_SIZE
    BY SizesAssumption
  <2> QED
    BY <1>1, <2>1, <2>2 DEF TableInv, SeenShape, Inner
<1> QED
  BY <1>3, <1>4, <1>6, <1>7 DEF TableInv, ChainsWellFormed

LEMMA TableWriteStep ==
    ASSUME TableInv, MonitorInv, MonitorInv', NEW t \in Threads,
           \/ WriteFound(t) \/ WriteCopy(t) \/ WriteFull(t)
           \/ WriteLink(t)  \/ WriteCount(t)
    PROVE  TableInv'
<1> DEFINE k == call[t].key
           v == call[t].val
<1>1. call[t].op = "write" /\ pc[t] \in Inner /\ pc[t] # "idle" /\ pc[t] # "dec"
  BY DEF WriteFound, WriteCopy, WriteFull, WriteLink, WriteCount, Inner, MonitorInv, CallInv
<1>2. k \in Keys /\ v \in Vals
  BY <1>1, RequestFields DEF MonitorInv, CallInv
<1>3. t \in Writers
  BY <1>1 DEF Writers, Inside, Inner, WriterOps
<1>4. /\ table \in Table /\ WellFormed(table) /\ size \in Int /\ TypeOK
      /\ ret \in [Threads -> {0, 1}] /\ ptr \in [Threads -> Pointer \cup {NULL}]
  BY DEF TableInv, TypeOK, ChainsWellFormed
<1>5. /\ Cardinality(Stored(table)) \in Nat
      /\ Cardinality(Stored(table)) <= size + One(pc[t], "inc")
      /\ size + One(pc[t], "inc") <= TABLE_MAX
  BY <1>1, <1>3, StoredFinite, WriterAlone DEF TableInv, CapacityBound, One
<1>6. k \in Stored(table) <=> Find(table, k) # 0
  BY <1>2 DEF Stored
<1> HIDE DEF k, v
<1>7. CASE WriteFound(t)
  <2>1. k \in Stored(table) /\ table' = SetValue(table, k, FREED)
    BY <1>6, <1>7 DEF WriteFound, k
  <2>2. table' \in Table /\ WellFormed(table') /\ Stored(table') = Stored(table)
    BY <1>4, <2>1, SetValueProperties
  <2>3. ptr' \in [Threads -> Pointer \cup {NULL}] /\ ret' \in [Threads -> {0, 1}]
    BY <1>4, <1>7, PointersToType DEF WriteFound
  <2>4. size' = size /\ pc[t] = "crit" /\ Goto(t, "copy") /\ UNCHANGED << call, seen >>
    BY <1>7 DEF WriteFound
  <2>5. Cardinality(Stored(table')) + One("copy", "dec") <= size' + One("copy", "inc")
        /\ size' + One("copy", "inc") <= TABLE_MAX
    BY <1>4, <1>5, <2>2, <2>4 DEF One
  <2> QED
    BY <1>3, <1>4, <2>1, <2>2, <2>3, <2>4, <2>5, TableWriter DEF Inner, k
<1>8. CASE WriteCopy(t)
  <2>1. k \in Stored(table) /\ table' = SetValue(table, k, v)
    BY <1>8 DEF WriteCopy, TableInv, k, v
  <2>2. table' \in Table /\ WellFormed(table') /\ Stored(table') = Stored(table)
    BY <1>2, <1>4, <2>1, SetValueProperties
  <2> QED
    BY <1>3, <1>4, <1>5, <1>8, <2>2, TableWriter DEF WriteCopy, Inner, One
<1>9. CASE WriteFull(t)
  <2>1. ret' \in [Threads -> {0, 1}]
    BY <1>4, <1>9 DEF WriteFull
  <2> QED
    BY <1>3, <1>4, <1>5, <1>9, <2>1, TableWriter DEF WriteFull, Inner, One
<1>10. CASE WriteLink(t)
  <2>1. k \notin Stored(table) /\ table' = Prepend(table, k, v)
    BY <1>6, <1>10 DEF WriteLink, k, v
  <2>2. table' \in Table /\ WellFormed(table') /\ Stored(table') = Stored(table) \cup {k}
    BY <1>2, <1>4, <2>1, PrependProperties
  <2>3. Cardinality(Stored(table')) = Cardinality(Stored(table)) + 1
    BY <2>1, <2>2, StoredFinite, FS_AddElement
  <2>4. ret' \in [Threads -> {0, 1}]
    BY <1>4, <1>10 DEF WriteLink
  <2>5. size' = size /\ size # TABLE_MAX /\ pc[t] = "crit" /\ Goto(t, "inc")
        /\ UNCHANGED << call, ptr, seen >>
    BY <1>10 DEF WriteLink
  <2>6. Cardinality(Stored(table')) + One("inc", "dec") <= size' + One("inc", "inc")
        /\ size' + One("inc", "inc") <= TABLE_MAX
    BY <1>4, <1>5, <2>3, <2>5, SizesAssumption DEF One
  <2> QED
    BY <1>3, <1>4, <2>2, <2>4, <2>5, <2>6, TableWriter DEF Inner
<1>11. CASE WriteCount(t)
  <2>1. size' = size + 1 /\ pc[t] = "inc" /\ Goto(t, "leave")
        /\ UNCHANGED << table, call, ptr, ret, seen >>
    BY <1>11 DEF WriteCount
  <2>2. Cardinality(Stored(table')) + One("leave", "dec") <= size' + One("leave", "inc")
        /\ size' + One("leave", "inc") <= TABLE_MAX
    BY <1>4, <1>5, <2>1 DEF One
  <2> QED
    BY <1>3, <1>4, <2>1, <2>2, TableWriter DEF Inner
<1> QED
  BY <1>7, <1>8, <1>9, <1>10, <1>11

LEMMA TableDeleteStep ==
    ASSUME TableInv, MonitorInv, MonitorInv', NEW t \in Threads,
           \/ DeleteMissing(t) \/ DeleteHead(t) \/ DeleteClear(t)
           \/ DeleteInner(t)   \/ DeleteCount(t)
    PROVE  TableInv'
<1> DEFINE k == call[t].key
<1>1. call[t].op = "delete" /\ pc[t] \in Inner /\ pc[t] # "idle" /\ pc[t] # "inc"
  BY DEF DeleteMissing, DeleteHead, DeleteClear, DeleteInner, DeleteCount, Inner, MonitorInv, CallInv
<1>2. k \in Keys
  BY <1>1, RequestFields DEF MonitorInv, CallInv
<1>3. t \in Writers
  BY <1>1 DEF Writers, Inside, Inner, WriterOps
<1>4. /\ table \in Table /\ WellFormed(table) /\ size \in Int /\ TypeOK
      /\ ret \in [Threads -> {0, 1}] /\ ptr \in [Threads -> Pointer \cup {NULL}]
  BY DEF TableInv, TypeOK, ChainsWellFormed
<1>5. /\ Cardinality(Stored(table)) \in Nat
      /\ Cardinality(Stored(table)) + One(pc[t], "dec") <= size
      /\ size <= TABLE_MAX
  <2>1. Uncounted("inc") = 0 /\ Uncounted("dec") = One(pc[t], "dec")
    BY <1>1, <1>3, WriterAlone DEF One
  <2>2. /\ Cardinality(Stored(table)) + Uncounted("dec") <= size + Uncounted("inc")
        /\ size + Uncounted("inc") <= TABLE_MAX
    BY DEF TableInv, CapacityBound
  <2> QED
    BY <1>4, <2>1, <2>2, StoredFinite
<1>6. k \in Stored(table) <=> Find(table, k) # 0
  BY <1>2 DEF Stored
<1> HIDE DEF k
<1>7. CASE DeleteMissing(t)
  BY <1>3, <1>4, <1>5, <1>7, TableWriter DEF DeleteMissing, Inner, One
<1>8. CASE DeleteHead(t)
  <2>1. k \in Stored(table) /\ table' = SetValue(table, k, FREED)
    BY <1>6, <1>8 DEF DeleteHead, k
  <2>2. table' \in Table /\ WellFormed(table') /\ Stored(table') = Stored(table)
    BY <1>4, <2>1, SetValueProperties
  <2>3. ptr' \in [Threads -> Pointer \cup {NULL}]
    BY <1>4, <1>8, PointersToType DEF DeleteHead
  <2>4. size' = size /\ pc[t] = "crit" /\ Goto(t, "clear") /\ UNCHANGED << call, ret, seen >>
    BY <1>8 DEF DeleteHead
  <2>5. Cardinality(Stored(table')) + One("clear", "dec") <= size' + One("clear", "inc")
        /\ size' + One("clear", "inc") <= TABLE_MAX
    BY <1>4, <1>5, <2>2, <2>4 DEF One
  <2> QED
    BY <1>3, <1>4, <2>1, <2>2, <2>3, <2>4, <2>5, TableWriter DEF Inner, k
<1>9. CASE DeleteClear(t)
  <2>1. k \in Stored(table) /\ table' = DropChain(table, k)
    BY <1>9 DEF DeleteClear, TableInv, k
  <2>2. table' \in Table /\ WellFormed(table')
        /\ Stored(table') = {x \in Stored(table) : Hash[x] # Hash[k]}
    BY <1>2, <1>4, <2>1, DropChainProperties
  <2>3. Stored(table') \in SUBSET (Stored(table) \ {k})
    BY <2>2
  <2>4. Cardinality(Stored(table')) <= Cardinality(Stored(table)) - 1
    <3>1. IsFiniteSet(Stored(table) \ {k})
          /\ Cardinality(Stored(table) \ {k}) = Cardinality(Stored(table)) - 1
      BY <2>1, StoredFinite, FS_RemoveElement
    <3> QED
      BY <2>3, <3>1, FS_Subset
  <2>5. ptr' \in [Threads -> Pointer \cup {NULL}]
    BY <1>4, <1>9, PointersToType DEF DeleteClear
  <2>6. size' = size /\ pc[t] = "clear" /\ Goto(t, "dec") /\ UNCHANGED << call, ret, seen >>
    BY <1>9 DEF DeleteClear
  <2>7. Cardinality(Stored(table')) + One("dec", "dec") <= size' + One("dec", "inc")
        /\ size' + One("dec", "inc") <= TABLE_MAX
    BY <1>4, <1>5, <2>4, <2>6, StoredFinite DEF One
  <2> QED
    BY <1>3, <1>4, <2>2, <2>5, <2>6, <2>7, TableWriter DEF Inner
<1>10. CASE DeleteInner(t)
  <2>1. k \in Stored(table) /\ table' = Unlink(table, k)
    <3>1. Find(table, k) > 1
      BY <1>10 DEF DeleteInner, k
    <3> QED
      BY <1>6, <1>10, <3>1 DEF DeleteInner, k
  <2>2. table' \in Table /\ WellFormed(table') /\ Stored(table') = Stored(table) \ {k}
    BY <1>4, <2>1, UnlinkProperties
  <2>3. Cardinality(Stored(table')) = Cardinality(Stored(table)) - 1
    BY <2>1, <2>2, StoredFinite, FS_RemoveElement
  <2>4. ptr' \in [Threads -> Pointer \cup {NULL}]
    BY <1>4, <1>10, PointersToType DEF DeleteInner
  <2>5. size' = size /\ pc[t] = "crit" /\ Goto(t, "dec") /\ UNCHANGED << call, ret, seen >>
    BY <1>10 DEF DeleteInner
  <2>6. Cardinality(Stored(table')) + One("dec", "dec") <= size' + One("dec", "inc")
        /\ size' + One("dec", "inc") <= TABLE_MAX
    BY <1>4, <1>5, <2>3, <2>5 DEF One
  <2> QED
    BY <1>3, <1>4, <2>2, <2>4, <2>5, <2>6, TableWriter DEF Inner
<1>11. CASE DeleteCount(t)
  <2>1. size' = size - 1 /\ pc[t] = "dec" /\ Goto(t, "leave")
        /\ UNCHANGED << table, call, ptr, ret, seen >>
    BY <1>11 DEF DeleteCount
  <2>2. Cardinality(Stored(table')) + One("leave", "dec") <= size' + One("leave", "inc")
        /\ size' + One("leave", "inc") <= TABLE_MAX
    <3>1. One(pc[t], "dec") = 1 /\ One("leave", "dec") = 0 /\ One("leave", "inc") = 0
      BY <2>1 DEF One
    <3> QED
      BY <1>4, <1>5, <2>1, <3>1, SizesAssumption
  <2> QED
    BY <1>3, <1>4, <2>1, <2>2, TableWriter DEF Inner
<1> QED
  BY <1>7, <1>8, <1>9, <1>10, <1>11

LEMMA TableNext == TableInv /\ MonitorInv /\ [Next]_vars => TableInv'
<1> SUFFICES ASSUME TableInv, MonitorInv, [Next]_vars PROVE TableInv'
  OBVIOUS
<1>1. MonitorInv'
  BY MonitorNext
<1>2. pc \in [Threads -> PC] /\ call \in [Threads -> Request]
      /\ ptr \in [Threads -> Pointer \cup {NULL}] /\ ret \in [Threads -> {0, 1}]
      /\ seen \in [Threads -> Seq(Seq(Entry))] /\ table \in Table
  BY DEF TableInv, TypeOK
<1>3. CASE UNCHANGED vars
  <2>1. SeenShape'
    BY <1>3 DEF TableInv, SeenShape, vars
  <2> QED
    BY <1>1, <1>2, <1>3, <2>1, TableFrame DEF vars
<1>4. ASSUME NEW t \in Threads, NEW c \in Requests(t), Call(t, c) PROVE TableInv'
  <2>1. SeenShape'
    BY <1>2, <1>4 DEF TableInv, SeenShape, Call, Goto
  <2> QED
    BY <1>1, <1>2, <1>4, <2>1, TableFrame DEF Call, Goto
<1>5. ASSUME NEW t \in Threads, SpuriousWakeup(t) PROVE TableInv'
  <2>1. SeenShape'
    BY <1>2, <1>5 DEF TableInv, SeenShape, SpuriousWakeup, Goto
  <2> QED
    BY <1>1, <1>2, <1>5, <2>1, TableFrame DEF SpuriousWakeup, Goto
<1>6. ASSUME NEW t \in Threads, Step(t) PROVE TableInv'
  <2>1. CASE EnterReader(t)
    <3>1. Len(<< >>) < HB_MAX_SIZE
      BY SizesAssumption
    <3>2. SeenShape'
      BY <1>2, <2>1, <3>1 DEF TableInv, SeenShape, EnterReader, Goto
    <3> QED
      BY <1>1, <1>2, <2>1, <3>2, TableFrame DEF EnterReader, Goto
  <2>2. CASE EnterWriter(t)
    <3>1. Len(<< >>) < HB_MAX_SIZE
      BY SizesAssumption
    <3>2. SeenShape'
      BY <1>2, <2>2, <3>1 DEF TableInv, SeenShape, EnterWriter, Goto
    <3> QED
      BY <1>1, <1>2, <2>2, <3>2, TableFrame DEF EnterWriter, Goto
  <2>3. CASE ReadBody(t)
    <3>1. call[t].key \in Keys
      BY <2>3, RequestFields DEF ReadBody, MonitorInv, CallInv
    <3>2. Find(table, call[t].key) # 0 => ValueOf(table, call[t].key) \in Vals \cup {FREED}
      <4> DEFINE k == call[t].key
      <4>1. table[Hash[k]] \in Seq(Entry) /\ Find(table, k) \in 0 .. Len(table[Hash[k]])
        BY <1>2, <3>1, FindProperties
      <4>2. Find(table, k) # 0 => table[Hash[k]][Find(table, k)] \in Entry
        BY <4>1
      <4> QED
        BY <4>2 DEF ValueOf, Entry
    <3>3. ptr' \in [Threads -> Pointer \cup {NULL}]
      BY <1>2, <2>3, <3>1, <3>2 DEF ReadBody, Pointer
    <3>4. SeenShape'
      BY <1>2, <2>3 DEF TableInv, SeenShape, ReadBody, Goto
    <3> QED
      BY <1>1, <1>2, <2>3, <3>3, <3>4, TableFrame DEF ReadBody, Goto
  <2>4. CASE DumpBody(t)
    <3>1. Goto(t, "leave") \/ UNCHANGED pc
      BY <2>4 DEF DumpBody
    <3>2. seen' \in [Threads -> Seq(Seq(Entry))]
      <4>1. Len(seen[t]) \in Buckets
        BY <1>2, <2>4, SizesAssumption DEF DumpBody, TableInv, SeenShape, Buckets
      <4>2. table[Len(seen[t])] \in Seq(Entry)
        BY <1>2, <4>1 DEF Table
      <4> QED
        BY <1>2, <2>4, <4>2 DEF DumpBody
    <3>3. SeenShape'
      <4>1. Len(seen'[t]) = Len(seen[t]) + 1 /\ \A u \in Threads \ {t} : seen'[u] = seen[u]
        BY <1>2, <2>4 DEF DumpBody
      <4>2. Len(seen[t]) < HB_MAX_SIZE /\ Len(seen[t]) \in Nat
        BY <1>2, <2>4 DEF DumpBody, TableInv, SeenShape
      <4>3. pc'[t] = "crit" => Len(seen'[t]) < HB_MAX_SIZE
        BY <1>2, <2>4, <4>1, <4>2, SizesAssumption DEF DumpBody, Goto
      <4> QED
        BY <1>2, <2>4, <3>1, <4>1, <4>3 DEF TableInv, SeenShape, DumpBody, Goto
    <3> QED
      BY <1>1, <1>2, <2>4, <3>1, <3>2, <3>3, TableFrame DEF DumpBody, Goto
  <2>5. CASE \/ WriteFound(t) \/ WriteCopy(t) \/ WriteFull(t)
             \/ WriteLink(t)  \/ WriteCount(t)
    BY <1>1, <2>5, TableWriteStep
  <2>6. CASE \/ DeleteMissing(t) \/ DeleteHead(t) \/ DeleteClear(t)
             \/ DeleteInner(t)   \/ DeleteCount(t)
    BY <1>1, <2>6, TableDeleteStep
  <2>7. CASE LeaveReader(t)
    <3>1. \A u \in Threads :
             \/ pc'[u] = pc[u]
             \/ pc[u] = "leave" /\ pc'[u] = "return"
             \/ pc[u] = "asleep" /\ pc'[u] = "lock"
      <4>1. pc[t] = "leave"
        BY <2>7 DEF LeaveReader
      <4>2. CASE Goto(t, "return")
        BY <1>2, <4>1, <4>2 DEF Goto
      <4>3. CASE \E w \in Asleep : pc' = [pc EXCEPT ![t] = "return", ![w] = "lock"]
        BY <1>2, <4>1, <4>3 DEF Asleep
      <4> QED
        BY <2>7, <4>2, <4>3 DEF LeaveReader, GotoAndSignal
    <3>2. SeenShape'
      BY <2>7, <3>1 DEF TableInv, SeenShape, LeaveReader
    <3> QED
      BY <1>1, <1>2, <2>7, <3>1, <3>2, TableFrame DEF LeaveReader
  <2>8. CASE LeaveWriter(t)
    <3>1. SeenShape'
      BY <2>8 DEF TableInv, SeenShape, LeaveWriter, GotoAndBroadcast, Asleep
    <3> QED
      BY <1>1, <1>2, <2>8, <3>1, TableFrame DEF LeaveWriter, GotoAndBroadcast, Asleep
  <2>9. CASE Return(t)
    <3>1. /\ ptr' \in [Threads -> Pointer \cup {NULL}] /\ ret' \in [Threads -> {0, 1}]
          /\ seen' \in [Threads -> Seq(Seq(Entry))]
      BY <1>2, <2>9 DEF Return
    <3>2. SeenShape'
      BY <1>2, <2>9 DEF TableInv, SeenShape, Return, Goto
    <3> QED
      BY <1>1, <1>2, <2>9, <3>1, <3>2, TableFrame DEF Return, Goto
  <2> QED
    BY <1>6, <2>1, <2>2, <2>3, <2>4, <2>5, <2>6, <2>7, <2>8, <2>9 DEF Step
<1> QED
  BY <1>3, <1>4, <1>5, <1>6 DEF Next

LEMMA TableAlways == Spec => [](MonitorInv /\ TableInv)
BY MonitorInit, MonitorNext, TableInit, TableNext, PTL DEF Spec

(***************************************************************************)
(* Every variable keeps its type: in particular kv_dump never runs past    *)
(* the last bucket and kv_write returns 0 or 1.                            *)
(***************************************************************************)
THEOREM TypeCorrect == Spec => []TypeOK
BY TableAlways, PTL DEF TableInv

(***************************************************************************)
(* Whatever the hash function, a chain never holds a key twice or a key of *)
(* another bucket.                                                         *)
(***************************************************************************)
THEOREM ChainsCorrect == Spec => []ChainsWellFormed
BY TableAlways, PTL DEF TableInv

(***************************************************************************)
(* kv->size stays between the number of keys that can be found and         *)
(* TABLE_MAX, although kv_delete may drop a whole chain and counts one.    *)
(***************************************************************************)
THEOREM CapacityCorrect == Spec => []CapacityBound
BY TableAlways, PTL DEF TableInv

-----------------------------------------------------------------------------
(***************************************************************************)
(* What readers of the store see: kv_read and kv_dump walk the chains      *)
(* without the mutex and never meet a freed value or half of an update.    *)
(***************************************************************************)

\* A freed value in the table belongs to a writer between its free and the
\* assignment that follows.
FreedOwned ==
    \A b \in Buckets : \A i \in 1 .. Len(table[b]) :
        table[b][i].val = FREED =>
            \E t \in Threads :
                pc[t] \in {"copy", "clear"} /\ call[t].key = table[b][i].key

\* Only kv_read returns a pointer, at its end.
PointerShape ==
    \A t \in Threads :
        ptr[t] # NULL => pc[t] \in {"leave", "return"} /\ call[t].op = "read"

ReadInv ==
    /\ FreedOwned
    /\ PointerShape
    /\ NoFreedValueSeen
    /\ DumpIsSnapshot

LEMMA ReadInit == Init => ReadInv
<1> SUFFICES ASSUME Init PROVE ReadInv
  OBVIOUS
<1>1. FreedOwned
  BY DEF Init, EmptyTable, FreedOwned
<1>2. \A t \in Threads : ptr[t] = NULL /\ seen[t] = << >>
  BY DEF Init
<1> QED
  BY <1>1, <1>2, SizesAssumption
     DEF ReadInv, PointerShape, NoFreedValueSeen, DumpIsSnapshot

\* Without a writer inside, no value in the table is freed.
LEMMA ReaderSeesNoFreed ==
    ASSUME MonitorInv, FreedOwned, NEW t \in Readers
    PROVE  \A b \in Buckets : \A i \in 1 .. Len(table[b]) : table[b][i].val # FREED
<1> SUFFICES ASSUME NEW u \in Threads, pc[u] \in {"copy", "clear"} PROVE FALSE
  BY DEF FreedOwned
<1>1. call[u].op \in WriterOps /\ u \in Writers
  BY DEF MonitorInv, CallInv, Writers, Inside, WriterOps
<1>2. t \in Threads /\ call[t].op \in ReaderOps
  BY DEF Readers
<1>3. t # u
  BY <1>1, <1>2 DEF ReaderOps, WriterOps
<1> QED
  BY <1>1, <1>2, <1>3 DEF MonitorInv, Exclusion

(***************************************************************************)
(* A step that changes neither the table nor what was read: it may move    *)
(* threads, as long as one that comes in has read nothing yet.             *)
(***************************************************************************)
LEMMA ReadFrame ==
    ASSUME ReadInv, UNCHANGED << table, ptr, seen >>,
           \A u \in Threads : pc[u] \in {"copy", "clear"} => pc'[u] = pc[u] /\ call'[u] = call[u],
           \A u \in Threads : ptr[u] # NULL => pc'[u] \in {"leave", "return"} /\ call'[u] = call[u],
           \A u \in Threads : pc'[u] \in Inner => pc[u] \in Inner \/ seen[u] = << >>,
           \A u \in Threads : pc'[u] \in Inner /\ ptr[u] # NULL => pc[u] \in Inner
    PROVE  ReadInv'
<1>1. FreedOwned'
  BY DEF ReadInv, FreedOwned
<1>2. PointerShape'
  BY DEF ReadInv, PointerShape
<1>3. NoFreedValueSeen'
  BY DEF ReadInv, NoFreedValueSeen, Inside, Inner
<1>4. DumpIsSnapshot'
  BY DEF ReadInv, DumpIsSnapshot, Inside, Inner
<1> QED
  BY <1>1, <1>2, <1>3, <1>4 DEF ReadInv

(***************************************************************************)
(* A step of a writer inside: nobody who could see it is there.            *)
(***************************************************************************)
LEMMA ReadWriter ==
    ASSUME ReadInv, TableInv, MonitorInv, NEW t \in Writers, NEW l \in Inner,
           Goto(t, l), UNCHANGED << call, seen >>, FreedOwned',
           \/ UNCHANGED ptr
           \/ \E S, st : ptr' = PointersTo(S, st)
    PROVE  ReadInv'
<1>1. t \in Threads /\ call[t].op \in WriterOps /\ pc[t] \in Inner
      /\ pc' = [pc EXCEPT ![t] = l] /\ pc \in [Threads -> PC]
  BY DEF Writers, Inside, Inner, MonitorInv, Goto
<1>2. \A u \in Threads \ {t} : pc[u] \notin Inner /\ pc'[u] = pc[u]
  BY <1>1, WriterAlone
<1>3. ptr[t] = NULL /\ seen[t] = << >>
  BY <1>1 DEF ReadInv, PointerShape, TableInv, SeenShape, WriterOps
<1>4. \A u \in Threads :
         /\ ptr'[u] # NULL => ptr[u] # NULL /\ ptr'[u].val = ptr[u].val
         /\ ptr'[t] = NULL
  <2>1. CASE UNCHANGED ptr
    BY <1>3, <2>1
  <2>2. ASSUME NEW S, NEW st, ptr' = PointersTo(S, st)
        PROVE  \A u \in Threads :
                 /\ ptr'[u] # NULL => ptr[u] # NULL /\ ptr'[u].val = ptr[u].val
                 /\ ptr'[t] = NULL
    <3> SUFFICES ASSUME NEW u \in Threads
                 PROVE  /\ ptr'[u] # NULL => ptr[u] # NULL /\ ptr'[u].val = ptr[u].val
                        /\ ptr'[t] = NULL
      OBVIOUS
    <3>1. ptr[u] # NULL => ptr[u] \in Pointer
      BY DEF TableInv, TypeOK
    <3>2. ptr[u] \in Pointer => [ptr[u] EXCEPT !.status = st].val = ptr[u].val
      BY DEF Pointer
    <3> QED
      BY <1>1, <1>3, <2>2, <3>1, <3>2 DEF PointersTo
  <2> QED
    BY <2>1, <2>2
<1>5. PointerShape'
  BY <1>1, <1>2, <1>4 DEF ReadInv, PointerShape
<1>6. NoFreedValueSeen'
  BY <1>1, <1>2, <1>4 DEF ReadInv, NoFreedValueSeen, Inside, Inner
<1>7. DumpIsSnapshot'
  BY <1>1, <1>2, <1>3 DEF DumpIsSnapshot, Inside, Inner
<1> QED
  BY <1>5, <1>6, <1>7 DEF ReadInv

LEMMA ReadWriteStep ==
    ASSUME ReadInv, TableInv, MonitorInv, NEW t \in Threads,
           \/ WriteFound(t) \/ WriteCopy(t) \/ WriteFull(t)
           \/ WriteLink(t)  \/ WriteCount(t)
    PROVE  ReadInv'
<1> DEFINE k == call[t].key
           v == call[t].val
<1>1. call[t].op = "write" /\ pc[t] \in Inner /\ pc[t] # "idle" /\ pc[t] # "clear"
  BY DEF WriteFound, WriteCopy, WriteFull, WriteLink, WriteCount, Inner, MonitorInv, CallInv
<1>2. k \in Keys /\ v \in Vals /\ v # FREED
  BY <1>1, RequestFields, SentinelAssumption DEF MonitorInv, CallInv
<1>3. t \in Writers
  BY <1>1 DEF Writers, Inside, Inner, WriterOps
<1>4. table \in Table /\ WellFormed(table) /\ FreedOwned /\ pc \in [Threads -> PC]
  BY DEF TableInv, TypeOK, ChainsWellFormed, ReadInv
<1>5. \A u \in Threads \ {t} : pc[u] \notin {"copy", "clear"}
  BY <1>3, WriterAlone DEF Inner
<1>6. k \in Stored(table) <=> Find(table, k) # 0
  BY <1>2 DEF Stored
<1> HIDE DEF k, v
<1>7. CASE WriteFound(t)
  <2>1. k \in Stored(table) /\ table' = SetValue(table, k, FREED)
        /\ Goto(t, "copy") /\ pc[t] = "crit" /\ UNCHANGED << call, seen >>
        /\ ptr' = PointersTo({k}, "freed")
    BY <1>6, <1>7 DEF WriteFound, k
  <2>2. \A b \in Buckets :
           /\ Len(table'[b]) = Len(table[b])
           /\ \A i \in 1 .. Len(table[b]) :
                /\ table'[b][i].key = table[b][i].key
                /\ table'[b][i].val = IF table[b][i].key = k THEN FREED ELSE table[b][i].val
    BY <1>4, <2>1, SetValueProperties
  <2>3. \A b \in Buckets : \A i \in 1 .. Len(table[b]) : table[b][i].val # FREED
    BY <1>4, <1>5, <2>1 DEF FreedOwned
  <2>4. pc'[t] = "copy" /\ call'[t].key = k
    BY <1>4, <2>1 DEF Goto, k
  <2>5. FreedOwned'
    BY <2>2, <2>3, <2>4 DEF FreedOwned
  <2> QED
    BY <1>3, <2>1, <2>5, ReadWriter DEF Inner
<1>8. CASE WriteCopy(t)
  <2>1. k \in Stored(table) /\ table' = SetValue(table, k, v)
        /\ Goto(t, "leave") /\ UNCHANGED << call, seen, ptr >>
    BY <1>8 DEF WriteCopy, TableInv, k, v
  <2>2. \A b \in Buckets :
           /\ Len(table'[b]) = Len(table[b])
           /\ \A i \in 1 .. Len(table[b]) :
                /\ table'[b][i].key = table[b][i].key
                /\ table'[b][i].val = IF table[b][i].key = k THEN v ELSE table[b][i].val
    BY <1>2, <1>4, <2>1, SetValueProperties
  <2>3. \A b \in Buckets : \A i \in 1 .. Len(table[b]) :
           table[b][i].val = FREED => table[b][i].key = k
    BY <1>4, <1>5 DEF FreedOwned, k
  <2>4. FreedOwned'
    BY <1>2, <2>2, <2>3 DEF FreedOwned
  <2> QED
    BY <1>3, <2>1, <2>4, ReadWriter DEF Inner
<1>9. CASE WriteFull(t) \/ WriteCount(t)
  <2>1. Goto(t, "leave") /\ UNCHANGED << table, call, seen, ptr >> /\ pc[t] \in {"crit", "inc"}
    BY <1>9 DEF WriteFull, WriteCount
  <2>2. FreedOwned'
    BY <1>4, <1>5, <2>1 DEF FreedOwned
  <2> QED
    BY <1>3, <2>1, <2>2, ReadWriter DEF Inner
<1>10. CASE WriteLink(t)
  <2>1. k \notin Stored(table) /\ table' = Prepend(table, k, v)
        /\ Goto(t, "inc") /\ pc[t] = "crit" /\ UNCHANGED << call, seen, ptr >>
    BY <1>6, <1>10 DEF WriteLink, k, v
  <2>2. \A b \in Buckets : \A i \in 1 .. Len(table'[b]) :
           table'[b][i].val = FREED => \E j \in 1 .. Len(table[b]) : table[b][j] = table'[b][i]
    <3> DEFINE new == Prepend(table, k, v)
    <3>1. \A b \in Buckets : \A i \in 1 .. Len(new[b]) :
             new[b][i].val = FREED => \E j \in 1 .. Len(table[b]) : table[b][j] = new[b][i]
      BY <1>2, <1>4, <2>1, PrependProperties
    <3> HIDE DEF new
    <3>2. table' = new
      BY <2>1 DEF new
    <3> QED
      BY <3>1, <3>2
  <2>3. \A b \in Buckets : \A i \in 1 .. Len(table[b]) : table[b][i].val # FREED
    BY <1>4, <1>5, <2>1 DEF FreedOwned
  <2>4. FreedOwned'
    BY <2>2, <2>3 DEF FreedOwned
  <2> QED
    BY <1>3, <2>1, <2>4, ReadWriter DEF Inner
<1> QED
  BY <1>7, <1>8, <1>9, <1>10

LEMMA ReadDeleteStep ==
    ASSUME ReadInv, TableInv, MonitorInv, NEW t \in Threads,
           \/ DeleteMissing(t) \/ DeleteHead(t) \/ DeleteClear(t)
           \/ DeleteInner(t)   \/ DeleteCount(t)
    PROVE  ReadInv'
<1> DEFINE k == call[t].key
<1>1. call[t].op = "delete" /\ pc[t] \in Inner /\ pc[t] # "idle" /\ pc[t] # "copy"
  BY DEF DeleteMissing, DeleteHead, DeleteClear, DeleteInner, DeleteCount, Inner, MonitorInv, CallInv
<1>2. k \in Keys
  BY <1>1, RequestFields DEF MonitorInv, CallInv
<1>3. t \in Writers
  BY <1>1 DEF Writers, Inside, Inner, WriterOps
<1>4. table \in Table /\ WellFormed(table) /\ FreedOwned /\ pc \in [Threads -> PC]
  BY DEF TableInv, TypeOK, ChainsWellFormed, ReadInv
<1>5. \A u \in Threads \ {t} : pc[u] \notin {"copy", "clear"}
  BY <1>3, WriterAlone DEF Inner
<1>6. k \in Stored(table) <=> Find(table, k) # 0
  BY <1>2 DEF Stored
<1> HIDE DEF k
<1>7. CASE DeleteMissing(t) \/ DeleteCount(t)
  <2>1. Goto(t, "leave") /\ UNCHANGED << table, call, seen, ptr >> /\ pc[t] \in {"crit", "dec"}
    BY <1>7 DEF DeleteMissing, DeleteCount
  <2>2. FreedOwned'
    BY <1>4, <1>5, <2>1 DEF FreedOwned
  <2> QED
    BY <1>3, <2>1, <2>2, ReadWriter DEF Inner
<1>8. CASE DeleteHead(t)
  <2>1. k \in Stored(table) /\ table' = SetValue(table, k, FREED)
        /\ Goto(t, "clear") /\ pc[t] = "crit" /\ UNCHANGED << call, seen >>
        /\ ptr' = PointersTo({k}, "freed")
    BY <1>6, <1>8 DEF DeleteHead, k
  <2>2. \A b \in Buckets :
           /\ Len(table'[b]) = Len(table[b])
           /\ \A i \in 1 .. Len(table[b]) :
                /\ table'[b][i].key = table[b][i].key
                /\ table'[b][i].val = IF table[b][i].key = k THEN FREED ELSE table[b][i].val
    BY <1>4, <2>1, SetValueProperties
  <2>3. \A b \in Buckets : \A i \in 1 .. Len(table[b]) : table[b][i].val # FREED
    BY <1>4, <1>5, <2>1 DEF FreedOwned
  <2>4. pc'[t] = "clear" /\ call'[t].key = k
    BY <1>4, <2>1 DEF Goto, k
  <2>5. FreedOwned'
    BY <2>2, <2>3, <2>4 DEF FreedOwned
  <2> QED
    BY <1>3, <2>1, <2>5, ReadWriter DEF Inner
<1>9. CASE DeleteClear(t)
  <2>1. table' = DropChain(table, k) /\ Goto(t, "dec") /\ UNCHANGED << call, seen >>
        /\ ptr' = PointersTo({x \in Keys : Hash[x] = Hash[k]}, "leaked")
    BY <1>9 DEF DeleteClear, k
  <2>2. table'[Hash[k]] = << >> /\ \A b \in Buckets \ {Hash[k]} : table'[b] = table[b]
    BY <1>2, <1>4, <2>1, DropChainProperties
  <2>3. \A b \in Buckets : \A i \in 1 .. Len(table[b]) :
           table[b][i].val = FREED => table[b][i].key = k
    BY <1>4, <1>5 DEF FreedOwned, k
  <2>4. \A b \in Buckets : \A i \in 1 .. Len(table[b]) :
           table[b][i].val = FREED => b = Hash[k]
    BY <1>4, <2>3 DEF WellFormed
  <2>5. FreedOwned'
    BY <2>2, <2>4 DEF FreedOwned
  <2> QED
    BY <1>3, <2>1, <2>5, ReadWriter DEF Inner
<1>10. CASE DeleteInner(t)
  <2>1. table' = Unlink(table, k) /\ Goto(t, "dec") /\ UNCHANGED << call, seen >>
        /\ pc[t] = "crit" /\ ptr' = PointersTo({k}, "freed") /\ Find(table, k) > 1
    BY <1>10 DEF DeleteInner, k
  <2>2. k \in Stored(table)
    BY <1>6, <2>1
  <2>3. \A b \in Buckets : \A i \in 1 .. Len(table'[b]) :
           \E j \in 1 .. Len(table[b]) : table[b][j] = table'[b][i]
    BY <1>4, <2>1, <2>2, UnlinkProperties
  <2>4. \A b \in Buckets : \A i \in 1 .. Len(table[b]) : table[b][i].val # FREED
    BY <1>4, <1>5, <2>1 DEF FreedOwned
  <2>5. FreedOwned'
    BY <2>3, <2>4 DEF FreedOwned
  <2> QED
    BY <1>3, <2>1, <2>5, ReadWriter DEF Inner
<1> QED
  BY <1>7, <1>8, <1>9, <1>10

\* kv_read ends at a live value that is not freed.
LEMMA ReadReadBody ==
    ASSUME ReadInv, TableInv, MonitorInv, NEW t \in Threads, ReadBody(t)
    PROVE  ReadInv'
<1> DEFINE k == call[t].key
<1>1. /\ pc[t] = "crit" /\ call[t].op = "read" /\ k \in Keys
      /\ pc \in [Threads -> PC] /\ ptr \in [Threads -> Pointer \cup {NULL}]
      /\ table \in Table
  BY RequestFields DEF ReadBody, MonitorInv, CallInv, TableInv, TypeOK
<1>2. t \in Readers
  BY <1>1 DEF Readers, Inside, ReaderOps
<1>3. \A b \in Buckets : \A i \in 1 .. Len(table[b]) : table[b][i].val # FREED
  BY <1>2, ReaderSeesNoFreed DEF ReadInv
<1>4. ptr'[t] # NULL => ptr'[t].val # FREED /\ ptr'[t].status = "live"
  <2>1. Hash[k] \in Buckets /\ table[Hash[k]] \in Seq(Entry)
        /\ Find(table, k) \in 0 .. Len(table[Hash[k]])
    BY <1>1, FindProperties
  <2>2. Find(table, k) # 0 => ValueOf(table, k) # FREED
    BY <1>3, <2>1 DEF ValueOf
  <2> HIDE DEF k
  <2>3. ptr'[t] = IF Find(table, k) = 0 THEN NULL
                  ELSE [key |-> k, val |-> ValueOf(table, k), status |-> "live"]
    BY <1>1 DEF ReadBody, k
  <2> QED
    BY <2>2, <2>3
<1>5. /\ \A u \in Threads \ {t} : ptr'[u] = ptr[u] /\ pc'[u] = pc[u]
      /\ pc'[t] = "leave" /\ UNCHANGED << table, call, seen >>
  BY <1>1 DEF ReadBody, Goto
<1> HIDE DEF k
<1>6. FreedOwned'
  BY <1>1, <1>5 DEF ReadInv, FreedOwned
<1>7. PointerShape'
  BY <1>1, <1>5 DEF ReadInv, PointerShape
<1>8. NoFreedValueSeen'
  BY <1>1, <1>4, <1>5 DEF ReadInv, NoFreedValueSeen, Inside
<1>9. DumpIsSnapshot'
  BY <1>1, <1>5 DEF ReadInv, DumpIsSnapshot, Inside
<1> QED
  BY <1>6, <1>7, <1>8, <1>9 DEF ReadInv

\* kv_dump appends a bucket without freed values.
LEMMA ReadDumpBody ==
    ASSUME ReadInv, TableInv, MonitorInv, NEW t \in Threads, DumpBody(t)
    PROVE  ReadInv'
<1> DEFINE n == Len(seen[t])
<1>1. /\ pc[t] = "crit" /\ call[t].op = "dump" /\ pc \in [Threads -> PC]
      /\ seen \in [Threads -> Seq(Seq(Entry))] /\ table \in Table
      /\ n \in Nat /\ n < HB_MAX_SIZE
  BY DEF DumpBody, TableInv, SeenShape, TypeOK
<1>2. t \in Readers
  BY <1>1 DEF Readers, Inside, ReaderOps
<1>3. \A b \in Buckets : \A i \in 1 .. Len(table[b]) : table[b][i].val # FREED
  BY <1>2, ReaderSeesNoFreed DEF ReadInv
<1>4. n \in Buckets /\ table[n] \in Seq(Entry)
  BY <1>1, SizesAssumption DEF Buckets, Table
<1>5. /\ seen'[t] = Append(seen[t], table[n])
      /\ \A u \in Threads \ {t} : seen'[u] = seen[u] /\ pc'[u] = pc[u]
      /\ pc'[t] \in {"crit", "leave"} /\ UNCHANGED << table, call, ptr >>
  BY <1>1 DEF DumpBody, Goto
<1>6. /\ Len(seen'[t]) = n + 1 /\ seen'[t][n + 1] = table[n]
      /\ \A b \in 1 .. n : seen'[t][b] = seen[t][b]
  BY <1>1, <1>4, <1>5
<1>7. \A b \in 1 .. Len(seen'[t]) : b \in 1 .. n \/ b = n + 1
  BY <1>1, <1>6
<1>8. ptr[t] = NULL
  BY <1>1 DEF ReadInv, PointerShape
<1>9. FreedOwned'
  BY <1>1, <1>5, ZenonT(60) DEF ReadInv, FreedOwned
<1>10. PointerShape'
  BY <1>5, <1>8 DEF ReadInv, PointerShape
<1>11. NoFreedValueSeen'
  <2>1. \A u \in Threads : ptr'[u] # NULL =>
           ptr'[u].val # FREED /\ (Inside(u)' => ptr'[u].status = "live")
    BY <1>5, <1>8 DEF ReadInv, NoFreedValueSeen, Inside
  <2>2. \A b \in 1 .. Len(seen'[t]) : \A i \in 1 .. Len(seen'[t][b]) :
           seen'[t][b][i].val # FREED
    BY <1>3, <1>4, <1>6, <1>7, ZenonT(60) DEF ReadInv, NoFreedValueSeen
  <2>3. ASSUME NEW u \in Threads \ {t}
        PROVE  \A b \in 1 .. Len(seen'[u]) :
                 \A i \in 1 .. Len(seen'[u][b]) : seen'[u][b][i].val # FREED
    <3>1. seen'[u] = seen[u]
      BY <1>5
    <3>2. \A b \in 1 .. Len(seen[u]) :
             \A i \in 1 .. Len(seen[u][b]) : seen[u][b][i].val # FREED
      BY DEF ReadInv, NoFreedValueSeen
    <3> QED
      BY <3>1, <3>2
  <2> QED
    BY <2>1, <2>2, <2>3 DEF NoFreedValueSeen
<1>12. DumpIsSnapshot'
  <2>1. \A b \in 1 .. Len(seen'[t]) : seen'[t][b] = table'[b - 1]
    <3>1. \A b \in 1 .. n : seen[t][b] = table[b - 1]
      BY <1>1 DEF ReadInv, DumpIsSnapshot, Inside
    <3>2. n + 1 - 1 = n
      BY <1>1
    <3> QED
      BY <1>5, <1>6, <1>7, <3>1, <3>2
  <2>2. \A u \in Threads \ {t} : Inside(u)' =>
           \A b \in 1 .. Len(seen'[u]) : seen'[u][b] = table'[b - 1]
    BY <1>5 DEF ReadInv, DumpIsSnapshot, Inside
  <2> QED
    BY <2>1, <2>2 DEF DumpIsSnapshot
<1> QED
  BY <1>9, <1>10, <1>11, <1>12 DEF ReadInv

LEMMA ReadNext == ReadInv /\ TableInv /\ MonitorInv /\ [Next]_vars => ReadInv'
<1> SUFFICES ASSUME ReadInv, TableInv, MonitorInv, [Next]_vars PROVE ReadInv'
  OBVIOUS
<1>1. /\ pc \in [Threads -> PC] /\ call \in [Threads -> Request]
      /\ ptr \in [Threads -> Pointer \cup {NULL}] /\ seen \in [Threads -> Seq(Seq(Entry))]
  BY DEF TableInv, TypeOK
<1>2. \A u \in Threads :
         /\ pc[u] \in {"idle", "lock", "asleep"} => seen[u] = << >> /\ ptr[u] = NULL
         /\ ptr[u] # NULL => pc[u] \in {"leave", "return"}
  BY DEF TableInv, SeenShape, ReadInv, PointerShape
<1>3. CASE UNCHANGED vars
  BY <1>2, <1>3, ReadFrame DEF vars
<1>4. ASSUME NEW t \in Threads, NEW c \in Requests(t), Call(t, c) PROVE ReadInv'
  BY <1>1, <1>2, <1>4, ReadFrame DEF Call, Goto, Inner
<1>5. ASSUME NEW t \in Threads, SpuriousWakeup(t) PROVE ReadInv'
  BY <1>1, <1>2, <1>5, ReadFrame DEF SpuriousWakeup, Goto, Inner
<1>6. ASSUME NEW t \in Threads, Step(t) PROVE ReadInv'
  <2>1. CASE EnterReader(t)
    BY <1>1, <1>2, <2>1, ReadFrame DEF EnterReader, Goto, Inner
  <2>2. CASE EnterWriter(t)
    BY <1>1, <1>2, <2>2, ReadFrame DEF EnterWriter, Goto, Inner
  <2>3. CASE ReadBody(t)
    BY <2>3, ReadReadBody
  <2>4. CASE DumpBody(t)
    BY <2>4, ReadDumpBody
  <2>5. CASE \/ WriteFound(t) \/ WriteCopy(t) \/ WriteFull(t)
             \/ WriteLink(t)  \/ WriteCount(t)
    BY <2>5, ReadWriteStep
  <2>6. CASE \/ DeleteMissing(t) \/ DeleteHead(t) \/ DeleteClear(t)
             \/ DeleteInner(t)   \/ DeleteCount(t)
    BY <2>6, ReadDeleteStep
  <2>7. CASE LeaveReader(t)
    <3>1. \A u \in Threads :
             \/ pc'[u] = pc[u]
             \/ pc[u] = "leave" /\ pc'[u] = "return"
             \/ pc[u] = "asleep" /\ pc'[u] = "lock"
      <4>1. pc[t] = "leave"
        BY <2>7 DEF LeaveReader
      <4>2. CASE Goto(t, "return")
        BY <1>1, <4>1, <4>2 DEF Goto
      <4>3. CASE \E w \in Asleep : pc' = [pc EXCEPT ![t] = "return", ![w] = "lock"]
        BY <1>1, <4>1, <4>3 DEF Asleep
      <4> QED
        BY <2>7, <4>2, <4>3 DEF LeaveReader, GotoAndSignal
    <3> QED
      BY <1>2, <2>7, <3>1, ReadFrame DEF LeaveReader, Inner
  <2>8. CASE LeaveWriter(t)
    BY <1>2, <2>8, ReadFrame DEF LeaveWriter, GotoAndBroadcast, Asleep, Inner
  <2>9. CASE Return(t)
    <3>1. /\ pc[t] = "return" /\ pc'[t] = "idle" /\ ptr'[t] = NULL /\ seen'[t] = << >>
          /\ UNCHANGED table
          /\ \A u \in Threads \ {t} : pc'[u] = pc[u] /\ call'[u] = call[u]
                                      /\ ptr'[u] = ptr[u] /\ seen'[u] = seen[u]
      BY <1>1, <2>9 DEF Return, Goto
    <3>2. FreedOwned'
      BY <3>1 DEF ReadInv, FreedOwned
    <3>3. PointerShape'
      BY <3>1 DEF ReadInv, PointerShape
    <3>4. NoFreedValueSeen'
      <4>1. \A u \in Threads : ptr'[u] # NULL =>
               ptr'[u].val # FREED /\ (Inside(u)' => ptr'[u].status = "live")
        BY <3>1 DEF ReadInv, NoFreedValueSeen, Inside
      <4>2. ASSUME NEW u \in Threads
            PROVE  \A b \in 1 .. Len(seen'[u]) :
                     \A i \in 1 .. Len(seen'[u][b]) : seen'[u][b][i].val # FREED
        <5>1. CASE u = t
          BY <3>1, <5>1
        <5>2. CASE u # t
          <6>1. \A b \in 1 .. Len(seen[u]) :
                   \A i \in 1 .. Len(seen[u][b]) : seen[u][b][i].val # FREED
            BY DEF ReadInv, NoFreedValueSeen
          <6> QED
            BY <3>1, <5>2, <6>1
        <5> QED
          BY <5>1, <5>2
      <4> QED
        BY <4>1, <4>2 DEF NoFreedValueSeen
    <3>5. DumpIsSnapshot'
      BY <3>1 DEF ReadInv, DumpIsSnapshot, Inside
    <3> QED
      BY <3>2, <3>3, <3>4, <3>5 DEF ReadInv
  <2> QED
    BY <1>6, <2>1, <2>2, <2>3, <2>4, <2>5, <2>6, <2>7, <2>8, <2>9 DEF Step
<1> QED
  BY <1>3, <1>4, <1>5, <1>6 DEF Next

LEMMA ReadAlways == Spec => [](MonitorInv /\ TableInv /\ ReadInv)
BY MonitorInit, MonitorNext, TableInit, TableNext, ReadInit, ReadNext, PTL DEF Spec

(***************************************************************************)
(* kv_read and kv_dump never meet a value that kv_write or kv_delete has   *)
(* freed, and what kv_read found stays allocated until it leaves, for any  *)
(* number of threads and whatever shares a bucket.                         *)
(***************************************************************************)
THEOREM ReadsCorrect == Spec => []NoFreedValueSeen
BY ReadAlways, PTL DEF ReadInv

(***************************************************************************)
(* However many writers wait, the buckets kv_dump has printed are still    *)
(* what the store holds when it prints the last one.                       *)
(***************************************************************************)
THEOREM DumpCorrect == Spec => []DumpIsSnapshot
BY ReadAlways, PTL DEF ReadInv

-----------------------------------------------------------------------------
(***************************************************************************)
(* KVStore implements KVMap.  The refinement mapping depends on what the   *)
(* one writer inside is about to do, so that the proof uses the invariants *)
(* above throughout: a writer is alone, readers meet no freed value, and   *)
(* what kv_dump has printed is still there.                                *)
(***************************************************************************)
\* A nonzero return code is that of a kv_write about to return.
RetShape ==
    \A t \in Threads : ret[t] # 0 => pc[t] \in {"leave", "return"} /\ call[t].op = "write"

MapInv == MonitorInv /\ TableInv /\ ReadInv /\ RetShape

-----------------------------------------------------------------------------
(***************************************************************************)
(* The mapping as a function of a table, the threads' pcs and their calls, *)
(* so that what is shown of it holds before and after a step.              *)
(***************************************************************************)
MapOf(tb, p, c) ==
    [k \in Keys |->
        IF \E t \in Threads : p[t] = "copy" /\ c[t].key = k
        THEN c[CHOOSE t \in Threads : p[t] = "copy" /\ c[t].key = k].val
        ELSE IF \E t \in Threads : p[t] = "clear" /\ Hash[c[t].key] = Hash[k]
        THEN NULL
        ELSE ValueOf(tb, k)]

LEMMA AbsMapMeaning ==
    AbsMap = MapOf(table, pc, call) /\ AbsMap' = MapOf(table', pc', call')
BY DEF AbsMap, MapOf

\* Between updates the map is what a walk finds.
LEMMA MapQuiet ==
    ASSUME NEW tb, NEW p, NEW c,
           \A u \in Threads : p[u] \notin {"copy", "clear"}
    PROVE  MapOf(tb, p, c) = [k \in Keys |-> ValueOf(tb, k)]
<1>1. ASSUME NEW k \in Keys
      PROVE  /\ ~ \E t \in Threads : p[t] = "copy" /\ c[t].key = k
             /\ ~ \E t \in Threads : p[t] = "clear" /\ Hash[c[t].key] = Hash[k]
  OBVIOUS
<1> QED
  BY <1>1, Zenon DEF MapOf

\* A value on its way into its node is in the map already.
LEMMA MapCopy ==
    ASSUME NEW tb, NEW p, NEW c, NEW t \in Threads, p[t] = "copy",
           \A u \in Threads \ {t} : p[u] \notin {"copy", "clear"}
    PROVE  MapOf(tb, p, c) =
             [k \in Keys |-> IF k = c[t].key THEN c[t].val ELSE ValueOf(tb, k)]
<1>1. ASSUME NEW k \in Keys
      PROVE  MapOf(tb, p, c)[k] = IF k = c[t].key THEN c[t].val ELSE ValueOf(tb, k)
  <2>0. ~ \E u \in Threads : p[u] = "clear" /\ Hash[c[u].key] = Hash[k]
    OBVIOUS
  <2>1. CASE k = c[t].key
    <3> DEFINE w == CHOOSE u \in Threads : p[u] = "copy" /\ c[u].key = k
    <3>1. \E u \in Threads : p[u] = "copy" /\ c[u].key = k
      BY <2>1
    <3>2. w \in Threads /\ p[w] = "copy"
      BY <3>1, Zenon
    <3>3. w = t
      BY <3>2
    <3>4. MapOf(tb, p, c)[k] = c[w].val
      BY <3>1, Zenon DEF MapOf
    <3> QED
      BY <2>1, <3>3, <3>4, Zenon
  <2>2. CASE k # c[t].key
    <3>1. ~ \E u \in Threads : p[u] = "copy" /\ c[u].key = k
      BY <2>2
    <3> QED
      BY <2>0, <2>2, <3>1, Zenon DEF MapOf
  <2> QED
    BY <2>1, <2>2
<1>2. MapOf(tb, p, c) = [k \in Keys |-> MapOf(tb, p, c)[k]]
  BY Zenon DEF MapOf
<1> QED
  BY <1>1, <1>2, Zenon

\* A bucket about to be set to NULL is out of the map already.
LEMMA MapClear ==
    ASSUME NEW tb, NEW p, NEW c, NEW t \in Threads, p[t] = "clear",
           \A u \in Threads \ {t} : p[u] \notin {"copy", "clear"}
    PROVE  MapOf(tb, p, c) =
             [k \in Keys |-> IF Hash[k] = Hash[c[t].key] THEN NULL ELSE ValueOf(tb, k)]
<1>1. ASSUME NEW k \in Keys
      PROVE  MapOf(tb, p, c)[k] = IF Hash[k] = Hash[c[t].key] THEN NULL ELSE ValueOf(tb, k)
  <2>0. ~ \E u \in Threads : p[u] = "copy" /\ c[u].key = k
    OBVIOUS
  <2>1. CASE Hash[k] = Hash[c[t].key]
    <3>1. \E u \in Threads : p[u] = "clear" /\ Hash[c[u].key] = Hash[k]
      BY <2>1
    <3> QED
      BY <2>0, <2>1, <3>1, Zenon DEF MapOf
  <2>2. CASE Hash[k] # Hash[c[t].key]
    <3>1. ~ \E u \in Threads : p[u] = "clear" /\ Hash[c[u].key] = Hash[k]
      BY <2>2
    <3> QED
      BY <2>0, <2>2, <3>1, Zenon DEF MapOf
  <2> QED
    BY <2>1, <2>2
<1>2. MapOf(tb, p, c) = [k \in Keys |-> MapOf(tb, p, c)[k]]
  BY Zenon DEF MapOf
<1> QED
  BY <1>1, <1>2, Zenon

\* The map when nobody, or nobody but t, is in the middle of an update.
LEMMA MapBefore ==
    ASSUME MapInv, NEW t \in Threads, pc[t] = "crit"
    PROVE  /\ AbsMap = [k \in Keys |-> ValueOf(table, k)]
           /\ AbsCount = size /\ size \in Int
           /\ \A u \in Threads : pc[u] \notin {"copy", "inc", "clear", "dec"}
<1>1. \A u \in Threads : pc[u] \notin {"copy", "inc", "clear", "dec"}
  <2> SUFFICES ASSUME NEW u \in Threads, pc[u] \in {"copy", "inc", "clear", "dec"} PROVE FALSE
    OBVIOUS
  <2>1. u \in Writers
    BY DEF MapInv, MonitorInv, CallInv, Writers, Inside, WriterOps
  <2> QED
    BY <2>1, WriterAlone DEF MapInv, Inner
<1>2. AbsMap = [k \in Keys |-> ValueOf(table, k)]
  BY <1>1, AbsMapMeaning, MapQuiet
<1>3. Uncounted("inc") = 0 /\ Uncounted("dec") = 0 /\ Uncounted("clear") = 0
  BY <1>1 DEF Uncounted
<1>4. size \in Int
  BY DEF MapInv, TableInv, TypeOK
<1>5. AbsCount = size
  BY <1>3, <1>4 DEF AbsCount
<1> QED
  BY <1>1, <1>2, <1>4, <1>5

\* What t's step leaves of the count.
LEMMA CountAfter ==
    ASSUME NEW t \in Threads, \A u \in Threads \ {t} : pc'[u] \notin Inner, size' \in Int
    PROVE  AbsCount' = size' + One(pc'[t], "inc") - One(pc'[t], "dec") - One(pc'[t], "clear")
<1>1. /\ Uncounted("inc")' = One(pc'[t], "inc")
      /\ Uncounted("dec")' = One(pc'[t], "dec")
      /\ Uncounted("clear")' = One(pc'[t], "clear")
  BY DEF Uncounted, One, Inner
<1> QED
  BY <1>1 DEF AbsCount

LEMMA CountBefore ==
    ASSUME NEW t \in Threads, \A u \in Threads \ {t} : pc[u] \notin Inner, size \in Int
    PROVE  AbsCount = size + One(pc[t], "inc") - One(pc[t], "dec") - One(pc[t], "clear")
<1>1. /\ Uncounted("inc") = One(pc[t], "inc")
      /\ Uncounted("dec") = One(pc[t], "dec")
      /\ Uncounted("clear") = One(pc[t], "clear")
  BY DEF Uncounted, One, Inner
<1> QED
  BY <1>1 DEF AbsCount

-----------------------------------------------------------------------------
(***************************************************************************)
(* The return codes.                                                       *)
(***************************************************************************)
LEMMA RetNext ==
    ASSUME MonitorInv, TableInv, RetShape, [Next]_vars
    PROVE  RetShape'
<1>1. /\ pc \in [Threads -> PC] /\ call \in [Threads -> Request]
      /\ ret \in [Threads -> {0, 1}]
  BY DEF TableInv, TypeOK
<1>2. CASE UNCHANGED vars
  BY <1>2 DEF vars, RetShape
<1>3. ASSUME NEW t \in Threads, NEW c \in Requests(t), Call(t, c) PROVE RetShape'
  BY <1>1, <1>3 DEF Call, Goto, RetShape
<1>4. ASSUME NEW t \in Threads, SpuriousWakeup(t) PROVE RetShape'
  BY <1>1, <1>4 DEF SpuriousWakeup, Goto, RetShape
<1>5. ASSUME NEW t \in Threads, Step(t) PROVE RetShape'
  <2>1. CASE EnterReader(t) \/ EnterWriter(t)
    BY <1>1, <2>1 DEF EnterReader, EnterWriter, Goto, RetShape
  <2>2. CASE ReadBody(t) \/ DumpBody(t)
    BY <1>1, <2>2 DEF ReadBody, DumpBody, Goto, RetShape
  <2>3. CASE WriteFound(t) \/ WriteCopy(t) \/ WriteFull(t) \/ WriteLink(t) \/ WriteCount(t)
    BY <1>1, <2>3 DEF WriteFound, WriteCopy, WriteFull, WriteLink, WriteCount, Goto, RetShape
  <2>4. CASE DeleteMissing(t) \/ DeleteHead(t) \/ DeleteClear(t) \/ DeleteInner(t) \/ DeleteCount(t)
    BY <1>1, <2>4
    DEF DeleteMissing, DeleteHead, DeleteClear, DeleteInner, DeleteCount, Goto, RetShape
  <2>5. CASE LeaveReader(t)
    <3>1. \A u \in Threads : ret[u] # 0 => u # t /\ u \notin Asleep
      BY <2>5 DEF LeaveReader, ReaderOps, RetShape, Asleep
    <3>2. \A u \in Threads \ {t} : u \notin Asleep => pc'[u] = pc[u]
      <4>1. CASE Goto(t, "return")
        BY <1>1, <4>1 DEF Goto
      <4>2. CASE \E w \in Asleep : pc' = [pc EXCEPT ![t] = "return", ![w] = "lock"]
        BY <1>1, <4>2
      <4> QED
        BY <2>5, <4>1, <4>2 DEF LeaveReader, GotoAndSignal
    <3> QED
      BY <2>5, <3>1, <3>2 DEF LeaveReader, RetShape
  <2>6. CASE LeaveWriter(t)
    BY <2>6 DEF LeaveWriter, GotoAndBroadcast, Asleep, RetShape
  <2>7. CASE Return(t)
    BY <1>1, <2>7 DEF Return, Goto, RetShape
  <2> QED
    BY <1>5, <2>1, <2>2, <2>3, <2>4, <2>5, <2>6, <2>7 DEF Step
<1> QED
  BY <1>2, <1>3, <1>4, <1>5 DEF Next

LEMMA MapAlways == Spec => []MapInv
<1>1. Init => RetShape
  BY DEF Init, RetShape
<1> QED
  BY <1>1, RetNext, MonitorInit, MonitorNext, TableInit, TableNext, ReadInit, ReadNext, PTL
  DEF Spec, MapInv

-----------------------------------------------------------------------------
(***************************************************************************)
(* The shape of the abstract steps.                                        *)
(***************************************************************************)
\* Phase and result as functions of the variables they are read from.
PhaseIn(p, u) ==
    IF p[u] = "idle" THEN "idle"
    ELSE IF p[u] \in {"copy", "inc", "clear", "dec", "leave", "return"} THEN "done" ELSE "called"

ResIn(p, c, q, r, s, u) ==
    [val  |-> IF q[u] = NULL THEN NULL ELSE q[u].val,
     code |-> r[u],
     list |-> IF c[u].op = "dump" /\ p[u] \in {"copy", "inc", "clear", "dec", "leave", "return"}
              THEN ListOf(s[u]) ELSE NULL]

Res(u)     == ResIn(pc, call, ptr, ret, seen, u)
ResNext(u) == ResIn(pc', call', ptr', ret', seen', u)

\* The abstract variables before and after a step.
LEMMA AbsMeaning ==
    /\ [u \in Threads |-> PhaseOf(u)] = [u \in Threads |-> PhaseIn(pc, u)]
    /\ [u \in Threads |-> PhaseOf(u)]' = [u \in Threads |-> PhaseIn(pc', u)]
    /\ [u \in Threads |-> AbsRes(u)] = [u \in Threads |-> Res(u)]
    /\ [u \in Threads |-> AbsRes(u)]' = [u \in Threads |-> ResNext(u)]
BY DEF PhaseOf, PhaseIn, Effective, AbsRes, ResIn, Res, ResNext, ListOf

SameFor(u) == PhaseIn(pc', u) = PhaseIn(pc, u) /\ ResNext(u) = Res(u)

LEMMA MapStutter ==
    ASSUME AbsMap' = AbsMap, AbsCount' = AbsCount, UNCHANGED call,
           \A u \in Threads : SameFor(u)
    PROVE  UNCHANGED Map!vars
<1>1. [u \in Threads |-> PhaseIn(pc', u)] = [u \in Threads |-> PhaseIn(pc, u)]
  BY DEF SameFor
<1>2. [u \in Threads |-> ResNext(u)] = [u \in Threads |-> Res(u)]
  BY DEF SameFor
<1> QED
  BY <1>1, <1>2, AbsMeaning DEF Map!vars

LEMMA MapDone ==
    ASSUME NEW t \in Threads, PhaseIn(pc, t) = "called", PhaseIn(pc', t) = "done", UNCHANGED call,
           \A u \in Threads \ {t} : SameFor(u)
    PROVE  Map!Done(t, ResNext(t))
<1>1. [u \in Threads |-> PhaseIn(pc', u)] = [[u \in Threads |-> PhaseIn(pc, u)] EXCEPT ![t] = "done"]
  BY DEF SameFor
<1>2. [u \in Threads |-> ResNext(u)] = [[u \in Threads |-> Res(u)] EXCEPT ![t] = ResNext(t)]
  BY DEF SameFor
<1>3. [u \in Threads |-> PhaseIn(pc, u)][t] = "called"
  OBVIOUS
<1> QED
  BY <1>1, <1>2, <1>3, AbsMeaning DEF Map!Done

\* A thread keeps its phase and its result when its pointer keeps its value.
LEMMA MapSame ==
    ASSUME NEW u \in Threads, call'[u] = call[u], ret'[u] = ret[u],
           ptr'[u] = NULL <=> ptr[u] = NULL,
           ptr[u] # NULL => ptr'[u].val = ptr[u].val,
           \/ pc'[u] = pc[u] /\ (seen'[u] = seen[u] \/ pc[u] = "crit")
           \/ pc[u] \in {"lock", "asleep", "crit"} /\ pc'[u] \in {"lock", "asleep", "crit"}
           \/ /\ pc[u] \in {"copy", "inc", "clear", "dec", "leave", "return"}
              /\ pc'[u] \in {"copy", "inc", "clear", "dec", "leave", "return"}
              /\ seen'[u] = seen[u]
    PROVE  SameFor(u)
<1>1. PhaseIn(pc', u) = PhaseIn(pc, u)
  BY DEF PhaseIn
<1>2. ResNext(u) = Res(u)
  BY DEF ResNext, Res, ResIn
<1> QED
  BY <1>1, <1>2 DEF SameFor

\* Marking pointers as freed or leaked leaves the values read from them.
LEMMA PointersKept ==
    ASSUME TypeOK, NEW S, NEW st \in {"freed", "leaked"}, ptr' = PointersTo(S, st)
    PROVE  \A u \in Threads : /\ ptr'[u] = NULL <=> ptr[u] = NULL
                              /\ ptr[u] # NULL => ptr'[u].val = ptr[u].val
<1> SUFFICES ASSUME NEW u \in Threads
             PROVE  /\ ptr'[u] = NULL <=> ptr[u] = NULL
                    /\ ptr[u] # NULL => ptr'[u].val = ptr[u].val
  OBVIOUS
<1>1. ptr[u] # NULL => ptr[u] \in Pointer
  BY DEF TypeOK
<1>2. ptr[u] \in Pointer => [ptr[u] EXCEPT !.status = st] \in Pointer
                            /\ [ptr[u] EXCEPT !.status = st].val = ptr[u].val
  BY DEF Pointer
<1>3. ptr'[u] = ptr[u] \/ (ptr[u] # NULL /\ ptr'[u] = [ptr[u] EXCEPT !.status = st])
  BY DEF PointersTo
<1> QED
  BY <1>1, <1>2, <1>3, PointerAssumption

\* Nothing changes for the other threads in a step of the one writer inside.
LEMMA WriterOthers ==
    ASSUME MapInv, NEW t \in Writers, NEW l, Goto(t, l), UNCHANGED << call, seen >>,
           \A u \in Threads \ {t} : ret'[u] = ret[u],
           \A u \in Threads \ {t} : /\ ptr'[u] = NULL <=> ptr[u] = NULL
                                    /\ ptr[u] # NULL => ptr'[u].val = ptr[u].val
    PROVE  /\ \A u \in Threads \ {t} : SameFor(u) /\ pc'[u] = pc[u] /\ pc'[u] \notin Inner
           /\ pc'[t] = l
<1>1. t \in Threads /\ pc'[t] = l /\ \A u \in Threads \ {t} : pc'[u] = pc[u]
  BY DEF Writers, MapInv, MonitorInv, Goto
<1>2. \A u \in Threads \ {t} : pc[u] \notin Inner
  BY WriterAlone DEF MapInv
<1>3. \A u \in Threads \ {t} : SameFor(u)
  BY <1>1, MapSame
<1> QED
  BY <1>1, <1>2, <1>3

\* A step that leaves the table, and every thread in the middle of an update,
\* alone, leaves the map.
LEMMA MapFrame ==
    ASSUME MapInv, UNCHANGED << table, size >>,
           \A u \in Threads :
               pc[u] \in {"copy", "inc", "clear", "dec"} \/ pc'[u] \in {"copy", "inc", "clear", "dec"}
                   => pc'[u] = pc[u] /\ call'[u] = call[u]
    PROVE  AbsMap' = AbsMap /\ AbsCount' = AbsCount
<1>1. AbsCount' = AbsCount
  BY DEF AbsCount, Uncounted
<1>2. CASE \A u \in Threads : pc[u] \notin {"copy", "clear"}
  <2>1. \A u \in Threads : pc'[u] \notin {"copy", "clear"}
    BY <1>2
  <2>2. AbsMap = [k \in Keys |-> ValueOf(table, k)] /\ AbsMap' = [k \in Keys |-> ValueOf(table', k)]
    BY <1>2, <2>1, AbsMapMeaning, MapQuiet
  <2> QED
    BY <1>1, <2>2
<1>3. ASSUME NEW t \in Threads, pc[t] \in {"copy", "clear"} PROVE AbsMap' = AbsMap
  <2>1. t \in Writers
    BY <1>3 DEF MapInv, MonitorInv, CallInv, Writers, Inside, WriterOps
  <2>2. \A u \in Threads \ {t} : pc[u] \notin {"copy", "clear"} /\ pc'[u] \notin {"copy", "clear"}
    BY <2>1, WriterAlone DEF MapInv, Inner
  <2>3. pc'[t] = pc[t] /\ call'[t] = call[t]
    BY <1>3
  <2>4. CASE pc[t] = "copy"
    BY <2>2, <2>3, <2>4, AbsMapMeaning, MapCopy
  <2>5. CASE pc[t] = "clear"
    BY <2>2, <2>3, <2>5, AbsMapMeaning, MapClear
  <2> QED
    BY <1>3, <2>4, <2>5
<1> QED
  BY <1>1, <1>2, <1>3

-----------------------------------------------------------------------------
(***************************************************************************)
(* Step by step.                                                           *)
(***************************************************************************)
Simulated == Map!Next \/ UNCHANGED Map!vars

LEMMA MapInit == Init => Map!Init
<1> SUFFICES ASSUME Init PROVE Map!Init
  OBVIOUS
<1>1. \A t \in Threads : pc[t] = "idle" /\ ptr[t] = NULL /\ ret[t] = 0
  BY DEF Init
<1>2. table \in Table /\ WellFormed(table) /\ Stored(table) = {}
  <2>1. table \in Table /\ \A b \in Buckets : table[b] = << >>
    BY DEF Init, EmptyTable, Table
  <2>2. ASSUME NEW k \in Keys PROVE k \notin Stored(table)
    BY <2>1, StoredMeaning, HashAssumption
  <2> QED
    BY <2>1, <2>2 DEF WellFormed, Stored
<1>3. AbsMap = [k \in Keys |-> NULL]
  <2>1. AbsMap = [k \in Keys |-> ValueOf(table, k)]
    BY <1>1, AbsMapMeaning, MapQuiet
  <2>2. \A k \in Keys : ValueOf(table, k) = NULL
    BY <1>2, ValueOfMeaning
  <2> QED
    BY <2>1, <2>2
<1>4. AbsCount = 0
  <2>1. Uncounted("inc") = 0 /\ Uncounted("dec") = 0 /\ Uncounted("clear") = 0 /\ size = 0
    BY <1>1 DEF Uncounted, Init
  <2> QED
    BY <2>1 DEF AbsCount
<1>5. [t \in Threads |-> PhaseOf(t)] = [t \in Threads |-> "idle"]
  BY <1>1, AbsMeaning DEF PhaseIn
<1>6. [t \in Threads |-> AbsRes(t)] = [t \in Threads |-> Map!NoResult]
  <2>1. \A t \in Threads : Res(t) = Map!NoResult
    BY <1>1 DEF Res, ResIn, Map!NoResult
  <2> QED
    BY <2>1, AbsMeaning
<1>7. call = [t \in Threads |-> NoRequest]
  BY DEF Init
<1> QED
  BY <1>3, <1>4, <1>5, <1>6, <1>7 DEF Map!Init

\* A call begins, and its response is taken.
LEMMA MapCall ==
    ASSUME MapInv, NEW t \in Threads, NEW c \in Requests(t), Call(t, c)
    PROVE  Map!Invoke(t)
<1>1. /\ pc[t] = "idle" /\ pc'[t] = "lock" /\ call' = [call EXCEPT ![t] = c]
      /\ \A u \in Threads \ {t} : pc'[u] = pc[u] /\ call'[u] = call[u]
      /\ UNCHANGED << table, size, ptr, ret, seen >>
  BY DEF Call, Goto, MapInv, MonitorInv
<1>2. AbsMap' = AbsMap /\ AbsCount' = AbsCount
  BY <1>1, MapFrame
<1>3. \A u \in Threads \ {t} : SameFor(u)
  BY <1>1, MapSame
<1>4. ResNext(t) = Res(t)
  BY <1>1 DEF ResNext, Res, ResIn
<1>5. PhaseIn(pc, t) = "idle" /\ PhaseIn(pc', t) = "called"
  BY <1>1 DEF PhaseIn
<1>6. /\ [u \in Threads |-> PhaseIn(pc', u)] = [[u \in Threads |-> PhaseIn(pc, u)] EXCEPT ![t] = "called"]
      /\ [u \in Threads |-> ResNext(u)] = [u \in Threads |-> Res(u)]
      /\ [u \in Threads |-> PhaseIn(pc, u)][t] = "idle"
  BY <1>3, <1>4, <1>5 DEF SameFor
<1> QED
  BY <1>1, <1>2, <1>6, AbsMeaning DEF Map!Invoke

LEMMA MapReturn ==
    ASSUME MapInv, NEW t \in Threads, Return(t)
    PROVE  Map!Respond(t)
<1>1. /\ pc[t] = "return" /\ pc'[t] = "idle" /\ call' = [call EXCEPT ![t] = NoRequest]
      /\ ptr'[t] = NULL /\ ret'[t] = 0
      /\ \A u \in Threads \ {t} : /\ pc'[u] = pc[u] /\ call'[u] = call[u] /\ ptr'[u] = ptr[u]
                                  /\ ret'[u] = ret[u] /\ seen'[u] = seen[u]
      /\ UNCHANGED << table, size >>
  BY DEF Return, Goto, MapInv, MonitorInv, TableInv, TypeOK
<1>2. AbsMap' = AbsMap /\ AbsCount' = AbsCount
  BY <1>1, MapFrame
<1>3. \A u \in Threads \ {t} : SameFor(u)
  BY <1>1, MapSame
<1>4. ResNext(t) = Map!NoResult
  BY <1>1 DEF ResNext, ResIn, Map!NoResult
<1>5. PhaseIn(pc, t) = "done" /\ PhaseIn(pc', t) = "idle"
  BY <1>1 DEF PhaseIn
<1>6. /\ [u \in Threads |-> PhaseIn(pc', u)] = [[u \in Threads |-> PhaseIn(pc, u)] EXCEPT ![t] = "idle"]
      /\ [u \in Threads |-> ResNext(u)] = [[u \in Threads |-> Res(u)] EXCEPT ![t] = Map!NoResult]
      /\ [u \in Threads |-> PhaseIn(pc, u)][t] = "done"
  BY <1>3, <1>4, <1>5 DEF SameFor
<1> QED
  BY <1>1, <1>2, <1>6, AbsMeaning DEF Map!Respond

\* Waiting, entering and leaving the monitor are invisible.
LEMMA MapMonitor ==
    ASSUME MapInv, NEW t \in Threads,
           \/ SpuriousWakeup(t) \/ EnterReader(t) \/ EnterWriter(t)
           \/ LeaveReader(t) \/ LeaveWriter(t)
    PROVE  UNCHANGED Map!vars
<1>1. pc \in [Threads -> PC] /\ UNCHANGED << table, size, call, ptr, ret, seen >>
  BY DEF MapInv, MonitorInv, SpuriousWakeup, EnterReader, EnterWriter, LeaveReader, LeaveWriter
<1>2. \A u \in Threads :
         \/ pc'[u] = pc[u]
         \/ pc[u] \in {"lock", "asleep"} /\ pc'[u] \in {"lock", "asleep", "crit"}
         \/ pc[u] = "leave" /\ pc'[u] = "return"
  <2>1. CASE SpuriousWakeup(t) \/ EnterReader(t) \/ EnterWriter(t)
    BY <1>1, <2>1 DEF SpuriousWakeup, EnterReader, EnterWriter, Goto
  <2>2. CASE LeaveReader(t)
    <3>1. pc[t] = "leave"
      BY <2>2 DEF LeaveReader
    <3>2. CASE Goto(t, "return")
      BY <1>1, <3>1, <3>2 DEF Goto
    <3>3. CASE \E w \in Asleep : pc' = [pc EXCEPT ![t] = "return", ![w] = "lock"]
      BY <1>1, <3>1, <3>3 DEF Asleep
    <3> QED
      BY <2>2, <3>2, <3>3 DEF LeaveReader, GotoAndSignal
  <2>3. CASE LeaveWriter(t)
    BY <2>3 DEF LeaveWriter, GotoAndBroadcast, Asleep
  <2> QED
    BY <2>1, <2>2, <2>3
<1>3. AbsMap' = AbsMap /\ AbsCount' = AbsCount
  BY <1>1, <1>2, MapFrame
<1>4. \A u \in Threads : SameFor(u)
  BY <1>1, <1>2, MapSame
<1> QED
  BY <1>1, <1>3, <1>4, MapStutter

\* kv_read returns what the map has.
LEMMA MapRead ==
    ASSUME MapInv, NEW t \in Threads, ReadBody(t)
    PROVE  Map!Read(t)
<1> DEFINE k == call[t].key
           e == [key |-> k, val |-> ValueOf(table, k), status |-> "live"]
<1>1. /\ pc[t] = "crit" /\ call[t].op = "read" /\ k \in Keys /\ ret[t] = 0
      /\ table \in Table /\ WellFormed(table)
      /\ ptr \in [Threads -> Pointer \cup {NULL}]
  BY RequestFields
  DEF ReadBody, MapInv, MonitorInv, CallInv, TableInv, TypeOK, RetShape, ChainsWellFormed
<1>2. /\ pc'[t] = "leave" /\ UNCHANGED << table, size, call, ret, seen >>
      /\ \A u \in Threads \ {t} : pc'[u] = pc[u] /\ ptr'[u] = ptr[u]
  BY <1>1 DEF ReadBody, Goto, MapInv, MonitorInv
<1>3. ptr'[t] = IF Find(table, k) = 0 THEN NULL ELSE e
  BY <1>1 DEF ReadBody
<1>4. Find(table, k) # 0 => e # NULL
  <2> SUFFICES ASSUME Find(table, k) # 0 PROVE e # NULL
    OBVIOUS
  <2>1. Hash[k] \in Buckets /\ table[Hash[k]] \in Seq(Entry)
        /\ Find(table, k) \in 1 .. Len(table[Hash[k]])
    BY <1>1, FindProperties
  <2>2. table[Hash[k]][Find(table, k)] \in Entry
    BY <2>1
  <2>3. ValueOf(table, k) \in Vals \cup {FREED}
    BY <2>2 DEF ValueOf, Entry
  <2>4. e \in Pointer
    BY <1>1, <2>3 DEF Pointer
  <2> QED
    BY <2>4, PointerAssumption
<1>5. AbsMap = [x \in Keys |-> ValueOf(table, x)]
  BY <1>1, MapBefore
<1>6. AbsMap' = AbsMap /\ AbsCount' = AbsCount
  BY <1>1, <1>2, MapFrame
<1>7. \A u \in Threads \ {t} : SameFor(u)
  BY <1>2, MapSame
<1>8. ResNext(t) = [Map!NoResult EXCEPT !.val = AbsMap[k]]
  <2>1. AbsMap[k] = ValueOf(table, k)
    BY <1>1, <1>5
  <2>2. (IF ptr'[t] = NULL THEN NULL ELSE ptr'[t].val) = ValueOf(table, k)
    <3>1. CASE Find(table, k) = 0
      BY <1>3, <3>1 DEF ValueOf
    <3>2. CASE Find(table, k) # 0
      <4>1. ptr'[t] = e /\ e # NULL
        BY <1>3, <1>4, <3>2
      <4>2. e.val = ValueOf(table, k)
        OBVIOUS
      <4> HIDE DEF e
      <4> QED
        BY <4>1, <4>2
    <3> QED
      BY <3>1, <3>2
  <2>3. ResNext(t) = [val |-> ValueOf(table, k), code |-> 0, list |-> NULL]
    BY <1>1, <1>2, <2>2 DEF ResNext, ResIn
  <2> QED
    BY <2>1, <2>3 DEF Map!NoResult
<1>9. Map!Done(t, ResNext(t))
  BY <1>1, <1>2, <1>7, MapDone DEF PhaseIn
<1> QED
  BY <1>1, <1>6, <1>8, <1>9 DEF Map!Read

\* The last bucket kv_dump prints makes its listing the map.
LEMMA MapDump ==
    ASSUME MapInv, ReadInv', NEW t \in Threads, DumpBody(t)
    PROVE  Map!Dump(t) \/ UNCHANGED Map!vars
<1>1. /\ pc[t] = "crit" /\ call[t].op = "dump" /\ ret[t] = 0 /\ ptr[t] = NULL
      /\ table \in Table /\ seen \in [Threads -> Seq(Seq(Entry))] /\ pc \in [Threads -> PC]
  BY DEF DumpBody, MapInv, MonitorInv, ReadInv, PointerShape, RetShape, TableInv, TypeOK
<1>2. /\ UNCHANGED << table, size, call, ptr, ret >>
      /\ \A u \in Threads \ {t} : pc'[u] = pc[u] /\ seen'[u] = seen[u]
      /\ pc'[t] \in {"crit", "leave"}
      /\ pc'[t] = "leave" => Len(seen'[t]) = HB_MAX_SIZE
  BY <1>1 DEF DumpBody, Goto
<1>3. AbsMap' = AbsMap /\ AbsCount' = AbsCount
  BY <1>1, <1>2, MapFrame
<1>4. \A u \in Threads \ {t} : SameFor(u)
  BY <1>2, MapSame
<1>5. CASE pc'[t] = "crit"
  <2>1. SameFor(t)
    BY <1>1, <1>2, <1>5, MapSame
  <2> QED
    BY <1>2, <1>3, <1>4, <2>1, MapStutter
<1>6. CASE pc'[t] = "leave"
  <2>1. \A b \in 1 .. HB_MAX_SIZE : seen'[t][b] = table[b - 1]
    BY <1>2, <1>6 DEF ReadInv, DumpIsSnapshot, Inside
  <2>2. \A b \in Buckets : seen'[t][b + 1] = table[b]
    <3> SUFFICES ASSUME NEW b \in Buckets PROVE seen'[t][b + 1] = table[b]
      OBVIOUS
    <3>1. b + 1 \in 1 .. HB_MAX_SIZE /\ (b + 1) - 1 = b
      BY SizesAssumption DEF Buckets
    <3> QED
      BY <2>1, <3>1
  <2>3. [b \in Buckets |-> seen'[t][b + 1]] = table
    BY <1>1, <2>2 DEF Table
  <2>4. ListOf(seen'[t]) = [x \in Keys |-> ValueOf(table, x)]
    BY <2>3, Zenon DEF ListOf
  <2>5. AbsMap = [x \in Keys |-> ValueOf(table, x)]
    BY <1>1, MapBefore
  <2>6. ResNext(t) = [Map!NoResult EXCEPT !.list = AbsMap]
    BY <1>1, <1>2, <1>6, <2>4, <2>5 DEF ResNext, ResIn, Map!NoResult
  <2>7. Map!Done(t, ResNext(t))
    BY <1>1, <1>2, <1>4, <1>6, MapDone DEF PhaseIn
  <2> QED
    BY <1>1, <1>3, <2>6, <2>7 DEF Map!Dump
<1> QED
  BY <1>2, <1>5, <1>6

\* What the steps of a kv_write or kv_delete inside have in common.
LEMMA WriterInside ==
    ASSUME MapInv, NEW t \in Threads, pc[t] \in {"crit", "copy", "inc", "clear", "dec"},
           call[t].op \in WriterOps
    PROVE  /\ t \in Writers
           /\ call[t].key \in Keys /\ (call[t].op = "write" => call[t].val \in Vals)
           /\ ret[t] = 0 /\ ptr[t] = NULL /\ size \in Int
           /\ TypeOK /\ table \in Table /\ WellFormed(table)
           /\ \A u \in Threads \ {t} : pc[u] \notin Inner
<1>1. t \in Writers
  BY DEF Writers, Inside
<1>2. call[t] \in Requests(t)
  BY DEF MapInv, MonitorInv, CallInv
<1>3. call[t].key \in Keys /\ (call[t].op = "write" => call[t].val \in Vals)
  BY <1>2, RequestFields DEF WriterOps
<1>4. ret[t] = 0 /\ ptr[t] = NULL
  BY DEF MapInv, RetShape, ReadInv, PointerShape
<1>5. TypeOK /\ table \in Table /\ WellFormed(table) /\ size \in Int
  BY DEF MapInv, TableInv, TypeOK, ChainsWellFormed
<1> QED
  BY <1>1, <1>3, <1>4, <1>5, WriterAlone DEF MapInv

\* The result of a writer.
LEMMA WriterResult ==
    ASSUME NEW t \in Threads, ptr'[t] = NULL, call'[t].op \in WriterOps
    PROVE  /\ ret'[t] = 0 => ResNext(t) = Map!NoResult
           /\ ret'[t] = 1 => ResNext(t) = [Map!NoResult EXCEPT !.code = 1]
BY DEF ResNext, ResIn, Map!NoResult, WriterOps

\* The keys of the map are those stored, and the old value of one is replaced.
LEMMA MapWriteFound ==
    ASSUME MapInv, NEW t \in Threads, WriteFound(t)
    PROVE  Map!Write(t)
<1> DEFINE k == call[t].key
           v == call[t].val
<1>1. pc[t] = "crit" /\ call[t].op = "write" /\ call[t].op \in WriterOps
  BY DEF WriteFound, WriterOps
<1>2. /\ t \in Writers /\ k \in Keys /\ v \in Vals /\ ptr[t] = NULL
      /\ TypeOK /\ table \in Table /\ WellFormed(table) /\ size \in Int
  BY <1>1, WriterInside
<1>3. /\ k \in Stored(table) /\ table' = SetValue(table, k, FREED)
      /\ ptr' = PointersTo({k}, "freed") /\ ret'[t] = 0 /\ Goto(t, "copy")
      /\ UNCHANGED << size, call, seen >>
      /\ \A u \in Threads \ {t} : ret'[u] = ret[u]
  BY <1>2 DEF WriteFound, Stored, TypeOK
<1>4. /\ \A u \in Threads \ {t} : SameFor(u) /\ pc'[u] = pc[u] /\ pc'[u] \notin Inner
      /\ pc'[t] = "copy" /\ ptr'[t] = NULL
  BY <1>2, <1>3, PointersKept, WriterOthers
<1> HIDE DEF k, v
<1>5. AbsMap = [x \in Keys |-> ValueOf(table, x)] /\ AbsCount = size
  BY <1>1, MapBefore
<1>6. AbsMap' = [x \in Keys |-> IF x = k THEN v ELSE ValueOf(table, x)]
  <2>1. AbsMap' = [x \in Keys |-> IF x = k THEN v ELSE ValueOf(table', x)]
    <3>1. \A u \in Threads \ {t} : pc'[u] \notin {"copy", "clear"}
      BY <1>4 DEF Inner
    <3>2. MapOf(table', pc', call') =
            [x \in Keys |-> IF x = call'[t].key THEN call'[t].val ELSE ValueOf(table', x)]
      BY <1>4, <3>1, MapCopy
    <3>3. call'[t].key = k /\ call'[t].val = v
      BY <1>3 DEF k, v
    <3> QED
      BY <3>2, <3>3, AbsMapMeaning
  <2>2. \A x \in Keys : x # k => ValueOf(table', x) = ValueOf(table, x)
    BY <1>2, <1>3, SetValueValue
  <2> QED
    BY <2>1, <2>2
<1>7. AbsCount' = AbsCount
  <2>1. AbsCount' = size' + One("copy", "inc") - One("copy", "dec") - One("copy", "clear")
    BY <1>2, <1>3, <1>4, CountAfter
  <2> QED
    BY <1>2, <1>3, <1>5, <2>1 DEF One
<1>8. AbsMap' = [AbsMap EXCEPT ![k] = v]
  BY <1>5, <1>6
<1>9. k \in Map!Present
  BY <1>2, <1>3, <1>5, ValueOfMeaning DEF Map!Present
<1>10. Map!Done(t, Map!NoResult)
  <2>1. ResNext(t) = Map!NoResult
    BY <1>1, <1>3, <1>4, WriterResult
  <2> QED
    BY <1>1, <1>3, <1>4, <2>1, MapDone DEF PhaseIn
<1> QED
  BY <1>1, <1>7, <1>8, <1>9, <1>10 DEF Map!Write, k, v

LEMMA MapWriteLink ==
    ASSUME MapInv, NEW t \in Threads, WriteLink(t)
    PROVE  Map!Write(t)
<1> DEFINE k == call[t].key
           v == call[t].val
<1>1. pc[t] = "crit" /\ call[t].op = "write" /\ call[t].op \in WriterOps
  BY DEF WriteLink, WriterOps
<1>2. /\ t \in Writers /\ k \in Keys /\ v \in Vals /\ ptr[t] = NULL
      /\ TypeOK /\ table \in Table /\ WellFormed(table) /\ size \in Int
  BY <1>1, WriterInside
<1>3. /\ k \notin Stored(table) /\ table' = Prepend(table, k, v) /\ size # TABLE_MAX
      /\ ret'[t] = 0 /\ Goto(t, "inc")
      /\ UNCHANGED << size, call, seen, ptr >>
      /\ \A u \in Threads \ {t} : ret'[u] = ret[u]
  BY <1>2 DEF WriteLink, Stored, TypeOK
<1>4. /\ \A u \in Threads \ {t} : SameFor(u) /\ pc'[u] = pc[u] /\ pc'[u] \notin Inner
      /\ pc'[t] = "inc" /\ ptr'[t] = NULL
  BY <1>2, <1>3, WriterOthers
<1> HIDE DEF k, v
<1>5. AbsMap = [x \in Keys |-> ValueOf(table, x)] /\ AbsCount = size
      /\ \A u \in Threads : pc[u] \notin {"copy", "inc", "clear", "dec"}
  BY <1>1, MapBefore
<1>6. AbsMap' = [x \in Keys |-> IF x = k THEN v ELSE ValueOf(table, x)]
  <2>1. AbsMap' = [x \in Keys |-> ValueOf(table', x)]
    BY <1>4, AbsMapMeaning, MapQuiet DEF Inner
  <2>2. \A x \in Keys : ValueOf(table', x) = IF x = k THEN v ELSE ValueOf(table, x)
    BY <1>2, <1>3, PrependValue
  <2> QED
    BY <2>1, <2>2
<1>7. AbsCount' = AbsCount + 1
  <2>1. AbsCount' = size' + One("inc", "inc") - One("inc", "dec") - One("inc", "clear")
    BY <1>2, <1>3, <1>4, CountAfter
  <2> QED
    BY <1>2, <1>3, <1>5, <2>1 DEF One
<1>8. AbsMap' = [AbsMap EXCEPT ![k] = v]
  BY <1>5, <1>6
<1>9. k \notin Map!Present
  BY <1>2, <1>3, <1>5, ValueOfMeaning DEF Map!Present
<1>10. AbsCount < TABLE_MAX
  <2>1. Uncounted("inc") = 0
    BY <1>5 DEF Uncounted
  <2>2. size + 0 <= TABLE_MAX
    BY <2>1 DEF MapInv, TableInv, CapacityBound
  <2> QED
    BY <1>2, <1>3, <1>5, <2>2, SizesAssumption
<1>11. Map!Done(t, Map!NoResult)
  <2>1. ResNext(t) = Map!NoResult
    BY <1>1, <1>3, <1>4, WriterResult
  <2> QED
    BY <1>1, <1>3, <1>4, <2>1, MapDone DEF PhaseIn
<1> QED
  BY <1>1, <1>7, <1>8, <1>9, <1>10, <1>11 DEF Map!Write, k, v

LEMMA MapWriteFull ==
    ASSUME MapInv, NEW t \in Threads, WriteFull(t)
    PROVE  Map!Refuse(t)
<1> DEFINE k == call[t].key
<1>1. pc[t] = "crit" /\ call[t].op = "write" /\ call[t].op \in WriterOps
  BY DEF WriteFull, WriterOps
<1>2. /\ t \in Writers /\ k \in Keys /\ ptr[t] = NULL
      /\ TypeOK /\ table \in Table /\ WellFormed(table) /\ size \in Int
  BY <1>1, WriterInside
<1>3. /\ k \notin Stored(table) /\ size = TABLE_MAX
      /\ ret'[t] = 1 /\ Goto(t, "leave")
      /\ UNCHANGED << table, size, call, seen, ptr >>
      /\ \A u \in Threads \ {t} : ret'[u] = ret[u]
  BY <1>2 DEF WriteFull, Stored, TypeOK
<1>4. /\ \A u \in Threads \ {t} : SameFor(u) /\ pc'[u] = pc[u]
      /\ pc'[t] = "leave" /\ ptr'[t] = NULL
  BY <1>2, <1>3, WriterOthers
<1> HIDE DEF k
<1>5. AbsMap = [x \in Keys |-> ValueOf(table, x)] /\ AbsCount = size
  BY <1>1, MapBefore
<1>6. AbsMap' = AbsMap /\ AbsCount' = AbsCount
  BY <1>1, <1>3, <1>4, MapFrame
<1>7. k \notin Map!Present
  BY <1>2, <1>3, <1>5, ValueOfMeaning DEF Map!Present
<1>8. Map!Done(t, [Map!NoResult EXCEPT !.code = 1])
  <2>1. ResNext(t) = [Map!NoResult EXCEPT !.code = 1]
    BY <1>1, <1>3, <1>4, WriterResult
  <2> QED
    BY <1>1, <1>3, <1>4, <2>1, MapDone DEF PhaseIn
<1> QED
  BY <1>1, <1>3, <1>5, <1>6, <1>7, <1>8 DEF Map!Refuse, k

\* The copy fills the node whose value the map has already.
LEMMA MapWriteCopy ==
    ASSUME MapInv, NEW t \in Threads, WriteCopy(t)
    PROVE  UNCHANGED Map!vars
<1> DEFINE k == call[t].key
           v == call[t].val
<1>1. pc[t] = "copy" /\ call[t].op = "write" /\ call[t].op \in WriterOps
  BY DEF WriteCopy, WriterOps, MapInv, MonitorInv, CallInv
<1>2. /\ t \in Writers /\ k \in Keys /\ v \in Vals
      /\ TypeOK /\ table \in Table /\ WellFormed(table) /\ size \in Int
      /\ \A u \in Threads \ {t} : pc[u] \notin Inner
  BY <1>1, WriterInside
<1>3. /\ k \in Stored(table) /\ table' = SetValue(table, k, v) /\ Goto(t, "leave")
      /\ UNCHANGED << size, call, seen, ptr, ret >>
  BY <1>1 DEF WriteCopy, MapInv, TableInv
<1>4. /\ \A u \in Threads \ {t} : SameFor(u) /\ pc'[u] = pc[u] /\ pc'[u] \notin Inner
      /\ pc'[t] = "leave"
  BY <1>2, <1>3, WriterOthers
<1>5. SameFor(t)
  BY <1>1, <1>3, <1>4, MapSame
<1>6. AbsMap = [x \in Keys |-> IF x = k THEN v ELSE ValueOf(table, x)]
  BY <1>1, <1>2, AbsMapMeaning, MapCopy DEF Inner
<1> HIDE DEF k, v
<1>7. AbsMap' = AbsMap
  <2>1. AbsMap' = [x \in Keys |-> ValueOf(table', x)]
    BY <1>4, AbsMapMeaning, MapQuiet DEF Inner
  <2>2. \A x \in Keys : ValueOf(table', x) = IF x = k THEN v ELSE ValueOf(table, x)
    BY <1>2, <1>3, SetValueValue
  <2> QED
    BY <1>6, <2>1, <2>2
<1>8. AbsCount' = AbsCount
  <2>1. AbsCount' = size' + One("leave", "inc") - One("leave", "dec") - One("leave", "clear")
    BY <1>2, <1>3, <1>4, CountAfter
  <2>2. AbsCount = size + One("copy", "inc") - One("copy", "dec") - One("copy", "clear")
    BY <1>1, <1>2, CountBefore
  <2> QED
    BY <1>2, <1>3, <2>1, <2>2 DEF One
<1> QED
  BY <1>3, <1>4, <1>5, <1>7, <1>8, MapStutter

\* The table changes before size does; the map has counted already.
LEMMA MapCounted ==
    ASSUME MapInv, NEW t \in Threads, WriteCount(t) \/ DeleteCount(t)
    PROVE  UNCHANGED Map!vars
<1>1. call[t].op \in WriterOps /\ pc[t] \in {"inc", "dec"}
  BY DEF WriteCount, DeleteCount, WriterOps, MapInv, MonitorInv, CallInv
<1>2. /\ t \in Writers /\ size \in Int /\ \A u \in Threads \ {t} : pc[u] \notin Inner
  BY <1>1, WriterInside
<1>3. /\ Goto(t, "leave") /\ UNCHANGED << table, call, seen, ptr, ret >>
      /\ pc[t] = "inc" => size' = size + 1
      /\ pc[t] = "dec" => size' = size - 1
  BY DEF WriteCount, DeleteCount
<1>4. /\ \A u \in Threads \ {t} : SameFor(u) /\ pc'[u] = pc[u] /\ pc'[u] \notin Inner
      /\ pc'[t] = "leave"
  BY <1>2, <1>3, WriterOthers
<1>5. SameFor(t)
  BY <1>1, <1>3, <1>4, MapSame
<1>6. AbsMap' = AbsMap
  BY <1>1, <1>2, <1>3, <1>4, AbsMapMeaning, MapQuiet DEF Inner
<1>7. AbsCount' = AbsCount
  <2>0. size' \in Int
    BY <1>1, <1>2, <1>3
  <2>1. AbsCount' = size' + One("leave", "inc") - One("leave", "dec") - One("leave", "clear")
    BY <1>4, <2>0, CountAfter
  <2>2. AbsCount = size + One(pc[t], "inc") - One(pc[t], "dec") - One(pc[t], "clear")
    BY <1>2, CountBefore
  <2>3. CASE pc[t] = "inc"
    BY <1>2, <1>3, <2>1, <2>2, <2>3 DEF One
  <2>4. CASE pc[t] = "dec"
    BY <1>2, <1>3, <2>1, <2>2, <2>4 DEF One
  <2> QED
    BY <1>1, <2>3, <2>4
<1> QED
  BY <1>3, <1>4, <1>5, <1>6, <1>7, MapStutter

LEMMA MapDeleteMissing ==
    ASSUME MapInv, NEW t \in Threads, DeleteMissing(t)
    PROVE  Map!Delete(t)
<1> DEFINE k == call[t].key
<1>1. pc[t] = "crit" /\ call[t].op = "delete" /\ call[t].op \in WriterOps
  BY DEF DeleteMissing, WriterOps
<1>2. /\ t \in Writers /\ k \in Keys /\ ptr[t] = NULL /\ ret[t] = 0
      /\ table \in Table /\ WellFormed(table)
  BY <1>1, WriterInside
<1>3. /\ k \notin Stored(table) /\ Goto(t, "leave")
      /\ UNCHANGED << table, size, call, seen, ptr, ret >>
  BY DEF DeleteMissing, Stored
<1>4. /\ \A u \in Threads \ {t} : SameFor(u) /\ pc'[u] = pc[u]
      /\ pc'[t] = "leave"
  BY <1>2, <1>3, WriterOthers
<1> HIDE DEF k
<1>5. AbsMap = [x \in Keys |-> ValueOf(table, x)]
  BY <1>1, MapBefore
<1>6. AbsMap' = AbsMap /\ AbsCount' = AbsCount
  BY <1>1, <1>3, <1>4, MapFrame
<1>7. k \notin Map!Present
  BY <1>2, <1>3, <1>5, ValueOfMeaning DEF Map!Present
<1>8. Map!Done(t, Map!NoResult)
  <2>1. ResNext(t) = Map!NoResult
    BY <1>1, <1>2, <1>3, WriterResult
  <2> QED
    BY <1>1, <1>3, <1>4, <2>1, MapDone DEF PhaseIn
<1> QED
  BY <1>1, <1>6, <1>7, <1>8 DEF Map!Delete, k

\* kv_delete of the head node takes its bucket out of the map ...
LEMMA MapDeleteHead ==
    ASSUME MapInv, NEW t \in Threads, DeleteHead(t)
    PROVE  Map!Delete(t)
<1> DEFINE k == call[t].key
           S == {j \in Keys : Hash[j] = Hash[k]}
<1>1. pc[t] = "crit" /\ call[t].op = "delete" /\ call[t].op \in WriterOps
  BY DEF DeleteHead, WriterOps
<1>2. /\ t \in Writers /\ k \in Keys /\ ptr[t] = NULL /\ ret[t] = 0
      /\ TypeOK /\ table \in Table /\ WellFormed(table) /\ size \in Int
  BY <1>1, WriterInside
<1>3. /\ k \in Stored(table) /\ table' = SetValue(table, k, FREED)
      /\ ptr' = PointersTo({k}, "freed") /\ Goto(t, "clear")
      /\ UNCHANGED << size, call, seen, ret >>
  BY <1>2 DEF DeleteHead, Stored
<1>4. /\ \A u \in Threads \ {t} : SameFor(u) /\ pc'[u] = pc[u] /\ pc'[u] \notin Inner
      /\ pc'[t] = "clear" /\ ptr'[t] = NULL
  BY <1>2, <1>3, PointersKept, WriterOthers
<1> HIDE DEF k
<1>5. AbsMap = [x \in Keys |-> ValueOf(table, x)] /\ AbsCount = size
  BY <1>1, MapBefore
<1>6. AbsMap' = [x \in Keys |-> IF x = k \/ x \in S THEN NULL ELSE AbsMap[x]]
  <2>1. \A u \in Threads \ {t} : pc'[u] \notin {"copy", "clear"}
    BY <1>4 DEF Inner
  <2>2. MapOf(table', pc', call') =
          [x \in Keys |-> IF Hash[x] = Hash[call'[t].key] THEN NULL ELSE ValueOf(table', x)]
    BY <1>4, <2>1, MapClear
  <2>3. call'[t].key = k
    BY <1>3 DEF k
  <2>4. AbsMap' = [x \in Keys |-> IF Hash[x] = Hash[k] THEN NULL ELSE ValueOf(table', x)]
    BY <2>2, <2>3, AbsMapMeaning
  <2>5. \A x \in Keys : x # k => ValueOf(table', x) = ValueOf(table, x)
    BY <1>2, <1>3, SetValueValue
  <2> QED
    BY <1>5, <2>4, <2>5
<1>7. AbsCount' = AbsCount - 1
  <2>1. AbsCount' = size' + One("clear", "inc") - One("clear", "dec") - One("clear", "clear")
    BY <1>2, <1>3, <1>4, CountAfter
  <2> QED
    BY <1>2, <1>3, <1>5, <2>1 DEF One
<1>8. k \in Map!Present
  BY <1>2, <1>3, <1>5, ValueOfMeaning DEF Map!Present
<1>9. Map!Done(t, Map!NoResult)
  <2>1. ResNext(t) = Map!NoResult
    BY <1>1, <1>2, <1>3, <1>4, WriterResult
  <2> QED
    BY <1>1, <1>3, <1>4, <2>1, MapDone DEF PhaseIn
<1>10. S \in SUBSET {j \in Keys : Hash[j] = Hash[call[t].key]}
  BY DEF k
<1> QED
  BY <1>1, <1>6, <1>7, <1>8, <1>9, <1>10 DEF Map!Delete, k

\* ... before the bucket is set to NULL.
LEMMA MapDeleteClear ==
    ASSUME MapInv, NEW t \in Threads, DeleteClear(t)
    PROVE  UNCHANGED Map!vars
<1> DEFINE k == call[t].key
<1>1. pc[t] = "clear" /\ call[t].op \in WriterOps
  BY DEF DeleteClear, WriterOps, MapInv, MonitorInv, CallInv
<1>2. /\ t \in Writers /\ k \in Keys /\ ptr[t] = NULL
      /\ TypeOK /\ table \in Table /\ WellFormed(table) /\ size \in Int
      /\ \A u \in Threads \ {t} : pc[u] \notin Inner
  BY <1>1, WriterInside
<1>3. /\ table' = DropChain(table, k) /\ Goto(t, "dec")
      /\ ptr' = PointersTo({x \in Keys : Hash[x] = Hash[k]}, "leaked")
      /\ UNCHANGED << size, call, seen, ret >>
  BY DEF DeleteClear
<1>4. \A u \in Threads : /\ ptr'[u] = NULL <=> ptr[u] = NULL
                         /\ ptr[u] # NULL => ptr'[u].val = ptr[u].val
  BY <1>2, <1>3, PointersKept
<1>5. /\ \A u \in Threads \ {t} : SameFor(u) /\ pc'[u] = pc[u] /\ pc'[u] \notin Inner
      /\ pc'[t] = "dec"
  BY <1>2, <1>3, <1>4, WriterOthers
<1>6. SameFor(t)
  BY <1>1, <1>3, <1>4, <1>5, MapSame
<1>7. AbsMap = [x \in Keys |-> IF Hash[x] = Hash[k] THEN NULL ELSE ValueOf(table, x)]
  <2>1. \A u \in Threads \ {t} : pc[u] \notin {"copy", "clear"}
    BY <1>2 DEF Inner
  <2>2. MapOf(table, pc, call) =
          [x \in Keys |-> IF Hash[x] = Hash[call[t].key] THEN NULL ELSE ValueOf(table, x)]
    BY <1>1, <2>1, MapClear
  <2> QED
    BY <2>2, AbsMapMeaning
<1> HIDE DEF k
<1>8. AbsMap' = AbsMap
  <2>1. AbsMap' = [x \in Keys |-> ValueOf(table', x)]
    BY <1>5, AbsMapMeaning, MapQuiet DEF Inner
  <2>2. \A x \in Keys :
           ValueOf(table', x) = IF Hash[x] = Hash[k] THEN NULL ELSE ValueOf(table, x)
    BY <1>2, <1>3, DropChainValue
  <2> QED
    BY <1>7, <2>1, <2>2
<1>9. AbsCount' = AbsCount
  <2>1. AbsCount' = size' + One("dec", "inc") - One("dec", "dec") - One("dec", "clear")
    BY <1>2, <1>3, <1>5, CountAfter
  <2>2. AbsCount = size + One("clear", "inc") - One("clear", "dec") - One("clear", "clear")
    BY <1>1, <1>2, CountBefore
  <2> QED
    BY <1>2, <1>3, <2>1, <2>2 DEF One
<1> QED
  BY <1>3, <1>5, <1>6, <1>8, <1>9, MapStutter

LEMMA MapDeleteInner ==
    ASSUME MapInv, NEW t \in Threads, DeleteInner(t)
    PROVE  Map!Delete(t)
<1> DEFINE k == call[t].key
<1>1. pc[t] = "crit" /\ call[t].op = "delete" /\ call[t].op \in WriterOps
  BY DEF DeleteInner, WriterOps
<1>2. /\ t \in Writers /\ k \in Keys /\ ptr[t] = NULL /\ ret[t] = 0
      /\ TypeOK /\ table \in Table /\ WellFormed(table) /\ size \in Int
  BY <1>1, WriterInside
<1>3. /\ Find(table, k) > 1 /\ table' = Unlink(table, k)
      /\ ptr' = PointersTo({k}, "freed") /\ Goto(t, "dec")
      /\ UNCHANGED << size, call, seen, ret >>
  BY DEF DeleteInner
<1>4. k \in Stored(table)
  BY <1>2, <1>3 DEF Stored
<1>5. /\ \A u \in Threads \ {t} : SameFor(u) /\ pc'[u] = pc[u] /\ pc'[u] \notin Inner
      /\ pc'[t] = "dec" /\ ptr'[t] = NULL
  BY <1>2, <1>3, PointersKept, WriterOthers
<1> HIDE DEF k
<1>6. AbsMap = [x \in Keys |-> ValueOf(table, x)] /\ AbsCount = size
  BY <1>1, MapBefore
<1>7. AbsMap' = [x \in Keys |-> IF x = k \/ x \in {} THEN NULL ELSE AbsMap[x]]
  <2>1. AbsMap' = [x \in Keys |-> ValueOf(table', x)]
    BY <1>5, AbsMapMeaning, MapQuiet DEF Inner
  <2>2. \A x \in Keys : ValueOf(table', x) = IF x = k THEN NULL ELSE ValueOf(table, x)
    BY <1>2, <1>3, <1>4, UnlinkValue
  <2> QED
    BY <1>6, <2>1, <2>2
<1>8. AbsCount' = AbsCount - 1
  <2>1. AbsCount' = size' + One("dec", "inc") - One("dec", "dec") - One("dec", "clear")
    BY <1>2, <1>3, <1>5, CountAfter
  <2> QED
    BY <1>2, <1>3, <1>6, <2>1 DEF One
<1>9. k \in Map!Present
  BY <1>2, <1>4, <1>6, ValueOfMeaning DEF Map!Present
<1>10. Map!Done(t, Map!NoResult)
  <2>1. ResNext(t) = Map!NoResult
    BY <1>1, <1>2, <1>3, <1>5, WriterResult
  <2> QED
    BY <1>1, <1>3, <1>5, <2>1, MapDone DEF PhaseIn
<1>11. {} \in SUBSET {j \in Keys : Hash[j] = Hash[call[t].key]}
  OBVIOUS
<1> QED
  BY <1>1, <1>7, <1>8, <1>9, <1>10, <1>11 DEF Map!Delete, k

(***************************************************************************)
(* kv_read, kv_write, kv_delete and kv_dump are atomic operations on a map *)
(* of at most TABLE_MAX keys, whatever the number of threads and however   *)
(* their walks, frees and copies interleave.                               *)
(***************************************************************************)
THEOREM StoreImplementsMap == Spec => ImplementsMap
<1>1. ASSUME MapInv, MapInv', [Next]_vars PROVE [Map!Next]_(Map!vars)
  <2>1. CASE UNCHANGED vars
    <3>1. AbsMap' = AbsMap /\ AbsCount' = AbsCount
      BY <1>1, <2>1, MapFrame DEF vars
    <3>2. \A u \in Threads : SameFor(u)
      BY <2>1, MapSame DEF vars
    <3> QED
      BY <2>1, <3>1, <3>2, MapStutter DEF vars
  <2>2. ASSUME NEW t \in Threads, NEW c \in Requests(t), Call(t, c) PROVE Map!Invoke(t)
    BY <1>1, <2>2, MapCall
  <2>3. ASSUME NEW t \in Threads, SpuriousWakeup(t) PROVE UNCHANGED Map!vars
    BY <1>1, <2>3, MapMonitor
  <2>4. ASSUME NEW t \in Threads, Step(t)
        PROVE  \/ Map!Read(t) \/ Map!Dump(t) \/ Map!Write(t) \/ Map!Refuse(t)
               \/ Map!Delete(t) \/ Map!Respond(t) \/ UNCHANGED Map!vars
    BY <1>1, <2>4, MapMonitor, MapRead, MapDump, MapWriteFound, MapWriteCopy, MapWriteFull,
       MapWriteLink, MapCounted, MapDeleteMissing, MapDeleteHead, MapDeleteClear,
       MapDeleteInner, MapReturn
    DEF Step, MapInv
  <2> QED
    BY <1>1, <2>1, <2>2, <2>3, <2>4 DEF Next, Map!Next
<1> QED
  BY <1>1, MapInit, MapAlways, PTL DEF Spec, ImplementsMap, Map!Spec
============================================================================
