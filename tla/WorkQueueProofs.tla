-------------------------- MODULE WorkQueueProofs --------------------------
(***************************************************************************)
(* Proofs about the work queue of lab3/queue.c, for any number of workers, *)
(* of nodes and of connections.                                            *)
(***************************************************************************)
EXTENDS WorkQueue, TLAPS

\* The list, its nodes and the sleepers.  The node in the listener's hands is
\* neither queued nor held: that is what keeps enqueue from linking a node
\* twice.
ListInv ==
    /\ TypeOK
    /\ ListWellFormed
    /\ TasksOwned
    /\ NoSleepOnWork
    /\ newtask # NULL => state[newtask] = "new"

\* Connections are numbered in the order they are accepted, and the numbers of
\* the queued ones follow each other.
NumberInv ==
    /\ accepted = taken + Len(order) + (IF newtask = NULL THEN 0 ELSE 1)
    /\ newtask # NULL => fd[newtask] = accepted
    /\ \A i \in 1 .. Len(order) : fd[order[i]] = taken + i
    /\ \A w \in Workers : pc[w] = "run" => fd[task[w]] # 0

LEMMA ListInit == Init => ListInv
BY BoundAssumption DEF Init, ListInv, TypeOK, ListWellFormed, TasksOwned, NoSleepOnWork, Pointers

LEMMA QueuedNodes ==
    ASSUME ListInv
    PROVE  /\ Len(order) \in Nat
           /\ \A i \in 1 .. Len(order) : order[i] \in Tasks /\ state[order[i]] = "queued"
<1>1. Len(order) \in Nat /\ \A i \in 1 .. Len(order) : order[i] \in Tasks
  BY DEF ListInv, TypeOK
<1>2. \A n \in Tasks : (\E i \in 1 .. Len(order) : order[i] = n) => state[n] = "queued"
  BY DEF ListInv, ListWellFormed
<1> QED
  BY <1>1, <1>2

LEMMA AcceptType == TypeOK /\ Accept => TypeOK'
<1> SUFFICES ASSUME TypeOK, Accept PROVE TypeOK'
  OBVIOUS
<1>1. PICK n \in Tasks, garbage \in Pointers :
         /\ state[n] = "free"
         /\ newtask' = n
         /\ state' = [state EXCEPT ![n] = "new"]
         /\ fd' = [fd EXCEPT ![n] = accepted + 1]
         /\ next' = [next EXCEPT ![n] = garbage]
  BY DEF Accept
<1>2. accepted' = accepted + 1 /\ accepted + 1 \in 0 .. MaxConns
  BY BoundAssumption DEF Accept, TypeOK
<1> QED
  BY <1>1, <1>2 DEF Accept, TypeOK, Pointers

LEMMA AcceptList == ListInv /\ Accept => ListInv'
<1> SUFFICES ASSUME ListInv, Accept PROVE ListInv'
  OBVIOUS
<1>1. TypeOK'
  BY AcceptType DEF ListInv
<1>2. PICK n \in Tasks, garbage \in Pointers :
         /\ state[n] = "free"
         /\ newtask' = n
         /\ state' = [state EXCEPT ![n] = "new"]
         /\ fd' = [fd EXCEPT ![n] = accepted + 1]
         /\ next' = [next EXCEPT ![n] = garbage]
  BY DEF Accept
<1>3. UNCHANGED << head, tail, count, pc, task, order, taken >>
  BY DEF Accept
<1>4. \A m \in Tasks : m # n => state'[m] = state[m] /\ next'[m] = next[m]
  BY <1>2 DEF ListInv, TypeOK
<1>5. state'[n] = "new"
  BY <1>2 DEF ListInv, TypeOK
<1>6. \A i \in 1 .. Len(order) : order[i] \in Tasks /\ order[i] # n
  BY <1>2, QueuedNodes
<1>7. ListWellFormed'
  <2>1. \A i \in 1 .. Len(order) - 1 : next'[order[i]] = order[i + 1]
    <3> SUFFICES ASSUME NEW i \in 1 .. Len(order) - 1 PROVE next'[order[i]] = order[i + 1]
      OBVIOUS
    <3>1. Len(order) \in Nat /\ i \in 1 .. Len(order)
      BY DEF ListInv, TypeOK
    <3> QED
      BY <1>4, <1>6, <3>1 DEF ListInv, ListWellFormed
  <2>2. \A m \in Tasks : state'[m] = "queued" <=> \E i \in 1 .. Len(order) : order[i] = m
    BY <1>4, <1>5, <1>6 DEF ListInv, ListWellFormed
  <2> QED
    BY <1>3, <2>1, <2>2 DEF ListInv, ListWellFormed
<1>8. TasksOwned'
  BY <1>2, <1>3, <1>4 DEF ListInv, TasksOwned
<1>9. NoSleepOnWork'
  BY <1>3 DEF ListInv, NoSleepOnWork
<1> QED
  BY <1>1, <1>2, <1>5, <1>7, <1>8, <1>9 DEF ListInv

LEMMA EnqueueList == ListInv /\ Enqueue => ListInv'
<1> SUFFICES ASSUME ListInv, Enqueue PROVE ListInv'
  OBVIOUS
<1> USE DEF ListInv
<1> DEFINE n == newtask
           len == Len(order)
<1>1. n \in Tasks /\ state[n] = "new" /\ order \in Seq(Tasks) /\ len \in Nat /\ count = len
  BY DEF Enqueue, TypeOK, Pointers, ListWellFormed
<1>2. /\ order' \in Seq(Tasks) /\ Len(order') = len + 1
      /\ \A i \in 1 .. len : order'[i] = order[i]
      /\ order'[len + 1] = n
  BY <1>1 DEF Enqueue
<1>3. \A i \in 1 .. len : order[i] \in Tasks /\ order[i] # n
  BY <1>1, QueuedNodes
<1>4. \A i \in 1 .. len + 1 : i \in 1 .. len \/ i = len + 1
  BY <1>1
<1>5. count' = len + 1 /\ tail' = n /\ newtask' = NULL
  BY <1>1 DEF Enqueue
<1>6. state' = [state EXCEPT ![n] = "queued"]
  BY DEF Enqueue
<1>7. \A m \in Tasks : state'[m] = IF m = n THEN "queued" ELSE state[m]
  BY <1>6 DEF TypeOK
<1>8. head' = (IF len = 0 THEN n ELSE head)
  BY <1>1 DEF Enqueue
<1>9. next' = (IF len = 0 THEN next ELSE [next EXCEPT ![tail] = n])
  BY <1>1 DEF Enqueue
<1>10. TypeOK'
  <2>1. head' \in Pointers /\ tail' \in Pointers /\ newtask' \in Pointers
    BY <1>1, <1>5, <1>8 DEF TypeOK, Pointers
  <2>2. next' \in [Tasks -> Pointers]
    BY <1>1, <1>9 DEF TypeOK, Pointers
  <2>3. state' \in [Tasks -> {"free", "new", "queued", "held"}]
    BY <1>6 DEF TypeOK
  <2>4. pc' \in [Workers -> {"lock", "asleep", "run"}]
    BY DEF TypeOK, Enqueue
  <2>5. count' \in Nat
    BY <1>1, <1>5
  <2> QED
    BY <1>2, <2>1, <2>2, <2>3, <2>4, <2>5 DEF TypeOK, Enqueue
<1>11. ListWellFormed'
  <2>1. count' = Len(order')
    BY <1>2, <1>5
  <2>2. head' = order'[1] /\ tail' = order'[Len(order')]
    <3>1. CASE len = 0
      BY <1>2, <1>5, <1>8, <3>1
    <3>2. CASE len # 0
      <4>1. order # << >> /\ 1 \in 1 .. len
        BY <1>1, <3>2
      <4> QED
        BY <1>2, <1>5, <1>8, <3>2, <4>1 DEF ListWellFormed
    <3> QED
      BY <3>1, <3>2
  <2>3. ASSUME NEW i \in 1 .. Len(order') - 1
        PROVE  next'[order'[i]] = order'[i + 1]
    <3>1. i \in 1 .. len /\ len # 0 /\ order'[i] = order[i] /\ order[i] \in Tasks
      BY <1>1, <1>2, <1>3
    <3>2. order # << >> /\ tail = order[len] /\ tail \in Tasks /\ len \in 1 .. len
      BY <1>1, <1>3, <3>1 DEF ListWellFormed
    <3>3. \A m \in Tasks : next'[m] = IF m = tail THEN n ELSE next[m]
      BY <1>9, <3>1, <3>2 DEF TypeOK
    <3>4. CASE i = len
      BY <1>2, <3>1, <3>2, <3>3, <3>4
    <3>5. CASE i # len
      <4>1. i \in 1 .. len - 1 /\ i + 1 \in 1 .. len
        BY <1>1, <3>1, <3>5
      <4>2. order[i] # tail
        BY <3>1, <3>2, <3>5 DEF ListWellFormed
      <4>3. next[order[i]] = order[i + 1]
        BY <4>1 DEF ListWellFormed
      <4> QED
        BY <1>2, <3>1, <3>3, <4>1, <4>2, <4>3
    <3> QED
      BY <3>4, <3>5
  <2>4. ASSUME NEW i \in 1 .. Len(order'), NEW j \in 1 .. Len(order'), order'[i] = order'[j]
        PROVE  i = j
    BY <1>2, <1>3, <1>4, <2>4 DEF ListWellFormed
  <2>5. ASSUME NEW m \in Tasks
        PROVE  state'[m] = "queued" <=> \E i \in 1 .. Len(order') : order'[i] = m
    <3>1. CASE m = n
      <4>1. len + 1 \in 1 .. Len(order')
        BY <1>1, <1>2
      <4> QED
        BY <1>2, <1>7, <3>1, <4>1
    <3>2. CASE m # n
      <4>1. state'[m] = "queued" <=> \E i \in 1 .. len : order[i] = m
        BY <1>7, <3>2 DEF ListWellFormed
      <4>2. \A i \in 1 .. len : i \in 1 .. Len(order')
        BY <1>1, <1>2
      <4> QED
        BY <1>2, <1>4, <3>2, <4>1, <4>2
    <3> QED
      BY <3>1, <3>2
  <2> QED
    BY <2>1, <2>2, <2>3, <2>4, <2>5 DEF ListWellFormed
<1>12. \A w \in Workers : pc'[w] # "asleep" /\ (pc'[w] = "run" <=> pc[w] = "run")
  BY DEF Enqueue, TypeOK
<1>13. TasksOwned'
  <2>1. task' = task
    BY DEF Enqueue
  <2> QED
    BY <1>1, <1>7, <1>12, <2>1 DEF TasksOwned
<1>14. NoSleepOnWork'
  BY <1>12 DEF NoSleepOnWork
<1> QED
  BY <1>5, <1>10, <1>11, <1>13, <1>14

LEMMA DequeueList ==
    ASSUME ListInv, NEW w \in Workers, Dequeue(w)
    PROVE  ListInv'
<1> USE DEF ListInv
<1> DEFINE len == Len(order)
<1>1. order \in Seq(Tasks) /\ len \in Nat /\ count = len /\ len # 0 /\ order # << >>
  BY DEF Dequeue, TypeOK, ListWellFormed
<1>2. head = order[1] /\ head \in Tasks /\ state[head] = "queued" /\ 1 \in 1 .. len
  BY <1>1, QueuedNodes DEF ListWellFormed
<1>3. /\ order' \in Seq(Tasks) /\ Len(order') = len - 1
      /\ \A i \in 1 .. len - 1 : order'[i] = order[i + 1] /\ i + 1 \in 1 .. len
  BY <1>1 DEF Dequeue
<1>4. /\ head' = next[head] /\ count' = len - 1
      /\ UNCHANGED << tail, next, fd, accepted, newtask >>
  BY <1>1 DEF Dequeue
<1>5. /\ state' = [state EXCEPT ![head] = "held"]
      /\ \A m \in Tasks : state'[m] = IF m = head THEN "held" ELSE state[m]
  BY DEF Dequeue, TypeOK
<1>6. /\ pc' = [pc EXCEPT ![w] = "run"] /\ task' = [task EXCEPT ![w] = head]
      /\ pc'[w] = "run" /\ task'[w] = head
      /\ \A u \in Workers \ {w} : pc'[u] = pc[u] /\ task'[u] = task[u]
  BY DEF Dequeue, TypeOK
<1>7. TypeOK'
  <2>1. taken' \in Nat /\ count' \in Nat
    BY <1>1, <1>4 DEF Dequeue, TypeOK
  <2>2. head' \in Pointers
    BY <1>2, <1>4 DEF TypeOK
  <2> QED
    BY <1>2, <1>3, <1>4, <1>5, <1>6, <2>1, <2>2 DEF TypeOK, Pointers
<1>8. ListWellFormed'
  <2>1. count' = Len(order')
    BY <1>3, <1>4
  <2>2. ASSUME order' # << >>
        PROVE  head' = order'[1] /\ tail' = order'[Len(order')]
    <3>1. 1 \in 1 .. len - 1 /\ len - 1 \in 1 .. len - 1 /\ (len - 1) + 1 = len
      BY <1>1, <1>3, <2>2
    <3>2. head' = order[2] /\ order'[1] = order[2]
      BY <1>2, <1>3, <1>4, <3>1 DEF ListWellFormed
    <3>3. tail' = order[len] /\ order'[len - 1] = order[len]
      BY <1>1, <1>3, <1>4, <3>1 DEF ListWellFormed
    <3> QED
      BY <1>3, <3>2, <3>3
  <2>3. ASSUME NEW i \in 1 .. Len(order') - 1
        PROVE  next'[order'[i]] = order'[i + 1]
    <3>1. i \in 1 .. len - 1 /\ i + 1 \in 1 .. len - 1
      BY <1>1, <1>3
    <3> QED
      BY <1>3, <1>4, <3>1 DEF ListWellFormed
  <2>4. ASSUME NEW i \in 1 .. Len(order'), NEW j \in 1 .. Len(order'), order'[i] = order'[j]
        PROVE  i = j
    <3>1. order[i + 1] = order[j + 1] /\ i + 1 \in 1 .. len /\ j + 1 \in 1 .. len
      BY <1>3, <2>4
    <3>2. i + 1 = j + 1
      BY <3>1 DEF ListWellFormed
    <3> QED
      BY <3>2
  <2>5. ASSUME NEW m \in Tasks
        PROVE  state'[m] = "queued" <=> \E i \in 1 .. Len(order') : order'[i] = m
    <3>1. state[m] = "queued" <=> \E i \in 1 .. len : order[i] = m
      BY DEF ListWellFormed
    <3>2. ASSUME NEW i \in 1 .. Len(order'), order'[i] = m
          PROVE  state'[m] = "queued"
      <4>1. i + 1 \in 1 .. len /\ order[i + 1] = m /\ i + 1 # 1
        BY <1>3, <3>2
      <4>2. m # head
        BY <1>2, <4>1 DEF ListWellFormed
      <4> QED
        BY <1>5, <3>1, <4>1, <4>2
    <3>3. ASSUME state'[m] = "queued"
          PROVE  \E i \in 1 .. Len(order') : order'[i] = m
      <4>1. m # head /\ state[m] = "queued"
        BY <1>5, <3>3
      <4>2. PICK i \in 1 .. len : order[i] = m
        BY <3>1, <4>1
      <4>3. i - 1 \in 1 .. len - 1 /\ (i - 1) + 1 = i
        BY <1>1, <1>2, <4>1, <4>2
      <4>4. order'[i - 1] = m /\ i - 1 \in 1 .. Len(order')
        BY <1>3, <4>2, <4>3
      <4> QED
        BY <4>4
    <3> QED
      BY <3>2, <3>3
  <2> QED
    BY <2>1, <2>2, <2>3, <2>4, <2>5 DEF ListWellFormed
<1>9. TasksOwned'
  <2>1. \A u \in Workers \ {w} : pc[u] = "run" => task[u] # head
    BY <1>2 DEF TasksOwned
  <2>2. \A u \in Workers : pc'[u] = "run" => task'[u] \in Tasks /\ state'[task'[u]] = "held"
    BY <1>2, <1>5, <1>6, <2>1 DEF TasksOwned
  <2>3. \A u, v \in Workers :
           pc'[u] = "run" /\ pc'[v] = "run" /\ task'[u] = task'[v] => u = v
    BY <1>6, <2>1 DEF TasksOwned
  <2> QED
    BY <2>2, <2>3 DEF TasksOwned
<1>10. NoSleepOnWork'
  BY <1>1, <1>6 DEF NoSleepOnWork
<1>11. newtask' # NULL => state'[newtask'] = "new"
  BY <1>2, <1>4, <1>5 DEF TypeOK, Pointers
<1> QED
  BY <1>7, <1>8, <1>9, <1>10, <1>11

LEMMA FinishList ==
    ASSUME ListInv, NEW w \in Workers, Finish(w)
    PROVE  ListInv'
<1> USE DEF ListInv
<1>1. task[w] \in Tasks /\ state[task[w]] = "held" /\ pc[w] = "run"
  BY DEF Finish, TasksOwned
<1>2. UNCHANGED << head, tail, count, next, fd, accepted, newtask, order, taken >>
  BY DEF Finish
<1>3. /\ state' = [state EXCEPT ![task[w]] = "free"]
      /\ \A m \in Tasks : state'[m] = IF m = task[w] THEN "free" ELSE state[m]
  BY DEF Finish, TypeOK
<1>4. /\ pc' = [pc EXCEPT ![w] = "lock"] /\ task' = [task EXCEPT ![w] = NULL]
      /\ pc'[w] = "lock"
      /\ \A u \in Workers \ {w} : pc'[u] = pc[u] /\ task'[u] = task[u]
  BY DEF Finish, TypeOK
<1>5. TypeOK'
  BY <1>1, <1>2, <1>3, <1>4 DEF TypeOK, Pointers
<1>6. \A m \in Tasks : state'[m] = "queued" <=> state[m] = "queued"
  BY <1>1, <1>3
<1>7. ListWellFormed'
  BY <1>2, <1>6 DEF ListWellFormed
<1>8. TasksOwned'
  BY <1>1, <1>3, <1>4 DEF TasksOwned
<1>9. NoSleepOnWork'
  BY <1>2, <1>4 DEF NoSleepOnWork
<1>10. newtask' # NULL => state'[newtask'] = "new"
  BY <1>1, <1>2, <1>3 DEF TypeOK, Pointers
<1> QED
  BY <1>5, <1>7, <1>8, <1>9, <1>10

\* Going to sleep and waking up touch nothing but pc.
LEMMA SleepList ==
    ASSUME ListInv, NEW w \in Workers, DequeueWait(w) \/ SpuriousWakeup(w)
    PROVE  ListInv'
<1> USE DEF ListInv
<1>1. /\ UNCHANGED << head, tail, count, next, fd, state, accepted, newtask, task, order, taken >>
      /\ \A u \in Workers : pc'[u] = "run" => pc[u] = "run"
      /\ \A u \in Workers : pc'[u] = "asleep" => pc[u] = "asleep" \/ count = 0
      /\ pc' \in [Workers -> {"lock", "asleep", "run"}]
  BY DEF DequeueWait, SpuriousWakeup, TypeOK
<1>2. TypeOK'
  BY <1>1 DEF TypeOK
<1>3. ListWellFormed'
  BY <1>1 DEF ListWellFormed
<1>4. TasksOwned'
  BY <1>1 DEF TasksOwned
<1>5. NoSleepOnWork'
  BY <1>1 DEF NoSleepOnWork
<1> QED
  BY <1>1, <1>2, <1>3, <1>4, <1>5

LEMMA ListNext == ListInv /\ [Next]_vars => ListInv'
<1> SUFFICES ASSUME ListInv, [Next]_vars PROVE ListInv'
  OBVIOUS
<1>1. CASE Accept
  BY <1>1, AcceptList
<1>2. CASE Enqueue
  BY <1>2, EnqueueList
<1>3. ASSUME NEW w \in Workers, SpuriousWakeup(w) \/ WorkerStep(w)
      PROVE  ListInv'
  BY <1>3, SleepList, DequeueList, FinishList DEF WorkerStep
<1>4. CASE UNCHANGED vars
  BY <1>4 DEF vars, ListInv, TypeOK, ListWellFormed, TasksOwned, NoSleepOnWork
<1> QED
  BY <1>1, <1>2, <1>3, <1>4 DEF Next

LEMMA ListAlways == Spec => []ListInv
BY ListInit, ListNext, PTL DEF Spec

\* Every variable of the work queue keeps its type, the counter of queue.c
\* included: dequeue never takes it below zero.
THEOREM QueueTypeCorrect == Spec => []TypeOK
BY ListAlways, PTL DEF ListInv

\* In every reachable state the fields that enqueue and dequeue leave behind
\* describe the list, whatever malloc returns and next held before.
THEOREM QueueCorrect == Spec => []ListWellFormed
BY ListAlways, PTL DEF ListInv

\* A worker runs a node it owns and no other worker runs: dequeue hands out
\* neither NULL nor a node twice.
THEOREM OwnershipCorrect == Spec => []TasksOwned
BY ListAlways, PTL DEF ListInv

\* No worker sleeps in dequeue while the list holds a task: the test of count,
\* the wait and enqueue's broadcast leave no gap for a lost wakeup.
THEOREM WakeCorrect == Spec => []NoSleepOnWork
BY ListAlways, PTL DEF ListInv

-----------------------------------------------------------------------------
(***************************************************************************)
(* The refinement of Fifo.                                                 *)
(***************************************************************************)
FifoInv == ListInv /\ NumberInv

LEMMA FifoInit == Init => FifoInv /\ Queue!Init
<1> SUFFICES ASSUME Init PROVE FifoInv /\ Queue!Init
  OBVIOUS
<1>1. NumberInv
  BY DEF Init, NumberInv
<1>2. Queue!Init
  BY DEF Init, Queue!Init
<1> QED
  BY <1>1, <1>2, ListInit DEF FifoInv

LEMMA AcceptFifo ==
    ASSUME FifoInv, Accept
    PROVE  NumberInv' /\ UNCHANGED Queue!vars
<1> USE DEF FifoInv, ListInv
<1>1. PICK n \in Tasks :
         /\ state[n] = "free" /\ newtask' = n
         /\ fd' = [fd EXCEPT ![n] = accepted + 1]
  BY DEF Accept
<1>2. /\ newtask = NULL /\ accepted' = accepted + 1 /\ newtask' # NULL
      /\ UNCHANGED << pc, task, order, taken >>
  BY <1>1, TasksAssumption DEF Accept
<1>3. fd'[n] = accepted + 1 /\ \A m \in Tasks : m # n => fd'[m] = fd[m]
  BY <1>1 DEF TypeOK
<1>4. \A i \in 1 .. Len(order) : order[i] \in Tasks /\ order[i] # n
  BY <1>1, QueuedNodes
<1>5. \A w \in Workers : pc[w] = "run" => task[w] \in Tasks /\ task[w] # n
  BY <1>1 DEF TasksOwned
<1>6. accepted' = taken' + Len(order') + 1
  BY <1>2 DEF NumberInv, TypeOK
<1>7. NumberInv'
  BY <1>1, <1>2, <1>3, <1>4, <1>5, <1>6 DEF NumberInv
<1>8. [w \in Workers |-> IF pc[w] = "run" THEN fd[task[w]] ELSE 0]'
        = [w \in Workers |-> IF pc[w] = "run" THEN fd[task[w]] ELSE 0]
  BY <1>2, <1>3, <1>5
<1> QED
  BY <1>2, <1>7, <1>8 DEF Queue!vars

LEMMA EnqueueFifo ==
    ASSUME FifoInv, Enqueue
    PROVE  NumberInv' /\ Queue!Put
<1> USE DEF FifoInv, ListInv
<1>1. /\ newtask # NULL /\ newtask \in Tasks /\ newtask' = NULL
      /\ UNCHANGED << fd, accepted, task, taken >>
  BY DEF Enqueue, TypeOK, Pointers
<1>2. /\ Len(order) \in Nat /\ Len(order') = Len(order) + 1
      /\ \A i \in 1 .. Len(order) : order'[i] = order[i]
      /\ order'[Len(order) + 1] = newtask
  BY <1>1 DEF Enqueue, TypeOK
<1>3. \A w \in Workers : pc'[w] = "run" <=> pc[w] = "run"
  BY DEF Enqueue, TypeOK
<1>4. /\ taken \in Nat /\ accepted \in Nat /\ accepted <= MaxConns
      /\ accepted = taken + Len(order) + 1 /\ fd[newtask] = accepted
  BY <1>1, BoundAssumption DEF NumberInv, TypeOK
<1>5. ASSUME NEW i \in 1 .. Len(order')
      PROVE  fd'[order'[i]] = taken' + i
  <2>1. CASE i \in 1 .. Len(order)
    BY <1>1, <1>2, <2>1 DEF NumberInv
  <2>2. CASE i = Len(order) + 1
    BY <1>1, <1>2, <1>4, <2>2
  <2> QED
    BY <1>2, <2>1, <2>2
<1>6. NumberInv'
  <2>1. accepted' = taken' + Len(order') + 0
    BY <1>1, <1>2, <1>4
  <2> QED
    BY <1>1, <1>3, <1>5, <2>1 DEF NumberInv
<1>7. [w \in Workers |-> IF pc[w] = "run" THEN fd[task[w]] ELSE 0]'
        = [w \in Workers |-> IF pc[w] = "run" THEN fd[task[w]] ELSE 0]
  BY <1>1, <1>3
<1>8. taken + Len(order) < MaxConns /\ (taken + Len(order))' = taken + Len(order) + 1
  BY <1>1, <1>2, <1>4, BoundAssumption
<1> QED
  BY <1>1, <1>6, <1>7, <1>8 DEF Queue!Put

LEMMA DequeueFifo ==
    ASSUME FifoInv, NEW w \in Workers, Dequeue(w)
    PROVE  NumberInv' /\ Queue!Take(w)
<1> USE DEF FifoInv, ListInv
<1> DEFINE len == Len(order)
<1>1. order \in Seq(Tasks) /\ len \in Nat /\ len # 0 /\ order # << >> /\ 1 \in 1 .. len
  BY DEF Dequeue, TypeOK, ListWellFormed
<1>2. head = order[1] /\ head \in Tasks /\ fd[head] = taken + 1
  BY <1>1, QueuedNodes DEF ListWellFormed, NumberInv
<1>3. /\ Len(order') = len - 1
      /\ \A i \in 1 .. len - 1 : order'[i] = order[i + 1] /\ i + 1 \in 1 .. len
  BY <1>1 DEF Dequeue
<1>4. /\ pc[w] = "lock" /\ pc'[w] = "run" /\ task'[w] = head
      /\ \A u \in Workers \ {w} : pc'[u] = pc[u] /\ task'[u] = task[u]
  BY DEF Dequeue, TypeOK
<1>5. taken \in Nat /\ taken' = taken + 1 /\ UNCHANGED << fd, accepted, newtask >>
  BY DEF Dequeue, TypeOK
<1>6. NumberInv'
  <2>1. taken' + Len(order') = taken + len
    BY <1>1, <1>3, <1>5
  <2>2. \A i \in 1 .. len - 1 : fd[order[i + 1]] = taken + (i + 1)
    BY <1>3 DEF NumberInv
  <2>3. \A i \in 1 .. Len(order') : fd'[order'[i]] = taken' + i
    BY <1>1, <1>3, <1>5, <2>2
  <2>4. \A u \in Workers : pc'[u] = "run" => fd'[task'[u]] # 0
    BY <1>2, <1>4, <1>5 DEF NumberInv
  <2> QED
    BY <1>5, <2>1, <2>3, <2>4 DEF NumberInv
<1>7. [u \in Workers |-> IF pc[u] = "run" THEN fd[task[u]] ELSE 0]'
        = [[u \in Workers |-> IF pc[u] = "run" THEN fd[task[u]] ELSE 0]
              EXCEPT ![w] = taken + 1]
  BY <1>2, <1>4, <1>5
<1>8. taken < taken + len /\ (taken + Len(order))' = taken + len
  BY <1>1, <1>3, <1>5
<1> QED
  BY <1>4, <1>5, <1>6, <1>7, <1>8 DEF Queue!Take

LEMMA FinishFifo ==
    ASSUME FifoInv, NEW w \in Workers, Finish(w)
    PROVE  NumberInv' /\ Queue!Finish(w)
<1> USE DEF FifoInv, ListInv
<1>1. /\ pc[w] = "run" /\ pc'[w] = "lock"
      /\ \A u \in Workers \ {w} : pc'[u] = pc[u] /\ task'[u] = task[u]
      /\ UNCHANGED << fd, accepted, newtask, order, taken >>
  BY DEF Finish, TypeOK
<1>2. NumberInv'
  BY <1>1 DEF NumberInv
<1>3. [u \in Workers |-> IF pc[u] = "run" THEN fd[task[u]] ELSE 0]'
        = [[u \in Workers |-> IF pc[u] = "run" THEN fd[task[u]] ELSE 0] EXCEPT ![w] = 0]
  BY <1>1
<1>4. fd[task[w]] # 0
  BY <1>1 DEF NumberInv
<1> QED
  BY <1>1, <1>2, <1>3, <1>4 DEF Queue!Finish

LEMMA SleepFifo ==
    ASSUME FifoInv, NEW w \in Workers, DequeueWait(w) \/ SpuriousWakeup(w)
    PROVE  NumberInv' /\ UNCHANGED Queue!vars
<1> USE DEF FifoInv, ListInv
<1>1. /\ UNCHANGED << fd, accepted, newtask, task, order, taken >>
      /\ \A u \in Workers : pc'[u] = "run" <=> pc[u] = "run"
  BY DEF DequeueWait, SpuriousWakeup, TypeOK
<1>2. [u \in Workers |-> IF pc[u] = "run" THEN fd[task[u]] ELSE 0]'
        = [u \in Workers |-> IF pc[u] = "run" THEN fd[task[u]] ELSE 0]
  BY <1>1
<1> QED
  BY <1>1, <1>2 DEF NumberInv, Queue!vars

LEMMA FifoNext == FifoInv /\ [Next]_vars => FifoInv' /\ [Queue!Next]_Queue!vars
<1> SUFFICES ASSUME FifoInv, [Next]_vars PROVE FifoInv' /\ [Queue!Next]_Queue!vars
  OBVIOUS
<1>1. ListInv'
  BY ListNext DEF FifoInv
<1> SUFFICES NumberInv' /\ [Queue!Next]_Queue!vars
  BY <1>1 DEF FifoInv
<1>2. CASE Accept
  BY <1>2, AcceptFifo
<1>3. CASE Enqueue
  BY <1>3, EnqueueFifo DEF Queue!Next
<1>4. ASSUME NEW w \in Workers, SpuriousWakeup(w) \/ WorkerStep(w)
      PROVE  NumberInv' /\ [Queue!Next]_Queue!vars
  BY <1>4, SleepFifo, DequeueFifo, FinishFifo DEF WorkerStep, Queue!Next
<1>5. CASE UNCHANGED vars
  BY <1>5 DEF vars, FifoInv, NumberInv, Queue!vars
<1> QED
  BY <1>2, <1>3, <1>4, <1>5 DEF Next

\* enqueue and dequeue hand every accepted connection to one worker, in the
\* order of acceptance: the linked list implements Fifo.
THEOREM FifoCorrect == Spec => ImplementsFifo
BY FifoInit, FifoNext, PTL DEF Spec, ImplementsFifo, Queue!Spec
=============================================================================
