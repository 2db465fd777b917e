----------------------------- MODULE WorkQueue -----------------------------
(***************************************************************************)
(* The work queue of lab3/queue.c between the listener thread              *)
(* (dbserver.c) and the workers (worker.c): a linked list of task_t nodes  *)
(* and a condition variable.  The nodes come from malloc and go back with  *)
(* free, and nobody initialises their next field, so that head, tail and   *)
(* next hold stale or arbitrary pointers whenever the list is empty.       *)
(*                                                                         *)
(* Each function runs under the mutex qm from start to end, up to its wait *)
(* on nonempty: it is one action.                                          *)
(***************************************************************************)
EXTENDS Integers, Sequences, FiniteSets

CONSTANTS
    Workers,   \* the worker threads
    Tasks,     \* the addresses malloc may give a task_t
    NULL,
    MaxConns   \* bound: connections the listener accepts

ASSUME TasksAssumption == NULL \notin Tasks

ASSUME BoundAssumption == MaxConns \in Nat

VARIABLES
    head, tail, count,  \* wq, a zero-initialised global
    next, fd,           \* the fields of each task_t
    state,              \* of each address: "free", "new", "queued" or "held"
    accepted,           \* number of connections accepted so far
    newtask,            \* the listener's newtask, NULL while it is in accept
    pc,                 \* of each worker: "lock", "asleep" or "run"
    task,               \* the task each worker runs
    order,              \* history: the nodes in the list, oldest first
    taken               \* history: number of dequeues so far

vars == << head, tail, count, next, fd, state, accepted, newtask, pc, task,
           order, taken >>

Pointers == Tasks \cup {NULL}

TypeOK ==
    /\ head \in Pointers /\ tail \in Pointers
    /\ count \in Nat
    /\ next \in [Tasks -> Pointers]
    /\ fd \in [Tasks -> 0 .. MaxConns]
    /\ state \in [Tasks -> {"free", "new", "queued", "held"}]
    /\ accepted \in 0 .. MaxConns
    /\ newtask \in Pointers
    /\ pc \in [Workers -> {"lock", "asleep", "run"}]
    /\ task \in [Workers -> Pointers]
    /\ order \in Seq(Tasks)
    /\ taken \in Nat

Init ==
    /\ head = NULL /\ tail = NULL /\ count = 0
    /\ next = [n \in Tasks |-> NULL]
    /\ fd = [n \in Tasks |-> 0]
    /\ state = [n \in Tasks |-> "free"]
    /\ accepted = 0
    /\ newtask = NULL
    /\ pc = [w \in Workers |-> "lock"]
    /\ task = [w \in Workers |-> NULL]
    /\ order = << >>
    /\ taken = 0

-----------------------------------------------------------------------------
(***************************************************************************)
(* Faulty variants of single actions: none of them is part of Next.        *)
(***************************************************************************)
\* enqueue decides by head whether the list is empty, as if dequeue kept it
\* NULL-terminated.
EnqueueTestsHead ==
    /\ newtask # NULL
    /\ IF head = NULL
       THEN head' = newtask /\ UNCHANGED next
       ELSE next' = [next EXCEPT ![tail] = newtask] /\ UNCHANGED head
    /\ tail' = newtask
    /\ count' = count + 1
    /\ pc' = [w \in Workers |-> IF pc[w] = "asleep" THEN "lock" ELSE pc[w]]
    /\ state' = [state EXCEPT ![newtask] = "queued"]
    /\ order' = Append(order, newtask)
    /\ newtask' = NULL
    /\ UNCHANGED << fd, accepted, task, taken >>

\* enqueue wakes the workers only if the list was not empty.
EnqueueWakesLate ==
    /\ newtask # NULL
    /\ IF count = 0
       THEN head' = newtask /\ UNCHANGED << next, pc >>
       ELSE /\ next' = [next EXCEPT ![tail] = newtask] /\ UNCHANGED head
            /\ pc' = [w \in Workers |-> IF pc[w] = "asleep" THEN "lock" ELSE pc[w]]
    /\ tail' = newtask
    /\ count' = count + 1
    /\ state' = [state EXCEPT ![newtask] = "queued"]
    /\ order' = Append(order, newtask)
    /\ newtask' = NULL
    /\ UNCHANGED << fd, accepted, task, taken >>

\* enqueue links the new node behind the head instead of behind the tail.
EnqueueAtHead ==
    /\ newtask # NULL
    /\ IF count = 0
       THEN head' = newtask /\ tail' = newtask /\ UNCHANGED next
       ELSE next' = [next EXCEPT ![newtask] = head] /\ head' = newtask /\ UNCHANGED tail
    /\ count' = count + 1
    /\ pc' = [w \in Workers |-> IF pc[w] = "asleep" THEN "lock" ELSE pc[w]]
    /\ state' = [state EXCEPT ![newtask] = "queued"]
    /\ order' = << newtask >> \o order
    /\ newtask' = NULL
    /\ UNCHANGED << fd, accepted, task, taken >>

\* The worker returns from the wait without testing count again.
DequeueNoRetest(w) ==
    /\ pc[w] = "lock"
    /\ head # NULL
    /\ task' = [task EXCEPT ![w] = head]
    /\ head' = next[head]
    /\ count' = count - 1
    /\ pc' = [pc EXCEPT ![w] = "run"]
    /\ state' = [state EXCEPT ![head] = "held"]
    /\ order' = IF order = << >> THEN order ELSE Tail(order)
    /\ taken' = taken + 1
    /\ UNCHANGED << tail, next, fd, accepted, newtask >>

\* The worker keeps using the task it has freed.
FinishKeepsTask(w) ==
    /\ pc[w] = "run"
    /\ state[task[w]] # "free"
    /\ state' = [state EXCEPT ![task[w]] = "free"]
    /\ UNCHANGED << head, tail, count, next, fd, accepted, newtask, pc, task, order, taken >>

-----------------------------------------------------------------------------
\* The listener: accept, malloc, newtask->fd = fd.  next is whatever was there.
Accept ==
    /\ newtask = NULL
    /\ accepted < MaxConns
    /\ accepted' = accepted + 1
    /\ \E n \in Tasks, garbage \in Pointers :
          /\ state[n] = "free"
          /\ newtask' = n
          /\ state' = [state EXCEPT ![n] = "new"]
          /\ fd' = [fd EXCEPT ![n] = accepted + 1]
          /\ next' = [next EXCEPT ![n] = garbage]
    /\ UNCHANGED << head, tail, count, pc, task, order, taken >>

\* enqueue(&wq, newtask), with its broadcast on nonempty.
Enqueue ==
    /\ newtask # NULL
    /\ IF count = 0
       THEN head' = newtask /\ UNCHANGED next
       ELSE next' = [next EXCEPT ![tail] = newtask] /\ UNCHANGED head
    /\ tail' = newtask
    /\ count' = count + 1
    /\ pc' = [w \in Workers |-> IF pc[w] = "asleep" THEN "lock" ELSE pc[w]]
    /\ state' = [state EXCEPT ![newtask] = "queued"]
    /\ order' = Append(order, newtask)
    /\ newtask' = NULL
    /\ UNCHANGED << fd, accepted, task, taken >>

\* dequeue finds the list empty and waits.
DequeueWait(w) ==
    /\ pc[w] = "lock"
    /\ count = 0
    /\ pc' = [pc EXCEPT ![w] = "asleep"]
    /\ UNCHANGED << head, tail, count, next, fd, state, accepted, newtask, task, order, taken >>

\* pthread_cond_wait may return without a signal.
SpuriousWakeup(w) ==
    /\ pc[w] = "asleep"
    /\ pc' = [pc EXCEPT ![w] = "lock"]
    /\ UNCHANGED << head, tail, count, next, fd, state, accepted, newtask, task, order, taken >>

\* dequeue takes the head.  For the last node head' is an arbitrary pointer.
Dequeue(w) ==
    /\ pc[w] = "lock"
    /\ count # 0
    /\ task' = [task EXCEPT ![w] = head]
    /\ head' = next[head]
    /\ count' = count - 1
    /\ pc' = [pc EXCEPT ![w] = "run"]
    /\ state' = [state EXCEPT ![head] = "held"]
    /\ order' = Tail(order)
    /\ taken' = taken + 1
    /\ UNCHANGED << tail, next, fd, accepted, newtask >>

\* dispatch returns and the worker frees the task.  It need not return: it
\* reads from the client without a timeout.
Finish(w) ==
    /\ pc[w] = "run"
    /\ state' = [state EXCEPT ![task[w]] = "free"]
    /\ task' = [task EXCEPT ![w] = NULL]
    /\ pc' = [pc EXCEPT ![w] = "lock"]
    /\ UNCHANGED << head, tail, count, next, fd, accepted, newtask, order, taken >>

WorkerStep(w) == DequeueWait(w) \/ Dequeue(w) \/ Finish(w)

Next ==
    \/ Accept
    \/ Enqueue
    \/ \E w \in Workers : SpuriousWakeup(w) \/ WorkerStep(w)

Spec == Init /\ [][Next]_vars

\* Threads that can run do run.  Clients need not connect, and nothing makes
\* dispatch return: it may wait for a silent client for ever.
FairSpec ==
    /\ Spec
    /\ WF_vars(Enqueue)
    /\ \A w \in Workers : WF_vars(DequeueWait(w) \/ Dequeue(w))

-----------------------------------------------------------------------------
\* The fields of wq describe the list: count nodes from head along next to
\* tail, all of them queued and none of them twice, although head, tail and
\* next are never reset and freed nodes come back from malloc.
ListWellFormed ==
    /\ count = Len(order)
    /\ order # << >> => head = order[1] /\ tail = order[Len(order)]
    /\ \A i \in 1 .. Len(order) - 1 : next[order[i]] = order[i + 1]
    /\ \A i, j \in 1 .. Len(order) : order[i] = order[j] => i = j
    /\ \A n \in Tasks : state[n] = "queued" <=> \E i \in 1 .. Len(order) : order[i] = n

\* dequeue never hands out NULL (worker.c tests for it), a node it does not
\* own, or a node that another worker still runs.
TasksOwned ==
    /\ \A w \in Workers : pc[w] = "run" => task[w] \in Tasks /\ state[task[w]] = "held"
    /\ \A w, u \in Workers : pc[w] = "run" /\ pc[u] = "run" /\ task[w] = task[u] => w = u

\* No wakeup is lost: a worker sleeps on nonempty only while the list is empty.
NoSleepOnWork ==
    \A w \in Workers : pc[w] = "asleep" => count = 0

\* Every accepted connection is taken by a worker in the end, unless from some
\* time on all workers are in dispatch for good: one worker that comes back is
\* enough, however many others silent clients hold.
EveryConnectionServed ==
    []<>(\E w \in Workers : pc[w] # "run") =>
        \A c \in 1 .. MaxConns : accepted >= c ~> taken >= c

-----------------------------------------------------------------------------
Queue == INSTANCE Fifo WITH
    put   <- taken + Len(order),
    holds <- [w \in Workers |-> IF pc[w] = "run" THEN fd[task[w]] ELSE 0]

\* enqueue and dequeue implement a first-in first-out queue of connections.
ImplementsFifo == Queue!Spec
=============================================================================
