--------------------------- MODULE CipheredQueue ---------------------------
(***************************************************************************)
(* The programs of lab1 that run the commands of a file on a linked queue  *)
(* of strings: queue_main.c, with one queue, and ciphered_queue_main.c,    *)
(* which shifts words with caesar.c and keeps a deep copy of the queue for *)
(* every command so that commands can be undone.  A line of the file is an *)
(* action.  Words are sequences of ASCII codes.                            *)
(***************************************************************************)
EXTENDS Integers, Sequences, SequencesExt, FiniteSets

CONSTANTS
    Texts,     \* the words in the file
    Keys,      \* the keys in the file, as atoi reads them
    Addrs,     \* addresses of nodes, numbers: malloc returns the lowest free one
    MaxLines,  \* bound: number of lines in the file
    NULL

ASSUME WordsAssumption == Texts \subseteq Seq(Nat) /\ Keys \subseteq Nat

\* Line n adds a queue of at most n nodes: malloc does not fail.
ASSUME MemoryAssumption ==
    /\ Addrs \subseteq Nat /\ IsFiniteSet(Addrs) /\ MaxLines \in Nat
    /\ MaxLines * (MaxLines + 1) =< 2 * Cardinality(Addrs)
    /\ NULL \notin Nat \cup [next : Nat \cup {NULL}, data : Seq(Int)]

VARIABLES
    program,  \* which of the two
    heap,     \* the nodes allocated, NULL elsewhere
    gq,       \* the queues kept, the last of them is gq[nbr_cmds]
    reply,    \* what the last line printed
    running,
    lines     \* number of lines read

vars == << program, heap, gq, reply, running, lines >>

\* The words the programs print themselves: ILLCHAR, NULL and ERROR.
ILLCHAR == << 73, 76, 76, 67, 72, 65, 82 >>
NONE == << 78, 85, 76, 76 >>
ERROR == << 69, 82, 82, 79, 82 >>

EmptyQueue == [head |-> NULL, tail |-> NULL]

-----------------------------------------------------------------------------
(***************************************************************************)
(* caesar.c                                                                *)
(***************************************************************************)
Digits == 48 .. 57
Lower == 97 .. 122
Upper == 65 .. 90
LegalChars == Digits \cup Lower \cup Upper

First(c) == CASE c \in Digits -> 48 [] c \in Lower -> 97 [] c \in Upper -> 65
Base(c) == IF c \in Digits THEN 10 ELSE 26

\* The remainder in C has the sign of the dividend.
CMod(a, b) == IF a >= 0 THEN a % b ELSE - ((- a) % b)

encode(plaintext, key) ==
    IF \E i \in DOMAIN plaintext : plaintext[i] \notin LegalChars THEN ILLCHAR
    ELSE [i \in DOMAIN plaintext |->
             LET c == plaintext[i] IN CMod(c - First(c) + key, Base(c)) + First(c)]

\* A faulty variant: a negative difference is reduced as it is.
RaisedNot(d, base) == d

\* The inner loops add the base until the difference is not negative.
Raised(d, base) == IF d >= 0 THEN d ELSE d + base * ((base - 1 - d) \div base)

\* In place: what precedes an illegal character is decoded all the same.
decode(ciphertext, key) ==
    LET bad == {i \in DOMAIN ciphertext : ciphertext[i] \notin LegalChars}
    IN  [i \in DOMAIN ciphertext |->
            LET c == ciphertext[i] IN
            IF \E j \in bad : j <= i THEN c
            ELSE CMod(Raised(c - First(c) - key, Base(c)), Base(c)) + First(c)]

-----------------------------------------------------------------------------
(***************************************************************************)
(* queue.c.  m is a heap.                                                  *)
(***************************************************************************)
Malloc(m) == CHOOSE a \in Addrs : m[a] = NULL /\ \A b \in Addrs : m[b] = NULL => a <= b

\* The nodes of a list, in order: from its head along next up to NULL.
Nodes(m, q) ==
    LET after[k \in 0 .. Cardinality(Addrs)] ==
            IF k = 0 THEN q.head
            ELSE LET a == after[k - 1] IN IF a = NULL THEN NULL ELSE m[a].next
        len == CHOOSE n \in 0 .. Cardinality(Addrs) :
                  after[n] = NULL /\ \A k \in 0 .. (n - 1) : after[k] # NULL
    IN  [i \in 1 .. len |-> after[i - 1]]

Contents(m, q) == LET ns == Nodes(m, q) IN [i \in DOMAIN ns |-> m[ns[i]].data]

enqueue(m, q, data) ==
    LET a   == Malloc(m)
        new == [m EXCEPT ![a] = [next |-> NULL, data |-> data]]
    IN  IF q.tail = NULL THEN [heap |-> new, q |-> [head |-> a, tail |-> a]]
        ELSE [heap |-> [new EXCEPT ![q.tail].next = a], q |-> [q EXCEPT !.tail = a]]

\* The queue without its first node.
Dequeued(m, q) ==
    [head |-> m[q.head].next, tail |-> IF m[q.head].next = NULL THEN NULL ELSE q.tail]

free(m, ns) == [a \in Addrs |-> IF a \in ns THEN NULL ELSE m[a]]
free_queue(m, q) == free(m, Range(Nodes(m, q)))

-----------------------------------------------------------------------------
(***************************************************************************)
(* Faulty variants of single definitions: none is part of Next.            *)
(***************************************************************************)
\* The copy shares the nodes of the original.
copy_queueShallow(m, q) == [heap |-> m, q |-> q]

\* undo drops the copy and leaves the command's queue allocated.
FreeOnUndoCopyOnly(m, kept) == m

-----------------------------------------------------------------------------
\* Node by node, so that later changes of the copy leave the original alone.
copy_queue(m, q) ==
    LET words == Contents(m, q)
        copied[n \in 0 .. Len(words)] ==
            IF n = 0 THEN [heap |-> m, q |-> EmptyQueue]
            ELSE LET r == copied[n - 1] IN enqueue(r.heap, r.q, words[n])
    IN  copied[Len(words)]

Init ==
    /\ program \in {"queue", "ciphered-queue"}
    /\ heap = [a \in Addrs |-> NULL]
    /\ gq = << EmptyQueue >>
    /\ reply = << >>
    /\ running = TRUE
    /\ lines = 0

\* A line is read.
Line ==
    /\ running
    /\ lines < MaxLines
    /\ lines' = lines + 1
    /\ UNCHANGED program

\* The queue a command works on, with the heap: a new copy of the last one, or
\* the only one.
Target == IF program = "queue" THEN [heap |-> heap, q |-> Last(gq)] ELSE copy_queue(heap, Last(gq))

Keep(q) == gq' = IF program = "queue" THEN << q >> ELSE Append(gq, q)

Enqueue(data) ==
    LET r == enqueue(Target.heap, Target.q, data) IN
    /\ Line
    /\ heap' = r.heap
    /\ Keep(r.q)
    /\ reply' = << >>
    /\ UNCHANGED running

EncodeEnqueue(t, key) == program = "ciphered-queue" /\ Enqueue(encode(t, key))

\* The data of the first node.
FirstData == Target.heap[Target.q.head].data

\* The first node, if there is one, is unlinked, printed as shown and freed.
TakeFirst(shown) ==
    LET m == Target.heap
        q == Target.q
    IN
    /\ Line
    /\ IF q.head = NULL
       THEN heap' = m /\ Keep(q) /\ reply' = << NONE >>
       ELSE heap' = free(m, {q.head}) /\ Keep(Dequeued(m, q)) /\ reply' = << shown >>
    /\ UNCHANGED running

Dequeue == TakeFirst(FirstData)

DequeueDecode(key) ==
    /\ program = "ciphered-queue"
    /\ TakeFirst(IF FirstData = ILLCHAR THEN FirstData ELSE decode(FirstData, key))

\* Any other command, an empty line too: the ciphered queue keeps a copy.
Other ==
    /\ Line
    /\ heap' = Target.heap
    /\ Keep(Target.q)
    /\ reply' = << >>
    /\ UNCHANGED running

\* What undo frees apart from the copy made for itself: the last queue kept,
\* if it is not the first.
FreeOnUndo(m, kept) == IF Len(kept) > 1 THEN free_queue(m, Last(kept)) ELSE m

Undo ==
    /\ program = "ciphered-queue"
    /\ Line
    /\ heap' = FreeOnUndo(free_queue(Target.heap, Target.q), gq)
    /\ gq' = IF Len(gq) > 1 THEN Front(gq) ELSE gq
    /\ reply' = << >>
    /\ UNCHANGED running

\* main frees every queue kept, one after the other.
Freed(m, kept) ==
    LET freed[n \in 0 .. Len(kept)] ==
            IF n = 0 THEN m ELSE LET h == freed[n - 1] IN free_queue(h, kept[n])
    IN  freed[Len(kept)]
FreeAll ==
    /\ heap' = Freed(heap, gq)
    /\ gq' = << >>
    /\ running' = FALSE

\* A command that lacks an argument ends the program.
MissingArgument ==
    /\ Line
    /\ reply' = << ERROR >>
    /\ FreeAll

\* The file ends: the last queue is printed.
EndOfFile ==
    /\ running
    /\ reply' = Contents(heap, Last(gq))
    /\ FreeAll
    /\ UNCHANGED << program, lines >>

Next ==
    \/ \E t \in Texts : Enqueue(t) \/ \E k \in Keys : EncodeEnqueue(t, k)
    \/ Dequeue \/ \E k \in Keys : DequeueDecode(k)
    \/ Other \/ Undo \/ MissingArgument \/ EndOfFile

Spec == Init /\ [][Next]_vars

-----------------------------------------------------------------------------
(***************************************************************************)
(* Properties                                                              *)
(***************************************************************************)
\* Copies made for undo share no node with one another, every node allocated
\* is in one of the queues that will be freed, and each queue ends at its tail:
\* nothing is freed twice, and nothing is left when the program ends, also
\* after ERROR.
NodesOwnedOnce ==
    /\ \A i, j \in DOMAIN gq :
          i # j => Range(Nodes(heap, gq[i])) \cap Range(Nodes(heap, gq[j])) = {}
    /\ {a \in Addrs : heap[a] # NULL} = UNION {Range(Nodes(heap, gq[i])) : i \in DOMAIN gq}
    /\ \A i \in DOMAIN gq :
          gq[i].tail = IF gq[i].head = NULL THEN NULL ELSE Last(Nodes(heap, gq[i]))

\* What the programs print and keep is what a stack of queues would: words come
\* out in order, decoding undoes encoding around each loop of letters, and undo
\* brings back the queue as it was, after any sequence of commands.
Abstract == INSTANCE UndoQueue WITH history <- [i \in DOMAIN gq |-> Contents(heap, gq[i])]

ImplementsUndoQueue == Abstract!Spec
=============================================================================
