----------------------------- MODULE UndoQueue -----------------------------
(***************************************************************************)
(* What the queue programs of lab1 promise: a queue of words that commands *)
(* of a file put, take, shift and, in the ciphered one, undo.  history     *)
(* holds the queue after every command that can still be undone; the last  *)
(* is the present one.                                                     *)
(***************************************************************************)
EXTENDS Integers, Sequences, SequencesExt

CONSTANTS Texts, Keys, ILLCHAR, NONE, ERROR

VARIABLES program, history, reply, running

\* The loop a letter or digit moves in: its first character and its size.
LoopOf(c) ==
    CASE c \in 48 .. 57  -> << 48, 10 >>
      [] c \in 65 .. 90  -> << 65, 26 >>
      [] c \in 97 .. 122 -> << 97, 26 >>
      [] OTHER           -> << >>

Legal(c) == LoopOf(c) # << >>
Moved(c, n) == LoopOf(c)[1] + ((c - LoopOf(c)[1] + n) % LoopOf(c)[2])

\* A word with an illegal character is not encoded but replaced; decoding
\* leaves it as it is from that character on.
Encoded(text, key) ==
    IF \A i \in DOMAIN text : Legal(text[i])
    THEN [i \in DOMAIN text |-> Moved(text[i], key)]
    ELSE ILLCHAR

Decoded(text, key) ==
    IF text = ILLCHAR THEN ILLCHAR
    ELSE [i \in DOMAIN text |->
             IF \A j \in 1 .. i : Legal(text[j]) THEN Moved(text[i], - key) ELSE text[i]]

Now == Last(history)

Init ==
    /\ program \in {"queue", "ciphered-queue"}
    /\ history = << << >> >>
    /\ reply = << >>
    /\ running = TRUE

Becomes(queue, answer) ==
    /\ running
    /\ history' = IF program = "queue" THEN << queue >> ELSE Append(history, queue)
    /\ reply' = answer
    /\ UNCHANGED << program, running >>

Put(t) == Becomes(Append(Now, t), << >>)

Take(shown) ==
    IF Now = << >> THEN Becomes(Now, << NONE >>) ELSE Becomes(Tail(Now), << shown >>)

Undo ==
    /\ running /\ program = "ciphered-queue"
    /\ history' = IF Len(history) > 1 THEN Front(history) ELSE history
    /\ reply' = << >>
    /\ UNCHANGED << program, running >>

Stop(answer) ==
    /\ running
    /\ running' = FALSE
    /\ reply' = answer
    /\ history' = << >>
    /\ UNCHANGED program

Next ==
    \/ \E t \in Texts : Put(t)
    \/ \E t \in Texts, k \in Keys : program = "ciphered-queue" /\ Put(Encoded(t, k))
    \/ Take(Head(Now))
    \/ \E k \in Keys : program = "ciphered-queue" /\ Take(Decoded(Head(Now), k))
    \/ Becomes(Now, << >>)
    \/ Undo
    \/ Stop(<< ERROR >>) \/ Stop(Now)

Spec == Init /\ [][Next]_<< program, history, reply, running >>
=============================================================================
