-------------------------------- MODULE Fifo --------------------------------
(***************************************************************************)
(* What the work queue of lab3/queue.c promises: the connections the       *)
(* listener accepted, numbered in that order, are handed to the workers    *)
(* one by one, in that order, each to one worker.                          *)
(***************************************************************************)
EXTENDS Naturals

CONSTANTS Workers, MaxConns

VARIABLES
    put,    \* number of connections put into the queue so far
    taken,  \* number of connections handed to a worker so far
    holds   \* the connection each worker holds, 0 for none

vars == << put, taken, holds >>

Init ==
    /\ put = 0
    /\ taken = 0
    /\ holds = [w \in Workers |-> 0]

Put ==
    /\ put < MaxConns
    /\ put' = put + 1
    /\ UNCHANGED << taken, holds >>

Take(w) ==
    /\ holds[w] = 0
    /\ taken < put
    /\ taken' = taken + 1
    /\ holds' = [holds EXCEPT ![w] = taken + 1]
    /\ UNCHANGED put

Finish(w) ==
    /\ holds[w] # 0
    /\ holds' = [holds EXCEPT ![w] = 0]
    /\ UNCHANGED << put, taken >>

Next == Put \/ \E w \in Workers : Take(w) \/ Finish(w)

Spec == Init /\ [][Next]_vars
=============================================================================
