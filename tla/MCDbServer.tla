---------------------------- MODULE MCDbServer ----------------------------
(***************************************************************************)
(* Instances of the server for TLC.                                        *)
(***************************************************************************)
EXTENDS DbServer

CONSTANTS k1, k2, x, y, c1, c2, w1, w2

SomeKeys == {k1, k2}

InjectiveHash == [k \in Keys |-> IF k = k1 THEN 0 ELSE 1]

\* Every request that has a handler; two keys but room for one; an empty payload.
AllKinds ==
    [op : {"W"}, key : {k1}, data : {<< x, y >>, << >>}]
      \cup [op : {"W"}, key : {k2}, data : {<< x >>}]
      \cup [op : {"R", "D", "Q"}, key : {k1}, data : {<< >>}]

\* What the progress of a client and of a shutdown depends on, and a request
\* that dispatch does not know.
SetGetQuit ==
    [op : {"W"}, key : {k1}, data : {<< x, y >>}]
      \cup [op : {"R", "Q", "?"}, key : {k1}, data : {<< >>}]

Symmetry == Permutations({c1, c2}) \cup Permutations({w1, w2})
=============================================================================
