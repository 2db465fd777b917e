----------------------------- MODULE MCKVStore -----------------------------
(***************************************************************************)
(* Instances of the key-value store for TLC.                               *)
(***************************************************************************)
EXTENDS KVStoreRefinesMap

CONSTANTS k1, k2, k3, v1, v2, w1, w2

TwoKeys == {k1, k2}
ThreeKeys == {k1, k2, k3}

\* hash33 with a collision: k1 and k2 share bucket 0.
CollidingHash == [k \in Keys |-> IF k = k3 THEN 1 ELSE 0]
=============================================================================
