------------------------- MODULE KVStoreRefinesMap -------------------------
(***************************************************************************)
(* KVStore implements KVMap: every call appears to happen at one moment.   *)
(* A write takes effect when it finds its node (it frees the old value     *)
(* first, but nobody can look before the copy is there) or links a new     *)
(* one, a delete when it finds its node, though the rest of the chain goes *)
(* only with the next assignment, a dump with the last bucket it prints.   *)
(***************************************************************************)
EXTENDS KVStore

Effective(t) ==
    pc[t] \in {"copy", "inc", "clear", "dec", "leave", "return"}

PhaseOf(t) ==
    IF pc[t] = "idle" THEN "idle" ELSE IF Effective(t) THEN "done" ELSE "called"

AbsMap ==
    [k \in Keys |->
        IF \E t \in Threads : pc[t] = "copy" /\ call[t].key = k
        THEN call[CHOOSE t \in Threads : pc[t] = "copy" /\ call[t].key = k].val
        ELSE IF \E t \in Threads : pc[t] = "clear" /\ Hash[call[t].key] = Hash[k]
        THEN NULL
        ELSE ValueOf(table, k)]

\* size, as it will be when the calls that changed the table have counted.
AbsCount == size + Uncounted("inc") - Uncounted("dec") - Uncounted("clear")

\* The listing as a map.
ListOf(chains) ==
    [k \in Keys |-> ValueOf([b \in Buckets |-> chains[b + 1]], k)]

AbsRes(t) ==
    [val  |-> IF ptr[t] = NULL THEN NULL ELSE ptr[t].val,
     code |-> ret[t],
     list |-> IF call[t].op = "dump" /\ Effective(t) THEN ListOf(seen[t]) ELSE NULL]

Map == INSTANCE KVMap WITH
    map   <- AbsMap,
    count <- AbsCount,
    SameBucket <- LAMBDA k : {j \in Keys : Hash[j] = Hash[k]},
    phase <- [t \in Threads |-> PhaseOf(t)],
    req   <- call,
    res   <- [t \in Threads |-> AbsRes(t)]

\* kv_read, kv_write, kv_delete and kv_dump behave as atomic operations on a
\* map of at most TABLE_MAX keys: whatever the interleaving, a read returns
\* what the last write left, and only a delete in the same bucket loses a key.
ImplementsMap == Map!Spec
=============================================================================
