------------------------------ MODULE KVTable ------------------------------
(***************************************************************************)
(* The hash table of lab3/kvstore.c as values: a table is a function from  *)
(* bucket numbers to chains, a chain the sequence of its key_entry_t nodes *)
(* from buckets[i] along the next pointers.  The functions of kvstore.c    *)
(* are built from the operators below; they are shared by the monitor      *)
(* (KVStore) and by the whole server (DbServer).                           *)
(***************************************************************************)
EXTENDS Integers, SequencesExt

CONSTANTS
    Keys,        \* the keys the clients use
    Vals,        \* the values the clients store
    HB_MAX_SIZE, \* number of buckets, kvstore.h
    TABLE_MAX,   \* capacity in keys, lab3.h
    Hash,        \* hash33, as a function of the key
    NULL,        \* the C null pointer
    FREED        \* what a value buffer holds between free() and strcpy()

Buckets == 0 .. HB_MAX_SIZE - 1

Entry == [key : Keys, val : Vals \cup {FREED}]

Table == [Buckets -> Seq(Entry)]

ASSUME SizesAssumption ==
    /\ HB_MAX_SIZE \in Nat \ {0}
    /\ TABLE_MAX \in Nat \ {0}

ASSUME HashAssumption == Hash \in [Keys -> Buckets] /\ IsFiniteSet(Keys)

ASSUME SentinelAssumption ==
    /\ NULL \notin Vals \cup Keys
    /\ FREED \notin Vals
    /\ NULL # FREED

(***************************************************************************)
(* kv_init: every bucket is NULL.                                          *)
(***************************************************************************)
EmptyTable == [b \in Buckets |-> << >>]

(***************************************************************************)
(* The search every function starts with: walk the chain of the key's      *)
(* bucket to the first node with that key.  0 stands for h = NULL.         *)
(***************************************************************************)
Find(table, k) ==
    SelectInSeq(table[Hash[k]], LAMBDA e : e.key = k)

Stored(table) == {k \in Keys : Find(table, k) # 0}

\* The value a walk to k ends at: h->value, or NULL.
ValueOf(table, k) ==
    IF Find(table, k) = 0 THEN NULL ELSE table[Hash[k]][Find(table, k)].val

\* h->value of the node found is freed (v = FREED) or filled again.
SetValue(table, k, v) ==
    [table EXCEPT ![Hash[k]] = [@ EXCEPT ![Find(table, k)].val = v]]

\* kv_entry_init, node->next = buckets[index], buckets[index] = node.
Prepend(table, k, v) ==
    [table EXCEPT ![Hash[k]] = << [key |-> k, val |-> v] >> \o @]

\* prev->next = h->next: the node leaves its chain.
Unlink(table, k) ==
    [table EXCEPT ![Hash[k]] = RemoveAt(@, Find(table, k))]

\* buckets[index] = NULL, whatever followed the head node.
DropChain(table, k) == [table EXCEPT ![Hash[k]] = << >>]

\* Every node is on the chain its hash says, and no chain has a key twice.
WellFormed(table) ==
    \A b \in Buckets : \A i, j \in 1 .. Len(table[b]) :
        /\ Hash[table[b][i].key] = b
        /\ table[b][i].key = table[b][j].key => i = j

(***************************************************************************)
(* The whole effect of kv_delete, for a caller that holds the monitor: a   *)
(* key at the head of its chain takes the chain with it.                   *)
(***************************************************************************)
Deleted(table, k) ==
    IF Find(table, k) = 0 THEN table
    ELSE IF Find(table, k) = 1 THEN DropChain(table, k) ELSE Unlink(table, k)

(***************************************************************************)
(* The whole effect of kv_write when it does not refuse the key.           *)
(***************************************************************************)
Written(table, k, v) ==
    IF Find(table, k) # 0 THEN SetValue(table, k, v) ELSE Prepend(table, k, v)
=============================================================================
