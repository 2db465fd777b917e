--------------------------- MODULE KVTableProofs ---------------------------
(***************************************************************************)
(* What the steps of kvstore.c do to the table, for any hash function.     *)
(***************************************************************************)
EXTENDS KVTable, FiniteSetTheorems, WellFoundedInduction, TLAPS

\* A nonempty set of naturals has a least element.
LEMMA MinNat ==
    ASSUME NEW S \in SUBSET Nat, S # {}
    PROVE  Min(S) \in S /\ \A y \in S : Min(S) <= y
<1>1. PICK x \in S : \A y \in S : ~ (<< y, x >> \in OpToRel(<, Nat))
  BY NatLessThanWellFounded, WFMin
<1>2. ASSUME NEW y \in S PROVE x <= y
  <2>1. << y, x >> \in Nat \X Nat /\ x \in Nat /\ y \in Nat
    OBVIOUS
  <2>2. y < x => << y, x >> \in OpToRel(<, Nat)
    BY <2>1, Zenon DEF OpToRel
  <2>3. ~ (y < x)
    BY <1>1, <2>2
  <2> QED
    BY <2>1, <2>3
<1> QED
  BY <1>2 DEF Min

\* The search every function starts with stops at a node with the key it looks
\* for, and gives up only if there is none on the chain.
LEMMA FindProperties ==
    ASSUME NEW tb \in Table, NEW k \in Keys
    PROVE  /\ Hash[k] \in Buckets
           /\ tb[Hash[k]] \in Seq(Entry)
           /\ Find(tb, k) \in 0 .. Len(tb[Hash[k]])
           /\ Find(tb, k) # 0 => tb[Hash[k]][Find(tb, k)].key = k
           /\ Find(tb, k) = 0 => \A i \in 1 .. Len(tb[Hash[k]]) : tb[Hash[k]][i].key # k
<1> DEFINE chain == tb[Hash[k]]
           Hits  == {i \in 1 .. Len(chain) : chain[i].key = k}
<1>1. Hash[k] \in Buckets /\ chain \in Seq(Entry) /\ Len(chain) \in Nat
  BY HashAssumption DEF Table
<1>2. Find(tb, k) = IF Hits # {} THEN Min(Hits) ELSE 0
  BY DEF Find, SelectInSeq
<1>3. Hits \in SUBSET Nat
  BY <1>1
<1>4. Hits # {} => Min(Hits) \in Hits
  <2> HIDE DEF Hits
  <2> QED
    BY <1>3, MinNat
<1>5. CASE Hits = {}
  BY <1>1, <1>2, <1>5
<1>6. CASE Hits # {}
  <2>1. Find(tb, k) \in Hits
    BY <1>2, <1>4, <1>6
  <2> QED
    BY <1>1, <2>1
<1> QED
  BY <1>5, <1>6

LEMMA StoredMeaning ==
    ASSUME NEW tb \in Table, NEW k \in Keys
    PROVE  k \in Stored(tb) <=> \E i \in 1 .. Len(tb[Hash[k]]) : tb[Hash[k]][i].key = k
BY FindProperties DEF Stored

LEMMA StoredFinite ==
    ASSUME NEW tb
    PROVE  IsFiniteSet(Stored(tb)) /\ Cardinality(Stored(tb)) \in Nat
<1>1. Stored(tb) \in SUBSET Keys
  BY DEF Stored
<1> QED
  BY <1>1, HashAssumption, FS_Subset, FS_CardinalityType

(***************************************************************************)
(* Freeing or filling the value of the node found moves no key.            *)
(***************************************************************************)
LEMMA SetValueProperties ==
    ASSUME NEW tb \in Table, WellFormed(tb), NEW k \in Stored(tb),
           NEW v \in Vals \cup {FREED}
    PROVE  /\ SetValue(tb, k, v) \in Table
           /\ WellFormed(SetValue(tb, k, v))
           /\ Stored(SetValue(tb, k, v)) = Stored(tb)
           /\ \A b \in Buckets :
                /\ Len(SetValue(tb, k, v)[b]) = Len(tb[b])
                /\ \A i \in 1 .. Len(tb[b]) :
                     /\ SetValue(tb, k, v)[b][i].key = tb[b][i].key
                     /\ SetValue(tb, k, v)[b][i].val
                          = IF tb[b][i].key = k THEN v ELSE tb[b][i].val
<1> DEFINE new == SetValue(tb, k, v)
           b0  == Hash[k]
           p   == Find(tb, k)
<1>1. k \in Keys /\ p # 0
  BY DEF Stored
<1>2. b0 \in Buckets /\ tb[b0] \in Seq(Entry) /\ p \in 1 .. Len(tb[b0]) /\ tb[b0][p].key = k
  BY <1>1, FindProperties
<1>3. new = [tb EXCEPT ![b0] = [tb[b0] EXCEPT ![p] = [tb[b0][p] EXCEPT !.val = v]]]
  BY DEF SetValue
<1>4. tb[b0][p] \in Entry
  BY <1>2
<1>5. [tb[b0][p] EXCEPT !.val = v] \in Entry /\ [tb[b0][p] EXCEPT !.val = v].key = k
                                           /\ [tb[b0][p] EXCEPT !.val = v].val = v
  BY <1>2, <1>4 DEF Entry
<1> HIDE DEF new, p, b0
<1>6. new \in Table
  BY <1>2, <1>3, <1>5 DEF Table
<1>7. \A b \in Buckets : Len(new[b]) = Len(tb[b]) /\ tb[b] \in Seq(Entry)
  BY <1>2, <1>3 DEF Table
<1>8. \A b \in Buckets : \A i \in 1 .. Len(tb[b]) : new[b][i].key = tb[b][i].key
  BY <1>2, <1>3, <1>5 DEF Table
<1>9. \A i \in 1 .. Len(tb[b0]) : tb[b0][i].key = k => i = p
  BY <1>2 DEF WellFormed
<1>10. \A b \in Buckets : \A i \in 1 .. Len(tb[b]) : tb[b][i].key = k => b = b0
  BY DEF WellFormed, b0
<1>11. \A b \in Buckets : \A i \in 1 .. Len(tb[b]) :
         new[b][i].val = IF tb[b][i].key = k THEN v ELSE tb[b][i].val
  BY <1>2, <1>3, <1>5, <1>9, <1>10 DEF Table
<1>12. WellFormed(new)
  BY <1>7, <1>8 DEF WellFormed
<1>13. Stored(new) = Stored(tb)
  <2>1. ASSUME NEW x \in Keys PROVE x \in Stored(new) <=> x \in Stored(tb)
    <3>1. Hash[x] \in Buckets
      BY HashAssumption
    <3> QED
      BY <1>6, <1>7, <1>8, <3>1, StoredMeaning
  <2> QED
    BY <2>1 DEF Stored
<1> QED
  BY <1>6, <1>7, <1>8, <1>11, <1>12, <1>13 DEF new

(***************************************************************************)
(* Linking a key that the search did not find.                             *)
(***************************************************************************)
LEMMA PrependProperties ==
    ASSUME NEW tb \in Table, WellFormed(tb), NEW k \in Keys, k \notin Stored(tb),
           NEW v \in Vals
    PROVE  /\ Prepend(tb, k, v) \in Table
           /\ WellFormed(Prepend(tb, k, v))
           /\ Stored(Prepend(tb, k, v)) = Stored(tb) \cup {k}
           /\ \A b \in Buckets : \A i \in 1 .. Len(Prepend(tb, k, v)[b]) :
                Prepend(tb, k, v)[b][i].val = FREED =>
                  \E j \in 1 .. Len(tb[b]) : tb[b][j] = Prepend(tb, k, v)[b][i]
           /\ \A b \in Buckets : \A i \in 1 .. Len(Prepend(tb, k, v)[b]) :
                \/ Prepend(tb, k, v)[b][i] = [key |-> k, val |-> v]
                \/ \E j \in 1 .. Len(tb[b]) : tb[b][j] = Prepend(tb, k, v)[b][i]
<1> DEFINE new == Prepend(tb, k, v)
           b0  == Hash[k]
           e   == [key |-> k, val |-> v]
<1>1. b0 \in Buckets /\ \A b \in Buckets : tb[b] \in Seq(Entry) /\ Len(tb[b]) \in Nat
  BY FindProperties DEF Table
<1>2. e \in Entry /\ e.key = k /\ e.val = v /\ v # FREED
  BY SentinelAssumption DEF Entry
<1>3. new = [tb EXCEPT ![b0] = << e >> \o tb[b0]]
  BY DEF Prepend
<1>4. \A i \in 1 .. Len(tb[b0]) : tb[b0][i].key # k
  BY StoredMeaning
<1>5. \A b \in Buckets \ {b0} : new[b] = tb[b]
  BY <1>3 DEF Table
<1>6. new[b0] = << e >> \o tb[b0]
  BY <1>1, <1>3 DEF Table
<1> HIDE DEF e
<1>7. /\ new[b0] \in Seq(Entry) /\ Len(new[b0]) = Len(tb[b0]) + 1
      /\ new[b0][1] = e
      /\ \A i \in 2 .. Len(tb[b0]) + 1 : new[b0][i] = tb[b0][i - 1] /\ i - 1 \in 1 .. Len(tb[b0])
  BY <1>1, <1>2, <1>6
<1>8. new \in Table
  BY <1>1, <1>3, <1>6, <1>7 DEF Table
<1> HIDE DEF new
<1>9. WellFormed(new)
  <2> SUFFICES ASSUME NEW b \in Buckets, NEW i \in 1 .. Len(new[b]), NEW j \in 1 .. Len(new[b])
               PROVE  /\ Hash[new[b][i].key] = b
                      /\ new[b][i].key = new[b][j].key => i = j
    BY DEF WellFormed
  <2>1. CASE b # b0
    BY <1>5, <2>1 DEF WellFormed
  <2>2. CASE b = b0
    <3>1. \A n \in 1 .. Len(tb[b0]) : Hash[tb[b0][n].key] = b0
      BY <1>1 DEF WellFormed
    <3>2. \A m, n \in 1 .. Len(tb[b0]) : tb[b0][m].key = tb[b0][n].key => m = n
      BY <1>1 DEF WellFormed
    <3>3. i = 1 \/ i \in 2 .. Len(tb[b0]) + 1
      BY <1>1, <1>7, <2>2
    <3>4. j = 1 \/ j \in 2 .. Len(tb[b0]) + 1
      BY <1>1, <1>7, <2>2
    <3>5. Hash[new[b][i].key] = b
      BY <1>2, <1>7, <2>2, <3>1, <3>3, ZenonT(60)
    <3>6. new[b][i].key = new[b][j].key => i = j
      <4>1. CASE i = 1 /\ j \in 2 .. Len(tb[b0]) + 1
        BY <1>2, <1>4, <1>7, <2>2, <4>1
      <4>2. CASE j = 1 /\ i \in 2 .. Len(tb[b0]) + 1
        BY <1>2, <1>4, <1>7, <2>2, <4>2
      <4>3. CASE i \in 2 .. Len(tb[b0]) + 1 /\ j \in 2 .. Len(tb[b0]) + 1
        <5>1. new[b][i].key = new[b][j].key => i - 1 = j - 1
          BY <1>7, <2>2, <3>2, <4>3, ZenonT(60)
        <5> QED
          BY <1>1, <4>3, <5>1
      <4> QED
        BY <3>3, <3>4, <4>1, <4>2, <4>3
    <3> QED
      BY <3>5, <3>6
  <2> QED
    BY <2>1, <2>2
<1>10. Stored(new) = Stored(tb) \cup {k}
  <2>1. ASSUME NEW x \in Keys PROVE x \in Stored(new) <=> x \in Stored(tb) \cup {k}
    <3>1. Hash[x] \in Buckets
      BY HashAssumption
    <3>2. CASE Hash[x] # b0
      BY <1>5, <1>8, <3>1, <3>2, StoredMeaning
    <3>3. CASE Hash[x] = b0
      <4>1. x = k => x \in Stored(new)
        BY <1>1, <1>2, <1>7, <1>8, <3>3, StoredMeaning
      <4>2. x \in Stored(tb) => x \in Stored(new)
        <5> SUFFICES ASSUME x \in Stored(tb) PROVE x \in Stored(new)
          OBVIOUS
        <5>1. PICK i \in 1 .. Len(tb[b0]) : tb[b0][i].key = x
          BY <3>3, StoredMeaning
        <5>2. i + 1 \in 2 .. Len(tb[b0]) + 1 /\ (i + 1) - 1 = i
          BY <1>1
        <5>3. i + 1 \in 1 .. Len(new[b0]) /\ new[b0][i + 1] = tb[b0][i]
          BY <1>1, <1>7, <5>2
        <5> QED
          BY <1>8, <3>3, <5>1, <5>3, StoredMeaning
      <4>3. x \in Stored(new) => x = k \/ x \in Stored(tb)
        <5> SUFFICES ASSUME x \in Stored(new), x # k PROVE x \in Stored(tb)
          OBVIOUS
        <5>1. PICK i \in 1 .. Len(new[b0]) : new[b0][i].key = x
          BY <1>8, <3>3, StoredMeaning
        <5>2. i \in 2 .. Len(tb[b0]) + 1
          BY <1>1, <1>2, <1>7, <5>1
        <5>3. i - 1 \in 1 .. Len(tb[b0]) /\ tb[b0][i - 1].key = x
          BY <1>7, <5>1, <5>2
        <5>4. \E j \in 1 .. Len(tb[Hash[x]]) : tb[Hash[x]][j].key = x
          BY <3>3, <5>3
        <5> QED
          BY <5>4, StoredMeaning
      <4> QED
        BY <4>1, <4>2, <4>3
    <3> QED
      BY <3>2, <3>3
  <2> QED
    BY <2>1 DEF Stored
<1>11. ASSUME NEW b \in Buckets, NEW i \in 1 .. Len(new[b])
       PROVE  new[b][i] = e \/ \E j \in 1 .. Len(tb[b]) : tb[b][j] = new[b][i]
  <2>1. CASE b # b0
    BY <1>5, <2>1
  <2>2. CASE b = b0
    <3>1. i = 1 \/ i \in 2 .. Len(tb[b0]) + 1
      BY <1>1, <1>7, <2>2
    <3> QED
      BY <1>7, <2>2, <3>1
  <2> QED
    BY <2>1, <2>2
<1>12. ASSUME NEW b \in Buckets, NEW i \in 1 .. Len(new[b]), new[b][i].val = FREED
       PROVE  \E j \in 1 .. Len(tb[b]) : tb[b][j] = new[b][i]
  BY <1>2, <1>11, <1>12
<1> QED
  BY <1>8, <1>9, <1>10, <1>11, <1>12 DEF new, e

(***************************************************************************)
(* Clearing a bucket: kv_delete of the head node removes every key of the  *)
(* chain, and no other.                                                    *)
(***************************************************************************)
LEMMA DropChainProperties ==
    ASSUME NEW tb \in Table, WellFormed(tb), NEW k \in Keys
    PROVE  /\ DropChain(tb, k) \in Table
           /\ WellFormed(DropChain(tb, k))
           /\ Stored(DropChain(tb, k)) = {x \in Stored(tb) : Hash[x] # Hash[k]}
           /\ DropChain(tb, k)[Hash[k]] = << >>
           /\ \A b \in Buckets \ {Hash[k]} : DropChain(tb, k)[b] = tb[b]
<1> DEFINE new == DropChain(tb, k)
           b0  == Hash[k]
<1>1. b0 \in Buckets
  BY HashAssumption
<1>2. new[b0] = << >> /\ \A b \in Buckets \ {b0} : new[b] = tb[b]
  BY <1>1 DEF DropChain, Table
<1>3. new \in Table
  BY <1>1 DEF DropChain, Table
<1> HIDE DEF new
<1>4. WellFormed(new)
  BY <1>2 DEF WellFormed
<1>5. Stored(new) = {x \in Stored(tb) : Hash[x] # b0}
  <2>1. ASSUME NEW x \in Keys
        PROVE  x \in Stored(new) <=> x \in Stored(tb) /\ Hash[x] # b0
    <3>1. Hash[x] \in Buckets
      BY HashAssumption
    <3>2. CASE Hash[x] # b0
      BY <1>2, <1>3, <3>1, <3>2, StoredMeaning
    <3>3. CASE Hash[x] = b0
      BY <1>2, <1>3, <3>3, StoredMeaning
    <3> QED
      BY <3>2, <3>3
  <2> QED
    BY <2>1 DEF Stored
<1> QED
  BY <1>2, <1>3, <1>4, <1>5 DEF new

(***************************************************************************)
(* Unlinking the node found removes its key, and no other.                 *)
(***************************************************************************)
LEMMA UnlinkProperties ==
    ASSUME NEW tb \in Table, WellFormed(tb), NEW k \in Stored(tb)
    PROVE  /\ Unlink(tb, k) \in Table
           /\ WellFormed(Unlink(tb, k))
           /\ Stored(Unlink(tb, k)) = Stored(tb) \ {k}
           /\ \A b \in Buckets : \A i \in 1 .. Len(Unlink(tb, k)[b]) :
                \E j \in 1 .. Len(tb[b]) : tb[b][j] = Unlink(tb, k)[b][i]
<1> DEFINE new == Unlink(tb, k)
           b0  == Hash[k]
           p   == Find(tb, k)
           c   == tb[b0]
           front == SubSeq(c, 1, p - 1)
           back  == SubSeq(c, p + 1, Len(c))
           At(i) == IF i < p THEN i ELSE i + 1
<1>1. k \in Keys /\ p # 0
  BY DEF Stored
<1>2. b0 \in Buckets /\ c \in Seq(Entry) /\ p \in 1 .. Len(c) /\ c[p].key = k /\ Len(c) \in Nat
  BY <1>1, FindProperties
<1>3. new = [tb EXCEPT ![b0] = front \o back]
  BY DEF Unlink, RemoveAt
<1> HIDE DEF p, c, front, back
<1>4. \A b \in Buckets \ {b0} : new[b] = tb[b]
  BY <1>3 DEF Table
<1>5. /\ new[b0] \in Seq(Entry)
      /\ Len(new[b0]) = Len(c) - 1
      /\ \A i \in 1 .. Len(c) - 1 : new[b0][i] = c[At(i)] /\ At(i) \in 1 .. Len(c) /\ At(i) # p
  <2>1. /\ front \in Seq(Entry) /\ Len(front) = p - 1
        /\ \A i \in 1 .. p - 1 : front[i] = c[i]
    BY <1>2 DEF front
  <2>2. /\ back \in Seq(Entry) /\ Len(back) = Len(c) - p
        /\ \A i \in 1 .. Len(c) - p : back[i] = c[p + i]
    BY <1>2 DEF back
  <2>3. /\ front \o back \in Seq(Entry)
        /\ Len(front \o back) = Len(front) + Len(back)
        /\ \A i \in 1 .. Len(front) + Len(back) :
             (front \o back)[i] = IF i <= Len(front) THEN front[i] ELSE back[i - Len(front)]
    BY <2>1, <2>2
  <2>4. new[b0] = front \o back
    BY <1>2, <1>3 DEF Table
  <2>5. Len(new[b0]) = Len(c) - 1
    BY <1>2, <2>4, <2>1, <2>2, <2>3
  <2>6. ASSUME NEW i \in 1 .. Len(c) - 1
        PROVE  new[b0][i] = c[At(i)] /\ At(i) \in 1 .. Len(c) /\ At(i) # p
    <3>1. CASE i < p
      <4>1. i \in 1 .. p - 1 /\ i \in 1 .. Len(c) /\ At(i) = i /\ i # p
        BY <1>2, <3>1
      <4>2. i \in 1 .. Len(front) + Len(back) /\ i <= Len(front)
        BY <1>2, <2>1, <2>2, <4>1
      <4>3. new[b0][i] = front[i]
        BY <2>3, <2>4, <4>2
      <4> QED
        BY <2>1, <4>1, <4>3
    <3>2. CASE ~ (i < p)
      <4>1. i - (p - 1) \in 1 .. Len(c) - p /\ p + (i - (p - 1)) = i + 1
        BY <1>2, <3>2
      <4>2. new[b0][i] = back[i - (p - 1)]
        BY <1>2, <2>4, <2>1, <2>2, <2>3, <3>2, <4>1
      <4> QED
        BY <1>2, <2>2, <3>2, <4>1, <4>2, SMTT(30)
    <3> QED
      BY <3>1, <3>2
  <2>7. new[b0] \in Seq(Entry)
    BY <2>3, <2>4
  <2> QED
    BY <2>5, <2>6, <2>7, Zenon
<1>6. new \in Table
  BY <1>2, <1>3, <1>4, <1>5 DEF Table
<1> HIDE DEF new
<1>7. \A i, j \in 1 .. Len(c) - 1 : At(i) = At(j) => i = j
  BY <1>2
<1>8. \A i \in 1 .. Len(c) : Hash[c[i].key] = b0
  BY <1>2 DEF WellFormed, c
<1>9. \A i, j \in 1 .. Len(c) : c[i].key = c[j].key => i = j
  BY <1>2 DEF WellFormed, c
<1>10. \A i \in 1 .. Len(c) : i # p => \E j \in 1 .. Len(c) - 1 : At(j) = i
  <2> SUFFICES ASSUME NEW i \in 1 .. Len(c), i # p
               PROVE  \E j \in 1 .. Len(c) - 1 : At(j) = i
    OBVIOUS
  <2>1. CASE i < p
    <3>1. i \in 1 .. Len(c) - 1 /\ At(i) = i
      BY <1>2, <2>1
    <3> QED
      BY <3>1
  <2>2. CASE ~ (i < p)
    <3>1. i - 1 \in 1 .. Len(c) - 1 /\ At(i - 1) = i
      BY <1>2, <2>2
    <3> QED
      BY <3>1
  <2> QED
    BY <2>1, <2>2
<1> HIDE DEF At
<1>11. WellFormed(new)
  <2> SUFFICES ASSUME NEW b \in Buckets, NEW i \in 1 .. Len(new[b]), NEW j \in 1 .. Len(new[b])
               PROVE  /\ Hash[new[b][i].key] = b
                      /\ new[b][i].key = new[b][j].key => i = j
    BY DEF WellFormed
  <2>1. CASE b # b0
    BY <1>4, <2>1 DEF WellFormed
  <2>2. CASE b = b0
    <3>1. i \in 1 .. Len(c) - 1 /\ j \in 1 .. Len(c) - 1
      BY <1>5, <2>2
    <3>2. Hash[new[b][i].key] = b
      BY <1>5, <1>8, <2>2, <3>1
    <3>3. new[b][i].key = new[b][j].key => At(i) = At(j)
      BY <1>5, <1>9, <2>2, <3>1
    <3> QED
      BY <1>7, <3>1, <3>2, <3>3
  <2> QED
    BY <2>1, <2>2
<1>12. Stored(new) = Stored(tb) \ {k}
  <2>1. ASSUME NEW x \in Keys PROVE x \in Stored(new) <=> x \in Stored(tb) /\ x # k
    <3>1. Hash[x] \in Buckets
      BY HashAssumption
    <3>2. CASE Hash[x] # b0
      BY <1>4, <1>6, <3>1, <3>2, StoredMeaning
    <3>3. CASE Hash[x] = b0
      <4>1. x \in Stored(tb) <=> \E i \in 1 .. Len(c) : c[i].key = x
        BY <3>3, StoredMeaning DEF c
      <4>2. x \in Stored(new) <=> \E i \in 1 .. Len(c) - 1 : new[b0][i].key = x
        BY <1>5, <1>6, <3>3, StoredMeaning, SMTT(30)
      <4>3. ASSUME NEW i \in 1 .. Len(c) - 1, new[b0][i].key = x
            PROVE  x \in Stored(tb) /\ x # k
        BY <1>2, <1>5, <1>9, <4>1, <4>3
      <4>4. ASSUME NEW i \in 1 .. Len(c), c[i].key = x, x # k
            PROVE  x \in Stored(new)
        <5>1. PICK j \in 1 .. Len(c) - 1 : At(j) = i
          BY <1>2, <1>10, <4>4
        <5> QED
          BY <1>5, <4>2, <4>4, <5>1
      <4> QED
        BY <4>1, <4>2, <4>3, <4>4
    <3> QED
      BY <3>2, <3>3
  <2> QED
    BY <2>1, <1>1 DEF Stored
<1>13. \A b \in Buckets : \A i \in 1 .. Len(new[b]) :
          \E j \in 1 .. Len(tb[b]) : tb[b][j] = new[b][i]
  BY <1>4, <1>5 DEF c
<1> QED
  BY <1>6, <1>11, <1>12, <1>13 DEF new

(***************************************************************************)
(* The value a walk ends at.                                               *)
(***************************************************************************)
LEMMA ValueOfMeaning ==
    ASSUME NEW tb \in Table, WellFormed(tb), NEW k \in Keys
    PROVE  /\ k \notin Stored(tb) => ValueOf(tb, k) = NULL
           /\ \A i \in 1 .. Len(tb[Hash[k]]) :
                tb[Hash[k]][i].key = k => ValueOf(tb, k) = tb[Hash[k]][i].val
           /\ k \in Stored(tb) =>
                \E i \in 1 .. Len(tb[Hash[k]]) :
                   tb[Hash[k]][i].key = k /\ ValueOf(tb, k) = tb[Hash[k]][i].val
           /\ k \in Stored(tb) <=> ValueOf(tb, k) # NULL
<1>1. k \notin Stored(tb) => ValueOf(tb, k) = NULL
  BY DEF Stored, ValueOf
<1>2. ASSUME NEW i \in 1 .. Len(tb[Hash[k]]), tb[Hash[k]][i].key = k
      PROVE  ValueOf(tb, k) = tb[Hash[k]][i].val
  <2>1. /\ Hash[k] \in Buckets /\ Find(tb, k) \in 1 .. Len(tb[Hash[k]])
        /\ tb[Hash[k]][Find(tb, k)].key = k
    BY <1>2, FindProperties
  <2>2. Find(tb, k) = i
    BY <1>2, <2>1 DEF WellFormed
  <2> QED
    BY <2>1, <2>2 DEF ValueOf
<1>3. k \in Stored(tb) => \E i \in 1 .. Len(tb[Hash[k]]) : tb[Hash[k]][i].key = k
  BY StoredMeaning
<1>4. k \in Stored(tb) => ValueOf(tb, k) # NULL
  <2> SUFFICES ASSUME k \in Stored(tb) PROVE ValueOf(tb, k) # NULL
    OBVIOUS
  <2>1. PICK i \in 1 .. Len(tb[Hash[k]]) : tb[Hash[k]][i].key = k
    BY <1>3
  <2>2. tb[Hash[k]][i] \in Entry
    BY <2>1, FindProperties
  <2>3. tb[Hash[k]][i].val \in Vals \cup {FREED}
    BY <2>2 DEF Entry
  <2> QED
    BY <1>2, <2>1, <2>3, SentinelAssumption
<1> QED
  BY <1>1, <1>2, <1>3, <1>4

\* A key whose node is an old node has its old value.
LEMMA ValueKept ==
    ASSUME NEW tb \in Table, WellFormed(tb), NEW new \in Table, WellFormed(new),
           NEW k \in Stored(new),
           \A i \in 1 .. Len(new[Hash[k]]) : new[Hash[k]][i].key = k =>
              \E j \in 1 .. Len(tb[Hash[k]]) : tb[Hash[k]][j] = new[Hash[k]][i]
    PROVE  k \in Stored(tb) /\ ValueOf(new, k) = ValueOf(tb, k)
<1>1. k \in Keys
  BY DEF Stored
<1>2. PICK i \in 1 .. Len(new[Hash[k]]) :
         new[Hash[k]][i].key = k /\ ValueOf(new, k) = new[Hash[k]][i].val
  BY <1>1, ValueOfMeaning
<1>3. PICK j \in 1 .. Len(tb[Hash[k]]) : tb[Hash[k]][j] = new[Hash[k]][i]
  BY <1>2
<1>4. tb[Hash[k]][j].key = k
  BY <1>2, <1>3
<1>5. k \in Stored(tb)
  BY <1>1, <1>4, StoredMeaning
<1>6. ValueOf(tb, k) = tb[Hash[k]][j].val
  BY <1>1, <1>4, ValueOfMeaning
<1> QED
  BY <1>2, <1>3, <1>5, <1>6

LEMMA SetValueValue ==
    ASSUME NEW tb \in Table, WellFormed(tb), NEW k \in Stored(tb),
           NEW v \in Vals \cup {FREED}, NEW x \in Keys
    PROVE  ValueOf(SetValue(tb, k, v), x) = IF x = k THEN v ELSE ValueOf(tb, x)
<1> DEFINE new == SetValue(tb, k, v)
<1>1. /\ new \in Table /\ WellFormed(new) /\ Stored(new) = Stored(tb)
      /\ \A b \in Buckets :
           /\ Len(new[b]) = Len(tb[b])
           /\ \A i \in 1 .. Len(tb[b]) :
                /\ new[b][i].key = tb[b][i].key
                /\ new[b][i].val = IF tb[b][i].key = k THEN v ELSE tb[b][i].val
  BY SetValueProperties
<1> HIDE DEF new
<1>2. Hash[x] \in Buckets /\ k \in Keys
  BY HashAssumption DEF Stored
<1>3. CASE x \in Stored(tb)
  <2>1. PICK i \in 1 .. Len(tb[Hash[x]]) :
           tb[Hash[x]][i].key = x /\ ValueOf(tb, x) = tb[Hash[x]][i].val
    BY <1>3, ValueOfMeaning
  <2>2. i \in 1 .. Len(new[Hash[x]]) /\ new[Hash[x]][i].key = x
    BY <1>1, <1>2, <2>1
  <2>3. ValueOf(new, x) = new[Hash[x]][i].val
    BY <1>1, <2>2, ValueOfMeaning
  <2>4. new[Hash[x]][i].val = IF x = k THEN v ELSE tb[Hash[x]][i].val
    BY <1>1, <1>2, <2>1
  <2> QED
    BY <2>1, <2>3, <2>4 DEF new
<1>4. CASE x \notin Stored(tb)
  <2>1. ValueOf(new, x) = NULL /\ ValueOf(tb, x) = NULL /\ x # k
    BY <1>1, <1>4, ValueOfMeaning
  <2> QED
    BY <2>1 DEF new
<1> QED
  BY <1>3, <1>4

LEMMA PrependValue ==
    ASSUME NEW tb \in Table, WellFormed(tb), NEW k \in Keys, k \notin Stored(tb),
           NEW v \in Vals, NEW x \in Keys
    PROVE  ValueOf(Prepend(tb, k, v), x) = IF x = k THEN v ELSE ValueOf(tb, x)
<1> DEFINE new == Prepend(tb, k, v)
           e   == [key |-> k, val |-> v]
<1>1. /\ new \in Table /\ WellFormed(new) /\ Stored(new) = Stored(tb) \cup {k}
      /\ \A b \in Buckets : \A i \in 1 .. Len(new[b]) :
            new[b][i] = e \/ \E j \in 1 .. Len(tb[b]) : tb[b][j] = new[b][i]
  BY PrependProperties
<1>2. e.key = k /\ e.val = v
  OBVIOUS
<1> HIDE DEF new, e
<1>3. Hash[x] \in Buckets
  BY HashAssumption
<1>4. CASE x = k
  <2>1. PICK i \in 1 .. Len(new[Hash[k]]) :
           new[Hash[k]][i].key = k /\ ValueOf(new, k) = new[Hash[k]][i].val
    BY <1>1, ValueOfMeaning
  <2>2. \A j \in 1 .. Len(tb[Hash[k]]) : tb[Hash[k]][j].key # k
    BY StoredMeaning
  <2>3. new[Hash[k]][i] = e
    BY <1>1, <1>3, <1>4, <2>1, <2>2
  <2> QED
    BY <1>2, <1>4, <2>1, <2>3 DEF new
<1>5. CASE x # k /\ x \in Stored(tb)
  <2>1. x \in Stored(new)
    BY <1>1, <1>5
  <2>2. \A i \in 1 .. Len(new[Hash[x]]) : new[Hash[x]][i].key = x =>
           \E j \in 1 .. Len(tb[Hash[x]]) : tb[Hash[x]][j] = new[Hash[x]][i]
    BY <1>1, <1>2, <1>3, <1>5
  <2>3. ValueOf(new, x) = ValueOf(tb, x)
    BY <1>1, <2>1, <2>2, ValueKept
  <2> QED
    BY <1>5, <2>3 DEF new
<1>6. CASE x # k /\ x \notin Stored(tb)
  <2>1. ValueOf(new, x) = NULL /\ ValueOf(tb, x) = NULL
    BY <1>1, <1>6, ValueOfMeaning
  <2> QED
    BY <1>6, <2>1 DEF new
<1> QED
  BY <1>4, <1>5, <1>6

LEMMA UnlinkValue ==
    ASSUME NEW tb \in Table, WellFormed(tb), NEW k \in Stored(tb), NEW x \in Keys
    PROVE  ValueOf(Unlink(tb, k), x) = IF x = k THEN NULL ELSE ValueOf(tb, x)
<1> DEFINE new == Unlink(tb, k)
<1>1. /\ new \in Table /\ WellFormed(new) /\ Stored(new) = Stored(tb) \ {k}
      /\ \A b \in Buckets : \A i \in 1 .. Len(new[b]) :
            \E j \in 1 .. Len(tb[b]) : tb[b][j] = new[b][i]
  BY UnlinkProperties
<1> HIDE DEF new
<1>2. Hash[x] \in Buckets
  BY HashAssumption
<1>3. CASE x \in Stored(new)
  <2>1. ValueOf(new, x) = ValueOf(tb, x)
    BY <1>1, <1>2, <1>3, ValueKept
  <2> QED
    BY <1>1, <1>3, <2>1 DEF new
<1>4. CASE x \notin Stored(new)
  <2>1. ValueOf(new, x) = NULL /\ (x # k => ValueOf(tb, x) = NULL)
    BY <1>1, <1>4, ValueOfMeaning
  <2> QED
    BY <2>1 DEF new
<1> QED
  BY <1>3, <1>4

LEMMA DropChainValue ==
    ASSUME NEW tb \in Table, WellFormed(tb), NEW k \in Keys, NEW x \in Keys
    PROVE  ValueOf(DropChain(tb, k), x) = IF Hash[x] = Hash[k] THEN NULL ELSE ValueOf(tb, x)
<1> DEFINE new == DropChain(tb, k)
<1>1. /\ new \in Table /\ WellFormed(new)
      /\ Stored(new) = {y \in Stored(tb) : Hash[y] # Hash[k]}
      /\ \A b \in Buckets \ {Hash[k]} : new[b] = tb[b]
  BY DropChainProperties
<1> HIDE DEF new
<1>2. Hash[x] \in Buckets
  BY HashAssumption
<1>3. CASE Hash[x] = Hash[k]
  <2>1. ValueOf(new, x) = NULL
    BY <1>1, <1>3, ValueOfMeaning
  <2> QED
    BY <1>3, <2>1 DEF new
<1>4. CASE Hash[x] # Hash[k]
  <2>1. new[Hash[x]] = tb[Hash[x]]
    BY <1>1, <1>2, <1>4
  <2>2. Find(new, x) = Find(tb, x)
    BY <2>1 DEF Find
  <2> QED
    BY <1>4, <2>1, <2>2 DEF ValueOf, new
<1> QED
  BY <1>3, <1>4

(***************************************************************************)
(* The whole calls, as the server makes them.                              *)
(***************************************************************************)
LEMMA WrittenProperties ==
    ASSUME NEW tb \in Table, WellFormed(tb), NEW k \in Keys, NEW v \in Vals
    PROVE  /\ Written(tb, k, v) \in Table
           /\ WellFormed(Written(tb, k, v))
           /\ Stored(Written(tb, k, v)) = Stored(tb) \cup {k}
           /\ \A x \in Keys : ValueOf(Written(tb, k, v), x) = IF x = k THEN v ELSE ValueOf(tb, x)
<1>1. CASE k \in Stored(tb)
  <2>1. Written(tb, k, v) = SetValue(tb, k, v)
    BY <1>1 DEF Written, Stored
  <2>2. Stored(tb) = Stored(tb) \cup {k}
    BY <1>1
  <2> QED
    BY <1>1, <2>1, <2>2, SetValueProperties, SetValueValue
<1>2. CASE k \notin Stored(tb)
  <2>1. Written(tb, k, v) = Prepend(tb, k, v)
    BY <1>2 DEF Written, Stored
  <2>2. /\ Prepend(tb, k, v) \in Table /\ WellFormed(Prepend(tb, k, v))
        /\ Stored(Prepend(tb, k, v)) = Stored(tb) \cup {k}
    BY <1>2, PrependProperties
  <2>3. \A x \in Keys : ValueOf(Prepend(tb, k, v), x) = IF x = k THEN v ELSE ValueOf(tb, x)
    BY <1>2, PrependValue
  <2> QED
    BY <2>1, <2>2, <2>3, Zenon
<1> QED
  BY <1>1, <1>2

LEMMA DeletedProperties ==
    ASSUME NEW tb \in Table, WellFormed(tb), NEW k \in Keys
    PROVE  /\ Deleted(tb, k) \in Table
           /\ WellFormed(Deleted(tb, k))
           /\ Stored(Deleted(tb, k)) \subseteq Stored(tb) \ {k}
           /\ k \notin Stored(tb) => Deleted(tb, k) = tb
           /\ \A x \in Keys :
                \/ ValueOf(Deleted(tb, k), x) = (IF x = k THEN NULL ELSE ValueOf(tb, x))
                \/ ValueOf(Deleted(tb, k), x) = NULL /\ Hash[x] = Hash[k]
<1>1. CASE k \notin Stored(tb)
  <2>1. Deleted(tb, k) = tb
    BY <1>1 DEF Deleted, Stored
  <2>2. ValueOf(tb, k) = NULL
    BY <1>1, ValueOfMeaning
  <2> QED
    BY <1>1, <2>1, <2>2
<1>2. CASE k \in Stored(tb) /\ Find(tb, k) = 1
  <2>1. Deleted(tb, k) = DropChain(tb, k)
    BY <1>2 DEF Deleted
  <2> QED
    BY <1>2, <2>1, DropChainProperties, DropChainValue
<1>3. CASE k \in Stored(tb) /\ Find(tb, k) # 1
  <2>1. Deleted(tb, k) = Unlink(tb, k)
    BY <1>3 DEF Deleted, Stored
  <2> QED
    BY <1>3, <2>1, UnlinkProperties, UnlinkValue
<1> QED
  BY <1>1, <1>2, <1>3

=============================================================================
