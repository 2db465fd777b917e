------------------------ MODULE CipheredQueueProofs ------------------------
(***************************************************************************)
(* Proofs about CipheredQueue, for any words and keys and a file of any    *)
(* length: decoding undoes encoding, the deep copies kept for undo share   *)
(* no node and lose none, and the programs print what a stack of queues of *)
(* words would.                                                            *)
(*                                                                         *)
(* A queue is tied to the sequence s of its nodes by IsList.  What a       *)
(* function of queue.c does to a heap is a lemma about that sequence.      *)
(***************************************************************************)
EXTENDS CipheredQueue, TLAPS, NaturalsInduction, WellFoundedInduction, FiniteSetTheorems

-----------------------------------------------------------------------------
(* caesar.c *)

LEMMA LegalFacts ==
    ASSUME NEW c \in LegalChars
    PROVE  /\ c \in Nat
           /\ \/ c \in Digits /\ First(c) = 48 /\ Base(c) = 10
              \/ c \in Lower /\ First(c) = 97 /\ Base(c) = 26
              \/ c \in Upper /\ First(c) = 65 /\ Base(c) = 26
<1>1. CASE c \in Digits
  <2>1. c \notin Lower /\ c \notin Upper
    BY <1>1 DEF Lower, Digits, Upper
  <2>2. First(c) = 48
    BY <1>1, <2>1 DEF First
  <2> QED
    BY <1>1, <2>2 DEF Base, Digits
<1>2. CASE c \in Lower
  <2>1. c \notin Digits
    BY <1>2 DEF Lower, Digits
  <2> QED
    BY <1>2, <2>1 DEF First, Base, Lower
<1>3. CASE c \in Upper
  <2>1. c \notin Digits /\ c \notin Lower
    BY <1>3 DEF Lower, Digits, Upper
  <2> QED
    BY <1>3, <2>1 DEF First, Base, Upper
<1> QED
  BY <1>1, <1>2, <1>3 DEF LegalChars

\* Where encode and decode move a character.
EncodedChar(c, key) == CMod(c - First(c) + key, Base(c)) + First(c)
DecodedChar(c, key) == CMod(Raised(c - First(c) - key, Base(c)), Base(c)) + First(c)

\* Raising a negative difference does not change its remainder.
LEMMA RaisedMod ==
    ASSUME NEW d \in Int, NEW base \in {10, 26}
    PROVE  CMod(Raised(d, base), base) = d % base
<1>1. CASE d >= 0
  BY <1>1 DEF Raised, CMod
<1>2. CASE d < 0 /\ base = 10
  <2> DEFINE q == (9 - d) \div 10
  <2>1. q \in Int /\ 10 * q =< 9 - d /\ 9 - d < 10 * q + 10
    OBVIOUS
  <2>2. Raised(d, 10) = d + 10 * q
    BY <1>2 DEF Raised
  <2> HIDE DEF q
  <2>3. d + 10 * q >= 0
    BY <2>1
  <2>4. (d + 10 * q) % 10 = d % 10
    BY <2>1
  <2> QED
    BY <1>2, <2>1, <2>2, <2>3, <2>4 DEF CMod
<1>3. CASE d < 0 /\ base = 26
  <2> DEFINE q == (25 - d) \div 26
  <2>1. q \in Int /\ 26 * q =< 25 - d /\ 25 - d < 26 * q + 26
    OBVIOUS
  <2>2. Raised(d, 26) = d + 26 * q
    BY <1>3 DEF Raised
  <2> HIDE DEF q
  <2>3. d + 26 * q >= 0
    BY <2>1
  <2>4. (d + 26 * q) % 26 = d % 26
    BY <2>1
  <2> QED
    BY <1>3, <2>1, <2>2, <2>3, <2>4 DEF CMod
<1> QED
  BY <1>1, <1>2, <1>3

LEMMA CharMoves ==
    ASSUME NEW c \in LegalChars, NEW key \in Nat
    PROVE  /\ EncodedChar(c, key) = First(c) + ((c - First(c) + key) % Base(c))
           /\ DecodedChar(c, key) = First(c) + ((c - First(c) - key) % Base(c))
           /\ EncodedChar(c, key) \in LegalChars
           /\ EncodedChar(c, key) \in Nat
           /\ DecodedChar(c, key) \in LegalChars
           /\ First(EncodedChar(c, key)) = First(c)
           /\ Base(EncodedChar(c, key)) = Base(c)
<1>1. /\ c \in Nat
      /\ \/ c \in Digits /\ First(c) = 48 /\ Base(c) = 10
         \/ c \in Lower /\ First(c) = 97 /\ Base(c) = 26
         \/ c \in Upper /\ First(c) = 65 /\ Base(c) = 26
  BY LegalFacts
<1>2. c - First(c) \in Nat /\ c - First(c) < Base(c)
  BY <1>1 DEF Digits, Lower, Upper
<1>3. EncodedChar(c, key) = First(c) + ((c - First(c) + key) % Base(c))
  BY <1>1, <1>2 DEF EncodedChar, CMod
<1>4. DecodedChar(c, key) = First(c) + ((c - First(c) - key) % Base(c))
  <2>1. c - First(c) - key \in Int /\ Base(c) \in {10, 26}
    BY <1>1
  <2>2. CMod(Raised(c - First(c) - key, Base(c)), Base(c)) = (c - First(c) - key) % Base(c)
    BY <2>1, RaisedMod
  <2>3. (c - First(c) - key) % Base(c) \in Int
    BY <2>1, <1>1
  <2> QED
    BY <2>2, <2>3, <1>1 DEF DecodedChar
<1> DEFINE e == EncodedChar(c, key)
           d == DecodedChar(c, key)
<1>5. /\ c \in Digits => e \in Digits /\ d \in Digits
      /\ c \in Lower => e \in Lower /\ d \in Lower
      /\ c \in Upper => e \in Upper /\ d \in Upper
  <2>1. ASSUME NEW x \in Int
        PROVE  x % 10 \in 0 .. 9 /\ x % 26 \in 0 .. 25
    OBVIOUS
  <2>2. c - First(c) + key \in Int /\ c - First(c) - key \in Int
    BY <1>1
  <2> HIDE DEF e, d
  <2>3. CASE c \in Digits /\ First(c) = 48 /\ Base(c) = 10
    <3>1. (c - First(c) + key) % 10 \in 0 .. 9 /\ (c - First(c) - key) % 10 \in 0 .. 9
      BY <2>1, <2>2
    <3> QED
      BY <2>3, <3>1, <1>3, <1>4 DEF Digits, Lower, Upper, e, d
  <2>4. CASE c \in Lower /\ First(c) = 97 /\ Base(c) = 26
    <3>1. (c - First(c) + key) % 26 \in 0 .. 25 /\ (c - First(c) - key) % 26 \in 0 .. 25
      BY <2>1, <2>2
    <3> QED
      BY <2>4, <3>1, <1>3, <1>4 DEF Digits, Lower, Upper, e, d
  <2>5. CASE c \in Upper /\ First(c) = 65 /\ Base(c) = 26
    <3>1. (c - First(c) + key) % 26 \in 0 .. 25 /\ (c - First(c) - key) % 26 \in 0 .. 25
      BY <2>1, <2>2
    <3> QED
      BY <2>5, <3>1, <1>3, <1>4 DEF Digits, Lower, Upper, e, d
  <2> QED
    BY <1>1, <2>3, <2>4, <2>5
<1> HIDE DEF e, d
<1>6. e \in LegalChars /\ d \in LegalChars
  BY <1>1, <1>5 DEF LegalChars
<1>7. First(e) = First(c) /\ Base(e) = Base(c) /\ e \in Nat
  <2>1. /\ e \in Nat
        /\ \/ e \in Digits /\ First(e) = 48 /\ Base(e) = 10
           \/ e \in Lower /\ First(e) = 97 /\ Base(e) = 26
           \/ e \in Upper /\ First(e) = 65 /\ Base(e) = 26
    BY <1>6, LegalFacts
  <2>2. Digits \cap Lower = {} /\ Digits \cap Upper = {} /\ Lower \cap Upper = {}
    BY DEF Digits, Lower, Upper
  <2> QED
    BY <1>1, <1>5, <2>1, <2>2
<1> QED
  BY <1>3, <1>4, <1>6, <1>7 DEF e, d

LEMMA CharReturns ==
    ASSUME NEW c \in LegalChars, NEW key \in Nat
    PROVE  DecodedChar(EncodedChar(c, key), key) = c
<1> DEFINE e == EncodedChar(c, key)
           x == c - First(c)
<1>1. /\ e = First(c) + ((x + key) % Base(c)) /\ e \in LegalChars
      /\ First(e) = First(c) /\ Base(e) = Base(c)
  BY CharMoves
<1>2. c \in Nat /\ x \in Nat /\ x < Base(c) /\ First(c) \in Nat /\ Base(c) \in {10, 26}
  BY LegalFacts DEF Digits, Lower, Upper
<1>3. DecodedChar(e, key) = First(c) + ((e - First(c) - key) % Base(c))
  <2> HIDE DEF e
  <2> QED
    BY <1>1, CharMoves
<1> HIDE DEF e
<1>4. c = First(c) + x
  BY <1>2
<1> HIDE DEF x
<1>5. (((x + key) % Base(c)) - key) % Base(c) = x
  <2>1. CASE Base(c) = 10
    BY <1>2, <2>1
  <2>2. CASE Base(c) = 26
    BY <1>2, <2>2
  <2> QED
    BY <1>2, <2>1, <2>2
<1>6. e - First(c) = (x + key) % Base(c)
  <2>1. (x + key) % Base(c) \in Int
    BY <1>2
  <2> QED
    BY <1>1, <1>2, <2>1
<1> QED
  BY <1>3, <1>4, <1>5, <1>6 DEF e

\* encode and decode, character by character.
LEMMA EncodeMeaning ==
    ASSUME NEW t, NEW key
    PROVE  /\ (\A i \in DOMAIN t : t[i] \in LegalChars)
                  => encode(t, key) = [i \in DOMAIN t |-> EncodedChar(t[i], key)]
           /\ (\E i \in DOMAIN t : t[i] \notin LegalChars) => encode(t, key) = ILLCHAR
BY Zenon DEF encode, EncodedChar

LEMMA DecodeMeaning ==
    ASSUME NEW t, NEW key
    PROVE  decode(t, key) =
              [i \in DOMAIN t |->
                  IF \E j \in DOMAIN t : t[j] \notin LegalChars /\ j =< i THEN t[i]
                  ELSE DecodedChar(t[i], key)]
<1> DEFINE bad == {i \in DOMAIN t : t[i] \notin LegalChars}
<1>1. \A i \in DOMAIN t :
         (\E j \in bad : j <= i) <=> (\E j \in DOMAIN t : t[j] \notin LegalChars /\ j =< i)
  OBVIOUS
<1>2. decode(t, key) = [i \in DOMAIN t |->
            IF \E j \in bad : j <= i THEN t[i] ELSE DecodedChar(t[i], key)]
  BY DEF decode, DecodedChar
<1> HIDE DEF bad
<1> QED
  BY <1>1, <1>2

(***************************************************************************)
(* decode undoes encode: a word of letters and digits comes back from      *)
(* caesar.c as it was, whatever the key.                                   *)
(***************************************************************************)
THEOREM DecodeUndoesEncode ==
    \A t \in Seq(LegalChars), key \in Nat : decode(encode(t, key), key) = t
<1> SUFFICES ASSUME NEW t \in Seq(LegalChars), NEW key \in Nat
             PROVE  decode(encode(t, key), key) = t
  OBVIOUS
<1> DEFINE e == [i \in DOMAIN t |-> EncodedChar(t[i], key)]
<1>1. \A i \in DOMAIN t : t[i] \in LegalChars
  OBVIOUS
<1>2. encode(t, key) = e
  BY <1>1, EncodeMeaning
<1>3. DOMAIN e = DOMAIN t /\ \A i \in DOMAIN t : e[i] = EncodedChar(t[i], key)
  OBVIOUS
<1> HIDE DEF e
<1>4. \A i \in DOMAIN t : e[i] \in LegalChars /\ DecodedChar(e[i], key) = t[i]
  BY <1>1, <1>3, CharMoves, CharReturns
<1>5. decode(e, key) = [i \in DOMAIN t |-> DecodedChar(e[i], key)]
  <2>1. \A i \in DOMAIN t : ~ \E j \in DOMAIN t : e[j] \notin LegalChars /\ j =< i
    BY <1>4
  <2> QED
    BY <2>1, <1>3, DecodeMeaning
<1>6. decode(e, key) = [i \in DOMAIN t |-> t[i]]
  BY <1>4, <1>5
<1> QED
  BY <1>2, <1>6

-----------------------------------------------------------------------------
(* Lists in a heap. *)

Node == [next : Addrs \cup {NULL}, data : Seq(Int)]
Heap == [Addrs -> Node \cup {NULL}]
Queue == [head : Addrs \cup {NULL}, tail : Addrs \cup {NULL}]
Used(m) == {a \in Addrs : m[a] # NULL}

\* s are the nodes of q in the heap m, each once, from the head to the tail.
IsList(m, q, s) ==
    /\ s \in Seq(Addrs)
    /\ \A i, j \in 1 .. Len(s) : s[i] = s[j] => i = j
    /\ \A i \in 1 .. Len(s) :
          m[s[i]] \in Node /\ m[s[i]].next = IF i = Len(s) THEN NULL ELSE s[i + 1]
    /\ q \in Queue
    /\ q.head = IF Len(s) = 0 THEN NULL ELSE s[1]
    /\ q.tail = IF Len(s) = 0 THEN NULL ELSE s[Len(s)]

LEMMA NullFacts ==
    /\ NULL \notin Addrs
    /\ NULL \notin Node
    /\ IsFiniteSet(Addrs) /\ Cardinality(Addrs) \in Nat
<1>1. Node \subseteq [next : Nat \cup {NULL}, data : Seq(Int)]
  BY MemoryAssumption DEF Node
<1> QED
  BY <1>1, MemoryAssumption, FS_CardinalityType

\* Induction, for a set of numbers.
LEMMA Induction ==
    ASSUME NEW S, 0 \in S, \A n \in Nat : n \in S => n + 1 \in S
    PROVE  Nat \subseteq S
<1> SUFFICES ASSUME Nat \ S # {} PROVE FALSE
  OBVIOUS
<1>1. PICK m \in Nat \ S : \A j \in Nat \ S : ~ (<< j, m >> \in OpToRel(<, Nat))
  <2> HIDE DEF OpToRel
  <2> QED
    BY NatLessThanWellFounded, WFMin, Zenon
<1>2. \A j \in Nat \ S : ~ (j < m)
  BY <1>1 DEF OpToRel
<1>3. m # 0 /\ m - 1 \in Nat
  OBVIOUS
<1>4. m - 1 \in S
  BY <1>2, <1>3
<1> QED
  BY <1>3, <1>4

\* malloc returns a free address when there is one.
LEMMA MallocFree ==
    ASSUME NEW m \in Heap, Used(m) # Addrs
    PROVE  Malloc(m) \in Addrs /\ m[Malloc(m)] = NULL
<1> DEFINE S == {a \in Addrs : m[a] = NULL}
<1>1. S # {} /\ S \subseteq Nat
  BY MemoryAssumption DEF Used
<1>2. PICK i \in S : \A j \in S : ~ (<< j, i >> \in OpToRel(<, Nat))
  <2> HIDE DEF OpToRel, S
  <2> QED
    BY <1>1, NatLessThanWellFounded, WFMin, Zenon
<1>3. \A j \in S : ~ (j < i)
  BY <1>1, <1>2 DEF OpToRel
<1>4. \A j \in S : i =< j
  BY <1>1, <1>3
<1>5. \E a \in Addrs : m[a] = NULL /\ \A b \in Addrs : m[b] = NULL => a <= b
  BY <1>4
<1> QED
  BY <1>5, Zenon DEF Malloc

LEMMA ListFits ==
    ASSUME NEW m, NEW q, NEW s, IsList(m, q, s)
    PROVE  Len(s) \in Nat /\ Len(s) =< Cardinality(Addrs)
<1>1. s \in [1 .. Len(s) -> Addrs] /\ Len(s) \in Nat
  BY DEF IsList
<1>2. s \in Injection(1 .. Len(s), Addrs)
  BY <1>1 DEF IsList, Injection, IsInjective
<1>3. Cardinality(1 .. Len(s)) =< Cardinality(Addrs)
  BY <1>2, NullFacts, FS_Injection
<1> DEFINE n == Len(s)
<1>4. Cardinality(1 .. n) = n
  <2>1. n \in Int /\ 1 \in Int /\ n \in Nat
    BY <1>1
  <2> HIDE DEF n
  <2>2. Cardinality(1 .. n) = IF 1 > n THEN 0 ELSE n - 1 + 1
    BY <2>1, FS_Interval, Zenon
  <2> QED
    BY <2>1, <2>2
<1> QED
  BY <1>1, <1>3, <1>4

\* The walk of Nodes finds the list.
LEMMA NodesOfList ==
    ASSUME NEW m, NEW q, NEW s, IsList(m, q, s)
    PROVE  Nodes(m, q) = s
<1> DEFINE C == Cardinality(Addrs)
           n == Len(s)
           D(f, k) == IF k = 0 THEN q.head
                      ELSE LET a == f[k - 1] IN IF a = NULL THEN NULL ELSE m[a].next
           g == [k \in 0 .. C |-> IF k < n THEN s[k + 1] ELSE NULL]
<1>1. C \in Nat /\ n \in Nat /\ n =< C
  BY ListFits, NullFacts
<1>2. \A i \in 1 .. n : s[i] \in Addrs /\ s[i] # NULL
  BY NullFacts DEF IsList
<1>3. \A i \in 1 .. n : m[s[i]].next = IF i = n THEN NULL ELSE s[i + 1]
  BY DEF IsList
<1>4. q.head = IF n = 0 THEN NULL ELSE s[1]
  BY DEF IsList
<1> HIDE DEF C, n
<1>5. ASSUME NEW k \in 0 .. C PROVE g[k] = D(g, k)
  <2>1. CASE k = 0
    BY <1>1, <1>4, <2>1
  <2>2. CASE k # 0 /\ k - 1 < n
    <3>1. k - 1 \in 0 .. C /\ k \in 1 .. n /\ g[k - 1] = s[k]
      BY <1>1, <2>2
    <3>2. D(g, k) = m[s[k]].next
      BY <2>2, <3>1, <1>2
    <3> QED
      BY <1>1, <1>3, <3>1, <3>2
  <2>3. CASE k # 0 /\ ~ (k - 1 < n)
    <3>1. k - 1 \in 0 .. C /\ ~ (k < n) /\ g[k - 1] = NULL
      BY <1>1, <2>3
    <3> QED
      BY <2>3, <3>1
  <2> QED
    BY <2>1, <2>2, <2>3
<1>6. g = [k \in 0 .. C |-> D(g, k)]
  <2>1. g = [k \in 0 .. C |-> g[k]]
    OBVIOUS
  <2> HIDE DEF D, g
  <2> QED
    BY <1>5, <2>1
<1> DEFINE w == CHOOSE f : f = [k \in 0 .. C |-> D(f, k)]
           Ends(j) == w[j] = NULL /\ \A k \in 0 .. (j - 1) : w[k] # NULL
           len == CHOOSE j \in 0 .. C : Ends(j)
<1>7. w = [k \in 0 .. C |-> D(w, k)]
  <2> HIDE DEF D, g
  <2> QED
    BY <1>6, Zenon
<1>8. Nodes(m, q) = [i \in 1 .. len |-> w[i - 1]]
  BY Zenon DEF Nodes, C
<1> HIDE DEF w
<1>9. \A k \in 0 .. C : w[k] = g[k]
  <2> DEFINE S == {k \in Nat : k \in 0 .. C => w[k] = g[k]}
  <2>1. 0 \in S
    BY <1>1, <1>6, <1>7
  <2>2. ASSUME NEW k \in Nat, k \in S PROVE k + 1 \in S
    <3> SUFFICES ASSUME k + 1 \in 0 .. C PROVE w[k + 1] = g[k + 1]
      OBVIOUS
    <3>1. w[k] = g[k]
      BY <1>1, <2>2
    <3> HIDE DEF g
    <3>2. w[k + 1] = D(w, k + 1) /\ g[k + 1] = D(g, k + 1)
      <4> HIDE DEF D
      <4> QED
        BY <1>6, <1>7
    <3>3. D(w, k + 1) = D(g, k + 1)
      BY <3>1
    <3> QED
      BY <3>2, <3>3
  <2> HIDE DEF S
  <2>3. Nat \subseteq S
    BY <2>1, <2>2, Induction
  <2> HIDE DEF g
  <2>4. \A k \in 0 .. C : k \in Nat /\ k \in S
    BY <2>3, <1>1
  <2> QED
    BY <2>4 DEF S
<1>10. \A k \in 0 .. C : w[k] = IF k < n THEN s[k + 1] ELSE NULL
  BY <1>9
<1>11. Ends(n)
  BY <1>1, <1>2, <1>10
<1>12. \A j \in 0 .. C : Ends(j) => j = n
  BY <1>1, <1>2, <1>10
<1>13. len = n
  <2> HIDE DEF Ends
  <2>1. n \in 0 .. C
    BY <1>1
  <2>2. Ends(len) /\ len \in 0 .. C
    BY <2>1, <1>11
  <2> QED
    BY <2>2, <1>12
<1> HIDE DEF len
<1>14. s = [i \in 1 .. n |-> s[i]]
  BY DEF IsList, n
<1>15. \A i \in 1 .. n : w[i - 1] = s[i]
  BY <1>1, <1>10
<1> QED
  BY <1>8, <1>13, <1>14, <1>15

\* Sequences are equal when they have the same elements.
LEMMA SeqEqual ==
    ASSUME NEW T, NEW c \in Seq(T), NEW d \in Seq(T), Len(c) = Len(d),
           \A i \in 1 .. Len(c) : c[i] = d[i]
    PROVE  c = d
OBVIOUS

LEMMA ContentsOfList ==
    ASSUME NEW m, NEW q, NEW s, IsList(m, q, s)
    PROVE  /\ Contents(m, q) = [i \in 1 .. Len(s) |-> m[s[i]].data]
           /\ Contents(m, q) \in Seq(Seq(Int))
           /\ Len(Contents(m, q)) = Len(s)
           /\ \A i \in 1 .. Len(s) : Contents(m, q)[i] = m[s[i]].data
<1>1. Nodes(m, q) = s
  BY NodesOfList
<1>2. DOMAIN s = 1 .. Len(s) /\ Len(s) \in Nat
  BY DEF IsList
<1>3. Contents(m, q) = [i \in 1 .. Len(s) |-> m[s[i]].data]
  BY <1>1, <1>2 DEF Contents
<1>4. \A i \in 1 .. Len(s) : m[s[i]].data \in Seq(Int)
  BY DEF IsList, Node
<1> QED
  BY <1>2, <1>3, <1>4

\* Two lists with the same data.
LEMMA SameContents ==
    ASSUME NEW m, NEW q, NEW s, IsList(m, q, s), NEW m2, NEW q2, NEW t, IsList(m2, q2, t),
           Len(t) = Len(s), \A i \in 1 .. Len(s) : m2[t[i]].data = m[s[i]].data
    PROVE  Contents(m2, q2) = Contents(m, q)
<1> DEFINE c == Contents(m, q)
           d == Contents(m2, q2)
<1>1. Nodes(m, q) = s /\ DOMAIN s = 1 .. Len(s) /\ Nodes(m2, q2) = t /\ DOMAIN t = 1 .. Len(t)
  <2>1. Nodes(m, q) = s /\ Nodes(m2, q2) = t
    BY NodesOfList
  <2> QED
    BY <2>1 DEF IsList
<1>2. c = [i \in 1 .. Len(s) |-> m[s[i]].data]
  BY <1>1 DEF Contents
<1>3. d = [i \in 1 .. Len(t) |-> m2[t[i]].data]
  BY <1>1 DEF Contents
<1> HIDE DEF c, d
<1>4. c = d
  BY <1>2, <1>3
<1> QED
  BY <1>4 DEF c, d

\* A list is where it was when none of its nodes changed.
LEMMA ListFrame ==
    ASSUME NEW m, NEW q, NEW s, IsList(m, q, s), NEW m2,
           \A i \in 1 .. Len(s) : m2[s[i]] = m[s[i]]
    PROVE  /\ IsList(m2, q, s)
           /\ Contents(m2, q) = Contents(m, q)
<1>1. IsList(m2, q, s)
  BY DEF IsList
<1>2. Contents(m2, q) = [i \in 1 .. Len(s) |-> m2[s[i]].data]
  BY <1>1, ContentsOfList
<1>3. Contents(m, q) = [i \in 1 .. Len(s) |-> m[s[i]].data]
  BY ContentsOfList
<1> QED
  BY <1>1, <1>2, <1>3

LEMMA EmptyIsList == ASSUME NEW m PROVE IsList(m, EmptyQueue, << >>)
BY DEF IsList, EmptyQueue, Queue

LEMMA EnqueueFacts ==
    ASSUME NEW m \in Heap, NEW q, NEW s, IsList(m, q, s), NEW data \in Seq(Int),
           Used(m) # Addrs, NEW a, a = Malloc(m), NEW r, r = enqueue(m, q, data)
    PROVE  /\ r.heap \in Heap
           /\ a \in Addrs \ Used(m)
           /\ Used(r.heap) = Used(m) \cup {a}
           /\ IsList(r.heap, r.q, Append(s, a))
           /\ \A b \in Addrs : b # a /\ (\A i \in 1 .. Len(s) : b # s[i]) => r.heap[b] = m[b]
           /\ \A i \in 1 .. Len(s) : r.heap[s[i]].data = m[s[i]].data
           /\ r.heap[a].data = data
<1> DEFINE node == [next |-> NULL, data |-> data]
           new == [m EXCEPT ![a] = node]
           n == Len(s)
           t == Append(s, a)
<1>1. a \in Addrs /\ m[a] = NULL
  BY MallocFree
<1>2. NULL \notin Addrs /\ NULL \notin Node
  BY NullFacts
<1>3. node \in Node /\ node.next = NULL /\ node.data = data
  BY DEF Node
<1>4. s \in Seq(Addrs) /\ n \in Nat /\ \A i \in 1 .. n : s[i] \in Addrs /\ m[s[i]] \in Node
  BY DEF IsList
<1>5. \A i \in 1 .. n : s[i] # a
  BY <1>1, <1>2, <1>4
<1> HIDE DEF node
<1>6. new \in Heap /\ new[a] = node /\ \A b \in Addrs : b # a => new[b] = m[b]
  BY <1>1, <1>3 DEF Heap
<1>7. /\ t \in Seq(Addrs) /\ Len(t) = n + 1 /\ t[n + 1] = a
      /\ \A i \in 1 .. n : t[i] = s[i]
  BY <1>1, <1>4
<1>8. \A i, j \in 1 .. (n + 1) : t[i] = t[j] => i = j
  BY <1>4, <1>5, <1>7 DEF IsList
<1>9. q.tail = (IF n = 0 THEN NULL ELSE s[n]) /\ q.head = (IF n = 0 THEN NULL ELSE s[1]) /\ q \in Queue
  BY DEF IsList
<1> HIDE DEF new, t, n
<1>10. CASE n = 0
  <2>1. r = [heap |-> new, q |-> [head |-> a, tail |-> a]]
    BY <1>9, <1>10 DEF enqueue, new, node
  <2>2. r.heap = new /\ r.q = [head |-> a, tail |-> a]
    BY <2>1
  <2>3. r.q \in Queue /\ r.q.head = a /\ r.q.tail = a
    BY <2>2, <1>1 DEF Queue
  <2>4. IsList(new, r.q, t)
    BY <1>3, <1>6, <1>7, <1>8, <1>10, <2>3 DEF IsList
  <2>5. Used(new) = Used(m) \cup {a}
    BY <1>1, <1>2, <1>3, <1>6 DEF Used
  <2> QED
    BY <1>1, <1>3, <1>4, <1>6, <1>10, <2>2, <2>4, <2>5 DEF Used, t, n
<1>11. CASE n # 0
  <2> DEFINE l == s[n]
             h == [new EXCEPT ![l].next = a]
  <2>1. l \in Addrs /\ l # a /\ m[l] \in Node /\ q.tail = l /\ l # NULL /\ n \in 1 .. n
    BY <1>2, <1>4, <1>5, <1>9, <1>11
  <2>2. r = [heap |-> h, q |-> [q EXCEPT !.tail = a]]
    BY <2>1 DEF enqueue, new, node
  <2>3. r.heap = h /\ r.q = [q EXCEPT !.tail = a]
    BY <2>2
  <2>4. r.q \in Queue /\ r.q.head = s[1] /\ r.q.tail = a
    BY <2>3, <1>1, <1>9, <1>11 DEF Queue
  <2>5. new[l] = m[l]
    BY <2>1, <1>6
  <2>6. /\ h[l] = [m[l] EXCEPT !.next = a]
        /\ h[l] \in Node /\ h[l].next = a /\ h[l].data = m[l].data
    BY <2>1, <2>5, <1>1, <1>6 DEF Heap, Node
  <2>7. /\ h \in Heap /\ h[a] = node
        /\ \A b \in Addrs : b # a /\ b # l => h[b] = m[b]
    BY <2>1, <2>6, <1>1, <1>6 DEF Heap
  <2> HIDE DEF l, h
  <2>8. \A i \in 1 .. n : i # n => s[i] # l
    BY <2>1 DEF IsList, n, l
  <2>9. ASSUME NEW i \in 1 .. (n + 1)
        PROVE  h[t[i]] \in Node /\ h[t[i]].next = IF i = n + 1 THEN NULL ELSE t[i + 1]
    <3>1. CASE i = n + 1
      BY <3>1, <1>3, <1>7, <2>7
    <3>2. CASE i = n
      <4>1. t[i] = l /\ t[i + 1] = a /\ i # n + 1
        BY <3>2, <1>4, <1>7, <2>1 DEF l
      <4> QED
        BY <4>1, <2>6
    <3>3. CASE i # n /\ i # n + 1
      <4>1. i \in 1 .. n /\ i + 1 \in 1 .. n
        BY <3>3, <1>4
      <4>2. t[i] = s[i] /\ t[i + 1] = s[i + 1] /\ h[s[i]] = m[s[i]]
        BY <3>3, <4>1, <1>4, <1>5, <1>7, <2>7, <2>8
      <4>3. m[s[i]].next = s[i + 1] /\ m[s[i]] \in Node
        BY <3>3, <4>1 DEF IsList, n
      <4> QED
        BY <3>3, <4>2, <4>3
    <3> QED
      BY <3>1, <3>2, <3>3
  <2>10. t[1] = s[1] /\ n + 1 # 0
    BY <1>4, <1>7, <1>11
  <2>11. IsList(h, r.q, t)
    BY <1>7, <1>8, <2>4, <2>9, <2>10 DEF IsList
  <2>12. Used(h) = Used(m) \cup {a}
    BY <1>1, <1>2, <1>3, <2>1, <2>6, <2>7 DEF Used
  <2>13. \A i \in 1 .. n : h[s[i]].data = m[s[i]].data
    BY <1>4, <1>5, <2>6, <2>7
  <2>14. \A b \in Addrs : b # a /\ (\A i \in 1 .. n : b # s[i]) => h[b] = m[b]
    BY <2>1, <2>7 DEF l
  <2>15. a \notin Used(m) /\ h[a].data = data
    BY <1>1, <1>3, <2>7 DEF Used
  <2> QED
    BY <1>1, <2>3, <2>7, <2>11, <2>12, <2>13, <2>14, <2>15 DEF t, n
<1> QED
  BY <1>10, <1>11

\* copy_queue is what its recursive definition says it is.
LEMMA CopyDefined ==
    ASSUME NEW m, NEW q, Len(Contents(m, q)) \in Nat
    PROVE  \E w :
              /\ copy_queue(m, q) = w[Len(Contents(m, q))]
              /\ w[0] = [heap |-> m, q |-> EmptyQueue]
              /\ \A k \in 1 .. Len(Contents(m, q)) :
                    w[k] = enqueue(w[k - 1].heap, w[k - 1].q, Contents(m, q)[k])
<1> DEFINE words == Contents(m, q)
           D(f, k) == IF k = 0 THEN [heap |-> m, q |-> EmptyQueue]
                      ELSE LET r == f[k - 1] IN enqueue(r.heap, r.q, words[k])
           S == {n \in Nat : \E f : f = [k \in 0 .. n |-> D(f, k)]}
<1>1. 0 \in S
  <2> DEFINE g == [k \in 0 .. 0 |-> [heap |-> m, q |-> EmptyQueue]]
  <2>1. \A k \in 0 .. 0 : D(g, k) = [heap |-> m, q |-> EmptyQueue]
    OBVIOUS
  <2>2. g = [k \in 0 .. 0 |-> D(g, k)]
    <3> HIDE DEF D
    <3> QED
      BY <2>1
  <2> QED
    BY <2>2
<1>2. ASSUME NEW n \in Nat, n \in S PROVE n + 1 \in S
  <2>1. PICK f : f = [k \in 0 .. n |-> D(f, k)]
    BY <1>2
  <2> DEFINE g == [k \in 0 .. (n + 1) |-> IF k = n + 1 THEN D(f, k) ELSE f[k]]
  <2>2. ASSUME NEW k \in 0 .. (n + 1) PROVE g[k] = D(g, k)
    <3>1. CASE k = 0
      <4>1. g[k] = f[k] /\ f[k] = D(f, k)
        BY <3>1, <2>1
      <4> QED
        BY <4>1, <3>1
    <3>2. CASE k # 0
      <4>1. k - 1 \in 0 .. n /\ k - 1 \in 0 .. (n + 1) /\ k - 1 # n + 1
        BY <3>2
      <4>2. g[k - 1] = f[k - 1]
        BY <4>1
      <4>3. g[k] = D(f, k)
        <5>1. CASE k = n + 1
          BY <5>1
        <5>2. CASE k # n + 1
          <6>1. k \in 0 .. n
            BY <5>2
          <6>2. f[k] = D(f, k)
            <7> HIDE DEF D
            <7> QED BY <2>1, <6>1
          <6> QED
            BY <5>2, <6>2
        <5> QED
          BY <5>1, <5>2
      <4> HIDE DEF g
      <4> QED
        BY <4>2, <4>3
    <3> QED
      BY <3>1, <3>2
  <2>3. g = [k \in 0 .. (n + 1) |-> D(g, k)]
    <3>1. g = [k \in 0 .. (n + 1) |-> g[k]]
      OBVIOUS
    <3> HIDE DEF D, g
    <3> QED
      BY <2>2, <3>1
  <2> HIDE DEF g, D
  <2> QED
    BY <2>3
<1> HIDE DEF S
<1>3. Len(words) \in S
  BY <1>1, <1>2, Induction
<1>4. \E f : f = [k \in 0 .. Len(words) |-> D(f, k)]
  BY <1>3 DEF S
<1> DEFINE w == CHOOSE f : f = [k \in 0 .. Len(words) |-> D(f, k)]
<1>5. w = [k \in 0 .. Len(words) |-> D(w, k)]
  <2> HIDE DEF D
  <2> QED
    BY <1>4, Zenon
<1>6. copy_queue(m, q) = w[Len(words)]
  BY Zenon DEF copy_queue
<1> HIDE DEF w, words
<1>7. w[0] = [heap |-> m, q |-> EmptyQueue]
  BY <1>5 DEF words
<1>8. \A k \in 1 .. Len(words) : w[k] = enqueue(w[k - 1].heap, w[k - 1].q, words[k])
  <2> SUFFICES ASSUME NEW k \in 1 .. Len(words)
               PROVE  w[k] = enqueue(w[k - 1].heap, w[k - 1].q, words[k])
    OBVIOUS
  <2>1. k \in 0 .. Len(words) /\ k # 0
    BY DEF words
  <2>2. w[k] = D(w, k)
    <3> HIDE DEF D
    <3> QED
      BY <1>5, <2>1
  <2> QED
    BY <2>1, <2>2
<1> QED
  BY <1>6, <1>7, <1>8 DEF words

\* The nodes a copy of n words adds: t, with the data of the first n of s.
CopyOf(m, s, r, t, n) ==
    /\ r.heap \in Heap
    /\ IsList(r.heap, r.q, t)
    /\ Len(t) = n
    /\ \A i \in 1 .. n : r.heap[t[i]].data = m[s[i]].data
    /\ \A i \in 1 .. n : t[i] \notin Used(m)
    /\ \A b \in Used(m) : r.heap[b] = m[b]
    /\ Used(r.heap) = Used(m) \cup {t[i] : i \in 1 .. n}
    /\ Cardinality(Used(r.heap)) = Cardinality(Used(m)) + n

LEMMA UsedFinite ==
    ASSUME NEW m
    PROVE  /\ IsFiniteSet(Used(m)) /\ Cardinality(Used(m)) \in Nat
           /\ Cardinality(Used(m)) < Cardinality(Addrs) => Used(m) # Addrs
<1>1. Used(m) \in SUBSET Addrs
  BY DEF Used
<1>2. IsFiniteSet(Used(m))
  BY <1>1, NullFacts, FS_Subset
<1>3. Cardinality(Used(m)) \in Nat
  BY <1>2, FS_CardinalityType
<1>4. Cardinality(Used(m)) < Cardinality(Addrs) => Used(m) # Addrs
  BY <1>3, NullFacts
<1> QED
  BY <1>2, <1>3, <1>4

\* One round of the loop of copy_queue.
LEMMA CopyRound ==
    ASSUME NEW m \in Heap, NEW s, NEW n \in Nat, NEW r, NEW t, CopyOf(m, s, r, t, n),
           m[s[n + 1]].data \in Seq(Int),
           Cardinality(Used(m)) + n < Cardinality(Addrs)
    PROVE  \E t2 : CopyOf(m, s, enqueue(r.heap, r.q, m[s[n + 1]].data), t2, n + 1)
<1> DEFINE a == Malloc(r.heap)
           r2 == enqueue(r.heap, r.q, m[s[n + 1]].data)
           t2 == Append(t, a)
<1>1. Used(r.heap) # Addrs
  BY UsedFinite DEF CopyOf
<1>2. r.heap \in Heap /\ IsList(r.heap, r.q, t) /\ Len(t) = n
  BY DEF CopyOf
<1>3. /\ r2.heap \in Heap
      /\ a \in Addrs \ Used(r.heap)
      /\ Used(r2.heap) = Used(r.heap) \cup {a}
      /\ IsList(r2.heap, r2.q, t2)
      /\ \A b \in Addrs : b # a /\ (\A i \in 1 .. n : b # t[i]) => r2.heap[b] = r.heap[b]
      /\ \A i \in 1 .. n : r2.heap[t[i]].data = r.heap[t[i]].data
      /\ r2.heap[a].data = m[s[n + 1]].data
  <2> HIDE DEF a, r2
  <2>1. a = Malloc(r.heap) /\ r2 = enqueue(r.heap, r.q, m[s[n + 1]].data)
    BY DEF a, r2
  <2> QED
    BY <1>1, <1>2, <2>1, EnqueueFacts
<1> HIDE DEF a, r2
<1>4. t \in Seq(Addrs)
  BY <1>2 DEF IsList
<1>5. Len(t2) = n + 1 /\ t2[n + 1] = a /\ \A i \in 1 .. n : t2[i] = t[i]
  BY <1>2, <1>3, <1>4
<1> HIDE DEF t2
<1>6. \A i \in 1 .. (n + 1) : i = n + 1 \/ i \in 1 .. n
  OBVIOUS
<1>7. \A i \in 1 .. (n + 1) : r2.heap[t2[i]].data = m[s[i]].data
  BY <1>3, <1>5, <1>6 DEF CopyOf
<1>8. Used(m) \subseteq Used(r.heap)
  BY DEF CopyOf
<1>9. \A i \in 1 .. (n + 1) : t2[i] \notin Used(m)
  BY <1>3, <1>5, <1>6, <1>8 DEF CopyOf
<1>10. ASSUME NEW b \in Used(m) PROVE r2.heap[b] = m[b]
  <2>1. b # a /\ b \in Addrs /\ \A i \in 1 .. n : b # t[i]
    BY <1>3, <1>8 DEF CopyOf, Used
  <2> QED
    BY <2>1, <1>3 DEF CopyOf
<1>11. {t2[i] : i \in 1 .. (n + 1)} = {t[i] : i \in 1 .. n} \cup {a}
  <2>1. n + 1 \in 1 .. (n + 1) /\ \A i \in 1 .. n : i \in 1 .. (n + 1)
    OBVIOUS
  <2> QED
    BY <1>5, <1>6, <2>1
<1>12. Used(r2.heap) = Used(m) \cup {t2[i] : i \in 1 .. (n + 1)}
  BY <1>3, <1>11 DEF CopyOf
<1>13. Cardinality(Used(r2.heap)) = Cardinality(Used(m)) + (n + 1)
  <2>1. Cardinality(Used(r.heap) \cup {a}) = Cardinality(Used(r.heap)) + 1
    BY <1>3, UsedFinite, FS_AddElement
  <2>2. Cardinality(Used(r.heap)) = Cardinality(Used(m)) + n
    BY DEF CopyOf
  <2> QED
    BY <1>3, <2>1, <2>2, UsedFinite
<1>14. CopyOf(m, s, r2, t2, n + 1)
  BY <1>3, <1>5, <1>7, <1>9, <1>10, <1>12, <1>13 DEF CopyOf
<1> QED
  BY <1>14 DEF r2

LEMMA CopyFacts ==
    ASSUME NEW m \in Heap, NEW q, NEW s, IsList(m, q, s),
           Cardinality(Used(m)) + Len(s) =< Cardinality(Addrs)
    PROVE  \E t : CopyOf(m, s, copy_queue(m, q), t, Len(s))
<1> DEFINE N == Len(s)
           words == Contents(m, q)
<1>1. Len(words) = N /\ N \in Nat /\ words = [i \in 1 .. N |-> m[s[i]].data]
  BY ContentsOfList, ListFits
<1>2. \A i \in 1 .. N : m[s[i]].data \in Seq(Int)
  BY DEF IsList, Node
<1>3. PICK w : /\ copy_queue(m, q) = w[N]
               /\ w[0] = [heap |-> m, q |-> EmptyQueue]
               /\ \A k \in 1 .. N : w[k] = enqueue(w[k - 1].heap, w[k - 1].q, words[k])
  BY <1>1, CopyDefined
<1>4. Cardinality(Used(m)) \in Nat /\ Cardinality(Addrs) \in Nat
  BY UsedFinite, NullFacts
<1>5. Cardinality(Used(m)) + N =< Cardinality(Addrs)
  OBVIOUS
<1> HIDE DEF N, words
<1> DEFINE S == {k \in Nat : k =< N => \E t : CopyOf(m, s, w[k], t, k)}
<1>6. 0 \in S
  <2>1. w[0].heap = m /\ w[0].q = EmptyQueue
    BY <1>3
  <2>2. CopyOf(m, s, w[0], << >>, 0)
    BY <1>4, <2>1, EmptyIsList DEF CopyOf
  <2> QED
    BY <2>2
<1>7. ASSUME NEW k \in Nat, k \in S PROVE k + 1 \in S
  <2> SUFFICES ASSUME k + 1 =< N PROVE \E t : CopyOf(m, s, w[k + 1], t, k + 1)
    OBVIOUS
  <2>1. PICK t : CopyOf(m, s, w[k], t, k)
    BY <1>1, <1>7
  <2>2. k + 1 \in 1 .. N /\ (k + 1) - 1 = k
    BY <1>1
  <2>3. w[k + 1] = enqueue(w[k].heap, w[k].q, words[k + 1])
    BY <1>3, <2>2
  <2>4. words[k + 1] = m[s[k + 1]].data /\ m[s[k + 1]].data \in Seq(Int)
    BY <1>1, <1>2, <2>2
  <2>5. Cardinality(Used(m)) + k < Cardinality(Addrs)
    BY <1>1, <1>4, <1>5
  <2> HIDE DEF S
  <2>6. \E t2 : CopyOf(m, s, enqueue(w[k].heap, w[k].q, m[s[k + 1]].data), t2, k + 1)
    BY <2>1, <2>4, <2>5, CopyRound
  <2> QED
    BY <2>3, <2>4, <2>6
<1> HIDE DEF S
<1>8. N \in S
  BY <1>1, <1>6, <1>7, Induction
<1>9. \E t : CopyOf(m, s, w[N], t, N)
  BY <1>1, <1>8 DEF S
<1> QED
  BY <1>3, <1>9 DEF N

-----------------------------------------------------------------------------
(* The queues that are kept. *)

KeptNodes(m, kept) == UNION {Range(Nodes(m, kept[i])) : i \in 1 .. Len(kept)}
Hist(m, kept) == [i \in DOMAIN kept |-> Contents(m, kept[i])]

\* Every queue is a list, and no two of them share a node.
Lists(m, kept) ==
    /\ kept \in Seq(Queue)
    /\ \A i \in 1 .. Len(kept) : IsList(m, kept[i], Nodes(m, kept[i]))
    /\ \A i, j \in 1 .. Len(kept) :
          i # j => Range(Nodes(m, kept[i])) \cap Range(Nodes(m, kept[j])) = {}

Owned(m, kept) == m \in Heap /\ Lists(m, kept) /\ Used(m) = KeptNodes(m, kept)

\* What the programs keep invariant: line n made a queue of at most n nodes.
IInv ==
    /\ program \in {"queue", "ciphered-queue"}
    /\ running \in BOOLEAN
    /\ lines \in 0 .. MaxLines
    /\ Owned(heap, gq)
    /\ \A i \in 1 .. Len(gq) : Len(Nodes(heap, gq[i])) =< lines
    /\ 2 * Cardinality(Used(heap)) =< lines * (lines + 1)
    /\ running => Len(gq) >= 1
    /\ running /\ program = "queue" => Len(gq) = 1

LEMMA RangeList ==
    ASSUME NEW s, NEW T, s \in Seq(T)
    PROVE  Range(s) = {s[i] : i \in 1 .. Len(s)}
BY DEF Range

\* A list of another heap, as far as its nodes are the same.
LEMMA NodesFrame ==
    ASSUME NEW m, NEW q, IsList(m, q, Nodes(m, q)), NEW m2,
           \A a \in Range(Nodes(m, q)) : m2[a] = m[a]
    PROVE  /\ IsList(m2, q, Nodes(m2, q))
           /\ Nodes(m2, q) = Nodes(m, q)
           /\ Contents(m2, q) = Contents(m, q)
<1> DEFINE s == Nodes(m, q)
<1>1. IsList(m, q, s) /\ \A a \in Range(s) : m2[a] = m[a]
  OBVIOUS
<1> HIDE DEF s
<1>2. s \in Seq(Addrs)
  BY <1>1 DEF IsList
<1>3. \A i \in 1 .. Len(s) : m2[s[i]] = m[s[i]]
  BY <1>1, <1>2, RangeList
<1>4. IsList(m2, q, s) /\ Contents(m2, q) = Contents(m, q)
  BY <1>1, <1>3, ListFrame
<1>5. Nodes(m2, q) = s
  BY <1>4, NodesOfList
<1> QED
  BY <1>4, <1>5 DEF s

LEMMA KeptNodesIn ==
    ASSUME NEW m, NEW kept
    PROVE  /\ \A i \in 1 .. Len(kept) : Range(Nodes(m, kept[i])) \subseteq KeptNodes(m, kept)
           /\ \A a \in KeptNodes(m, kept) :
                 \E i \in 1 .. Len(kept) : a \in Range(Nodes(m, kept[i]))
BY DEF KeptNodes

\* The same queues in another heap.
LEMMA ListsFrame ==
    ASSUME NEW m, NEW kept, Lists(m, kept), NEW m2,
           \A a \in KeptNodes(m, kept) : m2[a] = m[a]
    PROVE  /\ Lists(m2, kept)
           /\ \A i \in 1 .. Len(kept) : Nodes(m2, kept[i]) = Nodes(m, kept[i])
           /\ KeptNodes(m2, kept) = KeptNodes(m, kept)
           /\ Hist(m2, kept) = Hist(m, kept)
<1>1. ASSUME NEW i \in 1 .. Len(kept)
      PROVE  /\ IsList(m2, kept[i], Nodes(m2, kept[i]))
             /\ Nodes(m2, kept[i]) = Nodes(m, kept[i])
             /\ Contents(m2, kept[i]) = Contents(m, kept[i])
  <2>1. IsList(m, kept[i], Nodes(m, kept[i]))
    BY DEF Lists
  <2>2. \A a \in Range(Nodes(m, kept[i])) : m2[a] = m[a]
    BY KeptNodesIn
  <2> QED
    BY <2>1, <2>2, NodesFrame
<1>2. DOMAIN kept = 1 .. Len(kept)
  BY DEF Lists
<1> QED
  BY <1>1, <1>2 DEF Lists, KeptNodes, Hist

\* One more queue.
LEMMA ListsAppend ==
    ASSUME NEW m0, NEW base, Lists(m0, base), NEW m, NEW q, NEW t, IsList(m, q, t),
           \A a \in KeptNodes(m0, base) : m[a] = m0[a] /\ a \notin Range(t)
    PROVE  /\ Lists(m, Append(base, q))
           /\ KeptNodes(m, Append(base, q)) = KeptNodes(m0, base) \cup Range(t)
           /\ Hist(m, Append(base, q)) = Append(Hist(m0, base), Contents(m, q))
           /\ \A i \in 1 .. Len(base) : Nodes(m, Append(base, q)[i]) = Nodes(m0, base[i])
           /\ Nodes(m, Append(base, q)[Len(base) + 1]) = t
<1> DEFINE K == Append(base, q)
           N == Len(base)
<1>1. base \in Seq(Queue) /\ q \in Queue
  BY DEF Lists, IsList
<1>2. /\ N \in Nat /\ K \in Seq(Queue) /\ Len(K) = N + 1 /\ K[N + 1] = q
      /\ \A i \in 1 .. N : K[i] = base[i]
  BY <1>1
<1>3. /\ Lists(m, base) /\ KeptNodes(m, base) = KeptNodes(m0, base)
      /\ Hist(m, base) = Hist(m0, base)
      /\ \A i \in 1 .. N : Nodes(m, base[i]) = Nodes(m0, base[i])
  BY ListsFrame
<1>4. Nodes(m, q) = t
  BY NodesOfList
<1> HIDE DEF K, N
<1>5. \A i \in 1 .. (N + 1) : i = N + 1 \/ i \in 1 .. N
  BY <1>2
<1>6. N + 1 \in 1 .. (N + 1) /\ \A i \in 1 .. N : i \in 1 .. (N + 1)
  BY <1>2
<1>7. Nodes(m, K[N + 1]) = t /\ \A i \in 1 .. N : Nodes(m, K[i]) = Nodes(m, base[i])
  BY <1>2, <1>4
<1>8. Lists(m, K)
  <2>1. \A i \in 1 .. (N + 1) : IsList(m, K[i], Nodes(m, K[i]))
    BY <1>2, <1>3, <1>5, <1>7 DEF Lists, N
  <2>2. \A i \in 1 .. N : Range(Nodes(m, base[i])) \cap Range(t) = {}
    BY <1>3, KeptNodesIn DEF N
  <2>3. \A i, j \in 1 .. (N + 1) :
           i # j => Range(Nodes(m, K[i])) \cap Range(Nodes(m, K[j])) = {}
    <3> SUFFICES ASSUME NEW i \in 1 .. (N + 1), NEW j \in 1 .. (N + 1), i # j
                 PROVE  Range(Nodes(m, K[i])) \cap Range(Nodes(m, K[j])) = {}
      OBVIOUS
    <3>1. CASE i = N + 1
      BY <3>1, <1>5, <1>7, <2>2
    <3>2. CASE j = N + 1
      BY <3>2, <1>5, <1>7, <2>2
    <3>3. CASE i # N + 1 /\ j # N + 1
      BY <3>3, <1>3, <1>5, <1>7 DEF Lists, N
    <3> QED
      BY <3>1, <3>2, <3>3
  <2> QED
    BY <1>2, <2>1, <2>3 DEF Lists
<1>9. KeptNodes(m, K) = KeptNodes(m, base) \cup Range(t)
  <2>1. ASSUME NEW a PROVE a \in KeptNodes(m, K) <=> a \in KeptNodes(m, base) \cup Range(t)
    <3>1. a \in KeptNodes(m, K) <=> \E i \in 1 .. (N + 1) : a \in Range(Nodes(m, K[i]))
      BY <1>2 DEF KeptNodes
    <3>2. a \in KeptNodes(m, base) <=> \E i \in 1 .. N : a \in Range(Nodes(m, base[i]))
      BY DEF KeptNodes, N
    <3> QED
      BY <3>1, <3>2, <1>5, <1>6, <1>7
  <2> QED
    BY <2>1
<1>10. Hist(m, K) = Append(Hist(m, base), Contents(m, q))
  <2> DEFINE H == Hist(m, base)
             c == Contents(m, q)
  <2>1. DOMAIN base = 1 .. N /\ DOMAIN K = 1 .. (N + 1)
    BY <1>1, <1>2 DEF N
  <2>2. H = [i \in 1 .. N |-> Contents(m, base[i])]
    BY <2>1 DEF Hist
  <2> DEFINE T == {Contents(m, base[i]) : i \in 1 .. N} \cup {c}
  <2>3. H \in Seq(T) /\ Len(H) = N /\ c \in T
    BY <1>2, <2>2
  <2>4. Hist(m, K) = [i \in 1 .. (N + 1) |-> Contents(m, K[i])]
    BY <2>1 DEF Hist
  <2> HIDE DEF H, c, T
  <2>5. Append(H, c) = [i \in 1 .. (N + 1) |-> IF i = N + 1 THEN c ELSE H[i]]
    <3> DEFINE A == Append(H, c)
    <3>1. /\ A \in Seq(T) /\ Len(A) = N + 1 /\ A[N + 1] = c
          /\ \A i \in 1 .. N : A[i] = H[i]
      BY <1>2, <2>3
    <3> HIDE DEF A
    <3>2. A = [i \in 1 .. (N + 1) |-> A[i]]
      BY <3>1
    <3>3. \A i \in 1 .. (N + 1) : A[i] = IF i = N + 1 THEN c ELSE H[i]
      BY <1>5, <3>1
    <3>4. A = [i \in 1 .. (N + 1) |-> IF i = N + 1 THEN c ELSE H[i]]
      BY <3>2, <3>3
    <3> QED
      BY <3>4 DEF A
  <2>6. \A i \in 1 .. (N + 1) : Contents(m, K[i]) = IF i = N + 1 THEN c ELSE H[i]
    BY <1>2, <1>5, <2>2 DEF c
  <2>7. Hist(m, K) = Append(H, c)
    BY <2>4, <2>5, <2>6
  <2> QED
    BY <2>7 DEF H, c
<1> QED
  BY <1>3, <1>7, <1>8, <1>9, <1>10 DEF K, N

\* The queues that stay as they are when a command's queue is added.
Before == IF program = "queue" THEN << >> ELSE gq

\* The queue a command works on, in its heap, before it is kept.
Ready(m, q, t, n) ==
    /\ m \in Heap
    /\ IsList(m, q, t)
    /\ Len(t) =< n
    /\ \A a \in KeptNodes(heap, Before) : m[a] = heap[a] /\ a \notin Range(t)
    /\ Used(m) = KeptNodes(heap, Before) \cup Range(t)

\* Memory suffices for what one more line adds.
LEMMA Room ==
    ASSUME NEW n \in Nat, n < MaxLines
    PROVE  /\ n * (n + 1) \in Nat /\ (n + 1) * (n + 1 + 1) \in Nat
           /\ n * (n + 1) + 2 * n + 2 = (n + 1) * (n + 1 + 1)
           /\ (n + 1) * (n + 1 + 1) =< 2 * Cardinality(Addrs)
<1>1. MaxLines \in Nat /\ MaxLines * (MaxLines + 1) =< 2 * Cardinality(Addrs)
  BY MemoryAssumption
<1> DEFINE k == n + 1
<1>2. k \in Nat /\ k =< MaxLines /\ k + 1 =< MaxLines + 1
  BY <1>1
<1> HIDE DEF k
<1>3. k * (k + 1) =< MaxLines * (MaxLines + 1)
  <2>1. k * (k + 1) =< MaxLines * (k + 1)
    BY <1>1, <1>2
  <2>2. MaxLines * (k + 1) =< MaxLines * (MaxLines + 1)
    BY <1>1, <1>2
  <2>3. k * (k + 1) \in Nat /\ MaxLines * (k + 1) \in Nat /\ MaxLines * (MaxLines + 1) \in Nat
    BY <1>1, <1>2
  <2> QED
    BY <2>1, <2>2, <2>3
<1>4. k * (k + 1) \in Nat /\ MaxLines * (MaxLines + 1) \in Nat
  BY <1>1, <1>2
<1>5. k * (k + 1) =< 2 * Cardinality(Addrs)
  <2>1. Cardinality(Addrs) \in Nat
    BY NullFacts
  <2> QED
    BY <1>1, <1>3, <1>4, <2>1
<1>6. n * (n + 1) \in Nat
  OBVIOUS
<1>7. n * (n + 1) + 2 * n + 2 = (n + 1) * (n + 1 + 1)
  OBVIOUS
<1> QED
  BY <1>4, <1>5, <1>6, <1>7 DEF k

LEMMA LastKept ==
    ASSUME IInv, running
    PROVE  /\ Len(gq) \in Nat /\ Len(gq) >= 1 /\ DOMAIN gq = 1 .. Len(gq)
           /\ Len(gq) \in 1 .. Len(gq) /\ Last(gq) = gq[Len(gq)]
           /\ IsList(heap, Last(gq), Nodes(heap, Last(gq)))
           /\ Len(Nodes(heap, Last(gq))) =< lines
<1>1. gq \in Seq(Queue) /\ Len(gq) >= 1
  BY DEF IInv, Owned, Lists
<1>2. Len(gq) \in Nat /\ DOMAIN gq = 1 .. Len(gq) /\ Len(gq) \in 1 .. Len(gq)
  BY <1>1
<1>3. Last(gq) = gq[Len(gq)]
  BY DEF Last
<1> QED
  BY <1>1, <1>2, <1>3 DEF IInv, Owned, Lists

LEMMA TargetFacts ==
    ASSUME IInv, running, lines < MaxLines
    PROVE  \E t :
              /\ Ready(Target.heap, Target.q, t, lines)
              /\ Contents(Target.heap, Target.q) = Contents(heap, Last(gq))
              /\ 2 * Cardinality(Used(Target.heap)) =< lines * (lines + 1) + 2 * lines
<1> DEFINE l == Len(gq)
           s == Nodes(heap, Last(gq))
           U == Cardinality(Used(heap))
<1>1. lines \in Nat /\ U \in Nat /\ 2 * U =< lines * (lines + 1) /\ lines * (lines + 1) \in Nat
  BY UsedFinite, Room, MemoryAssumption DEF IInv
<1>2. heap \in Heap /\ Lists(heap, gq) /\ Used(heap) = KeptNodes(heap, gq)
  BY DEF IInv, Owned
<1>3. /\ l \in Nat /\ l >= 1 /\ Last(gq) = gq[l]
      /\ IsList(heap, Last(gq), s) /\ Len(s) =< lines /\ Len(s) \in Nat
  BY LastKept, ListFits
<1>4. CASE program = "queue"
  <2>1. l = 1 /\ Before = << >>
    BY <1>4 DEF IInv, Before
  <2>2. Target = [heap |-> heap, q |-> Last(gq)]
    BY <1>4 DEF Target
  <2>3. Target.heap = heap /\ Target.q = Last(gq)
    BY <2>2
  <2>4. KeptNodes(heap, Before) = {}
    BY <2>1 DEF KeptNodes
  <2>5. KeptNodes(heap, gq) = Range(s)
    <3>1. \A i \in 1 .. Len(gq) : i = 1
      BY <2>1
    <3>2. 1 \in 1 .. Len(gq) /\ s = Nodes(heap, gq[1])
      BY <2>1, <1>3
    <3> QED
      BY <3>1, <3>2 DEF KeptNodes
  <2>6. Ready(heap, Last(gq), s, lines)
    BY <1>2, <1>3, <2>4, <2>5 DEF Ready
  <2>7. 2 * U =< lines * (lines + 1) + 2 * lines
    <3> DEFINE x == lines * (lines + 1)
    <3>1. x \in Nat /\ 2 * U =< x
      BY <1>1
    <3> HIDE DEF x
    <3>2. 2 * U =< x + 2 * lines
      BY <3>1, <1>1
    <3> QED
      BY <3>2 DEF x
  <2> QED
    BY <2>3, <2>6, <2>7
<1>5. CASE program # "queue"
  <2>1. Target = copy_queue(heap, Last(gq)) /\ Before = gq
    BY <1>5 DEF Target, Before
  <2>2. /\ U + Len(s) =< Cardinality(Addrs)
        /\ 2 * (U + Len(s)) =< lines * (lines + 1) + 2 * lines
    <3> DEFINE x == lines * (lines + 1)
               y == (lines + 1) * (lines + 1 + 1)
    <3>1. x \in Nat /\ y \in Nat /\ x + 2 * lines + 2 = y /\ y =< 2 * Cardinality(Addrs)
      BY <1>1, Room
    <3>2. Cardinality(Addrs) \in Nat /\ 2 * U =< x
      BY NullFacts, <1>1
    <3> HIDE DEF x, y, U, s
    <3>3. U + Len(s) =< Cardinality(Addrs) /\ 2 * (U + Len(s)) =< x + 2 * lines
      BY <1>1, <1>3, <3>1, <3>2
    <3> QED
      BY <3>3 DEF x
  <2> HIDE DEF U, s
  <2>3. PICK t : CopyOf(heap, s, Target, t, Len(s))
    BY <1>2, <1>3, <2>1, <2>2, CopyFacts DEF U
  <2>4. /\ Target.heap \in Heap /\ IsList(Target.heap, Target.q, t) /\ Len(t) = Len(s)
        /\ \A i \in 1 .. Len(s) : Target.heap[t[i]].data = heap[s[i]].data /\ t[i] \notin Used(heap)
        /\ \A b \in Used(heap) : Target.heap[b] = heap[b]
        /\ Used(Target.heap) = Used(heap) \cup {t[i] : i \in 1 .. Len(s)}
        /\ Cardinality(Used(Target.heap)) = U + Len(s)
    BY <2>3 DEF CopyOf, U
  <2>5. Range(t) = {t[i] : i \in 1 .. Len(s)}
    BY <2>4, RangeList DEF IsList
  <2>6. Ready(Target.heap, Target.q, t, lines)
    <3>1. \A a \in KeptNodes(heap, gq) : Target.heap[a] = heap[a] /\ a \notin Range(t)
      BY <1>2, <2>4, <2>5
    <3> QED
      BY <1>2, <1>3, <2>1, <2>4, <2>5, <3>1 DEF Ready
  <2>7. Contents(Target.heap, Target.q) = Contents(heap, Last(gq))
    BY <1>3, <2>4, SameContents
  <2> QED
    BY <2>2, <2>4, <2>6, <2>7
<1> QED
  BY <1>4, <1>5

\* A command's queue is kept.
LEMMA KeepStep ==
    ASSUME IInv, Line, NEW m, NEW q, NEW t, Ready(m, q, t, lines + 1),
           2 * Cardinality(Used(m)) =< (lines + 1) * (lines + 1 + 1),
           heap' = m, Keep(q), running' = running
    PROVE  /\ IInv'
           /\ Hist(heap', gq') = IF program = "queue" THEN << Contents(m, q) >>
                                 ELSE Append(Hist(heap, gq), Contents(m, q))
<1>1. Lists(heap, Before)
  <2>1. CASE program = "queue"
    BY <2>1 DEF Before, Lists
  <2>2. CASE program # "queue"
    BY <2>2 DEF Before, IInv, Owned
  <2> QED
    BY <2>1, <2>2
<1>2. gq' = Append(Before, q)
  <2>1. CASE program = "queue"
    BY <2>1 DEF Keep, Before
  <2>2. CASE program # "queue"
    BY <2>2 DEF Keep, Before
  <2> QED
    BY <2>1, <2>2
<1>3. running /\ lines < MaxLines /\ lines' = lines + 1 /\ program' = program
  BY DEF Line
<1>4. /\ IsList(m, q, t) /\ m \in Heap /\ Len(t) =< lines + 1
      /\ \A a \in KeptNodes(heap, Before) : m[a] = heap[a] /\ a \notin Range(t)
      /\ Used(m) = KeptNodes(heap, Before) \cup Range(t)
  BY DEF Ready
<1>5. lines \in Nat /\ lines + 1 \in Nat /\ lines + 1 \in 0 .. MaxLines
  BY <1>3, MemoryAssumption DEF IInv
<1>6. \A i \in 1 .. Len(Before) : Len(Nodes(heap, Before[i])) =< lines + 1
  <2> SUFFICES ASSUME NEW i \in 1 .. Len(Before) PROVE Len(Nodes(heap, Before[i])) =< lines + 1
    OBVIOUS
  <2>1. Before = gq
    BY DEF Before
  <2>2. Len(Nodes(heap, gq[i])) =< lines /\ IsList(heap, gq[i], Nodes(heap, gq[i]))
    BY <2>1 DEF IInv, Owned, Lists
  <2>3. Len(Nodes(heap, gq[i])) \in Nat
    BY <2>2, ListFits
  <2> QED
    BY <1>5, <2>1, <2>2, <2>3
<1>7. /\ Lists(m, gq') /\ KeptNodes(m, gq') = Used(m)
      /\ Hist(m, gq') = Append(Hist(heap, Before), Contents(m, q))
      /\ \A i \in 1 .. Len(gq') : Len(Nodes(m, gq'[i])) =< lines + 1
  <2> DEFINE K == Append(Before, q)
             N == Len(Before)
  <2>1. Lists(m, K) /\ KeptNodes(m, K) = KeptNodes(heap, Before) \cup Range(t)
    BY <1>1, <1>4, ListsAppend
  <2>2. Hist(m, K) = Append(Hist(heap, Before), Contents(m, q))
    BY <1>1, <1>4, ListsAppend
  <2>3. /\ \A i \in 1 .. N : Nodes(m, K[i]) = Nodes(heap, Before[i])
        /\ Nodes(m, K[N + 1]) = t
    BY <1>1, <1>4, ListsAppend
  <2>4. Before \in Seq(Queue) /\ q \in Queue
    BY <1>1, <1>4 DEF Lists, IsList
  <2>5. Len(K) = N + 1 /\ N \in Nat
    BY <2>4
  <2>6. K = gq'
    BY <1>2
  <2> HIDE DEF K, N
  <2>7. \A i \in 1 .. (N + 1) : i = N + 1 \/ i \in 1 .. N
    BY <2>5
  <2>8. \A i \in 1 .. (N + 1) : Len(Nodes(m, K[i])) =< lines + 1
    BY <1>4, <1>6, <2>3, <2>7 DEF N
  <2> QED
    BY <1>4, <2>1, <2>2, <2>5, <2>6, <2>8
<1>8. Owned(heap', gq')
  BY <1>4, <1>7 DEF Owned
<1>9. Before \in Seq(Queue) /\ q \in Queue
  BY <1>1, <1>4 DEF Lists, IsList
<1>10. Len(gq') = Len(Before) + 1 /\ Len(Before) \in Nat
  BY <1>2, <1>9
<1>11. Len(gq') >= 1 /\ (program = "queue" => Len(gq') = 1)
  BY <1>10 DEF Before
<1>12. IInv'
  BY <1>3, <1>5, <1>7, <1>8, <1>11 DEF IInv
<1>13. Hist(heap, << >>) = << >> /\ Append(<< >>, Contents(m, q)) = << Contents(m, q) >>
  BY DEF Hist
<1>14. Hist(heap', gq') = IF program = "queue" THEN << Contents(m, q) >>
                          ELSE Append(Hist(heap, gq), Contents(m, q))
  BY <1>7, <1>13 DEF Before
<1> QED
  BY <1>12, <1>14

-----------------------------------------------------------------------------
(* The commands. *)

\* What a command that keeps its queue does to the words that are kept.
Grown(queue) ==
    Hist(heap', gq') =
        IF program = "queue" THEN << queue >> ELSE Append(Hist(heap, gq), queue)
Present == Contents(heap, Last(gq))

LEMMA PresentTyped ==
    ASSUME IInv, running
    PROVE  Present \in Seq(Seq(Int))
BY LastKept, ContentsOfList DEF Present

LEMMA LineFacts ==
    ASSUME IInv, Line
    PROVE  running /\ lines < MaxLines /\ lines \in Nat
BY MemoryAssumption DEF IInv, Line

LEMMA EnqueueStep ==
    ASSUME IInv, NEW data \in Seq(Int), Enqueue(data)
    PROVE  IInv' /\ Grown(Append(Present, data))
<1> DEFINE m == Target.heap
           q == Target.q
           a == Malloc(m)
           r == enqueue(m, q, data)
           c == Contents(m, q)
<1>1. Line /\ heap' = r.heap /\ Keep(r.q) /\ running' = running
  BY DEF Enqueue
<1>2. running /\ lines < MaxLines /\ lines \in Nat
  BY <1>1, LineFacts
<1>3. PICK t : /\ Ready(m, q, t, lines) /\ c = Present
               /\ 2 * Cardinality(Used(m)) =< lines * (lines + 1) + 2 * lines
  BY <1>2, TargetFacts DEF Present
<1>4. m \in Heap /\ IsList(m, q, t) /\ Len(t) =< lines
  BY <1>3 DEF Ready
<1> HIDE DEF m, q
<1>5. /\ Used(m) # Addrs
      /\ 2 * (Cardinality(Used(m)) + 1) =< (lines + 1) * (lines + 1 + 1)
  <2> DEFINE x == lines * (lines + 1)
             y == (lines + 1) * (lines + 1 + 1)
             U == Cardinality(Used(m))
  <2>1. x \in Nat /\ y \in Nat /\ x + 2 * lines + 2 = y /\ y =< 2 * Cardinality(Addrs)
    BY <1>2, Room
  <2>2. U \in Nat /\ Cardinality(Addrs) \in Nat /\ 2 * U =< x + 2 * lines
    BY <1>3, UsedFinite, NullFacts
  <2> HIDE DEF x, y, U
  <2>3. U < Cardinality(Addrs) /\ 2 * (U + 1) =< y
    BY <1>2, <2>1, <2>2
  <2> QED
    BY <2>3, UsedFinite DEF U, y
<1>6. /\ r.heap \in Heap
      /\ a \in Addrs \ Used(m)
      /\ Used(r.heap) = Used(m) \cup {a}
      /\ IsList(r.heap, r.q, Append(t, a))
      /\ \A b \in Addrs : b # a /\ (\A i \in 1 .. Len(t) : b # t[i]) => r.heap[b] = m[b]
      /\ \A i \in 1 .. Len(t) : r.heap[t[i]].data = m[t[i]].data
      /\ r.heap[a].data = data
  <2> HIDE DEF a, r
  <2>1. a = Malloc(m) /\ r = enqueue(m, q, data)
    BY DEF a, r
  <2> QED
    BY <1>4, <1>5, <2>1, EnqueueFacts
<1> HIDE DEF a, r
<1> DEFINE t2 == Append(t, a)
           n == Len(t)
<1>7. t \in Seq(Addrs) /\ n \in Nat
  BY <1>4 DEF IsList
<1>8. /\ t2 \in Seq(Addrs) /\ Len(t2) = n + 1 /\ t2[n + 1] = a
      /\ \A i \in 1 .. n : t2[i] = t[i]
  BY <1>6, <1>7
<1>9. Range(t) = {t[i] : i \in 1 .. n}
  BY <1>7, RangeList
<1>10. Range(t2) = Range(t) \cup {a}
  <2>1. Range(t2) = {t2[i] : i \in 1 .. (n + 1)}
    BY <1>8, RangeList
  <2>2. \A i \in 1 .. (n + 1) : i = n + 1 \/ i \in 1 .. n
    BY <1>7
  <2>3. n + 1 \in 1 .. (n + 1) /\ \A i \in 1 .. n : i \in 1 .. (n + 1)
    BY <1>7
  <2> HIDE DEF t2, n
  <2> QED
    BY <1>8, <1>9, <2>1, <2>2, <2>3
<1>11. Ready(r.heap, r.q, t2, lines + 1)
  <2>1. Used(m) = KeptNodes(heap, Before) \cup Range(t) /\ Used(m) \subseteq Addrs
    BY <1>3 DEF Ready, Used
  <2>2. ASSUME NEW b \in KeptNodes(heap, Before)
        PROVE  r.heap[b] = heap[b] /\ b \notin Range(t2)
    <3>1. m[b] = heap[b] /\ b \notin Range(t)
      BY <1>3, <2>2 DEF Ready
    <3>2. b \in Addrs /\ b # a /\ \A i \in 1 .. n : b # t[i]
      BY <1>6, <1>9, <2>1, <3>1
    <3> QED
      BY <1>6, <1>10, <3>1, <3>2
  <2>3. Len(t2) =< lines + 1
    BY <1>2, <1>4, <1>7, <1>8
  <2> HIDE DEF t2
  <2>4. Used(r.heap) = KeptNodes(heap, Before) \cup Range(t2)
    BY <1>6, <1>10, <2>1
  <2>5. IsList(r.heap, r.q, t2)
    BY <1>6 DEF t2
  <2> QED
    BY <1>6, <2>2, <2>3, <2>4, <2>5 DEF Ready
<1>12. 2 * Cardinality(Used(r.heap)) =< (lines + 1) * (lines + 1 + 1)
  <2>1. Cardinality(Used(m) \cup {a}) = Cardinality(Used(m)) + 1
    BY <1>6, UsedFinite, FS_AddElement
  <2> QED
    BY <1>5, <1>6, <2>1
<1>13. Contents(r.heap, r.q) = Append(c, data)
  <2> DEFINE d == Contents(r.heap, r.q)
             A == Append(c, data)
  <2>1. c \in Seq(Seq(Int)) /\ Len(c) = n /\ \A i \in 1 .. n : c[i] = m[t[i]].data
    BY <1>4, ContentsOfList
  <2>2. /\ d \in Seq(Seq(Int)) /\ Len(d) = Len(t2)
        /\ \A i \in 1 .. Len(t2) : d[i] = r.heap[t2[i]].data
    <3> HIDE DEF t2
    <3>1. IsList(r.heap, r.q, t2)
      BY <1>6 DEF t2
    <3> QED
      BY <3>1, ContentsOfList
  <2> HIDE DEF c, t2, d
  <2>3. A \in Seq(Seq(Int)) /\ Len(A) = n + 1 /\ A[n + 1] = data /\ \A i \in 1 .. n : A[i] = c[i]
    BY <1>7, <2>1
  <2>4. d[n + 1] = data
    BY <1>6, <1>7, <1>8, <2>2
  <2>5. ASSUME NEW i \in 1 .. n PROVE d[i] = c[i]
    <3>1. i \in 1 .. Len(t2)
      BY <1>7, <1>8
    <3>2. d[i] = r.heap[t2[i]].data /\ t2[i] = t[i]
      BY <1>8, <2>2, <3>1
    <3>3. r.heap[t[i]].data = m[t[i]].data
      BY <1>6
    <3> QED
      BY <2>1, <3>2, <3>3
  <2> HIDE DEF A, n
  <2>6. \A i \in 1 .. (n + 1) : d[i] = A[i]
    <3>1. \A i \in 1 .. (n + 1) : i = n + 1 \/ i \in 1 .. n
      BY <1>7
    <3> QED
      BY <3>1, <2>3, <2>4, <2>5
  <2>7. d = A
    <3>1. Len(d) = n + 1
      BY <1>8, <2>2
    <3> QED
      BY <3>1, <2>2, <2>3, <2>6, SeqEqual
  <2> QED
    BY <2>7 DEF d, A
<1> HIDE DEF t2
<1>14. IInv' /\ Grown(Contents(r.heap, r.q))
  BY <1>1, <1>11, <1>12, KeepStep DEF Grown
<1> QED
  BY <1>3, <1>13, <1>14 DEF Grown

\* dequeue, and the node freed.
LEMMA DequeueFacts ==
    ASSUME NEW m \in Heap, NEW q, NEW t, IsList(m, q, t), q.head # NULL
    PROVE  /\ free(m, {q.head}) \in Heap
           /\ q.head = t[1] /\ t # << >>
           /\ IsList(free(m, {q.head}), Dequeued(m, q), Tail(t))
           /\ Len(Tail(t)) =< Len(t)
           /\ \A x : x \in Range(t) <=> x \in Range(Tail(t)) \/ x = q.head
           /\ q.head \notin Range(Tail(t))
           /\ Used(free(m, {q.head})) = Used(m) \ {q.head}
           /\ \A a \in Addrs : a # q.head => free(m, {q.head})[a] = m[a]
           /\ Contents(free(m, {q.head}), Dequeued(m, q)) = Tail(Contents(m, q))
           /\ Contents(m, q) # << >> /\ Head(Contents(m, q)) = m[q.head].data
<1> DEFINE h == q.head
           m2 == free(m, {h})
           q2 == Dequeued(m, q)
           u == Tail(t)
           n == Len(t)
<1>1. t \in Seq(Addrs) /\ n \in Nat /\ n # 0 /\ h = t[1] /\ q.tail = t[n] /\ h \in Addrs
  BY DEF IsList
<1>2. u \in Seq(Addrs) /\ Len(u) = n - 1 /\ \A i \in 1 .. (n - 1) : u[i] = t[i + 1]
  BY <1>1
<1>3. m2 = [a \in Addrs |-> IF a = h THEN NULL ELSE m[a]]
  BY DEF free
<1>4. m2 \in Heap /\ m2[h] = NULL /\ \A a \in Addrs : a # h => m2[a] = m[a]
  BY <1>1, <1>3 DEF Heap
<1>5. \A i, j \in 1 .. n : t[i] = t[j] => i = j
  BY DEF IsList
<1>6. \A i \in 1 .. n : t[i] \in Addrs /\ m[t[i]] \in Node
                        /\ m[t[i]].next = IF i = n THEN NULL ELSE t[i + 1]
  BY <1>1 DEF IsList
<1> HIDE DEF h, m2, u, n
<1>7. \A i \in 1 .. (n - 1) : i + 1 \in 1 .. n /\ i + 1 # 1
  BY <1>1
<1>8. \A i \in 1 .. (n - 1) : u[i] # h /\ u[i] \in Addrs /\ m2[u[i]] = m[t[i + 1]]
  <2> SUFFICES ASSUME NEW i \in 1 .. (n - 1)
               PROVE  u[i] # h /\ u[i] \in Addrs /\ m2[u[i]] = m[t[i + 1]]
    OBVIOUS
  <2>1. u[i] = t[i + 1] /\ i + 1 \in 1 .. n /\ 1 \in 1 .. n /\ i + 1 # 1
    BY <1>1, <1>2, <1>7
  <2>2. t[i + 1] # t[1] /\ t[i + 1] \in Addrs
    BY <1>5, <1>6, <2>1
  <2> QED
    BY <1>1, <1>4, <2>1, <2>2
<1>9. 1 \in 1 .. n /\ m[h].next = IF n = 1 THEN NULL ELSE t[2]
  <2>1. 1 \in 1 .. n
    BY <1>1
  <2>2. m[t[1]].next = IF 1 = n THEN NULL ELSE t[1 + 1]
    BY <1>6, <2>1
  <2> QED
    BY <1>1, <2>1, <2>2
<1>10. NULL \notin Addrs
  BY NullFacts
<1>11. /\ q2 \in Queue
       /\ q2.head = IF n - 1 = 0 THEN NULL ELSE u[1]
       /\ q2.tail = IF n - 1 = 0 THEN NULL ELSE u[n - 1]
  <2>1. q2 = [head |-> m[h].next, tail |-> IF m[h].next = NULL THEN NULL ELSE q.tail]
    BY DEF Dequeued, h
  <2>2. CASE n = 1
    BY <1>9, <2>1, <2>2 DEF Queue
  <2>3. CASE n # 1
    <3>1. 1 \in 1 .. (n - 1) /\ n - 1 \in 1 .. (n - 1) /\ (n - 1) + 1 = n /\ 1 + 1 = 2
      BY <1>1, <2>3
    <3>2. u[1] = t[2] /\ u[n - 1] = t[n]
      BY <1>2, <3>1
    <3>3. u[1] \in Addrs /\ u[n - 1] \in Addrs
      BY <1>8, <3>1
    <3>4. q2.head = u[1] /\ q2.tail = u[n - 1]
      BY <1>1, <1>9, <1>10, <2>1, <2>3, <3>2, <3>3
    <3> QED
      BY <1>1, <2>1, <2>3, <3>3, <3>4 DEF Queue
  <2> QED
    BY <2>2, <2>3
<1> HIDE DEF q2
<1>12. ASSUME NEW i \in 1 .. (n - 1)
       PROVE  m2[u[i]] \in Node /\ m2[u[i]].next = IF i = n - 1 THEN NULL ELSE u[i + 1]
  <2>1. i + 1 \in 1 .. n /\ m2[u[i]] = m[t[i + 1]]
    BY <1>7, <1>8
  <2>2. m[t[i + 1]].next = IF i + 1 = n THEN NULL ELSE t[(i + 1) + 1]
    BY <1>6, <2>1
  <2>3. i # n - 1 => i + 1 \in 1 .. (n - 1) /\ i + 1 # n
    BY <1>1
  <2>4. i # n - 1 => u[i + 1] = t[(i + 1) + 1]
    BY <1>2, <2>3
  <2>5. i = n - 1 => i + 1 = n
    BY <1>1
  <2> QED
    BY <1>6, <2>1, <2>2, <2>3, <2>4, <2>5
<1>13. \A i, j \in 1 .. (n - 1) : u[i] = u[j] => i = j
  <2> SUFFICES ASSUME NEW i \in 1 .. (n - 1), NEW j \in 1 .. (n - 1), u[i] = u[j] PROVE i = j
    OBVIOUS
  <2>1. i + 1 = j + 1
    BY <1>2, <1>5, <1>7
  <2> QED
    BY <2>1
<1>14. IsList(m2, q2, u)
  BY <1>2, <1>11, <1>12, <1>13 DEF IsList
<1>15. h \notin Range(u) /\ \A x : x \in Range(t) <=> x \in Range(u) \/ x = h
  <2>1. Range(t) = {t[i] : i \in 1 .. n} /\ Range(u) = {u[i] : i \in 1 .. (n - 1)}
    BY <1>1, <1>2, RangeList DEF n
  <2>2. \A i \in 1 .. n : i = 1 \/ (i - 1 \in 1 .. (n - 1) /\ u[i - 1] = t[i])
    <3>1. \A i \in 1 .. n : i = 1 \/ (i - 1 \in 1 .. (n - 1) /\ (i - 1) + 1 = i)
      BY <1>1
    <3> QED
      BY <1>2, <3>1
  <2>3. \A i \in 1 .. (n - 1) : i + 1 \in 1 .. n /\ u[i] = t[i + 1] /\ u[i] # h
    BY <1>2, <1>7, <1>8
  <2>4. \A x \in Range(t) : x \in Range(u) \cup {h}
    BY <1>1, <2>1, <2>2
  <2>5. \A x \in Range(u) : x \in Range(t) /\ x # h
    BY <2>1, <2>3
  <2>6. h \in Range(t)
    BY <1>1, <1>9, <2>1
  <2> QED
    BY <2>4, <2>5, <2>6
<1>16. Used(m2) = Used(m) \ {h}
  BY <1>4 DEF Used
<1> DEFINE c == Contents(m, q)
           d == Contents(m2, q2)
<1>17. c \in Seq(Seq(Int)) /\ Len(c) = n /\ \A i \in 1 .. n : c[i] = m[t[i]].data
  BY ContentsOfList DEF n
<1>18. d \in Seq(Seq(Int)) /\ Len(d) = n - 1 /\ \A i \in 1 .. (n - 1) : d[i] = m2[u[i]].data
  BY <1>2, <1>14, ContentsOfList
<1> HIDE DEF c, d
<1>19. c # << >> /\ Head(c) = m[h].data
  BY <1>1, <1>9, <1>17
<1>20. Tail(c) \in Seq(Seq(Int)) /\ Len(Tail(c)) = n - 1 /\ \A i \in 1 .. (n - 1) : Tail(c)[i] = c[i + 1]
  BY <1>1, <1>17
<1>21. d = Tail(c)
  <2>1. ASSUME NEW i \in 1 .. (n - 1) PROVE d[i] = Tail(c)[i]
    <3>1. i + 1 \in 1 .. n /\ m2[u[i]] = m[t[i + 1]]
      BY <1>7, <1>8
    <3> QED
      BY <1>17, <1>18, <1>20, <3>1
  <2> DEFINE e == Tail(c)
  <2>2. e \in Seq(Seq(Int)) /\ Len(e) = Len(d) /\ \A i \in 1 .. Len(d) : d[i] = e[i]
    BY <1>18, <1>20, <2>1
  <2> HIDE DEF e
  <2>3. d = e
    BY <1>18, <2>2, SeqEqual
  <2> QED
    BY <2>3 DEF e
<1>22. Len(u) =< Len(t) /\ t # << >>
  BY <1>1, <1>2 DEF n
<1> QED
  BY <1>1, <1>4, <1>14, <1>15, <1>16, <1>19, <1>21, <1>22 DEF h, m2, q2, u, c, d

\* What TargetFacts says of the memory used, for the queue as it is kept.
LEMMA UsedBound ==
    ASSUME NEW n \in Nat, n < MaxLines, NEW U \in Nat, NEW V \in Nat,
           2 * U =< n * (n + 1) + 2 * n, V =< U
    PROVE  2 * V =< (n + 1) * (n + 1 + 1)
<1> DEFINE x == n * (n + 1)
           y == (n + 1) * (n + 1 + 1)
<1>1. x \in Nat /\ y \in Nat /\ x + 2 * n + 2 = y
  BY Room
<1>2. 2 * U =< x + 2 * n
  OBVIOUS
<1> HIDE DEF x, y
<1>3. 2 * V =< y
  BY <1>1, <1>2
<1> QED
  BY <1>3 DEF y

\* A command that leaves its queue as it is.
LEMMA OtherStep ==
    ASSUME IInv, Line, heap' = Target.heap, Keep(Target.q), running' = running
    PROVE  IInv' /\ Grown(Present)
<1> DEFINE m == Target.heap
           q == Target.q
<1>1. running /\ lines < MaxLines /\ lines \in Nat
  BY LineFacts
<1>2. PICK t : /\ Ready(m, q, t, lines) /\ Contents(m, q) = Present
               /\ 2 * Cardinality(Used(m)) =< lines * (lines + 1) + 2 * lines
  BY <1>1, TargetFacts DEF Present
<1>3. heap' = m /\ Keep(q)
  OBVIOUS
<1> HIDE DEF m, q
<1>4. Ready(m, q, t, lines + 1)
  <2>1. Len(t) \in Nat /\ Len(t) =< lines
    BY <1>2, ListFits DEF Ready
  <2>2. Len(t) =< lines + 1
    BY <1>1, <2>1
  <2> QED
    BY <1>2, <2>2 DEF Ready
<1>5. 2 * Cardinality(Used(m)) =< (lines + 1) * (lines + 1 + 1)
  <2> DEFINE U == Cardinality(Used(m))
  <2>1. U \in Nat /\ U =< U /\ 2 * U =< lines * (lines + 1) + 2 * lines
    BY <1>2, UsedFinite
  <2> HIDE DEF U
  <2>2. 2 * U =< (lines + 1) * (lines + 1 + 1)
    BY <1>1, <2>1, UsedBound
  <2> QED
    BY <2>2 DEF U
<1>6. IInv' /\ Grown(Contents(m, q))
  BY <1>3, <1>4, <1>5, KeepStep DEF Grown
<1> QED
  BY <1>2, <1>6 DEF Grown

LEMMA TakeStep ==
    ASSUME IInv, NEW shown, TakeFirst(shown)
    PROVE  /\ IInv'
           /\ Present = << >> => Grown(Present) /\ reply' = << NONE >>
           /\ Present # << >> => /\ Grown(Tail(Present)) /\ reply' = << shown >>
                                 /\ FirstData = Head(Present)
<1> DEFINE m == Target.heap
           q == Target.q
           h == q.head
<1>1. /\ Line /\ running' = running
      /\ h = NULL => heap' = m /\ Keep(q) /\ reply' = << NONE >>
      /\ h # NULL => heap' = free(m, {h}) /\ Keep(Dequeued(m, q)) /\ reply' = << shown >>
  BY DEF TakeFirst
<1>2. running /\ lines < MaxLines /\ lines \in Nat
  BY <1>1, LineFacts
<1>3. PICK t : /\ Ready(m, q, t, lines) /\ Contents(m, q) = Present
               /\ 2 * Cardinality(Used(m)) =< lines * (lines + 1) + 2 * lines
  BY <1>2, TargetFacts DEF Present
<1>4. CASE h = NULL
  <2>1. IInv' /\ Grown(Present)
    BY <1>1, <1>4, OtherStep
  <2>2. IsList(m, q, t)
    BY <1>3 DEF Ready
  <2>3. Len(t) = 0
    BY <1>4, <2>2, NullFacts DEF IsList
  <2>4. Present = << >>
    <3> HIDE DEF m, q
    <3>1. Len(Contents(m, q)) = 0 /\ Contents(m, q) \in Seq(Seq(Int))
      BY <2>2, <2>3, ContentsOfList
    <3>2. Contents(m, q) = << >>
      BY <3>1
    <3> QED
      BY <1>3, <3>2
  <2> QED
    BY <1>1, <1>4, <2>1, <2>4
<1>5. CASE h # NULL
  <2> DEFINE m2 == free(m, {h})
             q2 == Dequeued(m, q)
             u == Tail(t)
  <2>1. heap' = m2 /\ Keep(q2) /\ reply' = << shown >>
    BY <1>1, <1>5
  <2>2. FirstData = m[h].data
    BY DEF FirstData
  <2> HIDE DEF m, q
  <2>3. m \in Heap /\ IsList(m, q, t) /\ Len(t) =< lines
    BY <1>3 DEF Ready
  <2>4. /\ m2 \in Heap
        /\ IsList(m2, q2, u) /\ Len(u) =< Len(t)
        /\ Range(t) = Range(u) \cup {h} /\ h \notin Range(u)
        /\ Used(m2) = Used(m) \ {h}
        /\ \A a \in Addrs : a # h => m2[a] = m[a]
        /\ Contents(m2, q2) = Tail(Contents(m, q))
        /\ Contents(m, q) # << >> /\ Head(Contents(m, q)) = m[h].data
    <3>1. m2 \in Heap /\ IsList(m2, q2, u) /\ Len(u) =< Len(t)
      BY <1>5, <2>3, DequeueFacts
    <3>2. Range(t) = Range(u) \cup {h} /\ h \notin Range(u)
      <4>1. h \notin Range(u) /\ \A x : x \in Range(t) <=> x \in Range(u) \/ x = h
        BY <1>5, <2>3, DequeueFacts
      <4> HIDE DEF u, h
      <4> QED
        BY <4>1
    <3>3. Used(m2) = Used(m) \ {h} /\ \A a \in Addrs : a # h => m2[a] = m[a]
      BY <1>5, <2>3, DequeueFacts
    <3>4. /\ Contents(m2, q2) = Tail(Contents(m, q))
          /\ Contents(m, q) # << >> /\ Head(Contents(m, q)) = m[h].data
      BY <1>5, <2>3, DequeueFacts
    <3> HIDE DEF h, m2, q2, u
    <3> QED
      BY <3>1, <3>2, <3>3, <3>4
  <2> HIDE DEF m2, q2, u, h
  <2>5. Ready(m2, q2, u, lines + 1)
    <3>1. Used(m) = KeptNodes(heap, Before) \cup Range(t) /\ Used(m) \subseteq Addrs
      BY <1>3 DEF Ready, Used
    <3>2. \A a \in KeptNodes(heap, Before) : m2[a] = heap[a] /\ a \notin Range(u)
      BY <1>3, <2>4, <3>1 DEF Ready
    <3>3. Len(u) \in Nat /\ Len(t) \in Nat
      BY <2>3, <2>4, ListFits
    <3>4. Len(u) =< lines + 1
      BY <1>2, <2>3, <2>4, <3>3
    <3>5. Used(m2) = KeptNodes(heap, Before) \cup Range(u)
      <4>1. h \notin KeptNodes(heap, Before)
        BY <1>3, <2>4 DEF Ready
      <4> QED
        BY <2>4, <3>1, <4>1
    <3> QED
      BY <2>4, <3>2, <3>4, <3>5 DEF Ready
  <2>6. 2 * Cardinality(Used(m2)) =< (lines + 1) * (lines + 1 + 1)
    <3> DEFINE U == Cardinality(Used(m))
               V == Cardinality(Used(m2))
    <3>1. U \in Nat /\ V \in Nat /\ 2 * U =< lines * (lines + 1) + 2 * lines
      BY <1>3, UsedFinite
    <3>2. V =< U
      BY <2>4, UsedFinite, FS_Subset
    <3> HIDE DEF U, V
    <3>3. 2 * V =< (lines + 1) * (lines + 1 + 1)
      BY <1>2, <3>1, <3>2, UsedBound
    <3> QED
      BY <3>3 DEF V
  <2>7. IInv' /\ Grown(Contents(m2, q2))
    BY <1>1, <2>1, <2>5, <2>6, KeepStep DEF Grown
  <2> QED
    BY <1>3, <2>1, <2>2, <2>4, <2>7 DEF Grown
<1> QED
  BY <1>4, <1>5

LEMMA FreeQueueFacts ==
    ASSUME NEW m \in Heap, NEW q, NEW t, IsList(m, q, t)
    PROVE  /\ free_queue(m, q) \in Heap
           /\ \A a \in Addrs : free_queue(m, q)[a] = IF a \in Range(t) THEN NULL ELSE m[a]
<1>1. Nodes(m, q) = t
  BY NodesOfList
<1>2. free_queue(m, q) = [a \in Addrs |-> IF a \in Range(t) THEN NULL ELSE m[a]]
  BY <1>1 DEF free_queue, free
<1> HIDE DEF free_queue
<1> QED
  BY <1>2 DEF Heap

\* The queues without the last.
LEMMA ListsFront ==
    ASSUME NEW m, NEW kept, Lists(m, kept), Len(kept) > 1
    PROVE  /\ Lists(m, Front(kept))
           /\ Len(Front(kept)) = Len(kept) - 1
           /\ \A i \in 1 .. Len(Front(kept)) : Front(kept)[i] = kept[i] /\ i \in 1 .. Len(kept)
           /\ \A a : a \in KeptNodes(m, Front(kept))
                     <=> a \in KeptNodes(m, kept) /\ a \notin Range(Nodes(m, Last(kept)))
           /\ Hist(m, Front(kept)) = Front(Hist(m, kept))
<1> DEFINE F == Front(kept)
           N == Len(kept)
<1>1. kept \in Seq(Queue) /\ N \in Nat /\ N > 1 /\ DOMAIN kept = 1 .. N
  BY DEF Lists
<1>2. F = SubSeq(kept, 1, N - 1)
  BY DEF Front
<1>3. /\ F \in Seq(Queue) /\ Len(F) = N - 1 /\ DOMAIN F = 1 .. (N - 1)
      /\ \A i \in 1 .. (N - 1) : F[i] = kept[i]
  BY <1>1, <1>2
<1> HIDE DEF F, N
<1>4. \A i \in 1 .. (N - 1) : i \in 1 .. N /\ i # N
  BY <1>1
<1>5. \A i \in 1 .. N : i = N \/ i \in 1 .. (N - 1)
  BY <1>1
<1>6. /\ \A i \in 1 .. N : IsList(m, kept[i], Nodes(m, kept[i]))
      /\ \A i, j \in 1 .. N : i # j => Range(Nodes(m, kept[i])) \cap Range(Nodes(m, kept[j])) = {}
  BY DEF Lists, N
<1>7. Lists(m, F)
  BY <1>3, <1>4, <1>6 DEF Lists
<1>8. Last(kept) = kept[N] /\ N \in 1 .. N
  BY <1>1 DEF Last, N
<1>9. ASSUME NEW a
      PROVE  a \in KeptNodes(m, F)
             <=> a \in KeptNodes(m, kept) /\ a \notin Range(Nodes(m, Last(kept)))
  <2>1. a \in KeptNodes(m, F) <=> \E i \in 1 .. (N - 1) : a \in Range(Nodes(m, kept[i]))
    BY <1>3 DEF KeptNodes
  <2>2. a \in KeptNodes(m, kept) <=> \E i \in 1 .. N : a \in Range(Nodes(m, kept[i]))
    BY DEF KeptNodes, N
  <2> QED
    BY <1>4, <1>5, <1>6, <1>8, <2>1, <2>2
<1>10. Hist(m, F) = Front(Hist(m, kept))
  <2> DEFINE H == Hist(m, kept)
             T == {Contents(m, kept[i]) : i \in 1 .. N}
  <2>1. H = [i \in 1 .. N |-> Contents(m, kept[i])]
    BY <1>1 DEF Hist
  <2>2. H \in Seq(T) /\ Len(H) = N /\ \A i \in 1 .. N : H[i] = Contents(m, kept[i])
    BY <1>1, <2>1
  <2>3. Hist(m, F) = [i \in 1 .. (N - 1) |-> Contents(m, F[i])]
    BY <1>3 DEF Hist
  <2> HIDE DEF H, T
  <2>4. Front(H) = [i \in 1 .. (N - 1) |-> H[i]]
    BY <1>1, <2>2 DEF Front
  <2>5. \A i \in 1 .. (N - 1) : Contents(m, F[i]) = H[i]
    BY <1>3, <1>4, <2>2
  <2>6. Hist(m, F) = Front(H)
    BY <2>3, <2>4, <2>5
  <2> QED
    BY <2>6 DEF H
<1> QED
  BY <1>1, <1>3, <1>4, <1>7, <1>9, <1>10 DEF F, N

\* The copy undo makes for itself is gone before anything else happens.
LEMMA CopyFreed ==
    ASSUME IInv, Line, program = "ciphered-queue"
    PROVE  free_queue(Target.heap, Target.q) = heap
<1> DEFINE m == Target.heap
           q == Target.q
           f == free_queue(m, q)
<1>1. running /\ lines < MaxLines
  BY LineFacts
<1>2. PICK t : Ready(m, q, t, lines)
  BY <1>1, TargetFacts
<1> HIDE DEF m, q
<1>3. Before = gq
  BY DEF Before
<1>4. heap \in Heap /\ Used(heap) = KeptNodes(heap, gq)
  BY DEF IInv, Owned
<1>5. /\ m \in Heap /\ IsList(m, q, t)
      /\ \A a \in Used(heap) : m[a] = heap[a] /\ a \notin Range(t)
      /\ Used(m) = Used(heap) \cup Range(t)
  BY <1>2, <1>3, <1>4 DEF Ready
<1>6. f \in Heap /\ \A a \in Addrs : f[a] = IF a \in Range(t) THEN NULL ELSE m[a]
  BY <1>5, FreeQueueFacts
<1> HIDE DEF f
<1>7. ASSUME NEW a \in Addrs PROVE f[a] = heap[a]
  <2>1. CASE a \in Used(heap)
    BY <1>5, <1>6, <2>1
  <2>2. CASE a \notin Used(heap) /\ a \in Range(t)
    BY <1>6, <2>2 DEF Used
  <2>3. CASE a \notin Used(heap) /\ a \notin Range(t)
    BY <1>5, <1>6, <2>3 DEF Used
  <2> QED
    BY <2>1, <2>2, <2>3
<1>8. f = heap
  BY <1>4, <1>6, <1>7 DEF Heap
<1> QED
  BY <1>8 DEF f, m, q

LEMMA UndoStep ==
    ASSUME IInv, Undo
    PROVE  /\ IInv'
           /\ Hist(heap', gq') = IF Len(gq) > 1 THEN Front(Hist(heap, gq)) ELSE Hist(heap, gq)
<1>1. /\ Line /\ program = "ciphered-queue" /\ running' = running
      /\ heap' = FreeOnUndo(free_queue(Target.heap, Target.q), gq)
      /\ gq' = IF Len(gq) > 1 THEN Front(gq) ELSE gq
  BY DEF Undo
<1>2. running /\ lines \in Nat /\ lines < MaxLines /\ lines' = lines + 1 /\ program' = program
  BY <1>1, LineFacts DEF Line
<1>3. heap' = FreeOnUndo(heap, gq)
  BY <1>1, CopyFreed
<1>4. heap \in Heap /\ Lists(heap, gq) /\ Used(heap) = KeptNodes(heap, gq)
  BY DEF IInv, Owned
<1>5. lines + 1 \in 0 .. MaxLines /\ lines' \in Nat
  BY <1>2, MemoryAssumption
<1>6. \A i \in 1 .. Len(gq) : Len(Nodes(heap, gq[i])) =< lines + 1
  <2>1. \A i \in 1 .. Len(gq) : Len(Nodes(heap, gq[i])) =< lines /\ Len(Nodes(heap, gq[i])) \in Nat
    BY <1>4, ListFits DEF IInv, Lists
  <2> QED
    BY <1>2, <2>1
<1>7. ASSUME NEW V \in Nat, V =< Cardinality(Used(heap))
      PROVE  2 * V =< (lines + 1) * (lines + 1 + 1)
  <2> DEFINE U == Cardinality(Used(heap))
             x == lines * (lines + 1)
  <2>1. U \in Nat /\ 2 * U =< x /\ x \in Nat
    BY <1>2, UsedFinite, Room DEF IInv
  <2> HIDE DEF x
  <2>2. 2 * U =< x + 2 * lines
    BY <1>2, <2>1
  <2> HIDE DEF U
  <2>3. 2 * U =< lines * (lines + 1) + 2 * lines
    BY <2>2 DEF x
  <2>4. V =< U
    BY <1>7 DEF U
  <2> QED
    BY <1>2, <2>1, <2>3, <2>4, UsedBound
<1>8. CASE ~ (Len(gq) > 1)
  <2>1. heap' = heap /\ gq' = gq
    BY <1>1, <1>3, <1>8 DEF FreeOnUndo
  <2>2. 2 * Cardinality(Used(heap)) =< (lines + 1) * (lines + 1 + 1)
    BY <1>7, UsedFinite
  <2> QED
    BY <1>1, <1>2, <1>4, <1>5, <1>6, <1>8, <2>1, <2>2 DEF IInv, Owned
<1>9. CASE Len(gq) > 1
  <2> DEFINE s == Nodes(heap, Last(gq))
             F == Front(gq)
             h == free_queue(heap, Last(gq))
  <2>1. heap' = h /\ gq' = F
    BY <1>1, <1>3, <1>9 DEF FreeOnUndo
  <2>2. IsList(heap, Last(gq), s)
    BY <1>2, LastKept
  <2>3. h \in Heap /\ \A a \in Addrs : h[a] = IF a \in Range(s) THEN NULL ELSE heap[a]
    BY <1>4, <2>2, FreeQueueFacts
  <2>4. /\ Lists(heap, F) /\ Len(F) = Len(gq) - 1
        /\ \A i \in 1 .. Len(F) : F[i] = gq[i] /\ i \in 1 .. Len(gq)
    BY <1>4, <1>9, ListsFront
  <2>5. \A a : a \in KeptNodes(heap, F) <=> a \in KeptNodes(heap, gq) /\ a \notin Range(s)
    BY <1>4, <1>9, ListsFront
  <2>6. Hist(heap, F) = Front(Hist(heap, gq))
    BY <1>4, <1>9, ListsFront
  <2> HIDE DEF s, F, h
  <2>7. \A a \in KeptNodes(heap, F) : h[a] = heap[a]
    BY <1>4, <2>3, <2>5 DEF Used
  <2>8. /\ Lists(h, F) /\ KeptNodes(h, F) = KeptNodes(heap, F) /\ Hist(h, F) = Hist(heap, F)
        /\ \A i \in 1 .. Len(F) : Nodes(h, F[i]) = Nodes(heap, F[i])
    BY <2>4, <2>7, ListsFrame
  <2>9. Used(h) = KeptNodes(h, F)
    BY <1>4, <2>3, <2>5, <2>8 DEF Used
  <2>10. Owned(h, F)
    BY <2>3, <2>8, <2>9 DEF Owned
  <2>11. \A i \in 1 .. Len(F) : Len(Nodes(h, F[i])) =< lines + 1
    BY <1>6, <2>4, <2>8
  <2>12. 2 * Cardinality(Used(h)) =< (lines + 1) * (lines + 1 + 1)
    <3>1. Used(h) \in SUBSET Used(heap)
      BY <1>4, <2>5, <2>8, <2>9
    <3>2. Cardinality(Used(h)) =< Cardinality(Used(heap)) /\ Cardinality(Used(h)) \in Nat
      BY <3>1, UsedFinite, FS_Subset
    <3> QED
      BY <1>7, <3>2
  <2>13. Len(gq) \in Nat /\ Len(F) >= 1
    <3>1. Len(gq) \in Nat
      BY <1>4 DEF Lists
    <3> QED
      BY <3>1, <1>9, <2>4
  <2>14. IInv'
    BY <1>1, <1>2, <1>5, <2>1, <2>10, <2>11, <2>12, <2>13 DEF IInv
  <2> QED
    BY <1>9, <2>1, <2>6, <2>8, <2>14
<1> QED
  BY <1>8, <1>9

\* Freeing the queues one after the other frees every node of each.
LEMMA FreedFacts ==
    ASSUME NEW m \in Heap, NEW kept, Lists(m, kept)
    PROVE  /\ Freed(m, kept) \in Heap
           /\ \A a \in Addrs : Freed(m, kept)[a] = IF a \in KeptNodes(m, kept) THEN NULL ELSE m[a]
<1> DEFINE N == Len(kept)
           R(i) == Range(Nodes(m, kept[i]))
           D(f, n) == IF n = 0 THEN m ELSE LET h == f[n - 1] IN free_queue(h, kept[n])
           G(n) == [a \in Addrs |-> IF \E i \in 1 .. n : a \in R(i) THEN NULL ELSE m[a]]
           g == [n \in 0 .. N |-> G(n)]
<1>1. N \in Nat
  BY DEF Lists
<1>2. m = [a \in Addrs |-> m[a]]
  BY DEF Heap
<1>3. \A i \in 1 .. N : IsList(m, kept[i], Nodes(m, kept[i])) /\ R(i) \subseteq Addrs
  <2>1. \A i \in 1 .. N : IsList(m, kept[i], Nodes(m, kept[i]))
    BY DEF Lists
  <2>2. \A i \in 1 .. N : Nodes(m, kept[i]) \in Seq(Addrs)
    BY <2>1 DEF IsList
  <2> QED
    BY <2>1, <2>2 DEF Range
<1>4. \A i, j \in 1 .. N : i # j => R(i) \cap R(j) = {}
  BY DEF Lists
<1> HIDE DEF N, R
<1>5. \A n \in 0 .. N : G(n) \in Heap
  BY DEF Heap
<1>6. G(0) = m
  <2>1. \A a \in Addrs : ~ \E i \in 1 .. 0 : a \in R(i)
    OBVIOUS
  <2> QED
    BY <1>2, <2>1
<1>7. ASSUME NEW n \in 0 .. N, n # 0 PROVE free_queue(G(n - 1), kept[n]) = G(n)
  <2>1. n \in 1 .. N /\ n - 1 \in 0 .. N /\ \A i \in 1 .. (n - 1) : i \in 1 .. N /\ i # n
    BY <1>1, <1>7
  <2> DEFINE h == G(n - 1)
             s == Nodes(m, kept[n])
  <2>2. ASSUME NEW a \in R(n) PROVE h[a] = m[a]
    <3>1. a \in Addrs /\ ~ \E i \in 1 .. (n - 1) : a \in R(i)
      BY <1>3, <1>4, <2>1, <2>2
    <3> QED
      BY <3>1
  <2>3. h \in Heap
    BY <1>5, <2>1
  <2>4. \A a \in Addrs : h[a] = IF \E i \in 1 .. (n - 1) : a \in R(i) THEN NULL ELSE m[a]
    OBVIOUS
  <2> HIDE DEF h, G
  <2>5. IsList(h, kept[n], s)
    <3>1. IsList(m, kept[n], s)
      BY <1>3, <2>1
    <3>2. \A a \in Range(s) : h[a] = m[a]
      BY <2>2 DEF R
    <3>3. IsList(h, kept[n], Nodes(h, kept[n])) /\ Nodes(h, kept[n]) = Nodes(m, kept[n])
      BY <3>1, <3>2, NodesFrame
    <3> QED
      BY <3>3
  <2> DEFINE f == free_queue(h, kept[n])
  <2>6. f \in Heap /\ \A a \in Addrs : f[a] = IF a \in Range(s) THEN NULL ELSE h[a]
    BY <2>3, <2>5, FreeQueueFacts
  <2> HIDE DEF f
  <2>7. \A i \in 1 .. n : i = n \/ i \in 1 .. (n - 1)
    BY <2>1
  <2>8. \A i \in 1 .. (n - 1) : i \in 1 .. n
    BY <2>1
  <2>9. n \in 1 .. n
    BY <2>1
  <2>10. Range(s) = R(n)
    BY DEF R
  <2> HIDE DEF s
  <2>11. ASSUME NEW a \in Addrs
         PROVE  f[a] = IF \E i \in 1 .. n : a \in R(i) THEN NULL ELSE m[a]
    <3>1. (\E i \in 1 .. n : a \in R(i)) <=> a \in R(n) \/ \E i \in 1 .. (n - 1) : a \in R(i)
      BY <2>7, <2>8, <2>9
    <3> QED
      BY <2>4, <2>6, <2>10, <3>1
  <2>12. f = [a \in Addrs |-> f[a]]
    BY <2>6 DEF Heap
  <2>13. f = G(n)
    BY <2>11, <2>12 DEF G
  <2> QED
    BY <2>13 DEF f, h
<1> HIDE DEF G
<1>8. ASSUME NEW n \in 0 .. N PROVE g[n] = D(g, n)
  <2>1. CASE n = 0
    BY <1>6, <2>1
  <2>2. CASE n # 0
    <3>1. n - 1 \in 0 .. N
      BY <1>1, <2>2
    <3>2. g[n - 1] = G(n - 1) /\ g[n] = G(n)
      BY <3>1
    <3> QED
      BY <1>7, <2>2, <3>2
  <2> QED
    BY <2>1, <2>2
<1>9. g = [n \in 0 .. N |-> D(g, n)]
  <2>1. g = [n \in 0 .. N |-> g[n]]
    OBVIOUS
  <2> HIDE DEF D, g
  <2> QED
    BY <1>8, <2>1
<1> DEFINE w == CHOOSE f : f = [n \in 0 .. N |-> D(f, n)]
<1>10. w = [n \in 0 .. N |-> D(w, n)]
  <2> HIDE DEF D, g
  <2> QED
    BY <1>9, Zenon
<1>11. Freed(m, kept) = w[N]
  BY Zenon DEF Freed, N
<1> HIDE DEF w
<1> DEFINE S == {n \in Nat : n =< N => w[n] = G(n)}
<1>12. 0 \in S
  BY <1>1, <1>6, <1>10
<1>13. ASSUME NEW n \in Nat, n \in S PROVE n + 1 \in S
  <2> SUFFICES ASSUME n + 1 =< N PROVE w[n + 1] = G(n + 1)
    OBVIOUS
  <2>1. w[n] = G(n) /\ n + 1 \in 0 .. N /\ n + 1 # 0 /\ (n + 1) - 1 = n
    BY <1>1, <1>13
  <2>2. w[n + 1] = D(w, n + 1)
    <3> HIDE DEF D, S
    <3> QED
      BY <1>10, <2>1
  <2>3. w[n + 1] = free_queue(G(n), kept[n + 1])
    BY <2>1, <2>2
  <2> HIDE DEF S
  <2> QED
    BY <1>7, <2>1, <2>3
<1> HIDE DEF S
<1>14. N \in S
  BY <1>1, <1>12, <1>13, Induction
<1>15. Freed(m, kept) = G(N)
  BY <1>1, <1>11, <1>14 DEF S
<1>16. \A a \in Addrs : G(N)[a] = IF a \in KeptNodes(m, kept) THEN NULL ELSE m[a]
  <2>1. \A a : (\E i \in 1 .. N : a \in R(i)) <=> a \in KeptNodes(m, kept)
    BY DEF KeptNodes, N, R
  <2> QED
    BY <2>1 DEF G
<1> QED
  BY <1>1, <1>5, <1>15, <1>16

\* When the program ends no node is allocated.
LEMMA FreeAllStep ==
    ASSUME IInv, running, FreeAll, program' = program, lines' \in 0 .. MaxLines
    PROVE  IInv' /\ Hist(heap', gq') = << >>
<1>1. heap' = Freed(heap, gq) /\ gq' = << >> /\ running' = FALSE
  BY DEF FreeAll
<1>2. heap \in Heap /\ Lists(heap, gq) /\ Used(heap) = KeptNodes(heap, gq)
  BY DEF IInv, Owned
<1>3. heap' \in Heap /\ \A a \in Addrs : heap'[a] = IF a \in Used(heap) THEN NULL ELSE heap[a]
  BY <1>1, <1>2, FreedFacts
<1>4. Used(heap') = {}
  BY <1>3 DEF Used
<1>5. Lists(heap', << >>) /\ KeptNodes(heap', << >>) = {}
  BY DEF Lists, KeptNodes
<1>6. Owned(heap', gq')
  BY <1>1, <1>3, <1>4, <1>5 DEF Owned
<1>7. 2 * Cardinality(Used(heap')) =< lines' * (lines' + 1)
  <2>1. lines' \in Nat
    BY MemoryAssumption
  <2>2. Cardinality(Used(heap')) = 0
    BY <1>4, FS_EmptySet
  <2> DEFINE n == lines'
  <2>3. n \in Nat
    BY <2>1
  <2> HIDE DEF n
  <2>4. 0 =< n * (n + 1)
    BY <2>3
  <2> DEFINE c == Cardinality(Used(heap'))
  <2>5. c = 0
    BY <2>2
  <2> HIDE DEF c
  <2>6. 2 * c =< n * (n + 1)
    BY <2>4, <2>5
  <2> QED
    BY <2>6 DEF n, c
<1>8. \A i \in 1 .. Len(gq') : Len(Nodes(heap', gq'[i])) =< lines'
  BY <1>1
<1>9. IInv'
  BY <1>1, <1>6, <1>7, <1>8 DEF IInv
<1>10. Hist(heap', gq') = << >>
  BY <1>1 DEF Hist
<1> QED
  BY <1>9, <1>10

LEMMA InitInv ==
    ASSUME Init
    PROVE  IInv /\ Hist(heap, gq) = << << >> >>
<1>1. heap = [a \in Addrs |-> NULL] /\ gq = << EmptyQueue >> /\ lines = 0 /\ running = TRUE
  BY DEF Init
<1>2. heap \in Heap /\ Used(heap) = {}
  BY <1>1 DEF Heap, Used
<1>3. IsList(heap, EmptyQueue, << >>)
  BY EmptyIsList
<1>4. Nodes(heap, EmptyQueue) = << >>
  BY <1>3, NodesOfList
<1>5. Contents(heap, EmptyQueue) = << >>
  BY <1>4 DEF Contents
<1>6. EmptyQueue \in Queue
  BY DEF EmptyQueue, Queue
<1>7. gq \in Seq(Queue) /\ Len(gq) = 1 /\ gq[1] = EmptyQueue /\ \A i \in 1 .. Len(gq) : i = 1
  BY <1>1, <1>6
<1>8. Lists(heap, gq)
  BY <1>3, <1>4, <1>7 DEF Lists
<1>9. KeptNodes(heap, gq) = {}
  BY <1>4, <1>7 DEF KeptNodes, Range
<1>10. Cardinality(Used(heap)) = 0
  BY <1>2, FS_EmptySet
<1>11. \A i \in 1 .. Len(gq) : Len(Nodes(heap, gq[i])) =< 0
  BY <1>4, <1>7
<1>12. 0 \in 0 .. MaxLines
  BY MemoryAssumption
<1>13. IInv
  <2>1. 2 * Cardinality(Used(heap)) =< lines * (lines + 1)
    BY <1>1, <1>10
  <2>2. program \in {"queue", "ciphered-queue"}
    BY DEF Init
  <2>3. Owned(heap, gq)
    BY <1>2, <1>8, <1>9 DEF Owned
  <2>4. \A i \in 1 .. Len(gq) : Len(Nodes(heap, gq[i])) =< lines
    BY <1>1, <1>11
  <2>5. Len(gq) >= 1 /\ running \in BOOLEAN
    BY <1>1, <1>7
  <2> QED
    BY <1>1, <1>7, <1>12, <2>1, <2>2, <2>3, <2>4, <2>5 DEF IInv
<1>14. Hist(heap, gq) = << << >> >>
  BY <1>1, <1>5, <1>7 DEF Hist
<1> QED
  BY <1>13, <1>14

-----------------------------------------------------------------------------
(* What a word becomes, here and in UndoQueue. *)

LEMMA LoopFacts ==
    ASSUME NEW c \in Int
    PROVE  /\ Abstract!Legal(c) <=> c \in LegalChars
           /\ c \in LegalChars => Abstract!LoopOf(c) = << First(c), Base(c) >>
<1> USE DEF Abstract!LoopOf
<1>1. CASE c \in LegalChars
  <2>1. \/ c \in Digits /\ First(c) = 48 /\ Base(c) = 10
        \/ c \in Lower /\ First(c) = 97 /\ Base(c) = 26
        \/ c \in Upper /\ First(c) = 65 /\ Base(c) = 26
    BY <1>1, LegalFacts
  <2>2. CASE c \in Digits /\ First(c) = 48 /\ Base(c) = 10
    <3>1. c \in 48 .. 57 /\ c \notin 65 .. 90 /\ c \notin 97 .. 122
      BY <2>2 DEF Digits
    <3>2. Abstract!LoopOf(c) = << 48, 10 >>
      BY <3>1
    <3> QED
      BY <1>1, <2>2, <3>2 DEF Abstract!Legal
  <2>3. CASE c \in Lower /\ First(c) = 97 /\ Base(c) = 26
    <3>1. c \notin 48 .. 57 /\ c \notin 65 .. 90 /\ c \in 97 .. 122
      BY <2>3 DEF Lower
    <3>2. Abstract!LoopOf(c) = << 97, 26 >>
      BY <3>1
    <3> QED
      BY <1>1, <2>3, <3>2 DEF Abstract!Legal
  <2>4. CASE c \in Upper /\ First(c) = 65 /\ Base(c) = 26
    <3>1. c \notin 48 .. 57 /\ c \in 65 .. 90 /\ c \notin 97 .. 122
      BY <2>4 DEF Upper
    <3>2. Abstract!LoopOf(c) = << 65, 26 >>
      BY <3>1
    <3> QED
      BY <1>1, <2>4, <3>2 DEF Abstract!Legal
  <2> QED
    BY <2>1, <2>2, <2>3, <2>4
<1>2. CASE c \notin LegalChars
  <2>1. c \notin 48 .. 57 /\ c \notin 65 .. 90 /\ c \notin 97 .. 122
    BY <1>2 DEF LegalChars, Digits, Lower, Upper
  <2>2. Abstract!LoopOf(c) = << >>
    BY <2>1
  <2> QED
    BY <1>2, <2>2 DEF Abstract!Legal
<1> QED
  BY <1>1, <1>2

LEMMA MovedFacts ==
    ASSUME NEW c \in LegalChars, NEW key \in Nat
    PROVE  /\ Abstract!Moved(c, key) = EncodedChar(c, key)
           /\ Abstract!Moved(c, - key) = DecodedChar(c, key)
<1>1. c \in Int /\ First(c) \in Int
  BY LegalFacts
<1> DEFINE l == Abstract!LoopOf(c)
<1>2. l = << First(c), Base(c) >>
  BY <1>1, LoopFacts
<1> HIDE DEF l
<1>3. l[1] = First(c) /\ l[2] = Base(c)
  BY <1>2
<1>4. \A n : Abstract!Moved(c, n) = l[1] + ((c - l[1] + n) % l[2])
  BY DEF Abstract!Moved, l
<1>5. c - First(c) + (- key) = c - First(c) - key
  BY <1>1
<1> QED
  BY <1>3, <1>4, <1>5, CharMoves

LEMMA EncodedFacts ==
    ASSUME NEW t \in Seq(Int), NEW key \in Nat
    PROVE  encode(t, key) = Abstract!Encoded(t, key) /\ encode(t, key) \in Seq(Int)
<1>1. DOMAIN t = 1 .. Len(t) /\ Len(t) \in Nat /\ \A i \in DOMAIN t : t[i] \in Int
  OBVIOUS
<1>2. \A i \in DOMAIN t : Abstract!Legal(t[i]) <=> t[i] \in LegalChars
  BY <1>1, LoopFacts
<1>3. CASE \A i \in DOMAIN t : t[i] \in LegalChars
  <2>1. encode(t, key) = [i \in DOMAIN t |-> EncodedChar(t[i], key)]
    BY <1>3, EncodeMeaning
  <2>2. Abstract!Encoded(t, key) = [i \in DOMAIN t |-> Abstract!Moved(t[i], key)]
    BY <1>2, <1>3 DEF Abstract!Encoded
  <2>3. \A i \in DOMAIN t : Abstract!Moved(t[i], key) = EncodedChar(t[i], key)
    BY <1>3, MovedFacts
  <2>4. \A i \in DOMAIN t : EncodedChar(t[i], key) \in Int
    BY <1>3, CharMoves
  <2>5. [i \in DOMAIN t |-> EncodedChar(t[i], key)] \in Seq(Int)
    BY <1>1, <2>4
  <2> QED
    BY <2>1, <2>2, <2>3, <2>5
<1>4. CASE \E i \in DOMAIN t : t[i] \notin LegalChars
  <2>1. encode(t, key) = ILLCHAR
    BY <1>4, EncodeMeaning
  <2>2. Abstract!Encoded(t, key) = ILLCHAR
    BY <1>2, <1>4 DEF Abstract!Encoded
  <2>3. ILLCHAR \in Seq(Int)
    BY DEF ILLCHAR
  <2> QED
    BY <2>1, <2>2, <2>3
<1> QED
  BY <1>3, <1>4

LEMMA DecodedFacts ==
    ASSUME NEW t \in Seq(Int), NEW key \in Nat
    PROVE  (IF t = ILLCHAR THEN t ELSE decode(t, key)) = Abstract!Decoded(t, key)
<1>1. DOMAIN t = 1 .. Len(t) /\ Len(t) \in Nat /\ \A i \in DOMAIN t : t[i] \in Int
  OBVIOUS
<1>2. CASE t = ILLCHAR
  BY <1>2 DEF Abstract!Decoded
<1>3. CASE t # ILLCHAR
  <2>1. decode(t, key) = [i \in DOMAIN t |->
                  IF \E j \in DOMAIN t : t[j] \notin LegalChars /\ j =< i THEN t[i]
                  ELSE DecodedChar(t[i], key)]
    BY DecodeMeaning
  <2>2. Abstract!Decoded(t, key) = [i \in DOMAIN t |->
             IF \A j \in 1 .. i : Abstract!Legal(t[j]) THEN Abstract!Moved(t[i], - key) ELSE t[i]]
    BY <1>3 DEF Abstract!Decoded
  <2>3. ASSUME NEW i \in DOMAIN t
        PROVE  (IF \E j \in DOMAIN t : t[j] \notin LegalChars /\ j =< i THEN t[i]
                ELSE DecodedChar(t[i], key))
               = IF \A j \in 1 .. i : Abstract!Legal(t[j]) THEN Abstract!Moved(t[i], - key) ELSE t[i]
    <3>1. \A j : j \in 1 .. i <=> j \in DOMAIN t /\ j =< i
      BY <1>1
    <3>2. \A j \in 1 .. i : Abstract!Legal(t[j]) <=> t[j] \in LegalChars
      BY <1>1, <3>1, LoopFacts
    <3>3. CASE \E j \in DOMAIN t : t[j] \notin LegalChars /\ j =< i
      BY <3>1, <3>2, <3>3
    <3>4. CASE ~ \E j \in DOMAIN t : t[j] \notin LegalChars /\ j =< i
      <4>1. i \in 1 .. i
        BY <1>1
      <4>2. \A j \in 1 .. i : Abstract!Legal(t[j]) /\ t[j] \in LegalChars
        BY <3>1, <3>2, <3>4
      <4>3. Abstract!Moved(t[i], - key) = DecodedChar(t[i], key)
        BY <4>1, <4>2, MovedFacts
      <4> QED
        BY <3>4, <4>2, <4>3
    <3> QED
      BY <3>3, <3>4
  <2> QED
    BY <1>3, <2>1, <2>2, <2>3
<1> QED
  BY <1>2, <1>3

-----------------------------------------------------------------------------
(* The specification. *)

AbstractVars == << program, Hist(heap, gq), reply, running >>

LEMMA HistoryMeaning ==
    /\ Hist(heap, gq) = [i \in DOMAIN gq |-> Contents(heap, gq[i])]
    /\ Hist(heap', gq') = [i \in DOMAIN gq' |-> Contents(heap', gq'[i])]
BY DEF Hist

LEMMA NowMeaning ==
    ASSUME IInv, running
    PROVE  Abstract!Now = Present /\ Len(Hist(heap, gq)) = Len(gq)
<1> DEFINE H == Hist(heap, gq)
           T == {Contents(heap, gq[i]) : i \in 1 .. Len(gq)}
<1>1. /\ Len(gq) \in Nat /\ DOMAIN gq = 1 .. Len(gq) /\ Len(gq) \in 1 .. Len(gq)
      /\ Last(gq) = gq[Len(gq)]
  BY LastKept
<1>2. H = [i \in 1 .. Len(gq) |-> Contents(heap, gq[i])]
  BY <1>1 DEF Hist
<1>3. H \in Seq(T) /\ Len(H) = Len(gq)
  BY <1>1, <1>2
<1>4. Last(H) = Contents(heap, gq[Len(gq)])
  BY <1>1, <1>2, <1>3 DEF Last
<1>5. Abstract!Now = Last(H)
  BY HistoryMeaning DEF Abstract!Now, Abstract!Last, Last
<1> QED
  BY <1>1, <1>3, <1>4, <1>5 DEF Present

\* A command that keeps its queue is one of UndoQueue.
LEMMA BecomesStep ==
    ASSUME NEW queue, NEW answer, running, Grown(queue), reply' = answer,
           program' = program, running' = running
    PROVE  Abstract!Becomes(queue, answer)
BY HistoryMeaning DEF Abstract!Becomes, Grown

LEMMA TakeMeaning ==
    ASSUME IInv, NEW shown, TakeFirst(shown)
    PROVE  /\ IInv'
           /\ Present # << >> => FirstData = Head(Present)
           /\ \A word : (Present # << >> => word = shown) => Abstract!Take(word)
<1>1. Line /\ running' = running
  BY DEF TakeFirst
<1>2. running /\ program' = program
  BY <1>1 DEF Line
<1>3. /\ IInv'
      /\ Present = << >> => Grown(Present) /\ reply' = << NONE >>
      /\ Present # << >> => /\ Grown(Tail(Present)) /\ reply' = << shown >>
                            /\ FirstData = Head(Present)
  BY TakeStep
<1>4. Abstract!Now = Present
  BY <1>2, NowMeaning
<1>5. ASSUME NEW word, Present # << >> => word = shown PROVE Abstract!Take(word)
  <2>1. CASE Present = << >>
    <3>1. Abstract!Becomes(Present, << NONE >>)
      BY <1>1, <1>2, <1>3, <2>1, BecomesStep
    <3> QED
      BY <1>4, <2>1, <3>1 DEF Abstract!Take
  <2>2. CASE Present # << >>
    <3>1. Abstract!Becomes(Tail(Present), << shown >>)
      BY <1>1, <1>2, <1>3, <2>2, BecomesStep
    <3> QED
      BY <1>4, <1>5, <2>2, <3>1 DEF Abstract!Take
  <2> QED
    BY <2>1, <2>2
<1> QED
  BY <1>3, <1>5

LEMMA PutMeaning ==
    ASSUME IInv, NEW data \in Seq(Int), Enqueue(data)
    PROVE  IInv' /\ Abstract!Put(data)
<1>1. Line /\ running' = running /\ reply' = << >>
  BY DEF Enqueue
<1>2. running /\ program' = program
  BY <1>1 DEF Line
<1>3. IInv' /\ Grown(Append(Present, data))
  BY EnqueueStep
<1>4. Abstract!Becomes(Append(Present, data), << >>)
  BY <1>1, <1>2, <1>3, BecomesStep
<1> QED
  BY <1>2, <1>3, <1>4, NowMeaning DEF Abstract!Put

LEMMA WordsTyped == Texts \subseteq Seq(Int) /\ Keys \subseteq Nat
<1>1. Seq(Nat) \subseteq Seq(Int)
  OBVIOUS
<1> QED
  BY <1>1, WordsAssumption

\* Every line keeps the invariant and is a step of UndoQueue.
LEMMA NextStep ==
    ASSUME IInv, Next
    PROVE  IInv' /\ Abstract!Next
<1>1. CASE \E t \in Texts : Enqueue(t)
  BY <1>1, WordsTyped, PutMeaning DEF Abstract!Next
<1>2. CASE \E t \in Texts, k \in Keys : EncodeEnqueue(t, k)
  <2>1. PICK t \in Texts, k \in Keys : program = "ciphered-queue" /\ Enqueue(encode(t, k))
    BY <1>2 DEF EncodeEnqueue
  <2>2. t \in Seq(Int) /\ k \in Nat
    BY WordsTyped
  <2>3. encode(t, k) = Abstract!Encoded(t, k) /\ encode(t, k) \in Seq(Int)
    BY <2>2, EncodedFacts
  <2>4. IInv' /\ Abstract!Put(Abstract!Encoded(t, k))
    BY <2>1, <2>3, PutMeaning
  <2> QED
    BY <2>1, <2>4 DEF Abstract!Next
<1>3. CASE Dequeue
  <2>1. TakeFirst(FirstData)
    BY <1>3 DEF Dequeue
  <2>2. running
    BY <2>1 DEF TakeFirst, Line
  <2>3. IInv' /\ Abstract!Take(Head(Present))
    BY <2>1, TakeMeaning
  <2> QED
    BY <2>2, <2>3, NowMeaning DEF Abstract!Next
<1>4. CASE \E k \in Keys : DequeueDecode(k)
  <2>1. PICK k \in Keys : DequeueDecode(k)
    BY <1>4
  <2> DEFINE shown == IF FirstData = ILLCHAR THEN FirstData ELSE decode(FirstData, k)
  <2>2. program = "ciphered-queue" /\ TakeFirst(shown)
    BY <2>1 DEF DequeueDecode
  <2>3. running
    BY <2>2 DEF TakeFirst, Line
  <2>4. Present \in Seq(Seq(Int))
    BY <2>3, PresentTyped
  <2>5. ASSUME Present # << >>, FirstData = Head(Present)
        PROVE  shown = Abstract!Decoded(Head(Present), k)
    <3>1. FirstData \in Seq(Int) /\ k \in Nat
      BY <2>4, <2>5, WordsTyped
    <3> QED
      BY <2>5, <3>1, DecodedFacts
  <2> HIDE DEF shown
  <2>6. IInv' /\ Abstract!Take(Abstract!Decoded(Head(Present), k))
    BY <2>2, <2>5, TakeMeaning
  <2> QED
    BY <2>2, <2>3, <2>6, NowMeaning DEF Abstract!Next
<1>5. CASE Other
  <2>1. Line /\ heap' = Target.heap /\ Keep(Target.q) /\ reply' = << >> /\ running' = running
    BY <1>5 DEF Other
  <2>2. IInv' /\ Grown(Present)
    BY <2>1, OtherStep
  <2>3. running /\ program' = program
    BY <2>1 DEF Line
  <2>4. Abstract!Becomes(Present, << >>)
    BY <2>1, <2>2, <2>3, BecomesStep
  <2> QED
    BY <2>2, <2>3, <2>4, NowMeaning DEF Abstract!Next
<1>6. CASE Undo
  <2>1. Line /\ program = "ciphered-queue" /\ reply' = << >> /\ running' = running
    BY <1>6 DEF Undo
  <2>2. running /\ program' = program
    BY <2>1 DEF Line
  <2>3. /\ IInv'
        /\ Hist(heap', gq') = IF Len(gq) > 1 THEN Front(Hist(heap, gq)) ELSE Hist(heap, gq)
    BY <1>6, UndoStep
  <2>4. Len(Hist(heap, gq)) = Len(gq)
    BY <2>2, NowMeaning
  <2>5. Abstract!Undo
    BY <2>1, <2>2, <2>3, <2>4, HistoryMeaning DEF Abstract!Undo, Abstract!Front, Front
  <2> QED
    BY <2>3, <2>5 DEF Abstract!Next
<1>7. CASE MissingArgument
  <2>1. Line /\ reply' = << ERROR >> /\ FreeAll
    BY <1>7 DEF MissingArgument
  <2>2. running /\ program' = program /\ lines' = lines + 1 /\ lines < MaxLines /\ lines \in Nat
    BY <2>1, LineFacts DEF Line
  <2>3. lines' \in 0 .. MaxLines
    BY <2>2, MemoryAssumption
  <2>4. IInv' /\ Hist(heap', gq') = << >>
    BY <2>1, <2>2, <2>3, FreeAllStep
  <2>5. Abstract!Stop(<< ERROR >>)
    BY <2>1, <2>2, <2>4, HistoryMeaning DEF Abstract!Stop, FreeAll
  <2> QED
    BY <2>4, <2>5 DEF Abstract!Next
<1>8. CASE EndOfFile
  <2>1. running /\ reply' = Present /\ FreeAll /\ program' = program /\ lines' = lines
    BY <1>8 DEF EndOfFile, Present
  <2>2. lines' \in 0 .. MaxLines
    BY <2>1 DEF IInv
  <2>3. IInv' /\ Hist(heap', gq') = << >>
    BY <2>1, <2>2, FreeAllStep
  <2>4. Abstract!Stop(Present)
    BY <2>1, <2>3, HistoryMeaning DEF Abstract!Stop, FreeAll
  <2> QED
    BY <2>1, <2>3, <2>4, NowMeaning DEF Abstract!Next
<1> QED
  BY <1>1, <1>2, <1>3, <1>4, <1>5, <1>6, <1>7, <1>8 DEF Next

\* A step in which no variable changes changes nothing of UndoQueue either.
LEMMA StutterStep ==
    ASSUME IInv, UNCHANGED vars
    PROVE  IInv' /\ UNCHANGED AbstractVars
BY DEF vars, IInv, AbstractVars

(***************************************************************************)
(* After any lines of any file: every queue the programs of lab1 keep is a *)
(* list from its head to its tail with at most one node per line read, no  *)
(* two share a node, every node allocated is in one of them, and n lines   *)
(* have allocated at most 1 + 2 + ... + n nodes.                           *)
(***************************************************************************)
THEOREM QueuesKept == Spec => []IInv
<1>1. Init => IInv
  BY InitInv
<1>2. IInv /\ [Next]_vars => IInv'
  BY NextStep, StutterStep
<1> QED
  BY <1>1, <1>2, PTL DEF Spec

(***************************************************************************)
(* For every file: the copies that ciphered-queue keeps for undo share no  *)
(* node, every node allocated is in one of the queues kept, and every tail *)
(* pointer is that of its queue.  So nothing is freed twice, and nothing   *)
(* is left allocated when main returns, after ERROR too.                   *)
(***************************************************************************)
THEOREM QueuesOwnNodesOnce == Spec => []NodesOwnedOnce
<1>1. IInv => NodesOwnedOnce
  <2> SUFFICES ASSUME IInv PROVE NodesOwnedOnce
    OBVIOUS
  <2>a. Lists(heap, gq) /\ Used(heap) = KeptNodes(heap, gq)
    BY DEF IInv, Owned
  <2>b. gq \in Seq(Queue)
    BY <2>a DEF Lists
  <2>c. DOMAIN gq = 1 .. Len(gq)
    BY <2>b
  <2>1. /\ gq \in Seq(Queue) /\ DOMAIN gq = 1 .. Len(gq)
        /\ \A i \in 1 .. Len(gq) : IsList(heap, gq[i], Nodes(heap, gq[i]))
        /\ \A i, j \in 1 .. Len(gq) :
              i # j => Range(Nodes(heap, gq[i])) \cap Range(Nodes(heap, gq[j])) = {}
        /\ Used(heap) = KeptNodes(heap, gq)
    BY <2>a, <2>b, <2>c, Zenon DEF Lists
  <2>2. ASSUME NEW i \in DOMAIN gq
        PROVE  gq[i].tail = IF gq[i].head = NULL THEN NULL ELSE Last(Nodes(heap, gq[i]))
    <3> DEFINE s == Nodes(heap, gq[i])
               q == gq[i]
    <3>1. IsList(heap, q, s)
      BY <2>1
    <3> HIDE DEF s, q
    <3>2. /\ s \in Seq(Addrs)
          /\ q.head = IF Len(s) = 0 THEN NULL ELSE s[1]
          /\ q.tail = IF Len(s) = 0 THEN NULL ELSE s[Len(s)]
      BY <3>1 DEF IsList
    <3>3. q.tail = IF q.head = NULL THEN NULL ELSE Last(s)
      BY <3>2, NullFacts DEF Last
    <3> QED
      BY <3>3 DEF s, q
  <2>3. {a \in Addrs : heap[a] # NULL} = UNION {Range(Nodes(heap, gq[i])) : i \in DOMAIN gq}
    BY <2>1 DEF Used, KeptNodes
  <2> QED
    BY <2>1, <2>2, <2>3 DEF NodesOwnedOnce
<1> QED
  BY <1>1, QueuesKept, PTL

(***************************************************************************)
(* Whatever the commands of the file, the queue programs of lab1 print and *)
(* keep what a stack of queues of words would: first in, first out,        *)
(* shifted by the key around the loops of letters and digits, and back to  *)
(* the queue as it was before with undo.                                   *)
(***************************************************************************)
THEOREM QueuesImplementUndoQueue == Spec => ImplementsUndoQueue
<1>1. Init => Abstract!Init
  <2> SUFFICES ASSUME Init PROVE Abstract!Init
    OBVIOUS
  <2>1. Hist(heap, gq) = << << >> >>
    BY InitInv
  <2> QED
    BY <2>1, HistoryMeaning DEF Init, Abstract!Init
<1>2. IInv /\ [Next]_vars => [Abstract!Next]_<< program, [i \in DOMAIN gq |-> Contents(heap, gq[i])], reply, running >>
  <2>1. ASSUME IInv, UNCHANGED vars
        PROVE  UNCHANGED << program, [i \in DOMAIN gq |-> Contents(heap, gq[i])], reply, running >>
    BY <2>1 DEF vars
  <2> QED
    BY <2>1, NextStep
<1> QED
  BY <1>1, <1>2, QueuesKept, PTL DEF Spec, ImplementsUndoQueue, Abstract!Spec

=============================================================================
