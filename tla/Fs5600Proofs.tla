---------------------------- MODULE Fs5600Proofs ----------------------------
(***************************************************************************)
(* Proofs about Fs5600: whatever the sizes of the image, a block, a        *)
(* directory and an inode are, every block has one owner, through every    *)
(* sequence of calls and on an image a process died over; and while no     *)
(* process died, every block that is marked is in use.                     *)
(*                                                                         *)
(* The invariants speak of the inodes that paths lead to.  The inductive   *)
(* invariant speaks of a set I of inode blocks instead, which is closed    *)
(* under the entries of its directories and so holds every inode a path    *)
(* leads to.  Every lemma about a change of the image is stated for two    *)
(* images, a set I before and the set after, and not for the variables.    *)
(***************************************************************************)
EXTENDS Fs5600, TLAPS, NaturalsInduction, WellFoundedInduction, FiniteSetTheorems

\* The pointers of an inode that are in use: the blocks of a file up to its
\* size, the one block of entries of a directory.
Pointers(in) == IF in.type = "file" THEN 0..(DIV_ROUND_UP(in.size) - 1) ELSE {0}
Entries(image, b) == image[image[b].ptrs[0]].slots
Neg == {-ENOENT, -ENOTDIR}
Block == Inode \cup DirBlock \cup DataBlock \cup OtherBlock

(* The parts of the inductive invariant. *)
Inodal(I, image) ==
    /\ ROOT \in I
    /\ I \subseteq Blocks \ {0, 1}
    /\ \A b \in I : image[b] \in Inode
    /\ \A b \in I : \A k \in Pointers(image[b]) :
          image[b].ptrs[k] \in Blocks \ ({0, 1} \cup I)

Closed(I, image) ==
    \A b \in I : image[b].type = "dir" =>
        /\ image[b].size # 0
        /\ image[image[b].ptrs[0]] \in DirBlock
        /\ \A i \in Slots : Entries(image, b)[i] # NULL =>
              Entries(image, b)[i].inode \in I \ {ROOT}

NoSharedData(I, image) ==
    \A b, c \in I : \A k \in Pointers(image[b]), l \in Pointers(image[c]) :
        image[b].ptrs[k] = image[c].ptrs[l] => b = c /\ k = l

NoSharedInode(I, image) ==
    \A b, c \in I : image[b].type = "dir" /\ image[c].type = "dir" =>
        \A i, j \in Slots :
            /\ Entries(image, b)[i] # NULL /\ Entries(image, c)[j] # NULL
            /\ Entries(image, b)[i].inode = Entries(image, c)[j].inode
            => b = c /\ i = j

Shape(I, image) ==
    Inodal(I, image) /\ Closed(I, image) /\ NoSharedData(I, image) /\ NoSharedInode(I, image)

\* The blocks that are not to be handed out: the bitmap's, and those a removal
\* that was cut short has freed and left in the tree.
InUse == bitmap \cup loose

\* Every block of the tree is marked.
Marked(I, map, image) ==
    \A b \in I : b \in map /\ \A k \in Pointers(image[b]) : image[b].ptrs[k] \in map

\* Every block that is marked belongs to the tree.
Exact(I, map, image) ==
    /\ {0, 1} \subseteq map
    /\ \A x \in map \ ({0, 1} \cup I) : \E b \in I : \E k \in Pointers(image[b]) :
          x = image[b].ptrs[k]

Reached(I, image) == \A b \in I : \E p \in Paths : Walk(image, p) = b

\* There is a tree on the image; exact says whether nothing else is marked.
Held(map, image, exact) ==
    \E I \in SUBSET Blocks :
        /\ Shape(I, image)
        /\ Marked(I, map, image)
        /\ exact => Exact(I, map, image) /\ Reached(I, image)

\* The blocks of an inode.
Own(image, v) == {v} \cup {image[v].ptrs[k] : k \in Pointers(image[v])}
\* What a kill has left free and in use belongs to what was being removed.
Torn ==
    ~up /\ returned.code = -1 /\ loose # {} =>
        /\ returned.call.path \in Paths
        /\ Walk(disk, returned.call.path) \in Blocks
        /\ loose \subseteq Own(disk, Walk(disk, returned.call.path))

IInv ==
    /\ TypeOK
    /\ aborted = "no" => loose = {}
    /\ aborted # "reused" => Held(InUse, disk, aborted = "no") /\ Torn

-----------------------------------------------------------------------------
(* Numbers. *)

\* Induction, for a set of numbers.
LEMMA Induction ==
    ASSUME NEW S, 0 \in S, \A n \in Nat : n \in S => n + 1 \in S
    PROVE  Nat \subseteq S
<1> SUFFICES ASSUME Nat \ S # {} PROVE FALSE
  OBVIOUS
<1>1. PICK m \in Nat \ S : \A j \in Nat \ S : ~ (<< j, m >> \in OpToRel(<, Nat))
  <2> HIDE DEF OpToRel
  <2> QED
    BY NatLessThanWellFounded, WFMin, Zenon
<1>2. \A j \in Nat \ S : ~ (j < m)
  BY <1>1 DEF OpToRel
<1>3. m # 0 /\ m - 1 \in Nat
  OBVIOUS
<1>4. m - 1 \in S
  BY <1>2, <1>3
<1> QED
  BY <1>3, <1>4

LEMMA LowestIn ==
    ASSUME NEW S, S \subseteq Nat, S # {}
    PROVE  Lowest(S) \in S /\ \A j \in S : Lowest(S) =< j
<1>1. PICK i \in S : \A j \in S : ~ (<< j, i >> \in OpToRel(<, Nat))
  <2> HIDE DEF OpToRel
  <2> QED
    BY NatLessThanWellFounded, WFMin, Zenon
<1>2. \A j \in S : ~ (j < i)
  BY <1>1 DEF OpToRel
<1>3. \A j \in S : i =< j
  BY <1>2
<1>4. \E k \in S : \A j \in S : k =< j
  BY <1>3
<1> QED
  BY <1>4, Zenon DEF Lowest

LEMMA MaxIn ==
    ASSUME NEW n \in Nat, NEW S, S \subseteq 0..n, S # {}
    PROVE  Max(S) \in S /\ \A j \in S : Max(S) >= j
<1> DEFINE T == {n - x : x \in S}
<1>0. \A x \in S : x \in Int /\ 0 =< x /\ x =< n
  OBVIOUS
<1>1. T \subseteq Nat /\ T # {}
  <2>1. \A x \in S : n - x \in Nat
    BY <1>0
  <2> QED
    BY <2>1
<1>2. Lowest(T) \in T /\ \A j \in T : Lowest(T) =< j
  BY <1>1, LowestIn
<1>3. PICK x \in S : Lowest(T) = n - x
  BY <1>2
<1>4. ASSUME NEW j \in S PROVE x >= j
  <2>1. n - j \in T
    OBVIOUS
  <2>2. n - x =< n - j
    BY <1>2, <1>3, <2>1
  <2> QED
    BY <2>2, <1>0
<1>5. \E y \in S : \A j \in S : y >= j
  BY <1>4
<1> QED
  BY <1>5, Zenon DEF Max

\* A block of a file is in use when it begins before the file's end.
LEMMA RoundUp ==
    ASSUME NEW n \in Nat
    PROVE  /\ DIV_ROUND_UP(n) \in Nat
           /\ \A k \in Nat : k < DIV_ROUND_UP(n) <=> k * FS_BLOCK_SIZE < n
<1> DEFINE B == FS_BLOCK_SIZE
           q == DIV_ROUND_UP(n)
<1>1. B \in Nat \ {0}
  BY SizesAssumption
<1>2. q \in Nat /\ B * q =< n + B - 1 /\ n + B - 1 < B * q + B
  BY <1>1 DEF DIV_ROUND_UP
<1>3. ASSUME NEW k \in Nat, k < q PROVE k * B < n
  <2>1. k + 1 =< q
    BY <1>2, <1>3
  <2>2. B * (k + 1) =< B * q
    BY <2>1, <1>1, <1>2
  <2>3. B * (k + 1) = k * B + B
    BY <1>1
  <2> HIDE DEF q, B
  <2>4. k * B \in Nat /\ B * q \in Nat
    BY <1>1, <1>2
  <2> QED
    BY <1>1, <1>2, <2>2, <2>3, <2>4
<1>4. ASSUME NEW k \in Nat, k >= q PROVE k * B >= n
  <2>1. B * k >= B * q
    BY <1>4, <1>1, <1>2
  <2>2. B * k = k * B
    BY <1>1
  <2> HIDE DEF q, B
  <2>3. k * B \in Nat /\ B * q \in Nat
    BY <1>1, <1>2
  <2> QED
    BY <1>1, <1>2, <2>1, <2>2, <2>3
<1>5. \A k \in Nat : k * B \in Nat
  BY <1>1
<1> HIDE DEF q, B
<1>6. \A k \in Nat : k < q <=> k * B < n
  BY <1>2, <1>3, <1>4, <1>5
<1> QED
  BY <1>2, <1>6 DEF q, B

-----------------------------------------------------------------------------
(* Paths, and the walk along one. *)

LEMMA PathFacts ==
    /\ <<>> \in Paths
    /\ \A p \in Paths :
          /\ Len(p) \in Nat /\ DOMAIN p = 1..Len(p)
          /\ Len(p) = 0 <=> p = <<>>
          /\ (Len(p) =< MAX_LEVELS /\ \A i \in 1..Len(p) : p[i] \in Names)
             \/ (Len(p) = 1 /\ p[1] \in LongNames)
<1>1. MAX_LEVELS \in Nat
  BY SizesAssumption
<1>2. <<>> \in [1..0 -> Names]
  OBVIOUS
<1>3. <<>> \in Paths
  BY <1>1, <1>2 DEF Paths
<1>4. ASSUME NEW p \in Paths
      PROVE  /\ Len(p) \in Nat /\ DOMAIN p = 1..Len(p)
             /\ Len(p) = 0 <=> p = <<>>
             /\ (Len(p) =< MAX_LEVELS /\ \A i \in 1..Len(p) : p[i] \in Names)
                \/ (Len(p) = 1 /\ p[1] \in LongNames)
  <2>1. CASE \E n \in 0..MAX_LEVELS : p \in [1..n -> Names]
    <3>1. PICK n \in 0..MAX_LEVELS : p \in [1..n -> Names]
      BY <2>1
    <3>2. n \in Nat
      BY <1>1
    <3>3. Len(p) = n
      BY <3>1, <3>2
    <3> QED
      BY <3>1, <3>2, <3>3
  <2>2. CASE p \in [1..1 -> LongNames]
    <3>1. Len(p) = 1 /\ DOMAIN p = 1..1
      BY <2>2
    <3>2. p[1] \in LongNames
      BY <2>2
    <3>3. p # <<>>
      BY <3>1
    <3> QED
      BY <3>1, <3>2, <3>3
  <2> QED
    BY <2>1, <2>2 DEF Paths
<1> QED
  BY <1>3, <1>4

LEMMA NamesPath ==
    ASSUME NEW n \in 0..MAX_LEVELS, NEW p \in [1..n -> Names]
    PROVE  p \in Paths /\ Len(p) = n
<1>1. n \in Nat
  BY SizesAssumption
<1> QED
  BY <1>1 DEF Paths

LEMMA ParentFacts ==
    ASSUME NEW p \in Paths, p # <<>>
    PROVE  /\ Parent(p) \in Paths
           /\ Len(p) - 1 \in Nat
           /\ Len(Parent(p)) = Len(p) - 1
           /\ \A i \in 1..(Len(p) - 1) : Parent(p)[i] = p[i]
           /\ Name(p) \in Names \cup LongNames
<1>1. /\ Len(p) \in Nat \ {0} /\ DOMAIN p = 1..Len(p)
      /\ (Len(p) =< MAX_LEVELS /\ \A i \in 1..Len(p) : p[i] \in Names)
         \/ (Len(p) = 1 /\ p[1] \in LongNames)
  BY PathFacts
<1>2. MAX_LEVELS \in Nat
  BY SizesAssumption
<1>3. Parent(p) = [i \in 1..(Len(p) - 1) |-> p[i]]
  BY <1>1 DEF Parent
<1>4. Parent(p) \in Paths /\ Len(Parent(p)) = Len(p) - 1
  <2>1. CASE Len(p) =< MAX_LEVELS /\ \A i \in 1..Len(p) : p[i] \in Names
    <3>1. Parent(p) \in [1..(Len(p) - 1) -> Names]
      BY <1>1, <1>3, <2>1
    <3>2. Len(p) - 1 \in 0..MAX_LEVELS
      BY <1>1, <1>2, <2>1
    <3> QED
      BY <3>1, <3>2, NamesPath
  <2>2. CASE Len(p) = 1
    <3>1. Parent(p) = <<>>
      BY <1>3, <2>2
    <3> QED
      BY <3>1, <2>2, PathFacts
  <2> QED
    BY <1>1, <2>1, <2>2
<1> QED
  BY <1>1, <1>3, <1>4 DEF Name

\* The walk is what its recursive definition says it is.
LEMMA WalkDefined ==
    ASSUME NEW image, NEW p, Len(p) \in Nat
    PROVE  \E w :
              /\ Walk(image, p) = w[Len(p)]
              /\ w[0] = ROOT
              /\ \A k \in 1..Len(p) :
                    w[k] = IF w[k-1] < 0 THEN w[k-1] ELSE Lookup(image, w[k-1], p[k])
<1> DEFINE D(f, k) == IF k = 0 THEN ROOT
                      ELSE LET par == f[k-1]
                           IN  IF par < 0 THEN par ELSE Lookup(image, par, p[k])
           S == {n \in Nat : \E f : f = [k \in 0..n |-> D(f, k)]}
<1>1. 0 \in S
  <2> DEFINE g == [k \in 0..0 |-> ROOT]
  <2>1. \A k \in 0..0 : D(g, k) = ROOT
    OBVIOUS
  <2>2. g = [k \in 0..0 |-> D(g, k)]
    <3> HIDE DEF D
    <3> QED
      BY <2>1
  <2> QED
    BY <2>2
<1>2. ASSUME NEW n \in Nat, n \in S PROVE n + 1 \in S
  <2>1. PICK f : f = [k \in 0..n |-> D(f, k)]
    BY <1>2
  <2> DEFINE g == [k \in 0..(n+1) |-> IF k = n + 1 THEN D(f, k) ELSE f[k]]
  <2>2. ASSUME NEW k \in 0..(n+1) PROVE g[k] = D(g, k)
    <3>1. CASE k = 0
      <4>1. g[k] = f[k] /\ f[k] = D(f, k)
        BY <3>1, <2>1
      <4> QED
        BY <4>1, <3>1
    <3>2. CASE k # 0
      <4>1. k - 1 \in 0..n /\ k - 1 \in 0..(n+1) /\ k - 1 # n + 1
        BY <3>2
      <4>2. g[k-1] = f[k-1]
        BY <4>1
      <4>3. g[k] = D(f, k)
        <5>1. CASE k = n + 1
          BY <5>1
        <5>2. CASE k # n + 1
          <6>1. k \in 0..n
            BY <5>2
          <6>2. f[k] = D(f, k)
            <7> HIDE DEF D
            <7> QED BY <2>1, <6>1
          <6> QED
            BY <5>2, <6>2
        <5> QED
          BY <5>1, <5>2
      <4> HIDE DEF g
      <4> QED
        BY <4>2, <4>3
    <3> QED
      BY <3>1, <3>2
  <2>3. g = [k \in 0..(n+1) |-> D(g, k)]
    <3>1. g = [k \in 0..(n+1) |-> g[k]]
      OBVIOUS
    <3> HIDE DEF D, g
    <3> QED
      BY <2>2, <3>1
  <2> HIDE DEF g, D
  <2> QED
    BY <2>3
<1> HIDE DEF S
<1>3. Len(p) \in S
  BY <1>1, <1>2, Induction
<1>4. \E f : f = [k \in 0..Len(p) |-> D(f, k)]
  BY <1>3 DEF S
<1> DEFINE w == CHOOSE f : f = [k \in 0..Len(p) |-> D(f, k)]
<1>5. w = [k \in 0..Len(p) |-> D(w, k)]
  <2> HIDE DEF D
  <2> QED
    BY <1>4, Zenon
<1>6. Walk(image, p) = w[Len(p)]
  BY Zenon DEF Walk
<1> HIDE DEF w
<1>7. w[0] = ROOT
  BY <1>5
<1>8. \A k \in 1..Len(p) : w[k] = IF w[k-1] < 0 THEN w[k-1] ELSE Lookup(image, w[k-1], p[k])
  BY <1>5
<1> QED
  BY <1>6, <1>7, <1>8

LEMMA WalkRoot == ASSUME NEW image PROVE Walk(image, <<>>) = ROOT
<1>1. Len(<<>>) \in Nat /\ Len(<<>>) = 0
  OBVIOUS
<1> QED
  BY <1>1, WalkDefined

\* The walk along a path is that to its parent and one component more.
LEMMA WalkStep ==
    ASSUME NEW image, NEW p \in Paths, p # <<>>
    PROVE  Walk(image, p) = IF Walk(image, Parent(p)) < 0 THEN Walk(image, Parent(p))
                            ELSE Lookup(image, Walk(image, Parent(p)), Name(p))
<1> DEFINE n == Len(p) - 1
           Step(x, name) == IF x < 0 THEN x ELSE Lookup(image, x, name)
<1>1. n \in Nat /\ Len(p) = n + 1 /\ Len(Parent(p)) = n /\ \A i \in 1..n : Parent(p)[i] = p[i]
  BY ParentFacts, PathFacts
<1>2. PICK w : /\ Walk(image, p) = w[Len(p)]
               /\ w[0] = ROOT
               /\ \A k \in 1..Len(p) : w[k] = Step(w[k-1], p[k])
  BY <1>1, WalkDefined
<1>3. PICK v : /\ Walk(image, Parent(p)) = v[Len(Parent(p))]
               /\ v[0] = ROOT
               /\ \A k \in 1..Len(Parent(p)) : v[k] = Step(v[k-1], Parent(p)[k])
  <2>1. Len(Parent(p)) \in Nat
    BY <1>1
  <2> HIDE DEF n
  <2> QED
    BY <2>1, WalkDefined
<1> HIDE DEF n, Step
<1> DEFINE S == {k \in Nat : k =< n => w[k] = v[k]}
<1>4. 0 \in S
  BY <1>2, <1>3
<1>5. ASSUME NEW k \in Nat, k \in S PROVE k + 1 \in S
  <2>1. CASE k + 1 =< n
    <3>1. w[k] = v[k] /\ k + 1 \in 1..n /\ k + 1 \in 1..Len(p) /\ (k + 1) - 1 = k
      BY <1>1, <1>5, <2>1
    <3>2. w[k+1] = Step(w[k], p[k+1]) /\ v[k+1] = Step(v[k], p[k+1])
      BY <1>1, <1>2, <1>3, <3>1
    <3> QED
      BY <3>1, <3>2
  <2>2. CASE ~ (k + 1 =< n)
    BY <2>2
  <2> QED
    BY <2>1, <2>2
<1> HIDE DEF S
<1>6. n \in S
  BY <1>1, <1>4, <1>5, Induction
<1>7. w[n] = v[n]
  BY <1>6, <1>1 DEF S
<1>8. n + 1 \in 1..Len(p) /\ (n + 1) - 1 = n
  BY <1>1
<1>9. w[n+1] = Step(w[n], p[n+1])
  BY <1>2, <1>8
<1> QED
  BY <1>1, <1>2, <1>3, <1>7, <1>9 DEF Step, Name

-----------------------------------------------------------------------------
(* Directory entries. *)

LEMMA FirstSlotFacts ==
    ASSUME NEW S, S \subseteq Slots
    PROVE  /\ FirstSlot(S) = 0 <=> S = {}
           /\ FirstSlot(S) # 0 => /\ FirstSlot(S) \in S
                                  /\ \A j \in S : FirstSlot(S) =< j
<1>1. S \subseteq Nat \ {0}
  BY SizesAssumption DEF Slots
<1>2. S # {} => Lowest(S) \in S /\ \A j \in S : Lowest(S) =< j
  BY <1>1, LowestIn
<1> QED
  BY <1>1, <1>2 DEF FirstSlot

\* Which slots decide what find_dirent finds.
LEMMA FirstSlotOf ==
    ASSUME NEW S, S \subseteq Slots, NEW i \in S, \A j \in S : i =< j
    PROVE  FirstSlot(S) = i
<1>1. i \in Nat \ {0} /\ S \subseteq Nat \ {0}
  BY SizesAssumption DEF Slots
<1>2. FirstSlot(S) \in S /\ \A j \in S : FirstSlot(S) =< j
  BY FirstSlotFacts
<1>3. FirstSlot(S) \in Nat /\ FirstSlot(S) =< i /\ i =< FirstSlot(S)
  BY <1>1, <1>2
<1> QED
  BY <1>1, <1>3

LEMMA FindFacts ==
    ASSUME NEW slots, NEW name
    PROVE  LET i == find_dirent(slots, name) IN
           /\ i = 0 <=> \A j \in Slots : slots[j] # NULL => slots[j].name # name
           /\ i # 0 => /\ i \in Slots /\ slots[i] # NULL /\ slots[i].name = name
                       /\ \A j \in Slots : slots[j] # NULL /\ slots[j].name = name => i =< j
<1> DEFINE S == {i \in Slots : slots[i] # NULL /\ slots[i].name = name}
<1>1. S \subseteq Slots
  OBVIOUS
<1>2. /\ FirstSlot(S) = 0 <=> S = {}
      /\ FirstSlot(S) # 0 => /\ FirstSlot(S) \in S
                             /\ \A j \in S : FirstSlot(S) =< j
  BY <1>1, FirstSlotFacts
<1>3. find_dirent(slots, name) = FirstSlot(S)
  BY DEF find_dirent
<1> QED
  BY <1>2, <1>3

LEMMA FindIs ==
    ASSUME NEW slots, NEW name, NEW i \in Slots, slots[i] # NULL, slots[i].name = name,
           \A j \in Slots : slots[j] # NULL /\ slots[j].name = name => i =< j
    PROVE  find_dirent(slots, name) = i
<1> DEFINE S == {j \in Slots : slots[j] # NULL /\ slots[j].name = name}
<1>1. S \subseteq Slots /\ i \in S /\ \A j \in S : i =< j
  OBVIOUS
<1>2. FirstSlot(S) = i
  BY <1>1, FirstSlotOf
<1> QED
  BY <1>2 DEF find_dirent

LEMMA EmptyFacts ==
    ASSUME NEW slots
    PROVE  LET i == find_empty(slots) IN i # 0 => i \in Slots /\ slots[i] = NULL
<1> DEFINE S == {i \in Slots : slots[i] = NULL}
<1>1. S \subseteq Slots
  OBVIOUS
<1> QED
  BY <1>1, FirstSlotFacts DEF find_empty

LEMMA FullFacts ==
    ASSUME NEW slots, find_full(slots) = 0
    PROVE  \A i \in Slots : slots[i] = NULL
<1> DEFINE S == {i \in Slots : slots[i] # NULL}
<1>1. S \subseteq Slots
  OBVIOUS
<1>2. S = {}
  BY <1>1, FirstSlotFacts DEF find_full
<1> QED
  BY <1>2

-----------------------------------------------------------------------------
(* What a walk over a tree meets. *)

LEMMA BlocksFacts ==
    /\ Blocks \subseteq Nat /\ ROOT \in Blocks /\ ROOT_DATA \in Blocks
    /\ \A e \in Neg : e < 0 /\ e \notin Blocks /\ e \in Int
    /\ JUNK \notin Blocks
  BY SizesAssumption, SentinelAssumption DEF Blocks, ROOT, Neg, ENOENT, ENOTDIR

\* Every component leads to an inode of the tree or to an error.
LEMMA LookupFacts ==
    ASSUME NEW I, NEW image, Shape(I, image), NEW d \in I, NEW name
    PROVE  /\ Lookup(image, d, name) \in I \cup Neg
           /\ Lookup(image, d, name) \in I =>
                 LET i == find_dirent(Entries(image, d), name) IN
                 /\ name \notin LongNames
                 /\ image[d].type = "dir"
                 /\ i # 0
                 /\ Lookup(image, d, name) = Entries(image, d)[i].inode
           /\ name \notin LongNames /\ image[d].type = "dir" =>
                 LET i == find_dirent(Entries(image, d), name) IN
                 Lookup(image, d, name) = IF i = 0 THEN -ENOENT ELSE Entries(image, d)[i].inode
<1> DEFINE i == find_dirent(Entries(image, d), name)
<1>0. Neg \cap I = {} /\ -ENOENT \in Neg /\ -ENOTDIR \in Neg
  BY BlocksFacts DEF Shape, Inodal, Neg
<1>1. image[d].kind = "inode" /\ (image[d].type = "dir" => image[d].size # 0)
  BY DEF Shape, Inodal, Closed, Inode
<1>2. Lookup(image, d, name) =
        IF name \in LongNames THEN -ENOENT
        ELSE IF image[d].type # "dir" THEN -ENOTDIR
        ELSE IF i = 0 THEN -ENOENT ELSE Entries(image, d)[i].inode
  BY <1>1 DEF Lookup, Entries
<1>3. i # 0 => i \in Slots /\ Entries(image, d)[i] # NULL
  BY FindFacts
<1>4. image[d].type = "dir" /\ i # 0 => Entries(image, d)[i].inode \in I
  BY <1>3 DEF Shape, Closed
<1> HIDE DEF i
<1> QED
  BY <1>0, <1>2, <1>4 DEF i

LEMMA WalkFacts ==
    ASSUME NEW I, NEW image, Shape(I, image)
    PROVE  \A p \in Paths : Walk(image, p) \in I \cup Neg
<1> DEFINE S == {n \in Nat : \A p \in Paths : Len(p) = n => Walk(image, p) \in I \cup Neg}
<1>0. ROOT \in I /\ \A x \in I \cup Neg : x < 0 <=> x \in Neg
  BY BlocksFacts DEF Shape, Inodal
<1>3. \A x \in I : x \in Nat /\ ~ (x < 0)
  BY BlocksFacts DEF Shape, Inodal
<1>1. 0 \in S
  BY PathFacts, WalkRoot, <1>0
<1>2. ASSUME NEW n \in Nat, n \in S PROVE n + 1 \in S
  <2> SUFFICES ASSUME NEW p \in Paths, Len(p) = n + 1 PROVE Walk(image, p) \in I \cup Neg
    OBVIOUS
  <2>1. p # <<>>
    BY PathFacts
  <2>2. Parent(p) \in Paths /\ Len(Parent(p)) = n
    BY <2>1, ParentFacts
  <2>3. Walk(image, Parent(p)) \in I \cup Neg
    BY <1>2, <2>2
  <2>4. CASE Walk(image, Parent(p)) \in Neg
    BY <2>1, <2>4, <1>0, WalkStep
  <2>5. CASE Walk(image, Parent(p)) \in I
    <3>1. ~ (Walk(image, Parent(p)) < 0)
      BY <2>5, <1>3
    <3> QED
      BY <2>1, <2>5, <3>1, WalkStep, LookupFacts
  <2> QED
    BY <2>3, <2>4, <2>5
<1> HIDE DEF S
<1>4. Nat \subseteq S
  BY <1>1, <1>2, Induction
<1> QED
  BY <1>4, PathFacts DEF S

\* A path that leads into the tree, the root apart, leads there by an entry of
\* its parent.
LEMMA WalkInto ==
    ASSUME NEW I, NEW image, Shape(I, image), NEW p \in Paths, p # <<>>
    PROVE  LET d == Walk(image, Parent(p)) IN
           /\ Walk(image, p) \in I =>
                 d \in I /\ Walk(image, p) = Lookup(image, d, Name(p))
           /\ d \in I => Walk(image, p) = Lookup(image, d, Name(p))
<1>1. Parent(p) \in Paths
  BY ParentFacts
<1>2. Walk(image, Parent(p)) \in I \cup Neg
  BY <1>1, WalkFacts
<1>3. \A x \in I : ~ (x < 0) /\ x \notin Neg
  BY BlocksFacts DEF Shape, Inodal
<1>4. \A x \in Neg : x < 0
  BY BlocksFacts
<1> QED
  BY <1>2, <1>3, <1>4, WalkStep

\* A longer path, by one component.
LEMMA AppendPath ==
    ASSUME NEW q \in Paths, NEW name \in Names, Len(q) < MAX_LEVELS,
           \A i \in 1..Len(q) : q[i] \in Names
    PROVE  /\ Append(q, name) \in Paths
           /\ Append(q, name) # <<>>
           /\ Len(Append(q, name)) = Len(q) + 1
           /\ Parent(Append(q, name)) = q
           /\ Name(Append(q, name)) = name
<1> DEFINE n == Len(q)
<1>1. n \in Nat /\ DOMAIN q = 1..n /\ q \in [1..n -> Names]
  <2>1. n \in Nat /\ DOMAIN q = 1..n
    BY PathFacts
  <2>2. q = [i \in 1..n |-> q[i]]
    <3>1. CASE q \in [1..1 -> LongNames]
      BY <2>1, <3>1
    <3>2. CASE \E m \in 0..MAX_LEVELS : q \in [1..m -> Names]
      BY <2>1, <3>2
    <3> QED
      BY <3>1, <3>2 DEF Paths
  <2> QED
    BY <2>1, <2>2
<1>2. q \in Seq(Names)
  BY <1>1
<1>3. Append(q, name) \in Seq(Names) /\ Len(Append(q, name)) = n + 1
  BY <1>2
<1>4. \A i \in 1..(n + 1) : Append(q, name)[i] = IF i = n + 1 THEN name ELSE q[i]
  BY <1>2
<1>5. Append(q, name) \in [1..(n + 1) -> Names]
  <2>1. \A s \in Seq(Names) : s \in [1..Len(s) -> Names]
    OBVIOUS
  <2> HIDE DEF n
  <2> QED
    BY <1>3, <2>1
<1>6. n + 1 \in 0..MAX_LEVELS
  BY <1>1, SizesAssumption
<1>7. Append(q, name) \in Paths
  BY <1>5, <1>6, NamesPath
<1>8. Parent(Append(q, name)) = [i \in 1..n |-> Append(q, name)[i]]
  BY <1>1, <1>3, <1>5 DEF Parent
<1>9. Parent(Append(q, name)) = q
  <2>1. q = [i \in 1..n |-> q[i]]
    BY <1>1
  <2>2. \A i \in 1..n : Append(q, name)[i] = q[i]
    BY <1>1, <1>4
  <2> QED
    BY <1>8, <2>1, <2>2
<1>10. Name(Append(q, name)) = name /\ Append(q, name) # <<>>
  BY <1>1, <1>3, <1>4 DEF Name
<1> QED
  BY <1>3, <1>7, <1>9, <1>10

\* What leads into a tree before a change leads into what is left of it after:
\* by another path perhaps, but not a longer one.
LEMMA StillReached ==
    ASSUME NEW I, NEW image, Shape(I, image), NEW K, NEW image2, Shape(K, image2),
           NEW J, J \subseteq I, J \subseteq K,
           \A d \in I : \A name \in Names : Lookup(image, d, name) \in J =>
               d \in J /\ \E new \in Names : Lookup(image2, d, new) = Lookup(image, d, name)
    PROVE  \A p \in Paths : Walk(image, p) \in J =>
               \E q \in Paths : /\ Len(q) = Len(p)
                                /\ Walk(image2, q) = Walk(image, p)
                                /\ \A i \in 1..Len(q) : q[i] \in Names
<1> DEFINE Moved(p) == \E q \in Paths : /\ Len(q) = Len(p)
                                        /\ Walk(image2, q) = Walk(image, p)
                                        /\ \A i \in 1..Len(q) : q[i] \in Names
           S == {n \in Nat : \A p \in Paths : Len(p) = n /\ Walk(image, p) \in J => Moved(p)}
<1>1. 0 \in S
  <2> SUFFICES ASSUME NEW p \in Paths, Len(p) = 0 PROVE Moved(p)
    OBVIOUS
  <2>1. p = <<>>
    BY PathFacts
  <2>2. Walk(image, p) = ROOT /\ Walk(image2, p) = ROOT
    BY <2>1, WalkRoot
  <2> QED
    BY <2>2
<1>2. ASSUME NEW n \in Nat, n \in S PROVE n + 1 \in S
  <2> SUFFICES ASSUME NEW p \in Paths, Len(p) = n + 1, Walk(image, p) \in J PROVE Moved(p)
    OBVIOUS
  <2> DEFINE d == Walk(image, Parent(p))
  <2>1. p # <<>>
    BY PathFacts
  <2>2. Parent(p) \in Paths /\ Len(Parent(p)) = n /\ Name(p) \in Names \cup LongNames
    BY <2>1, ParentFacts
  <2>3. d \in I /\ Walk(image, p) = Lookup(image, d, Name(p))
    BY <2>1, WalkInto
  <2>4. Name(p) \notin LongNames
    BY <2>3, LookupFacts
  <2>5. d \in J /\ \E new \in Names : Lookup(image2, d, new) = Lookup(image, d, Name(p))
    BY <2>2, <2>3, <2>4
  <2>6. PICK new \in Names : Lookup(image2, d, new) = Walk(image, p)
    BY <2>3, <2>5
  <2>7. PICK q \in Paths : /\ Len(q) = n
                           /\ Walk(image2, q) = d
                           /\ \A i \in 1..Len(q) : q[i] \in Names
    BY <1>2, <2>2, <2>5
  <2>8. Len(p) =< MAX_LEVELS
    <3>1. Len(p) =< MAX_LEVELS \/ (Len(p) = 1 /\ p[1] \in LongNames)
      BY PathFacts
    <3>2. Len(p) = 1 => Name(p) = p[1]
      BY DEF Name
    <3> QED
      BY <2>4, <3>1, <3>2
  <2>9. Len(q) < MAX_LEVELS
    BY <2>7, <2>8, SizesAssumption
  <2> DEFINE r == Append(q, new)
  <2>10. /\ r \in Paths /\ r # <<>> /\ Len(r) = Len(q) + 1
         /\ Parent(r) = q /\ Name(r) = new
    BY <2>7, <2>9, AppendPath
  <2>11. Walk(image2, r) = Walk(image, p)
    <3> HIDE DEF r
    <3> QED
      BY <2>5, <2>6, <2>7, <2>10, WalkInto
  <2>12. \A i \in 1..Len(r) : r[i] \in Names
    <3>1. (\A i \in 1..Len(r) : r[i] \in Names) \/ (Len(r) = 1 /\ r[1] \in LongNames)
      <4> HIDE DEF r
      <4> QED
        BY <2>10, PathFacts
    <3>2. ~ (Len(r) = 1 /\ r[1] \in LongNames)
      <4>1. Len(r) = 1 => Name(r) = r[1]
        BY DEF Name
      <4> HIDE DEF r
      <4> QED
        BY <4>1, <2>10, NamesAssumption
    <3> QED
      BY <3>1, <3>2
  <2> HIDE DEF r
  <2> QED
    BY <2>7, <2>10, <2>11, <2>12
<1> HIDE DEF S
<1>3. Nat \subseteq S
  BY <1>1, <1>2, Induction
<1> QED
  BY <1>3, PathFacts DEF S

-----------------------------------------------------------------------------
(* What the inductive invariant says about paths and references. *)

LEMMA InodesFacts ==
    ASSUME NEW I, Shape(I, disk)
    PROVE  Inodes \subseteq I
<1>1. \A p \in Paths : path2inum(p) \in I \cup Neg
  BY WalkFacts DEF path2inum
<1> QED
  BY <1>1, BlocksFacts DEF Inodes

\* The three kinds of references.
LEMMA ReferenceCases ==
    ASSUME NEW I, Shape(I, disk), NEW r \in References
    PROVE  \/ r = <<0, 0, ROOT>>
           \/ \E b \in I : \E k \in Pointers(disk[b]) : r = <<b, k, disk[b].ptrs[k]>>
           \/ \E b \in I : \E i \in Slots :
                 /\ disk[b].type = "dir"
                 /\ Entries(disk, b)[i] # NULL
                 /\ r = <<disk[b].ptrs[0], i, Entries(disk, b)[i].inode>>
<1>1. CASE r = <<0, 0, ROOT>>
  BY <1>1
<1>2. ASSUME NEW b \in Inodes,
             r \in (IF disk[b].type = "file"
                THEN {<<b, k, disk[b].ptrs[k]>> : k \in 0..(DIV_ROUND_UP(disk[b].size) - 1)}
                ELSE {<<b, 0, DataOf(b)>>}
                     \cup {<<DataOf(b), i, SlotsOf(b)[i].inode>> :
                              i \in {j \in Slots : SlotsOf(b)[j] # NULL}})
      PROVE  \/ \E k \in Pointers(disk[b]) : r = <<b, k, disk[b].ptrs[k]>>
             \/ \E i \in Slots :
                 /\ disk[b].type = "dir"
                 /\ Entries(disk, b)[i] # NULL
                 /\ r = <<disk[b].ptrs[0], i, Entries(disk, b)[i].inode>>
  <2>1. b \in I /\ disk[b].type \in {"file", "dir"}
    BY InodesFacts DEF Shape, Inodal, Inode
  <2>2. CASE disk[b].type = "file"
    BY <1>2, <2>2 DEF Pointers
  <2>3. CASE disk[b].type = "dir"
    <3>1. CASE r = <<b, 0, DataOf(b)>>
      BY <2>3, <3>1 DEF Pointers, DataOf
    <3>2. CASE \E i \in Slots : SlotsOf(b)[i] # NULL /\ r = <<DataOf(b), i, SlotsOf(b)[i].inode>>
      BY <2>3, <3>2 DEF DataOf, SlotsOf, Entries
    <3> QED
      BY <1>2, <2>3, <3>1, <3>2
  <2> QED
    BY <2>1, <2>2, <2>3
<1>3. r = <<0, 0, ROOT>> \/ \E b \in Inodes :
             r \in (IF disk[b].type = "file"
                THEN {<<b, k, disk[b].ptrs[k]>> : k \in 0..(DIV_ROUND_UP(disk[b].size) - 1)}
                ELSE {<<b, 0, DataOf(b)>>}
                     \cup {<<DataOf(b), i, SlotsOf(b)[i].inode>> :
                              i \in {j \in Slots : SlotsOf(b)[j] # NULL}})
  BY Zenon DEF References
<1> QED
  BY <1>1, <1>2, <1>3, InodesFacts

LEMMA OneReference ==
    ASSUME NEW I, Shape(I, disk), NEW r \in References, NEW s \in References, r[3] = s[3]
    PROVE  r = s
<1> DEFINE Data(x) == \E b \in I : \E k \in Pointers(disk[b]) : x = <<b, k, disk[b].ptrs[k]>>
           Entry(x) == \E b \in I : \E i \in Slots :
                         /\ disk[b].type = "dir"
                         /\ Entries(disk, b)[i] # NULL
                         /\ x = <<disk[b].ptrs[0], i, Entries(disk, b)[i].inode>>
<1>1. /\ r = <<0, 0, ROOT>> \/ Data(r) \/ Entry(r)
      /\ s = <<0, 0, ROOT>> \/ Data(s) \/ Entry(s)
  BY ReferenceCases
<1>2. \A x : Data(x) => x[3] \notin I
  BY DEF Shape, Inodal
<1>3. \A x : Entry(x) => x[3] \in I /\ x[3] # ROOT
  BY DEF Shape, Closed
<1>4. ROOT \in I
  BY DEF Shape, Inodal
<1>5. ASSUME Data(r), Data(s) PROVE r = s
  <2>1. PICK b \in I : \E k \in Pointers(disk[b]) : r = <<b, k, disk[b].ptrs[k]>>
    BY <1>5
  <2>2. PICK k \in Pointers(disk[b]) : r = <<b, k, disk[b].ptrs[k]>>
    BY <2>1
  <2>3. PICK c \in I : \E l \in Pointers(disk[c]) : s = <<c, l, disk[c].ptrs[l]>>
    BY <1>5
  <2>4. PICK l \in Pointers(disk[c]) : s = <<c, l, disk[c].ptrs[l]>>
    BY <2>3
  <2>5. disk[b].ptrs[k] = disk[c].ptrs[l]
    BY <2>2, <2>4
  <2>6. b = c /\ k = l
    BY <2>5 DEF Shape, NoSharedData
  <2> QED
    BY <2>2, <2>4, <2>6
<1>6. ASSUME Entry(r), Entry(s) PROVE r = s
  <2>1. PICK b \in I : \E i \in Slots :
           /\ disk[b].type = "dir"
           /\ Entries(disk, b)[i] # NULL
           /\ r = <<disk[b].ptrs[0], i, Entries(disk, b)[i].inode>>
    BY <1>6
  <2>2. PICK i \in Slots :
           /\ disk[b].type = "dir"
           /\ Entries(disk, b)[i] # NULL
           /\ r = <<disk[b].ptrs[0], i, Entries(disk, b)[i].inode>>
    BY <2>1
  <2>3. PICK c \in I : \E j \in Slots :
           /\ disk[c].type = "dir"
           /\ Entries(disk, c)[j] # NULL
           /\ s = <<disk[c].ptrs[0], j, Entries(disk, c)[j].inode>>
    BY <1>6
  <2>4. PICK j \in Slots :
           /\ disk[c].type = "dir"
           /\ Entries(disk, c)[j] # NULL
           /\ s = <<disk[c].ptrs[0], j, Entries(disk, c)[j].inode>>
    BY <2>3
  <2>5. Entries(disk, b)[i].inode = Entries(disk, c)[j].inode
    BY <2>2, <2>4
  <2>6. b = c /\ i = j
    BY <2>2, <2>4, <2>5 DEF Shape, NoSharedInode
  <2> QED
    BY <2>2, <2>4, <2>6
<1> HIDE DEF Data, Entry
<1> QED
  BY <1>1, <1>2, <1>3, <1>4, <1>5, <1>6

LEMMA ReferencesOf ==
    ASSUME NEW b \in Inodes, disk[b].kind = "inode", disk[b].type \in {"file", "dir"}
    PROVE  /\ \A k \in Pointers(disk[b]) : <<b, k, disk[b].ptrs[k]>> \in References
           /\ disk[b].type = "dir" => \A i \in Slots : Entries(disk, b)[i] # NULL =>
                 <<disk[b].ptrs[0], i, Entries(disk, b)[i].inode>> \in References
<1> DEFINE R == IF disk[b].type = "file"
                THEN {<<b, k, disk[b].ptrs[k]>> : k \in 0..(DIV_ROUND_UP(disk[b].size) - 1)}
                ELSE {<<b, 0, DataOf(b)>>}
                     \cup {<<DataOf(b), i, SlotsOf(b)[i].inode>> :
                              i \in {j \in Slots : SlotsOf(b)[j] # NULL}}
<1>1. R \subseteq References
  BY Zenon DEF References
<1>2. \A k \in Pointers(disk[b]) : <<b, k, disk[b].ptrs[k]>> \in R
  <2>1. CASE disk[b].type = "file"
    BY <2>1 DEF Pointers
  <2>2. CASE disk[b].type = "dir"
    BY <2>2 DEF Pointers, DataOf
  <2> QED
    BY <2>1, <2>2
<1>3. disk[b].type = "dir" => \A i \in Slots : Entries(disk, b)[i] # NULL =>
                 <<disk[b].ptrs[0], i, Entries(disk, b)[i].inode>> \in R
  BY DEF Entries, SlotsOf, DataOf
<1> HIDE DEF R
<1> QED
  BY <1>1, <1>2, <1>3

LEMMA OwnedOnceHolds == IInv => OwnedOnce
<1> SUFFICES ASSUME IInv, aborted # "reused"
             PROVE  /\ \A b \in Inodes : disk[b].kind = "inode"
                    /\ \A r \in References : r[3] \in InUse \ {0, 1}
                    /\ \A r, s \in References : r[3] = s[3] => r = s
                    /\ ~up /\ returned.code = -1 => loose \subseteq Victim
  BY DEF OwnedOnce, InUse
<1>1. PICK I \in SUBSET Blocks : Shape(I, disk) /\ Marked(I, InUse, disk)
  BY DEF IInv, Held
<1>2. \A b \in Inodes : disk[b].kind = "inode"
  BY <1>1, InodesFacts DEF Shape, Inodal, Inode
<1>3. ASSUME NEW r \in References PROVE r[3] \in InUse \ {0, 1}
  <2>1. CASE r = <<0, 0, ROOT>>
    <3>1. ROOT \in I
      BY <1>1 DEF Shape, Inodal
    <3> QED
      BY <1>1, <2>1, <3>1 DEF Marked, ROOT
  <2>2. CASE \E b \in I : \E k \in Pointers(disk[b]) : r = <<b, k, disk[b].ptrs[k]>>
    BY <1>1, <2>2 DEF Shape, Inodal, Marked
  <2>3. CASE \E b \in I : \E i \in Slots :
                 /\ disk[b].type = "dir"
                 /\ Entries(disk, b)[i] # NULL
                 /\ r = <<disk[b].ptrs[0], i, Entries(disk, b)[i].inode>>
    <3>1. r[3] \in I
      BY <1>1, <2>3 DEF Shape, Closed
    <3> QED
      BY <1>1, <3>1 DEF Shape, Inodal, Marked
  <2> QED
    BY <1>1, <2>1, <2>2, <2>3, ReferenceCases
<1>4. \A r, s \in References : r[3] = s[3] => r = s
  BY <1>1, OneReference
<1>5. ASSUME ~up, returned.code = -1, NEW x \in loose PROVE x \in Victim
  <2>1. PICK v : v = path2inum(returned.call.path)
    OBVIOUS
  <2>2. /\ returned.call.path \in Paths /\ v \in Blocks
        /\ x = v \/ \E k \in Pointers(disk[v]) : x = disk[v].ptrs[k]
    BY <1>5, <2>1 DEF IInv, Torn, Own, path2inum
  <2>3. v \in Inodes
    BY <2>1, <2>2 DEF Inodes
  <2>4. disk[v].kind = "inode" /\ disk[v].type \in {"file", "dir"}
    BY <1>1, <2>3, InodesFacts DEF Shape, Inodal, Inode
  <2>5. Victim = {v} \cup {r[3] : r \in {q \in References : q[1] = v}}
    BY <2>1, Zenon DEF Victim
  <2>6. CASE x = v
    BY <2>5, <2>6
  <2>7. CASE \E k \in Pointers(disk[v]) : x = disk[v].ptrs[k]
    <3>1. PICK k \in Pointers(disk[v]) : x = disk[v].ptrs[k]
      BY <2>7
    <3>2. <<v, k, disk[v].ptrs[k]>> \in References
      BY <2>3, <2>4, ReferencesOf
    <3> QED
      BY <2>5, <3>1, <3>2
  <2> QED
    BY <2>2, <2>6, <2>7
<1> QED
  BY <1>2, <1>3, <1>4, <1>5

LEMMA NothingLeakedHolds == IInv => NothingLeaked
<1> SUFFICES ASSUME IInv, aborted = "no"
             PROVE  InUse = {0, 1} \cup {r[3] : r \in References}
  BY DEF NothingLeaked, IInv, InUse
<1>1. PICK I \in SUBSET Blocks :
          /\ Shape(I, disk) /\ Marked(I, InUse, disk)
          /\ Exact(I, InUse, disk) /\ Reached(I, disk)
  BY DEF IInv, Held
<1>2. Inodes = I
  <2>1. ASSUME NEW b \in I PROVE b \in Inodes
    <3>1. PICK p \in Paths : Walk(disk, p) = b
      BY <1>1 DEF Reached
    <3> QED
      BY <3>1 DEF Inodes, path2inum
  <2> QED
    BY <1>1, <2>1, InodesFacts
<1>3. \A b \in I : disk[b].kind = "inode" /\ disk[b].type \in {"file", "dir"}
  BY <1>1 DEF Shape, Inodal, Inode
<1>4. ASSUME NEW r \in References PROVE r[3] \in InUse
  <2>1. OwnedOnce
    BY OwnedOnceHolds
  <2> QED
    BY <2>1 DEF OwnedOnce, InUse
<1>5. ASSUME NEW b \in I PROVE \E r \in References : r[3] = b
  <2>1. PICK p \in Paths : Walk(disk, p) = b
    BY <1>1 DEF Reached
  <2>2. CASE p = <<>>
    <3>1. b = ROOT
      BY <2>1, <2>2, WalkRoot
    <3>2. <<0, 0, ROOT>> \in References
      BY Zenon DEF References
    <3> QED
      BY <3>1, <3>2
  <2>3. CASE p # <<>>
    <3> DEFINE d == Walk(disk, Parent(p))
               i == find_dirent(Entries(disk, d), Name(p))
    <3>1. d \in I /\ b = Lookup(disk, d, Name(p))
      BY <1>1, <2>1, <2>3, WalkInto
    <3>2. disk[d].type = "dir" /\ i # 0 /\ b = Entries(disk, d)[i].inode
      BY <1>1, <3>1, LookupFacts
    <3>3. i \in Slots /\ Entries(disk, d)[i] # NULL
      BY <3>2, FindFacts
    <3> HIDE DEF d, i
    <3>4. <<disk[d].ptrs[0], i, Entries(disk, d)[i].inode>> \in References
      BY <1>2, <1>3, <3>1, <3>2, <3>3, ReferencesOf
    <3> QED
      BY <3>2, <3>4
  <2> QED
    BY <2>2, <2>3
<1>6. ASSUME NEW x \in InUse, x \notin {0, 1} \cup I PROVE \E r \in References : r[3] = x
  <2>1. PICK b \in I : \E k \in Pointers(disk[b]) : x = disk[b].ptrs[k]
    BY <1>1, <1>6 DEF Exact
  <2>2. PICK k \in Pointers(disk[b]) : x = disk[b].ptrs[k]
    BY <2>1
  <2>3. <<b, k, disk[b].ptrs[k]>> \in References
    BY <1>2, <1>3, ReferencesOf
  <2> QED
    BY <2>2, <2>3
<1>7. {0, 1} \subseteq InUse
  BY <1>1 DEF Exact
<1> QED
  BY <1>4, <1>5, <1>6, <1>7

-----------------------------------------------------------------------------
(* The image after some writes. *)

LEMMA BlockWritten ==
    ASSUME NEW image, NEW writes, NEW n \in Nat, NEW b \in Blocks,
           NEW W, W = WritesTo(b, {"put"}, writes, n)
    PROVE  /\ W = {} => block_write(image, writes, n)[b] = image[b]
           /\ W # {} => /\ Max(W) \in W /\ \A i \in W : i =< Max(W)
                        /\ block_write(image, writes, n)[b] = writes[Max(W)].block
<1>1. W \subseteq 0..n
  BY DEF WritesTo
<1>2. W # {} => Max(W) \in W /\ \A i \in W : Max(W) >= i
  BY <1>1, MaxIn
<1>3. block_write(image, writes, n)[b] = IF W = {} THEN image[b] ELSE writes[Max(W)].block
  BY Zenon DEF block_write
<1>4. \A i \in W : i \in Nat
  BY <1>1
<1>5. W # {} => \A i \in W : i =< Max(W)
  BY <1>2, <1>4
<1> QED
  BY <1>2, <1>3, <1>5

LEMMA BlockLeft ==
    ASSUME NEW image, NEW writes, NEW n \in Nat, NEW b \in Blocks,
           \A i \in 1..n : writes[i].op = "put" => writes[i].blk # b
    PROVE  block_write(image, writes, n)[b] = image[b]
<1>1. WritesTo(b, {"put"}, writes, n) = {}
  BY DEF WritesTo
<1> QED
  BY <1>1, BlockWritten

LEMMA BlockPut ==
    ASSUME NEW image, NEW writes, NEW n \in Nat, NEW b \in Blocks, NEW k \in 1..n,
           writes[k].op = "put", writes[k].blk = b,
           \A i \in (k+1)..n : writes[i].op = "put" => writes[i].blk # b
    PROVE  block_write(image, writes, n)[b] = writes[k].block
<1> DEFINE W == WritesTo(b, {"put"}, writes, n)
<1>1. k \in W
  BY DEF WritesTo
<1>2. Max(W) \in W /\ k =< Max(W) /\ block_write(image, writes, n)[b] = writes[Max(W)].block
  BY <1>1, BlockWritten
<1>3. Max(W) \in 1..n /\ writes[Max(W)].op = "put" /\ writes[Max(W)].blk = b
  BY <1>2 DEF WritesTo
<1>4. Max(W) \notin (k+1)..n
  BY <1>3
<1>5. Max(W) = k
  BY <1>2, <1>3, <1>4
<1> QED
  BY <1>2, <1>5

LEMMA MarkWritten ==
    ASSUME NEW map, NEW writes, NEW n \in Nat, NEW b \in Blocks,
           NEW W, W = WritesTo(b, {"set", "clear"}, writes, n)
    PROVE  /\ W = {} => (b \in MarkedAfter(map, writes, n) <=> b \in map)
           /\ W # {} => /\ Max(W) \in W
                        /\ b \in MarkedAfter(map, writes, n) <=> writes[Max(W)].op = "set"
<1>1. W \subseteq 0..n
  BY DEF WritesTo
<1>2. W # {} => Max(W) \in W
  BY <1>1, MaxIn
<1>3. b \in MarkedAfter(map, writes, n) <=>
          IF W = {} THEN b \in map ELSE writes[Max(W)].op = "set"
  BY DEF MarkedAfter
<1> QED
  BY <1>2, <1>3

\* No handler marks a block and clears it in the same call, but for mkdir's
\* inode: the last write of a bit is then its only kind.
LEMMA MarkLeft ==
    ASSUME NEW map, NEW writes, NEW n \in Nat, NEW b \in Blocks,
           \A i \in 1..n : writes[i].op \in {"set", "clear"} => writes[i].blk # b
    PROVE  b \in MarkedAfter(map, writes, n) <=> b \in map
<1>1. WritesTo(b, {"set", "clear"}, writes, n) = {}
  BY DEF WritesTo
<1> QED
  BY <1>1, MarkWritten

LEMMA MarkSet ==
    ASSUME NEW map, NEW writes, NEW n \in Nat, NEW b \in Blocks,
           \A i \in 1..n : writes[i].op = "clear" => writes[i].blk # b
    PROVE  b \in MarkedAfter(map, writes, n) <=>
              b \in map \/ \E i \in 1..n : writes[i].op = "set" /\ writes[i].blk = b
<1>0. PICK W : W = WritesTo(b, {"set", "clear"}, writes, n)
  OBVIOUS
<1>1. \A i \in W : i \in 1..n /\ writes[i].op = "set" /\ writes[i].blk = b
  BY <1>0 DEF WritesTo
<1>2. \A i \in 1..n : writes[i].op = "set" /\ writes[i].blk = b => i \in W
  BY <1>0 DEF WritesTo
<1>3. /\ W = {} => (b \in MarkedAfter(map, writes, n) <=> b \in map)
      /\ W # {} => /\ Max(W) \in W
                   /\ b \in MarkedAfter(map, writes, n) <=> writes[Max(W)].op = "set"
  BY <1>0, MarkWritten
<1> QED
  BY <1>1, <1>2, <1>3

LEMMA MarkClear ==
    ASSUME NEW map, NEW writes, NEW n \in Nat, NEW b \in Blocks,
           \A i \in 1..n : writes[i].op = "set" => writes[i].blk # b
    PROVE  b \in MarkedAfter(map, writes, n) <=>
              b \in map /\ \A i \in 1..n : writes[i].op = "clear" => writes[i].blk # b
<1>0. PICK W : W = WritesTo(b, {"set", "clear"}, writes, n)
  OBVIOUS
<1>1. \A i \in W : i \in 1..n /\ writes[i].op = "clear" /\ writes[i].blk = b
  BY <1>0 DEF WritesTo
<1>2. \A i \in 1..n : writes[i].op = "clear" /\ writes[i].blk = b => i \in W
  BY <1>0 DEF WritesTo
<1>3. /\ W = {} => (b \in MarkedAfter(map, writes, n) <=> b \in map)
      /\ W # {} => /\ Max(W) \in W
                   /\ b \in MarkedAfter(map, writes, n) <=> writes[Max(W)].op = "set"
  BY <1>0, MarkWritten
<1> QED
  BY <1>1, <1>2, <1>3

\* What the writes of a handler make of the blocks in use.
LEMMA InUseAfter ==
    ASSUME TypeOK, NEW writes, NEW n \in Nat, Performed(writes, n),
           \/ \E i \in 1..n : writes[i].op # "clear"
           \/ \A i \in 1..n : writes[i].op # "clear"
    PROVE  InUse' = MarkedAfter(InUse, writes, n) /\ loose' \subseteq loose
<1>1. loose' = loose \ Cleared(writes, n)
  <2>1. CASE \E i \in 1..n : writes[i].op # "clear"
    BY <2>1, Zenon DEF Performed
  <2>2. CASE \A i \in 1..n : writes[i].op # "clear"
    <3>1. Cleared(writes, n) = {}
      BY <2>2 DEF Cleared
    <3> QED
      BY <3>1 DEF Performed
  <2> QED
    BY <2>1, <2>2
<1>2. \A x : x \in Cleared(writes, n) <=> \E i \in 1..n : writes[i].op = "clear" /\ writes[i].blk = x
  BY DEF Cleared
<1>3. bitmap' = MarkedAfter(bitmap, writes, n)
  BY DEF Performed
<1>4. bitmap' \subseteq Blocks /\ MarkedAfter(InUse, writes, n) \subseteq Blocks /\ loose \subseteq Blocks
  BY <1>3 DEF MarkedAfter, TypeOK
<1>5. ASSUME NEW b \in Blocks PROVE b \in InUse' <=> b \in MarkedAfter(InUse, writes, n)
  <2>0. PICK W : W = WritesTo(b, {"set", "clear"}, writes, n)
    OBVIOUS
  <2>1. \A i \in W : i \in 1..n /\ writes[i].op \in {"set", "clear"} /\ writes[i].blk = b
    BY <2>0 DEF WritesTo
  <2>2. \A i \in 1..n : writes[i].op \in {"set", "clear"} /\ writes[i].blk = b => i \in W
    BY <2>0 DEF WritesTo
  <2>3. /\ W = {} => (b \in MarkedAfter(bitmap, writes, n) <=> b \in bitmap)
        /\ W # {} => /\ Max(W) \in W
                     /\ b \in MarkedAfter(bitmap, writes, n) <=> writes[Max(W)].op = "set"
    BY <2>0, MarkWritten
  <2>4. /\ W = {} => (b \in MarkedAfter(InUse, writes, n) <=> b \in InUse)
        /\ W # {} => /\ Max(W) \in W
                     /\ b \in MarkedAfter(InUse, writes, n) <=> writes[Max(W)].op = "set"
    BY <2>0, MarkWritten
  <2>5. b \in InUse' <=> b \in MarkedAfter(bitmap, writes, n) \/ (b \in loose /\ b \notin Cleared(writes, n))
    BY <1>1, <1>3 DEF InUse
  <2>6. CASE W = {}
    <3>1. b \notin Cleared(writes, n)
      BY <1>2, <2>2, <2>6
    <3> QED
      BY <2>3, <2>4, <2>5, <2>6, <3>1 DEF InUse
  <2>7. CASE W # {} /\ writes[Max(W)].op = "set"
    BY <2>3, <2>4, <2>5, <2>7
  <2>8. CASE W # {} /\ writes[Max(W)].op # "set"
    <3>1. b \in Cleared(writes, n)
      BY <1>2, <2>1, <2>3, <2>8
    <3> QED
      BY <2>3, <2>4, <2>5, <2>8, <3>1
  <2> QED
    BY <2>6, <2>7, <2>8
<1>6. InUse' \subseteq Blocks
  BY <1>1, <1>4 DEF InUse
<1> QED
  BY <1>1, <1>4, <1>5, <1>6

\* Blocks that are only freed stay in use.
LEMMA InUseCleared ==
    ASSUME TypeOK, NEW writes, NEW n \in Nat, Performed(writes, n),
           \A i \in 1..n : writes[i].op = "clear"
    PROVE  /\ InUse \subseteq InUse'
           /\ \A x \in loose' : x \in loose \/ \E i \in 1..n : writes[i].blk = x
<1>1. loose' = loose \cup Cleared(writes, n)
  BY Zenon DEF Performed
<1>2. \A x : x \in Cleared(writes, n) <=> \E i \in 1..n : writes[i].op = "clear" /\ writes[i].blk = x
  BY DEF Cleared
<1>3. bitmap' = MarkedAfter(bitmap, writes, n)
  BY DEF Performed
<1>4. ASSUME NEW b \in bitmap PROVE b \in InUse'
  <2>1. b \in Blocks
    BY DEF TypeOK
  <2>2. b \in bitmap' <=> \A i \in 1..n : writes[i].op = "clear" => writes[i].blk # b
    BY <1>3, <2>1, MarkClear
  <2> QED
    BY <1>1, <1>2, <2>2 DEF InUse
<1> QED
  BY <1>1, <1>2, <1>4 DEF InUse

LEMMA WriteTypes ==
    ASSUME NEW map, NEW image, NEW writes, NEW n \in Nat, image \in [Blocks -> Block],
           \A i \in 1..n : writes[i].op = "put" => writes[i].block \in Block
    PROVE  /\ MarkedAfter(map, writes, n) \subseteq Blocks
           /\ block_write(image, writes, n) \in [Blocks -> Block]
<1>1. MarkedAfter(map, writes, n) \subseteq Blocks
  BY DEF MarkedAfter
<1>2. ASSUME NEW b \in Blocks PROVE block_write(image, writes, n)[b] \in Block
  <2>0. PICK W : W = WritesTo(b, {"put"}, writes, n)
    OBVIOUS
  <2>1. /\ W = {} => block_write(image, writes, n)[b] = image[b]
        /\ W # {} => /\ Max(W) \in W
                     /\ block_write(image, writes, n)[b] = writes[Max(W)].block
    BY <2>0, BlockWritten
  <2>2. \A i \in W : i \in 1..n /\ writes[i].op = "put"
    BY <2>0 DEF WritesTo
  <2>3. image[b] \in Block
    OBVIOUS
  <2> QED
    BY <2>1, <2>2, <2>3
<1>3. block_write(image, writes, n) = [b \in Blocks |-> block_write(image, writes, n)[b]]
  BY Zenon DEF block_write
<1> QED
  BY <1>1, <1>2, <1>3

-----------------------------------------------------------------------------
(* The changes handlers make to a tree. *)

LEMMA PointersFacts ==
    ASSUME NEW in \in Inode
    PROVE  /\ Pointers(in) \subseteq Ptrs
           /\ in.type = "dir" => Pointers(in) = {0}
           /\ in.type \in {"file", "dir"}
           /\ in.type = "file" /\ in.size = 0 => Pointers(in) = {}
<1>1. in.type \in {"file", "dir"} /\ in.size \in 0..MAX_FILE
  BY DEF Inode
<1>2. FS_BLOCK_SIZE \in Nat \ {0} /\ NUM_PTRS_INODE \in Nat \ {0}
  BY SizesAssumption
<1>3. MAX_FILE \in Nat
  BY <1>2 DEF MAX_FILE
<1>4. in.size \in Nat /\ in.size =< MAX_FILE
  BY <1>1, <1>3
<1>5. /\ DIV_ROUND_UP(in.size) \in Nat
      /\ \A k \in Nat : k < DIV_ROUND_UP(in.size) <=> k * FS_BLOCK_SIZE < in.size
  BY <1>4, RoundUp
<1>6. ASSUME NEW k \in 0..(DIV_ROUND_UP(in.size) - 1) PROVE k \in Ptrs
  <2>1. k \in Nat /\ k * FS_BLOCK_SIZE < in.size
    BY <1>5
  <2>2. k * FS_BLOCK_SIZE < FS_BLOCK_SIZE * NUM_PTRS_INODE
    BY <2>1, <1>2, <1>3, <1>4 DEF MAX_FILE
  <2>3. k < NUM_PTRS_INODE
    <3> SUFFICES ASSUME k >= NUM_PTRS_INODE PROVE FALSE
      BY <1>2, <2>1
    <3>1. FS_BLOCK_SIZE * NUM_PTRS_INODE =< FS_BLOCK_SIZE * k
      BY <1>2, <2>1
    <3>2. FS_BLOCK_SIZE * k = k * FS_BLOCK_SIZE
      BY <1>2, <2>1
    <3> QED
      BY <2>1, <2>2, <3>1, <3>2, <1>2
  <2> QED
    BY <2>1, <2>3, <1>2 DEF Ptrs
<1>7. in.size = 0 => DIV_ROUND_UP(in.size) = 0
  <2>1. in.size = 0 => ~ (0 < DIV_ROUND_UP(in.size))
    BY <1>2, <1>5
  <2> QED
    BY <1>5, <2>1
<1>8. 0 \in Ptrs
  BY <1>2 DEF Ptrs
<1> QED
  BY <1>1, <1>6, <1>7, <1>8 DEF Pointers

\* Pointers and entries stay: the bytes of a file, a mode, a name may change.
LEMMA Kept ==
    ASSUME NEW I, NEW image, Shape(I, image), NEW image2,
           \A b \in I : /\ image2[b] \in Inode
                        /\ image2[b].type = image[b].type
                        /\ image2[b].size = image[b].size
                        /\ image2[b].ptrs = image[b].ptrs,
           \A b \in I : image[b].type = "dir" =>
               /\ image2[image[b].ptrs[0]] \in DirBlock
               /\ \A i \in Slots :
                     /\ Entries(image2, b)[i] = NULL <=> Entries(image, b)[i] = NULL
                     /\ Entries(image, b)[i] # NULL =>
                           Entries(image2, b)[i].inode = Entries(image, b)[i].inode
    PROVE  /\ Shape(I, image2)
           /\ \A map : Marked(I, map, image) => Marked(I, map, image2)
           /\ \A map : Exact(I, map, image) => Exact(I, map, image2)
<1>1. \A b \in I : Pointers(image2[b]) = Pointers(image[b])
  BY DEF Pointers
<1>2. Inodal(I, image2)
  BY <1>1 DEF Shape, Inodal
<1>3. Closed(I, image2)
  BY DEF Shape, Closed
<1>4. NoSharedData(I, image2)
  BY <1>1 DEF Shape, NoSharedData
<1>5. NoSharedInode(I, image2)
  BY DEF Shape, NoSharedInode
<1>6. \A map : Marked(I, map, image) => Marked(I, map, image2)
  BY <1>1 DEF Marked
<1>7. \A map : Exact(I, map, image) => Exact(I, map, image2)
  BY <1>1 DEF Exact
<1> QED
  BY <1>2, <1>3, <1>4, <1>5, <1>6, <1>7 DEF Shape

LEMMA Untouched ==
    ASSUME NEW I, NEW image, Shape(I, image), NEW image2,
           \A b \in I : image2[b] = image[b],
           \A b \in I : image[b].type = "dir" =>
               image2[image[b].ptrs[0]] = image[image[b].ptrs[0]]
    PROVE  /\ Shape(I, image2)
           /\ \A map : Marked(I, map, image) => Marked(I, map, image2)
           /\ \A map : Exact(I, map, image) => Exact(I, map, image2)
<1>1. \A b \in I : image2[b] \in Inode
  BY DEF Shape, Inodal
<1>2. ASSUME NEW b \in I, image[b].type = "dir"
      PROVE  image2[image[b].ptrs[0]] \in DirBlock /\ Entries(image2, b) = Entries(image, b)
  BY <1>2 DEF Shape, Closed, Entries
<1> QED
  BY <1>1, <1>2, Kept

LEMMA NewEntry ==
    ASSUME NEW block \in DirBlock, NEW i \in Slots, NEW e \in Dirent \cup {NULL},
           NEW new, new = [block EXCEPT !.slots[i] = e]
    PROVE  /\ new \in DirBlock
           /\ \A j \in Slots : new.slots[j] = IF j = i THEN e ELSE block.slots[j]
  BY DEF DirBlock

\* truncate: the pointers of c go out of use.
Truncates(I, image, map, image2, map2, c) ==
    /\ image2[c] \in Inode /\ image2[c].type = "file" /\ image2[c].size = 0
    /\ \A b \in I \ {c} : image2[b] = image[b]
    /\ \A b \in I : image[b].type = "dir" =>
          image2[image[b].ptrs[0]] = image[image[b].ptrs[0]]
    /\ \A x \in Blocks : x \in map2 <=>
          x \in map /\ \A k \in Pointers(image[c]) : x # image[c].ptrs[k]

LEMMA Truncated ==
    ASSUME NEW I, NEW image, Shape(I, image), NEW image2,
           NEW map, Marked(I, map, image), NEW map2,
           NEW c \in I, image[c].type = "file", Truncates(I, image, map, image2, map2, c)
    PROVE  /\ Shape(I, image2) /\ Marked(I, map2, image2)
           /\ map2 \subseteq Blocks /\ Exact(I, map, image) => Exact(I, map2, image2)
<1> USE DEF Truncates
<1>1. Pointers(image2[c]) = {}
  BY PointersFacts
<1>2. \A b \in I : image2[b].type = image[b].type /\ (image[b].type = "dir" => image2[b] = image[b])
  OBVIOUS
<1>3. \A b \in I : image[b].type = "dir" => Entries(image2, b) = Entries(image, b)
  BY <1>2 DEF Entries
<1>4. \A b \in I : \A k \in Pointers(image2[b]) : b # c /\ k \in Pointers(image[b]) /\ image2[b].ptrs[k] = image[b].ptrs[k]
  BY <1>1
<1>5. Inodal(I, image2)
  BY <1>4 DEF Shape, Inodal
<1>6. Closed(I, image2)
  BY <1>2, <1>3 DEF Shape, Closed
<1>7. NoSharedData(I, image2)
  BY <1>4 DEF Shape, NoSharedData
<1>8. NoSharedInode(I, image2)
  BY <1>2, <1>3 DEF Shape, NoSharedInode
<1>9. ASSUME NEW b \in I PROVE b \in map2
  <2>1. b \in Blocks /\ b \in map
    BY DEF Shape, Inodal, Marked
  <2>2. \A k \in Pointers(image[c]) : b # image[c].ptrs[k]
    BY DEF Shape, Inodal
  <2> QED
    BY <2>1, <2>2
<1>10. ASSUME NEW b \in I, NEW k \in Pointers(image2[b]) PROVE image2[b].ptrs[k] \in map2
  <2>1. b # c /\ k \in Pointers(image[b]) /\ image2[b].ptrs[k] = image[b].ptrs[k]
    BY <1>4
  <2>2. image[b].ptrs[k] \in Blocks /\ image[b].ptrs[k] \in map
    BY <2>1 DEF Shape, Inodal, Marked
  <2>3. \A l \in Pointers(image[c]) : image[b].ptrs[k] # image[c].ptrs[l]
    BY <2>1 DEF Shape, NoSharedData
  <2> QED
    BY <2>1, <2>2, <2>3
<1>11. ASSUME map2 \subseteq Blocks, Exact(I, map, image) PROVE Exact(I, map2, image2)
  <2>1. {0, 1} \subseteq map2
    <3>1. {0, 1} \subseteq map /\ {0, 1} \subseteq Blocks
      BY <1>11, SizesAssumption DEF Exact, Blocks
    <3>2. \A k \in Pointers(image[c]) : image[c].ptrs[k] \notin {0, 1}
      BY DEF Shape, Inodal
    <3> QED
      BY <3>1, <3>2
  <2>2. ASSUME NEW x \in map2 \ ({0, 1} \cup I)
        PROVE  \E b \in I : \E k \in Pointers(image2[b]) : x = image2[b].ptrs[k]
    <3>1. x \in map /\ \A k \in Pointers(image[c]) : x # image[c].ptrs[k]
      BY <1>11
    <3>2. PICK b \in I : \E k \in Pointers(image[b]) : x = image[b].ptrs[k]
      BY <1>11, <3>1 DEF Exact
    <3>3. b # c
      BY <3>1, <3>2
    <3> QED
      BY <3>2, <3>3
  <2> QED
    BY <2>1, <2>2 DEF Exact
<1> QED
  BY <1>5, <1>6, <1>7, <1>8, <1>9, <1>10, <1>11 DEF Shape, Marked

\* write: c gets further pointers, to blocks that were free.
Grows(I, image, map, image2, map2, c) ==
    LET fresh == Pointers(image2[c]) \ Pointers(image[c]) IN
    /\ image2[c] \in Inode /\ image2[c].type = "file"
    /\ Pointers(image[c]) \subseteq Pointers(image2[c])
    /\ \A k \in Pointers(image[c]) : image2[c].ptrs[k] = image[c].ptrs[k]
    /\ \A k \in fresh : image2[c].ptrs[k] \in Blocks \ ({0, 1} \cup map)
    /\ \A k, l \in fresh : image2[c].ptrs[k] = image2[c].ptrs[l] => k = l
    /\ \A b \in I \ {c} : image2[b] = image[b]
    /\ \A b \in I : image[b].type = "dir" =>
          image2[image[b].ptrs[0]] = image[image[b].ptrs[0]]
    /\ \A x \in Blocks : x \in map2 <=> x \in map \/ \E k \in fresh : x = image2[c].ptrs[k]

LEMMA Grown ==
    ASSUME NEW I, NEW image, Shape(I, image), NEW image2,
           NEW map, Marked(I, map, image), NEW map2,
           NEW c \in I, image[c].type = "file", Grows(I, image, map, image2, map2, c)
    PROVE  /\ Shape(I, image2) /\ Marked(I, map2, image2)
           /\ map2 \subseteq Blocks /\ Exact(I, map, image) => Exact(I, map2, image2)
<1> USE DEF Grows
<1> DEFINE Fresh == Pointers(image2[c]) \ Pointers(image[c])
           Old(b, k) == k \in Pointers(image[b]) /\ image2[b].ptrs[k] = image[b].ptrs[k]
           New(b, k) == b = c /\ k \in Fresh /\ image2[b].ptrs[k] \in Blocks \ ({0, 1} \cup map)
<1>1. \A b \in I : image2[b].type = image[b].type /\ (image[b].type = "dir" => image2[b] = image[b])
  OBVIOUS
<1>2. \A b \in I : image[b].type = "dir" => Entries(image2, b) = Entries(image, b)
  BY <1>1 DEF Entries
<1>3. ASSUME NEW b \in I, NEW k \in Pointers(image2[b]) PROVE Old(b, k) \/ New(b, k)
  <2>1. CASE b = c
    BY <2>1
  <2>2. CASE b # c
    BY <2>2
  <2> QED
    BY <2>1, <2>2
<1>4. ASSUME NEW b \in I, NEW k, Old(b, k)
      PROVE  image2[b].ptrs[k] \in map /\ image2[b].ptrs[k] \in Blocks \ ({0, 1} \cup I)
  BY <1>4 DEF Shape, Inodal, Marked
<1>5. ASSUME NEW b \in I, NEW k, New(b, k)
      PROVE  image2[b].ptrs[k] \notin map /\ image2[b].ptrs[k] \in Blocks \ ({0, 1} \cup I)
  BY <1>5 DEF Marked
<1>6. Inodal(I, image2)
  <2>1. \A b \in I : image2[b] \in Inode
    BY DEF Shape, Inodal
  <2>2. \A b \in I : \A k \in Pointers(image2[b]) : image2[b].ptrs[k] \in Blocks \ ({0, 1} \cup I)
    BY <1>3, <1>4, <1>5
  <2> QED
    BY <2>1, <2>2 DEF Shape, Inodal
<1>7. Closed(I, image2)
  BY <1>1, <1>2 DEF Shape, Closed
<1>8. NoSharedData(I, image2)
  <2> SUFFICES ASSUME NEW a \in I, NEW b \in I,
                      NEW k \in Pointers(image2[a]), NEW l \in Pointers(image2[b]),
                      image2[a].ptrs[k] = image2[b].ptrs[l]
               PROVE  a = b /\ k = l
    BY DEF NoSharedData
  <2>1. CASE Old(a, k) /\ Old(b, l)
    <3>1. /\ k \in Pointers(image[a]) /\ l \in Pointers(image[b])
          /\ image[a].ptrs[k] = image[b].ptrs[l]
      BY <2>1
    <3>2. NoSharedData(I, image)
      BY DEF Shape
    <3> QED
      BY ONLY <3>1, <3>2, a \in I, b \in I DEF NoSharedData
  <2>2. CASE New(a, k) /\ New(b, l)
    BY <2>2
  <2>3. ~ (Old(a, k) /\ New(b, l)) /\ ~ (New(a, k) /\ Old(b, l))
    BY <1>4, <1>5
  <2> HIDE DEF Old, New
  <2> QED
    BY <1>3, <2>1, <2>2, <2>3
<1>9. NoSharedInode(I, image2)
  BY <1>1, <1>2 DEF Shape, NoSharedInode
<1>10. Marked(I, map2, image2)
  <2>1. \A b \in I : b \in map2
    BY DEF Shape, Inodal, Marked
  <2>2. ASSUME NEW b \in I, NEW k \in Pointers(image2[b]) PROVE image2[b].ptrs[k] \in map2
    <3>1. image2[b].ptrs[k] \in Blocks
      BY <1>3, <1>4, <1>5
    <3>2. CASE Old(b, k)
      BY <3>1, <3>2, <1>4
    <3>3. CASE New(b, k)
      BY <3>1, <3>3
    <3> QED
      BY <1>3, <3>2, <3>3
  <2> QED
    BY <2>1, <2>2 DEF Marked
<1>11. ASSUME map2 \subseteq Blocks, Exact(I, map, image) PROVE Exact(I, map2, image2)
  <2>1. {0, 1} \subseteq map2
    BY <1>11, SizesAssumption DEF Exact, Blocks
  <2>2. ASSUME NEW x \in map2 \ ({0, 1} \cup I)
        PROVE  \E b \in I : \E k \in Pointers(image2[b]) : x = image2[b].ptrs[k]
    <3>1. CASE x \in map
      <4>1. PICK b \in I : \E k \in Pointers(image[b]) : x = image[b].ptrs[k]
        BY <1>11, <3>1 DEF Exact
      <4>2. CASE b = c
        BY <4>1, <4>2
      <4>3. CASE b # c
        BY <4>1, <4>3
      <4> QED
        BY <4>2, <4>3
    <3>2. CASE x \notin map
      BY <3>2, <1>11
    <3> QED
      BY <3>1, <3>2
  <2> QED
    BY <2>1, <2>2 DEF Exact
<1> QED
  BY <1>6, <1>7, <1>8, <1>9, <1>10, <1>11 DEF Shape

\* unlink and rmdir: the entry i of d is cleared, and what it led to, a file or
\* an empty directory, leaves the tree.
Removes(I, image, map, image2, map2, d, i, c) ==
    /\ \A b \in I \ {c} : image2[b] = image[b]
    /\ \A b \in I \ {c, d} : image[b].type = "dir" =>
          image2[image[b].ptrs[0]] = image[image[b].ptrs[0]]
    /\ image2[image[d].ptrs[0]] \in DirBlock
    /\ \A j \in Slots : image2[image[d].ptrs[0]].slots[j] =
          IF j = i THEN NULL ELSE Entries(image, d)[j]
    /\ \A x \in Blocks : x \in map2 <=>
          x \in map /\ x # c /\ \A k \in Pointers(image[c]) : x # image[c].ptrs[k]

Removal(I, image, map, image2, map2, d, i, c) ==
    /\ Shape(I, image) /\ Marked(I, map, image) /\ d \in I /\ image[d].type = "dir"
    /\ i \in Slots /\ Entries(image, d)[i] # NULL /\ c = Entries(image, d)[i].inode
    /\ image[c].type = "dir" => \A j \in Slots : Entries(image, c)[j] = NULL
    /\ Removes(I, image, map, image2, map2, d, i, c) /\ map2 \subseteq Blocks
LEMMA RemovedTree ==
    ASSUME NEW I, NEW image, NEW image2, NEW map, NEW map2, NEW d, NEW i, NEW c,
           Removal(I, image, map, image2, map2, d, i, c), NEW J, J = I \ {c}
    PROVE  /\ c # d /\ Shape(J, image2) /\ Marked(J, map2, image2)
           /\ Exact(I, map, image) => Exact(J, map2, image2)
<1>0. /\ Shape(I, image) /\ Marked(I, map, image) /\ d \in I /\ image[d].type = "dir"
      /\ i \in Slots /\ Entries(image, d)[i] # NULL /\ c = Entries(image, d)[i].inode
      /\ image[c].type = "dir" => \A j \in Slots : Entries(image, c)[j] = NULL
      /\ Removes(I, image, map, image2, map2, d, i, c) /\ map2 \subseteq Blocks
  BY DEF Removal
<1> USE <1>0 DEF Removes
<1>1. c \in I \ {ROOT, d}
  BY DEF Shape, Closed
<1>2. \A j \in Slots : Entries(image2, d)[j] = IF j = i THEN NULL ELSE Entries(image, d)[j]
  <2>1. image2[d] = image[d]
    BY <1>1
  <2>2. Entries(image2, d) = image2[image[d].ptrs[0]].slots
    BY ONLY <2>1 DEF Entries
  <2> QED
    BY <2>2
<1>3. \A b \in J : image[b].type = "dir" => image2[image[b].ptrs[0]] \in DirBlock
  BY <1>2 DEF Shape, Closed
<1>4. ASSUME NEW b \in J, image[b].type = "dir", NEW j \in Slots, Entries(image2, b)[j] # NULL
      PROVE  /\ Entries(image, b)[j] # NULL
             /\ Entries(image2, b)[j] = Entries(image, b)[j]
             /\ Entries(image, b)[j].inode \in J \ {ROOT}
  <2>1. CASE b = d
    <3>1. j # i
      BY <1>2, <1>4, <2>1
    <3>2. Entries(image, b)[j] # NULL /\ Entries(image2, b)[j] = Entries(image, b)[j]
      BY <1>2, <1>4, <2>1, <3>1
    <3>3. Entries(image, b)[j].inode \in I \ {ROOT}
      BY <3>2, <1>4 DEF Shape, Closed
    <3>4. Entries(image, b)[j].inode # c
      BY <2>1, <3>1, <3>2 DEF Shape, NoSharedInode
    <3> QED
      BY <3>2, <3>3, <3>4
  <2>2. CASE b # d
    <3>1. Entries(image2, b) = Entries(image, b)
      <4>1. image2[b] = image[b] /\ image2[image[b].ptrs[0]] = image[image[b].ptrs[0]]
        BY <1>4, <2>2
      <4> QED
        BY ONLY <4>1 DEF Entries
    <3>2. Entries(image, b)[j].inode \in I \ {ROOT}
      BY <3>1, <1>4 DEF Shape, Closed
    <3>3. Entries(image, b)[j].inode # c
      BY <2>2, <3>1, <1>4 DEF Shape, NoSharedInode
    <3> QED
      BY <1>4, <3>1, <3>2, <3>3
  <2> QED
    BY <2>1, <2>2
<1>5. Inodal(J, image2)
  BY <1>1 DEF Shape, Inodal
<1>6. Closed(J, image2)
  <2>1. \A b \in J : image[b].type = "dir" => image[b].size # 0
    BY DEF Shape, Closed
  <2> QED
    BY <1>3, <1>4, <2>1 DEF Closed
<1>7. NoSharedData(J, image2)
  BY DEF Shape, NoSharedData
<1>8. NoSharedInode(J, image2)
  <2> SUFFICES ASSUME NEW a \in J, NEW b \in J, image2[a].type = "dir", image2[b].type = "dir",
                      NEW j \in Slots, NEW k \in Slots,
                      Entries(image2, a)[j] # NULL, Entries(image2, b)[k] # NULL,
                      Entries(image2, a)[j].inode = Entries(image2, b)[k].inode
               PROVE  a = b /\ j = k
    BY DEF NoSharedInode
  <2>1. /\ Entries(image, a)[j] # NULL /\ Entries(image, b)[k] # NULL
        /\ Entries(image, a)[j].inode = Entries(image, b)[k].inode
        /\ image[a].type = "dir" /\ image[b].type = "dir"
    BY <1>4
  <2> QED
    BY <2>1 DEF Shape, NoSharedInode
<1>9. Marked(J, map2, image2)
  <2>1. ASSUME NEW b \in J PROVE b \in map2
    BY <1>1 DEF Shape, Inodal, Marked
  <2>2. ASSUME NEW b \in J, NEW k \in Pointers(image2[b]) PROVE image2[b].ptrs[k] \in map2
    <3>1. image2[b] = image[b] /\ k \in Pointers(image[b])
      OBVIOUS
    <3>2. image[b].ptrs[k] \in Blocks \ I /\ image[b].ptrs[k] \in map
      BY <3>1 DEF Shape, Inodal, Marked
    <3>3. \A l \in Pointers(image[c]) : image[b].ptrs[k] # image[c].ptrs[l]
      BY <1>1, <3>1 DEF Shape, NoSharedData
    <3> QED
      BY <1>1, <3>1, <3>2, <3>3
  <2> QED
    BY <2>1, <2>2 DEF Marked
<1>10. ASSUME map2 \subseteq Blocks, Exact(I, map, image) PROVE Exact(J, map2, image2)
  <2>1. {0, 1} \subseteq map2
    <3>1. {0, 1} \subseteq map /\ {0, 1} \subseteq Blocks
      BY <1>10, SizesAssumption DEF Exact, Blocks
    <3>2. c \notin {0, 1} /\ \A k \in Pointers(image[c]) : image[c].ptrs[k] \notin {0, 1}
      BY <1>1 DEF Shape, Inodal
    <3> QED
      BY <3>1, <3>2
  <2>2. ASSUME NEW x \in map2 \ ({0, 1} \cup J)
        PROVE  \E b \in J : \E k \in Pointers(image2[b]) : x = image2[b].ptrs[k]
    <3>1. x \in map /\ x # c /\ \A k \in Pointers(image[c]) : x # image[c].ptrs[k]
      BY <1>10
    <3>2. PICK b \in I : \E k \in Pointers(image[b]) : x = image[b].ptrs[k]
      BY <1>10, <3>1 DEF Exact
    <3>3. b # c
      BY <3>1, <3>2
    <3> QED
      BY <3>2, <3>3
  <2> QED
    BY <2>1, <2>2 DEF Exact
<1> QED
  BY <1>1, <1>5, <1>6, <1>7, <1>8, <1>9, <1>10 DEF Shape

\* create and mkdir: the free entry i of d leads to a new inode, that of an
\* empty file or of a directory with a block of no entries.
Enters(I, image, map, image2, map2, d, i, c) ==
    /\ image2[c] \in Inode
    /\ image2[c].type = "file" => image2[c].size = 0
    /\ image2[c].type = "dir" =>
          /\ image2[c].size # 0
          /\ image2[c].ptrs[0] \in Blocks \ ({0, 1, c} \cup map)
          /\ image2[image2[c].ptrs[0]] \in DirBlock
          /\ \A j \in Slots : Entries(image2, c)[j] = NULL
    /\ \A b \in I : image2[b] = image[b]
    /\ \A b \in I \ {d} : image[b].type = "dir" =>
          image2[image[b].ptrs[0]] = image[image[b].ptrs[0]]
    /\ image2[image[d].ptrs[0]] \in DirBlock
    /\ image2[image[d].ptrs[0]].slots[i] # NULL
    /\ image2[image[d].ptrs[0]].slots[i].inode = c
    /\ \A j \in Slots \ {i} : image2[image[d].ptrs[0]].slots[j] = Entries(image, d)[j]
    /\ \A x \in Blocks : x \in map2 <=>
          x \in map \/ x = c \/ \E k \in Pointers(image2[c]) : x = image2[c].ptrs[k]

LEMMA Entered ==
    ASSUME NEW I, NEW image, Shape(I, image), NEW image2,
           NEW map, Marked(I, map, image), NEW map2,
           NEW d \in I, image[d].type = "dir", NEW i \in Slots, Entries(image, d)[i] = NULL,
           NEW c \in Blocks \ ({0, 1} \cup map), Enters(I, image, map, image2, map2, d, i, c)
    PROVE  /\ c \notin I
           /\ Shape(I \cup {c}, image2) /\ Marked(I \cup {c}, map2, image2)
           /\ map2 \subseteq Blocks /\ Exact(I, map, image) => Exact(I \cup {c}, map2, image2)
<1> USE DEF Enters
<1> DEFINE J == I \cup {c}
<1>1. c \notin I /\ I \subseteq map
  BY DEF Marked
<1>2. /\ Entries(image2, d)[i] # NULL /\ Entries(image2, d)[i].inode = c
      /\ \A j \in Slots \ {i} : Entries(image2, d)[j] = Entries(image, d)[j]
  <2>1. image2[d] = image[d]
    OBVIOUS
  <2>2. Entries(image2, d) = image2[image[d].ptrs[0]].slots
    BY ONLY <2>1 DEF Entries
  <2> QED
    BY <2>2
<1>3. ASSUME NEW b \in I, image[b].type = "dir", b # d
      PROVE  Entries(image2, b) = Entries(image, b)
  <2>1. image2[b] = image[b] /\ image2[image[b].ptrs[0]] = image[image[b].ptrs[0]]
    BY <1>3
  <2> QED
    BY ONLY <2>1 DEF Entries
<1>4. ASSUME NEW b \in J, image2[b].type = "dir", NEW j \in Slots, Entries(image2, b)[j] # NULL
      PROVE  \/ b = d /\ j = i /\ Entries(image2, b)[j].inode = c
             \/ /\ b \in I /\ image[b].type = "dir"
                /\ Entries(image, b)[j] # NULL
                /\ Entries(image2, b)[j].inode = Entries(image, b)[j].inode
                /\ Entries(image, b)[j].inode \in I \ {ROOT}
  <2>1. b \in I /\ image[b].type = "dir"
    BY <1>4
  <2>2. CASE b = d
    BY <1>2, <1>4, <2>1, <2>2 DEF Shape, Closed
  <2>3. CASE b # d
    BY <1>3, <1>4, <2>1, <2>3 DEF Shape, Closed
  <2> QED
    BY <2>2, <2>3
<1>5. ASSUME NEW b \in J, NEW k \in Pointers(image2[b])
      PROVE  \/ /\ b \in I /\ k \in Pointers(image[b]) /\ image2[b].ptrs[k] = image[b].ptrs[k]
                /\ image[b].ptrs[k] \in Blocks \ ({0, 1} \cup I) /\ image[b].ptrs[k] \in map
             \/ b = c /\ k = 0 /\ image2[b].ptrs[k] \in Blocks \ ({0, 1, c} \cup map)
  <2>1. CASE b \in I
    BY <2>1 DEF Shape, Inodal, Marked
  <2>2. CASE b = c
    BY <2>2, PointersFacts
  <2> QED
    BY <2>1, <2>2
<1>6. Inodal(J, image2)
  <2>1. \A b \in J : image2[b] \in Inode
    BY DEF Shape, Inodal
  <2>2. ASSUME NEW b \in J, NEW k \in Pointers(image2[b])
        PROVE  image2[b].ptrs[k] \in Blocks \ ({0, 1} \cup J)
    BY <1>1, <1>5
  <2>3. ROOT \in J /\ J \subseteq Blocks \ {0, 1}
    BY DEF Shape, Inodal
  <2> QED
    BY <2>1, <2>2, <2>3 DEF Inodal
<1>7. Closed(J, image2)
  <2>1. c # ROOT
    BY <1>1 DEF Shape, Inodal
  <2>2. ASSUME NEW b \in J, image2[b].type = "dir"
        PROVE  image2[b].size # 0 /\ image2[image2[b].ptrs[0]] \in DirBlock
    BY <2>2 DEF Shape, Closed
  <2>3. ASSUME NEW b \in J, image2[b].type = "dir", NEW j \in Slots, Entries(image2, b)[j] # NULL
        PROVE  Entries(image2, b)[j].inode \in J \ {ROOT}
    BY <1>4, <2>1, <2>3
  <2> QED
    BY <2>2, <2>3 DEF Closed
<1>8. NoSharedData(J, image2)
  <2> SUFFICES ASSUME NEW a \in J, NEW b \in J,
                      NEW k \in Pointers(image2[a]), NEW l \in Pointers(image2[b]),
                      image2[a].ptrs[k] = image2[b].ptrs[l]
               PROVE  a = b /\ k = l
    BY DEF NoSharedData
  <2> DEFINE Old(x, m) ==
                /\ x \in I /\ m \in Pointers(image[x]) /\ image2[x].ptrs[m] = image[x].ptrs[m]
                /\ image2[x].ptrs[m] \in map
             New(x, m) == x = c /\ m = 0 /\ image2[x].ptrs[m] \notin map
  <2>1. (Old(a, k) \/ New(a, k)) /\ (Old(b, l) \/ New(b, l))
    BY <1>5
  <2>2. CASE Old(a, k) /\ Old(b, l)
    <3>1. /\ a \in I /\ b \in I
          /\ k \in Pointers(image[a]) /\ l \in Pointers(image[b])
          /\ image[a].ptrs[k] = image[b].ptrs[l]
      BY <2>2
    <3>2. NoSharedData(I, image)
      BY DEF Shape
    <3> QED
      BY ONLY <3>1, <3>2 DEF NoSharedData
  <2>3. CASE New(a, k) /\ New(b, l)
    BY <2>3
  <2>4. ~ (Old(a, k) /\ New(b, l)) /\ ~ (New(a, k) /\ Old(b, l))
    OBVIOUS
  <2> HIDE DEF Old, New
  <2> QED
    BY <2>1, <2>2, <2>3, <2>4
<1>9. NoSharedInode(J, image2)
  <2> SUFFICES ASSUME NEW a \in J, NEW b \in J, image2[a].type = "dir", image2[b].type = "dir",
                      NEW j \in Slots, NEW k \in Slots,
                      Entries(image2, a)[j] # NULL, Entries(image2, b)[k] # NULL,
                      Entries(image2, a)[j].inode = Entries(image2, b)[k].inode
               PROVE  a = b /\ j = k
    BY DEF NoSharedInode
  <2> DEFINE Old(x, m) ==
                /\ x \in I /\ image[x].type = "dir" /\ Entries(image, x)[m] # NULL
                /\ Entries(image2, x)[m].inode = Entries(image, x)[m].inode
                /\ Entries(image2, x)[m].inode \in I
             New(x, m) == x = d /\ m = i /\ Entries(image2, x)[m].inode = c
  <2>1. (Old(a, j) \/ New(a, j)) /\ (Old(b, k) \/ New(b, k))
    BY <1>4
  <2>2. CASE Old(a, j) /\ Old(b, k)
    <3>1. /\ a \in I /\ b \in I /\ image[a].type = "dir" /\ image[b].type = "dir"
          /\ Entries(image, a)[j] # NULL /\ Entries(image, b)[k] # NULL
          /\ Entries(image, a)[j].inode = Entries(image, b)[k].inode
      BY <2>2
    <3>2. NoSharedInode(I, image)
      BY DEF Shape
    <3> QED
      BY ONLY <3>1, <3>2, j \in Slots, k \in Slots DEF NoSharedInode
  <2>3. CASE New(a, j) /\ New(b, k)
    BY <2>3
  <2>4. ~ (Old(a, j) /\ New(b, k)) /\ ~ (New(a, j) /\ Old(b, k))
    BY <1>1
  <2> HIDE DEF Old, New
  <2> QED
    BY <2>1, <2>2, <2>3, <2>4
<1>10. Marked(J, map2, image2)
  <2>1. \A b \in J : b \in map2
    BY <1>1 DEF Shape, Inodal
  <2>2. ASSUME NEW b \in J, NEW k \in Pointers(image2[b]) PROVE image2[b].ptrs[k] \in map2
    BY <1>5
  <2> QED
    BY <2>1, <2>2 DEF Marked
<1>11. ASSUME map2 \subseteq Blocks, Exact(I, map, image) PROVE Exact(J, map2, image2)
  <2>1. {0, 1} \subseteq map2
    BY <1>11, SizesAssumption DEF Exact, Blocks
  <2>2. ASSUME NEW x \in map2 \ ({0, 1} \cup J)
        PROVE  \E b \in J : \E k \in Pointers(image2[b]) : x = image2[b].ptrs[k]
    <3>1. CASE x \in map
      <4>1. PICK b \in I : \E k \in Pointers(image[b]) : x = image[b].ptrs[k]
        BY <1>11, <3>1 DEF Exact
      <4> QED
        BY <4>1
    <3>2. CASE x \notin map
      BY <3>2, <1>11
    <3> QED
      BY <3>1, <3>2
  <2> QED
    BY <2>1, <2>2 DEF Exact
<1> QED
  BY <1>1, <1>6, <1>7, <1>8, <1>9, <1>10, <1>11 DEF Shape

(* Paths after such a change. *)

LEMMA ReachedAfter ==
    ASSUME NEW I, NEW image, Shape(I, image), Reached(I, image),
           NEW J, NEW image2, Shape(J, image2), J \subseteq I,
           \A d \in I : \A name \in Names : Lookup(image, d, name) \in J =>
               d \in J /\ \E new \in Names : Lookup(image2, d, new) = Lookup(image, d, name)
    PROVE  Reached(J, image2)
<1> SUFFICES ASSUME NEW b \in J PROVE \E q \in Paths : Walk(image2, q) = b
  BY DEF Reached
<1>1. PICK p \in Paths : Walk(image, p) = b
  BY DEF Reached
<1>2. \E q \in Paths : /\ Len(q) = Len(p)
                       /\ Walk(image2, q) = Walk(image, p)
                       /\ \A i \in 1..Len(q) : q[i] \in Names
  BY <1>1, StillReached
<1> QED
  BY <1>1, <1>2

\* No directory changes.
LEMMA ReachedSame ==
    ASSUME NEW I, NEW image, Shape(I, image), Reached(I, image), NEW image2, Shape(I, image2),
           \A b \in I : (image2[b].type = image[b].type /\ image2[b].ptrs = image[b].ptrs)
                        \/ (image[b].type = "file" /\ image2[b].type = "file"),
           \A b \in I : image[b].type = "dir" =>
               image2[image[b].ptrs[0]] = image[image[b].ptrs[0]]
    PROVE  Reached(I, image2)
<1>1. ASSUME NEW d \in I, NEW name \in Names, Lookup(image, d, name) \in I
      PROVE  Lookup(image2, d, name) = Lookup(image, d, name)
  <2>1. image[d].type = "dir" /\ name \notin LongNames
    BY <1>1, LookupFacts
  <2>2. image2[d].type = "dir"
    BY <2>1
  <2>3. Entries(image2, d) = Entries(image, d)
    <3>1. image2[d].ptrs = image[d].ptrs /\ image2[image[d].ptrs[0]] = image[image[d].ptrs[0]]
      BY <2>1
    <3> QED
      BY ONLY <3>1 DEF Entries
  <2> QED
    BY <2>1, <2>2, <2>3, LookupFacts
<1> QED
  BY <1>1, ReachedAfter

\* A slot with the name is the one found again, if no lower one has got the name.
LEMMA FoundAgain ==
    ASSUME NEW slots, NEW slots2, NEW name, NEW new, NEW i \in Slots,
           i = find_dirent(slots, name),
           slots2[i] # NULL, slots2[i].name = new, slots2[i].inode = slots[i].inode,
           \A j \in Slots : slots2[j] # NULL /\ slots2[j].name = new =>
               j = i \/ (slots[j] # NULL /\ slots[j].name = name)
    PROVE  find_dirent(slots2, new) = i
<1>1. i # 0
  BY SizesAssumption DEF Slots
<1>2. \A j \in Slots : slots[j] # NULL /\ slots[j].name = name => i =< j
  BY <1>1, FindFacts
<1>3. i =< i
  BY SizesAssumption DEF Slots
<1>4. \A j \in Slots : slots2[j] # NULL /\ slots2[j].name = new => i =< j
  BY <1>2, <1>3
<1> QED
  BY <1>4, FindIs

\* The entry i of d is cleared.
LEMMA ReachedRemoved ==
    ASSUME NEW I, NEW image, Shape(I, image), Reached(I, image),
           NEW d \in I, image[d].type = "dir", NEW i \in Slots, Entries(image, d)[i] # NULL,
           NEW c \in I \ {ROOT, d}, c = Entries(image, d)[i].inode,
           image[c].type = "dir" => \A j \in Slots : Entries(image, c)[j] = NULL,
           NEW image2, Shape(I \ {c}, image2),
           \A b \in I \ {c} : image2[b] = image[b],
           \A b \in I \ {c, d} : image[b].type = "dir" =>
               image2[image[b].ptrs[0]] = image[image[b].ptrs[0]],
           \A j \in Slots : image2[image[d].ptrs[0]].slots[j] =
               IF j = i THEN NULL ELSE Entries(image, d)[j]
    PROVE  Reached(I \ {c}, image2)
<1> DEFINE J == I \ {c}
<1>1. ASSUME NEW e \in I, NEW name \in Names, Lookup(image, e, name) \in J
      PROVE  e \in J /\ Lookup(image2, e, name) = Lookup(image, e, name)
  <2>1. PICK j : j = find_dirent(Entries(image, e), name)
    OBVIOUS
  <2>2. /\ image[e].type = "dir" /\ name \notin LongNames /\ j # 0
        /\ Lookup(image, e, name) = Entries(image, e)[j].inode
    BY <1>1, <2>1, LookupFacts
  <2>3. /\ j \in Slots /\ Entries(image, e)[j] # NULL /\ Entries(image, e)[j].name = name
        /\ Entries(image, e)[j].inode # c
    BY <1>1, <2>1, <2>2, FindFacts
  <2>4. e # c
    BY <2>2, <2>3
  <2>5. image2[e] = image[e]
    BY <2>4
  <2>6. Entries(image2, e) = image2[image[e].ptrs[0]].slots
    BY ONLY <2>5 DEF Entries
  <2>7. find_dirent(Entries(image2, e), name) = j /\ Entries(image2, e)[j].inode = Entries(image, e)[j].inode
    <3>1. CASE e = d
      <4>1. j # i
        BY <2>3, <3>1
      <4>2. \A k \in Slots : Entries(image2, e)[k] = IF k = i THEN NULL ELSE Entries(image, e)[k]
        BY <2>6, <3>1
      <4>3. Entries(image2, e)[j] = Entries(image, e)[j]
        BY <2>3, <4>1, <4>2
      <4>4. \A k \in Slots : Entries(image2, e)[k] # NULL => Entries(image2, e)[k] = Entries(image, e)[k]
        BY <4>2
      <4> QED
        BY <2>1, <2>3, <4>3, <4>4, FoundAgain
    <3>2. CASE e # d
      <4>1. image2[image[e].ptrs[0]] = image[image[e].ptrs[0]]
        BY <2>2, <2>4, <3>2
      <4>2. Entries(image2, e) = Entries(image, e)
        BY ONLY <2>6, <4>1 DEF Entries
      <4> QED
        BY <2>1, <4>2
    <3> QED
      BY <3>1, <3>2
  <2> QED
    BY <2>1, <2>2, <2>4, <2>5, <2>7, LookupFacts
<1> QED
  BY <1>1, ReachedAfter

\* The entry i of d, the one found for old, is renamed.
Relabels(I, image, image2, d, i, old, new) ==
    /\ d \in I /\ image[d].type = "dir" /\ new \in Names
    /\ i \in Slots /\ i = find_dirent(Entries(image, d), old)
    /\ \A j \in Slots : Entries(image, d)[j] # NULL => Entries(image, d)[j].name # new
    /\ \A b \in I : image2[b] = image[b]
    /\ \A b \in I \ {d} : image[b].type = "dir" =>
          image2[image[b].ptrs[0]] = image[image[b].ptrs[0]]
    /\ image2[image[d].ptrs[0]].slots[i] # NULL
    /\ image2[image[d].ptrs[0]].slots[i].name = new
    /\ image2[image[d].ptrs[0]].slots[i].inode = Entries(image, d)[i].inode
    /\ \A j \in Slots \ {i} : image2[image[d].ptrs[0]].slots[j] = Entries(image, d)[j]

LEMMA ReachedRenamed ==
    ASSUME NEW I, NEW image, Shape(I, image), Reached(I, image),
           NEW d, NEW old, NEW new, NEW i, NEW image2, Shape(I, image2),
           Relabels(I, image, image2, d, i, old, new)
    PROVE  Reached(I, image2)
<1> SUFFICES ASSUME
           d \in I, image[d].type = "dir", new \in Names,
           i \in Slots, i = find_dirent(Entries(image, d), old),
           \A j \in Slots : Entries(image, d)[j] # NULL => Entries(image, d)[j].name # new,
           \A b \in I : image2[b] = image[b],
           \A b \in I \ {d} : image[b].type = "dir" =>
               image2[image[b].ptrs[0]] = image[image[b].ptrs[0]],
           image2[image[d].ptrs[0]].slots[i] # NULL,
           image2[image[d].ptrs[0]].slots[i].name = new,
           image2[image[d].ptrs[0]].slots[i].inode = Entries(image, d)[i].inode,
           \A j \in Slots \ {i} : image2[image[d].ptrs[0]].slots[j] = Entries(image, d)[j]
    PROVE  Reached(I, image2)
  BY DEF Relabels
<1>0. /\ \A j \in Slots : Entries(image, d)[j] # NULL => Entries(image, d)[j].name # new
      /\ \A j \in Slots \ {i} : image2[image[d].ptrs[0]].slots[j] = Entries(image, d)[j]
  OBVIOUS
<1>1. ASSUME NEW e \in I, NEW name \in Names, Lookup(image, e, name) \in I
      PROVE  \E n \in Names : Lookup(image2, e, n) = Lookup(image, e, name)
  <2>1. PICK j : j = find_dirent(Entries(image, e), name)
    OBVIOUS
  <2>2. /\ image[e].type = "dir" /\ name \notin LongNames /\ j # 0
        /\ Lookup(image, e, name) = Entries(image, e)[j].inode
    BY <1>1, <2>1, LookupFacts, SMTT(30)
  <2>3. j \in Slots /\ Entries(image, e)[j] # NULL /\ Entries(image, e)[j].name = name
    BY <2>1, <2>2, FindFacts
  <2>4. image2[e] = image[e]
    OBVIOUS
  <2>5. Entries(image2, e) = image2[image[e].ptrs[0]].slots
    BY ONLY <2>4 DEF Entries
  <2>6. \E n \in Names : /\ find_dirent(Entries(image2, e), n) = j
                         /\ Entries(image2, e)[j].inode = Entries(image, e)[j].inode
    <3>1. CASE e = d /\ name = old
      <4>1. j = i
        BY <2>1, <3>1
      <4>2. /\ Entries(image2, e)[i] # NULL /\ Entries(image2, e)[i].name = new
            /\ Entries(image2, e)[i].inode = Entries(image, e)[i].inode
        BY <2>5, <3>1
      <4>3. \A k \in Slots \ {i} : Entries(image2, e)[k] # NULL => Entries(image2, e)[k].name # new
        BY ONLY <1>0, <2>5, <3>1
      <4>4. find_dirent(Entries(image2, e), new) = i
        BY <3>1, <4>2, <4>3, FoundAgain
      <4> QED
        BY <4>1, <4>2, <4>4
    <3>2. CASE e = d /\ name # old
      <4>0. i # 0 /\ Entries(image, d)[i].name = old
        BY FindFacts, SizesAssumption, SMTT(30) DEF Slots
      <4>1. j # i /\ name # new
        BY <2>3, <3>2, <4>0
      <4>2. Entries(image2, e)[j] = Entries(image, e)[j]
        BY <2>3, <2>5, <3>2, <4>1
      <4>3. \A k \in Slots : Entries(image2, e)[k] # NULL /\ Entries(image2, e)[k].name = name =>
               Entries(image, e)[k] # NULL /\ Entries(image, e)[k].name = name
        BY <2>5, <3>2, <4>1, SMTT(60)
      <4>4. find_dirent(Entries(image2, e), name) = j
        BY ONLY <2>1, <2>3, <4>2, <4>3, FoundAgain
      <4> QED
        BY <4>2, <4>4
    <3>3. CASE e # d
      <4>1. image2[image[e].ptrs[0]] = image[image[e].ptrs[0]]
        BY <2>2, <3>3
      <4>2. Entries(image2, e) = Entries(image, e)
        BY ONLY <2>5, <4>1 DEF Entries
      <4> QED
        BY <2>1, <4>2
    <3> QED
      BY <3>1, <3>2, <3>3
  <2>7. PICK n \in Names : /\ find_dirent(Entries(image2, e), n) = j
                           /\ Entries(image2, e)[j].inode = Entries(image, e)[j].inode
    BY <2>6
  <2>8. n \notin LongNames
    BY NamesAssumption
  <2>9. Lookup(image2, e, n) = Lookup(image, e, name)
    BY <2>2, <2>4, <2>7, <2>8, LookupFacts
  <2> QED
    BY <2>9
<1>2. Shape(I, image) /\ Reached(I, image) /\ Shape(I, image2)
  OBVIOUS
<1> QED
  BY ONLY <1>1, <1>2, ReachedAfter

\* The free entry i of d, which a path leads to, gets a name that was not there.
EntersPath(I, image, image2, p, d, i, c) ==
    /\ p \in Paths /\ p # <<>> /\ d \in I /\ d = Walk(image, Parent(p))
    /\ Name(p) \in Names /\ image[d].type = "dir"
    /\ \A j \in Slots : Entries(image, d)[j] # NULL => Entries(image, d)[j].name # Name(p)
    /\ i \in Slots /\ Entries(image, d)[i] = NULL /\ c \notin I
    /\ \A b \in I : image2[b] = image[b]
    /\ \A b \in I \ {d} : image[b].type = "dir" =>
          image2[image[b].ptrs[0]] = image[image[b].ptrs[0]]
    /\ image2[image[d].ptrs[0]].slots[i] # NULL
    /\ image2[image[d].ptrs[0]].slots[i].name = Name(p)
    /\ image2[image[d].ptrs[0]].slots[i].inode = c
    /\ \A j \in Slots \ {i} : image2[image[d].ptrs[0]].slots[j] = Entries(image, d)[j]

LEMMA ReachedEntered ==
    ASSUME NEW I, NEW image, Shape(I, image), Reached(I, image),
           NEW p, NEW d, NEW i, NEW c, NEW image2, Shape(I \cup {c}, image2),
           EntersPath(I, image, image2, p, d, i, c)
    PROVE  Reached(I \cup {c}, image2)
<1> SUFFICES ASSUME
           p \in Paths, p # <<>>, d \in I, d = Walk(image, Parent(p)),
           Name(p) \in Names, image[d].type = "dir",
           \A j \in Slots : Entries(image, d)[j] # NULL => Entries(image, d)[j].name # Name(p),
           i \in Slots, Entries(image, d)[i] = NULL, c \notin I,
           \A b \in I : image2[b] = image[b],
           \A b \in I \ {d} : image[b].type = "dir" =>
               image2[image[b].ptrs[0]] = image[image[b].ptrs[0]],
           image2[image[d].ptrs[0]].slots[i] # NULL,
           image2[image[d].ptrs[0]].slots[i].name = Name(p),
           image2[image[d].ptrs[0]].slots[i].inode = c,
           \A j \in Slots \ {i} : image2[image[d].ptrs[0]].slots[j] = Entries(image, d)[j]
    PROVE  Reached(I \cup {c}, image2)
  BY DEF EntersPath
<1> DEFINE K == I \cup {c}
<1>0. image2[d] = image[d]
  OBVIOUS
<1>a. \A j \in Slots \ {i} : image2[image[d].ptrs[0]].slots[j] = Entries(image, d)[j]
  OBVIOUS
<1>b. image2[image[d].ptrs[0]].slots[i].name = Name(p)
  OBVIOUS
<1>1. Entries(image2, d) = image2[image[d].ptrs[0]].slots
  BY ONLY <1>0 DEF Entries
<1>2. ASSUME NEW e \in I, NEW name \in Names, Lookup(image, e, name) \in I
      PROVE  Lookup(image2, e, name) = Lookup(image, e, name)
  <2>1. PICK j : j = find_dirent(Entries(image, e), name)
    OBVIOUS
  <2>2. /\ image[e].type = "dir" /\ name \notin LongNames /\ j # 0
        /\ Lookup(image, e, name) = Entries(image, e)[j].inode
    BY <1>2, <2>1, LookupFacts
  <2>3. j \in Slots /\ Entries(image, e)[j] # NULL /\ Entries(image, e)[j].name = name
    BY <2>1, <2>2, FindFacts
  <2>4. image2[e] = image[e]
    OBVIOUS
  <2>5. Entries(image2, e) = image2[image[e].ptrs[0]].slots
    BY ONLY <2>4 DEF Entries
  <2>6. find_dirent(Entries(image2, e), name) = j /\ Entries(image2, e)[j].inode = Entries(image, e)[j].inode
    <3>1. CASE e = d
      <4>1. j # i /\ name # Name(p)
        BY <2>3, <3>1
      <4>2. Entries(image2, e)[j] = Entries(image, e)[j]
        BY ONLY <1>a, <2>3, <2>5, <3>1, <4>1
      <4>3. \A k \in Slots : Entries(image2, e)[k] # NULL /\ Entries(image2, e)[k].name = name =>
               Entries(image, e)[k] # NULL /\ Entries(image, e)[k].name = name
        BY ONLY <1>a, <1>b, <2>5, <3>1, <4>1
      <4> QED
        BY <2>1, <2>3, <4>2, <4>3, FoundAgain
    <3>2. CASE e # d
      <4>1. image2[image[e].ptrs[0]] = image[image[e].ptrs[0]]
        BY <2>2, <3>2
      <4>2. Entries(image2, e) = Entries(image, e)
        BY ONLY <2>5, <4>1 DEF Entries
      <4> QED
        BY <2>1, <4>2
    <3> QED
      BY <3>1, <3>2
  <2>7. e \in K /\ image2[e].type = "dir"
    BY <2>2, <2>4
  <2> QED
    BY <2>1, <2>2, <2>6, <2>7, LookupFacts
<1>3. Lookup(image2, d, Name(p)) = c
  <2>1. \A j \in Slots : Entries(image2, d)[j] # NULL /\ Entries(image2, d)[j].name = Name(p) => j = i
    <3>1. \A j \in Slots : Entries(image, d)[j] # NULL => Entries(image, d)[j].name # Name(p)
      OBVIOUS
    <3> QED
      BY ONLY <1>1, <1>a, <3>1
  <2>2. i =< i
    BY SizesAssumption DEF Slots
  <2>3. find_dirent(Entries(image2, d), Name(p)) = i
    <3>1. i \in Slots /\ Entries(image2, d)[i] # NULL /\ Entries(image2, d)[i].name = Name(p)
      BY <1>1
    <3> QED
      BY ONLY <2>1, <2>2, <3>1, FindIs
  <2>4. i # 0 /\ d \in K /\ Name(p) \notin LongNames
    BY SizesAssumption, NamesAssumption DEF Slots
  <2> QED
    BY <1>0, <1>1, <2>3, <2>4, LookupFacts
<1>4. \A q \in Paths : Walk(image, q) \in I =>
         \E r \in Paths : /\ Len(r) = Len(q)
                          /\ Walk(image2, r) = Walk(image, q)
                          /\ \A k \in 1..Len(r) : r[k] \in Names
  <2>1. I \subseteq K
    OBVIOUS
  <2> HIDE DEF K
  <2>2. Shape(K, image2)
    BY DEF K
  <2> QED
    BY <1>2, <2>1, <2>2, StillReached
<1>5. ASSUME NEW b \in I PROVE \E r \in Paths : Walk(image2, r) = b
  <2>1. PICK q \in Paths : Walk(image, q) = b
    BY DEF Reached
  <2> QED
    BY <1>4, <2>1
<1>6. \E r \in Paths : Walk(image2, r) = c
  <2>1. /\ Parent(p) \in Paths /\ Len(p) \in Nat /\ Len(Parent(p)) = Len(p) - 1
        /\ Len(p) =< MAX_LEVELS \/ (Len(p) = 1 /\ p[1] \in LongNames)
    BY ParentFacts, PathFacts
  <2>2. Len(p) = 1 => Name(p) = p[1]
    BY DEF Name
  <2>3. Len(Parent(p)) < MAX_LEVELS
    BY <2>1, <2>2, NamesAssumption, SizesAssumption
  <2>4. PICK q \in Paths : /\ Len(q) = Len(Parent(p))
                           /\ Walk(image2, q) = d
                           /\ \A k \in 1..Len(q) : q[k] \in Names
    BY <1>4, <2>1
  <2>5. PICK r : r = Append(q, Name(p))
    OBVIOUS
  <2>6. r \in Paths /\ r # <<>> /\ Parent(r) = q /\ Name(r) = Name(p)
    BY <2>3, <2>4, <2>5, AppendPath
  <2>7. Walk(image2, r) = Lookup(image2, d, Name(p))
    <3>1. d \in I \cup {c}
      OBVIOUS
    <3> QED
      BY <2>4, <2>6, <3>1, WalkInto
  <2> QED
    BY <1>3, <2>6, <2>7
<1> QED
  BY <1>5, <1>6 DEF Reached

-----------------------------------------------------------------------------
(* The initial image. *)

LEMMA InitImage ==
    ASSUME Init
    PROVE  /\ Shape({ROOT}, disk) /\ disk \in [Blocks -> Block] /\ ROOT \in Blocks
           /\ Pointers(disk[ROOT]) = {0} /\ disk[ROOT].ptrs[0] = ROOT_DATA /\ ROOT_DATA \in Blocks
           /\ disk[ROOT].type = "dir" /\ disk[ROOT].perm = CHOOSE m \in Perms : TRUE
           /\ \A i \in Slots : Entries(disk, ROOT)[i] = NULL
<1>1. PICK root : root = NewDir(CHOOSE m \in Perms : TRUE, ROOT_DATA)
  OBVIOUS
<1>2. /\ ROOT \in Blocks \ {0, 1} /\ ROOT_DATA \in Blocks \ {0, 1, ROOT}
      /\ 0 \in Blocks /\ 1 \in Blocks
  BY SizesAssumption DEF Blocks, ROOT
<1>3. /\ root \in Inode /\ root.perm = (CHOOSE m \in Perms : TRUE) /\ root.type = "dir" /\ root.size # 0 /\ root.ptrs[0] = ROOT_DATA
  <2>1. (CHOOSE m \in Perms : TRUE) \in Perms
    BY PermsAssumption
  <2>2. 0 \in Ptrs /\ FS_BLOCK_SIZE \in 0..MAX_FILE /\ FS_BLOCK_SIZE # 0
    <3>1. FS_BLOCK_SIZE \in Nat \ {0} /\ NUM_PTRS_INODE \in Nat \ {0}
      BY SizesAssumption
    <3>2. FS_BLOCK_SIZE * NUM_PTRS_INODE \in Nat /\ FS_BLOCK_SIZE =< FS_BLOCK_SIZE * NUM_PTRS_INODE
      BY <3>1
    <3> QED
      BY <3>1, <3>2 DEF Ptrs, MAX_FILE
  <2>3. [NoPtrs EXCEPT ![0] = ROOT_DATA] \in [Ptrs -> Blocks \cup {JUNK}]
    BY <1>2 DEF NoPtrs
  <2>4. [NoPtrs EXCEPT ![0] = ROOT_DATA][0] = ROOT_DATA
    BY <2>2 DEF NoPtrs
  <2> QED
    BY <1>1, <2>1, <2>2, <2>3, <2>4 DEF NewDir, Inode
<1>4. NoEntries \in DirBlock /\ \A i \in Slots : NoEntries.slots[i] = NULL
  BY DEF NoEntries, DirBlock
<1>5. /\ disk \in [Blocks -> Block]
      /\ disk[ROOT] = root
      /\ disk[ROOT_DATA] = NoEntries
  <2>1. disk = [[b \in Blocks |-> [kind |-> "zero"]] EXCEPT
                  ![0] = [kind |-> "super"], ![1] = [kind |-> "bitmap"],
                  ![ROOT] = root, ![ROOT_DATA] = NoEntries]
    BY <1>1, Zenon DEF Init, FreshImage
  <2>2. disk = [b \in Blocks |-> IF b = ROOT_DATA THEN NoEntries
                                 ELSE IF b = ROOT THEN root
                                 ELSE IF b = 1 THEN [kind |-> "bitmap"]
                                 ELSE IF b = 0 THEN [kind |-> "super"]
                                 ELSE [kind |-> "zero"]]
    BY <1>2, <2>1
  <2>3. {[kind |-> "super"], [kind |-> "bitmap"], [kind |-> "zero"]} \subseteq OtherBlock
    BY DEF OtherBlock
  <2> QED
    BY <1>2, <1>3, <1>4, <2>2, <2>3 DEF Block
<1>6. Pointers(disk[ROOT]) = {0} /\ disk[ROOT].ptrs[0] = ROOT_DATA
  BY <1>3, <1>5, PointersFacts
<1>7. Entries(disk, ROOT) = NoEntries.slots
  BY <1>5, <1>6 DEF Entries
<1> DEFINE I == {ROOT}
<1>8. Shape(I, disk)
  <2>1. Inodal(I, disk)
    BY <1>2, <1>3, <1>5, <1>6 DEF Inodal
  <2>2. Closed(I, disk)
    BY <1>3, <1>4, <1>5, <1>6, <1>7 DEF Closed
  <2>3. NoSharedData(I, disk)
    BY <1>6 DEF NoSharedData
  <2>4. NoSharedInode(I, disk)
    BY <1>4, <1>7 DEF NoSharedInode
  <2> QED
    BY <2>1, <2>2, <2>3, <2>4 DEF Shape
<1> QED
  BY <1>2, <1>3, <1>4, <1>5, <1>6, <1>7, <1>8

LEMMA InitIInv == Init => IInv
<1> SUFFICES ASSUME Init PROVE IInv
  OBVIOUS
<1> DEFINE I == {ROOT}
<1>1. /\ Shape(I, disk) /\ disk \in [Blocks -> Block] /\ ROOT \in Blocks
      /\ Pointers(disk[ROOT]) = {0} /\ disk[ROOT].ptrs[0] = ROOT_DATA /\ ROOT_DATA \in Blocks
  BY InitImage
<1>2. /\ bitmap = {0, 1, ROOT, ROOT_DATA} /\ up = TRUE /\ aborted = "no" /\ loose = {}
      /\ {0, 1} \subseteq Blocks /\ InUse = {0, 1, ROOT, ROOT_DATA}
  BY SizesAssumption DEF Init, Blocks, InUse
<1>3. TypeOK
  BY <1>1, <1>2 DEF TypeOK, Block
<1>4. Marked(I, InUse, disk) /\ Exact(I, InUse, disk)
  BY <1>1, <1>2 DEF Marked, Exact
<1>5. Reached(I, disk)
  BY WalkRoot, PathFacts DEF Reached
<1>6. I \in SUBSET Blocks
  BY <1>1
<1> HIDE DEF I
<1>7. Held(InUse, disk, aborted = "no")
  BY <1>1, <1>4, <1>5, <1>6 DEF Held
<1> QED
  BY <1>2, <1>3, <1>7 DEF IInv, Torn

-----------------------------------------------------------------------------
(* A handler's step. *)

LEMMA HeldNow == ASSUME IInv, Serving PROVE Held(InUse, disk, aborted = "no")
  BY DEF IInv, Serving

LEMMA HeldNext ==
    ASSUME bitmap' \subseteq Blocks, loose' \subseteq Blocks, disk' \in [Blocks -> Block],
           up' \in BOOLEAN, aborted' \in {"no", "died"}, aborted' = "no" => loose' = {},
           Held(InUse', disk', aborted' = "no"), Torn'
    PROVE  IInv'
<1>1. TypeOK'
  BY DEF TypeOK, Block
<1> QED
  BY <1>1, Zenon DEF IInv

\* A call that leaves the image alone.
LEMMA Unchanged ==
    ASSUME IInv, up' = TRUE, UNCHANGED <<bitmap, disk, loose, aborted>>
    PROVE  IInv'
<1>1. TypeOK'
  BY DEF IInv, TypeOK
<1>2. InUse' = InUse
  BY DEF InUse
<1>3. aborted' # "reused" => Held(InUse', disk', aborted' = "no")
  <2>1. aborted # "reused" => Held(InUse, disk, aborted = "no")
    BY DEF IInv
  <2>2. disk' = disk /\ aborted' = aborted
    OBVIOUS
  <2> QED
    BY <1>2, <2>1, <2>2, Zenon
<1>4. Torn'
  BY DEF Torn
<1>5. aborted' = "no" => loose' = {}
  BY DEF IInv
<1> QED
  BY <1>1, <1>3, <1>4, <1>5, Zenon DEF IInv

\* Blocks that are marked, and blocks that are written outside the tree, leave
\* the tree as it was.
LEMMA Harmless ==
    ASSUME NEW I, I \subseteq Blocks, NEW map, NEW image, Shape(I, image), Marked(I, map, image),
           NEW writes, NEW n \in Nat,
           \A i \in 1..n : writes[i].op \in {"set", "put"},
           \A i \in 1..n : writes[i].op = "put" =>
               /\ writes[i].blk \notin I
               /\ \A b \in I : image[b].type = "dir" => writes[i].blk # image[b].ptrs[0],
           NEW map2, map2 = MarkedAfter(map, writes, n),
           NEW image2, image2 = block_write(image, writes, n)
    PROVE  Shape(I, image2) /\ Marked(I, map2, image2)
<1>1. \A b \in I : image2[b] = image[b]
  BY BlockLeft
<1>2. ASSUME NEW b \in I, image[b].type = "dir" PROVE image2[image[b].ptrs[0]] = image[image[b].ptrs[0]]
  <2>1. image[b] \in Inode
    BY DEF Shape, Inodal
  <2>2. image[b].ptrs[0] \in Blocks
    BY <1>2, <2>1, PointersFacts DEF Shape, Inodal
  <2>3. \A i \in 1..n : writes[i].op = "put" => writes[i].blk # image[b].ptrs[0]
    BY <1>2
  <2> QED
    BY <2>2, <2>3, BlockLeft
<1>3. Shape(I, image2) /\ Marked(I, map, image2)
  BY <1>1, <1>2, Untouched
<1>4. \A x \in Blocks : x \in map => x \in map2
  BY MarkSet
<1>5. Marked(I, map2, image2)
  BY <1>3, <1>4 DEF Marked, Shape, Inodal
<1> QED
  BY <1>3, <1>5

\* An allocated block that is still in the tree is marked in the history, and
\* nothing more is said of the image but its format.
LEMMA ReusedStep ==
    ASSUME TypeOK, NEW writes, NEW m \in Nat, Performed(writes, m), Reuses(writes, m),
           \A i \in 1..m : writes[i].op = "put" => writes[i].block \in Block,
           up' \in BOOLEAN, aborted' = "reused"
    PROVE  IInv'
<1>1. bitmap' \subseteq Blocks /\ disk' \in [Blocks -> Block]
  BY WriteTypes DEF Performed, TypeOK, Block
<1>2. \E i \in 1..m : writes[i].op # "clear"
  BY DEF Reuses
<1>3. loose' \subseteq Blocks
  BY <1>2, InUseAfter DEF TypeOK
<1>4. TypeOK'
  BY <1>1, <1>3 DEF TypeOK, Block
<1> QED
  BY <1>4 DEF IInv

\* The blocks that are allocated are not in use, unless the history says so.
LEMMA NotReused ==
    ASSUME IInv, NEW call, NEW code, NEW writes, Commit(call, code, writes), aborted' # "reused"
    PROVE  \A i \in 1..Len(writes) : writes[i].op = "set" => writes[i].blk \notin loose
<1>1. CASE aborted' = IF Reuses(writes, Len(writes)) THEN "reused" ELSE aborted
  BY <1>1 DEF Reuses
<1>2. CASE aborted = "no"
  BY <1>2 DEF IInv
<1> QED
  BY <1>1, <1>2 DEF Commit

LEMMA CommitTyped ==
    ASSUME IInv, Serving, NEW call, NEW code, NEW writes, NEW n, n = Len(writes), n \in Nat,
           Commit(call, code, writes), aborted' = "reused",
           \A i \in 1..n : writes[i].op = "put" => writes[i].block \in Block
    PROVE  IInv'
<1>0. TypeOK /\ aborted # "reused"
  BY DEF IInv, Serving
<1>1. CASE /\ Performed(writes, n) /\ up' = TRUE
           /\ aborted' = IF Reuses(writes, n) THEN "reused" ELSE aborted
  <2>1. Reuses(writes, n)
    BY <1>0, <1>1
  <2> QED
    BY <1>0, <1>1, <2>1, ReusedStep
<1>2. CASE \E m \in 1..(n - 1) : Dies(call, -1, writes, m)
  <2>1. PICK m \in 1..(n - 1) : Dies(call, -1, writes, m)
    BY <1>2
  <2>2. m \in Nat /\ \A i \in 1..m : i \in 1..n
    OBVIOUS
  <2>3. Performed(writes, m) /\ up' = FALSE /\ Reuses(writes, m)
    BY <2>1 DEF Dies
  <2> QED
    BY <1>0, <2>2, <2>3, ReusedStep
<1> QED
  BY <1>1, <1>2 DEF Commit

\* What has to be shown of the writes of a handler: once they are all made, and
\* when the process dies on the way.
LEMMA CommitStep ==
    ASSUME IInv, Serving, NEW call, NEW code, NEW writes, NEW n, n = Len(writes), n \in Nat,
           Commit(call, code, writes),
           \A i \in 1..n : writes[i].op = "put" => writes[i].block \in Block,
           \E i \in 1..n : writes[i].op # "clear",
           Held(MarkedAfter(InUse, writes, n), block_write(disk, writes, n), aborted = "no"),
           \A m \in 1..(n - 1) :
               \/ /\ \E i \in 1..m : writes[i].op # "clear"
                  /\ Held(MarkedAfter(InUse, writes, m), block_write(disk, writes, m), FALSE)
               \/ /\ call.path \in Paths /\ Walk(disk, call.path) \in Blocks
                  /\ \A i \in 1..m : /\ writes[i].op = "clear" /\ writes[i].blk \in Blocks
                                     /\ writes[i].blk \in Own(disk, Walk(disk, call.path))
    PROVE  IInv'
<1>0. TypeOK /\ aborted \in {"no", "died"} /\ disk \in [Blocks -> Block] /\ loose \subseteq Blocks
  BY DEF IInv, TypeOK, Block, Serving
<1>1. ASSUME NEW m \in Nat, m =< n, Performed(writes, m)
      PROVE  bitmap' \subseteq Blocks /\ disk' \in [Blocks -> Block]
  <2>1. \A i \in 1..m : writes[i].op = "put" => writes[i].block \in Block
    BY <1>1
  <2> QED
    BY <1>0, <1>1, <2>1, WriteTypes DEF Performed
<1>2. CASE aborted' = "reused"
  <2>1. IInv /\ Serving /\ n = Len(writes) /\ n \in Nat /\ Commit(call, code, writes)
        /\ (\A i \in 1..n : writes[i].op = "put" => writes[i].block \in Block)
    OBVIOUS
  <2> QED
    BY ONLY <1>2, <2>1, CommitTyped
<1>3. CASE Performed(writes, n) /\ up' = TRUE /\ aborted' = aborted
  <2>1. n =< n
    OBVIOUS
  <2>2. InUse' = MarkedAfter(InUse, writes, n) /\ loose' \subseteq loose
    BY <1>0, <1>3, InUseAfter
  <2>3. Held(InUse', disk', aborted' = "no")
    <3>1. disk' = block_write(disk, writes, n) /\ aborted' = aborted
      BY <1>3 DEF Performed
    <3> QED
      BY <2>2, <3>1, Zenon
  <2>4. Torn' /\ (aborted' = "no" => loose' = {})
    BY <1>3, <2>2 DEF Torn, IInv
  <2> QED
    BY <1>0, <1>1, <1>3, <2>1, <2>2, <2>3, <2>4, HeldNext
<1>4. CASE aborted = "no" /\ aborted' # "reused" /\ \E m \in 1..(n - 1) : Dies(call, -1, writes, m)
  <2>1. PICK m \in 1..(n - 1) : Dies(call, -1, writes, m)
    BY <1>4
  <2>2. m \in Nat /\ m =< n /\ m # 0
    OBVIOUS
  <2>3. /\ Performed(writes, m) /\ up' = FALSE /\ returned' = [call |-> call, code |-> -1]
        /\ aborted' = "died"
    BY <1>4, <2>1 DEF Dies, Reply
  <2>4. bitmap' \subseteq Blocks /\ disk' \in [Blocks -> Block]
    BY <1>1, <2>2, <2>3
  <2>5. loose = {}
    BY <1>4 DEF IInv
  <2>6. CASE /\ \E i \in 1..m : writes[i].op # "clear"
             /\ Held(MarkedAfter(InUse, writes, m), block_write(disk, writes, m), FALSE)
    <3>1. InUse' = MarkedAfter(InUse, writes, m) /\ loose' \subseteq loose
      BY <1>0, <2>2, <2>3, <2>6, InUseAfter
    <3>2. Held(InUse', disk', aborted' = "no")
      BY <2>3, <2>6, <3>1 DEF Performed
    <3>3. Torn' /\ loose' \subseteq Blocks
      BY <2>5, <3>1 DEF Torn
    <3> QED
      BY <2>3, <2>4, <3>2, <3>3, HeldNext
  <2>7. CASE /\ call.path \in Paths /\ Walk(disk, call.path) \in Blocks
             /\ \A i \in 1..m : /\ writes[i].op = "clear" /\ writes[i].blk \in Blocks
                                /\ writes[i].blk \in Own(disk, Walk(disk, call.path))
    <3>1. InUse \subseteq InUse' /\ \A x \in loose' : \E i \in 1..m : writes[i].blk = x
      BY <1>0, <2>2, <2>3, <2>5, <2>7, InUseCleared
    <3>2. disk' = disk
      <4>1. \A b \in Blocks : disk'[b] = disk[b]
        BY <2>2, <2>3, <2>7, BlockLeft DEF Performed
      <4> QED
        BY <1>0, <2>4, <4>1
    <3>3. PICK I \in SUBSET Blocks : Shape(I, disk) /\ Marked(I, InUse, disk)
      BY HeldNow DEF Held
    <3>4. Shape(I, disk') /\ Marked(I, InUse', disk')
      BY <3>1, <3>2, <3>3 DEF Marked
    <3>5. Held(InUse', disk', aborted' = "no")
      BY <2>3, <3>4 DEF Held
    <3>6. loose' \subseteq Blocks /\ loose' \subseteq Own(disk, Walk(disk, call.path))
      BY <2>7, <3>1
    <3>7. Torn'
      <4>1. returned'.call = call /\ disk' = disk
        BY <2>3, <3>2
      <4> QED
        BY <2>7, <3>6, <4>1 DEF Torn
    <3> QED
      BY <2>3, <2>4, <3>5, <3>6, <3>7, HeldNext
  <2> QED
    BY <2>6, <2>7
<1> QED
  BY <1>2, <1>3, <1>4 DEF Commit

\* The early returns, and the calls that only read.
LEMMA RefuseStep ==
    ASSUME IInv, Serving, NEW call, NEW code, Refuse(call, code) \/ ReadOnly
    PROVE  IInv'
<1>1. up' = TRUE /\ UNCHANGED <<bitmap, disk, loose, aborted>>
  BY DEF Refuse, ReadOnly, Serving, IInv, TypeOK
<1> QED
  BY <1>1, Unchanged

LEMMA InitStep == ASSUME IInv, fs_init PROVE IInv'
<1>1. up' = TRUE /\ UNCHANGED <<bitmap, disk, loose, aborted>>
  BY DEF fs_init
<1> QED
  BY <1>1, Unchanged

-----------------------------------------------------------------------------
(* What the helpers of the handlers find. *)

LEMMA AllocFacts ==
    ASSUME NEW map, NEW c, c = alloc_blk(map)
    PROVE  /\ c \in Int
           /\ c < 0 \/ c \in Blocks \ ({0, 1, ROOT} \cup map)
<1> DEFINE free == 3..(BITMAP_BITS - 1) \ map
<1>1. CASE free = {}
  BY <1>1 DEF alloc_blk, ENOSPC
<1>2. CASE free # {}
  <2>1. free \subseteq Nat
    BY SizesAssumption
  <2>2. c = Lowest(free)
    BY <1>2 DEF alloc_blk
  <2>3. c \in free
    BY <1>2, <2>1, <2>2, LowestIn
  <2> QED
    BY <2>3, SizesAssumption DEF Blocks, ROOT
<1> QED
  BY <1>1, <1>2

LEMMA PathInode ==
    ASSUME NEW I, NEW image, Shape(I, image), NEW p \in Paths
    PROVE  /\ Walk(image, p) \in Int
           /\ ~ (Walk(image, p) < 0) <=> Walk(image, p) \in I
           /\ Walk(image, p) > 0 <=> Walk(image, p) \in I
<1>1. Walk(image, p) \in I \cup Neg
  BY WalkFacts
<1>2. \A b \in I : b \in Int /\ b > 0
  BY BlocksFacts DEF Shape, Inodal
<1>3. \A e \in Neg : e \in Int /\ e < 0
  BY BlocksFacts
<1> QED
  BY <1>1, <1>2, <1>3

LEMMA DirFacts ==
    ASSUME NEW I, NEW image, Shape(I, image), NEW d \in I, image[d].type = "dir"
    PROVE  /\ image[d].ptrs[0] \in Blocks \ ({0, 1} \cup I)
           /\ image[image[d].ptrs[0]] \in DirBlock
           /\ Entries(image, d) \in [Slots -> Dirent \cup {NULL}]
           /\ \A b \in I \ {d} : \A k \in Pointers(image[b]) : image[b].ptrs[k] # image[d].ptrs[0]
           /\ \A b \in I \ {d} : image[b].type = "dir" => image[b].ptrs[0] # image[d].ptrs[0]
<1>0. \A b \in I : image[b] \in Inode
  BY DEF Shape, Inodal
<1>1. \A b \in I : image[b].type = "dir" => 0 \in Pointers(image[b])
  BY <1>0, PointersFacts
<1>2. image[d].ptrs[0] \in Blocks \ ({0, 1} \cup I)
  BY <1>1 DEF Shape, Inodal
<1>3. image[image[d].ptrs[0]] \in DirBlock
  BY DEF Shape, Closed
<1>4. Entries(image, d) \in [Slots -> Dirent \cup {NULL}]
  BY ONLY <1>3 DEF Entries, DirBlock
<1>5. \A b \in I \ {d} : \A k \in Pointers(image[b]) : image[b].ptrs[k] # image[d].ptrs[0]
  BY <1>1 DEF Shape, NoSharedData
<1> QED
  BY <1>1, <1>2, <1>3, <1>4, <1>5

\* A path that leads nowhere, although its parent is a directory, has no entry.
LEMMA NoEntry ==
    ASSUME NEW I, NEW image, Shape(I, image), NEW p \in Paths, p # <<>>,
           NEW d \in I, d = Walk(image, Parent(p)), image[d].type = "dir",
           Name(p) \in Names, Walk(image, p) \notin I
    PROVE  \A j \in Slots : Entries(image, d)[j] # NULL => Entries(image, d)[j].name # Name(p)
<1>1. PICK i : i = find_dirent(Entries(image, d), Name(p))
  OBVIOUS
<1>2. Walk(image, p) = Lookup(image, d, Name(p))
  BY WalkInto
<1>3. Name(p) \notin LongNames
  BY NamesAssumption
<1>4. i # 0 => Walk(image, p) = Entries(image, d)[i].inode
  BY <1>1, <1>2, <1>3, LookupFacts
<1>5. i # 0 => i \in Slots /\ Entries(image, d)[i] # NULL
  BY <1>1, FindFacts
<1>6. i # 0 => Entries(image, d)[i].inode \in I
  BY <1>5 DEF Shape, Closed
<1>7. find_dirent(Entries(image, d), Name(p)) = 0
  BY <1>1, <1>4, <1>6
<1> QED
  BY ONLY <1>7, FindFacts

\* A path that leads somewhere has an entry.
LEMMA HasEntry ==
    ASSUME NEW I, NEW image, Shape(I, image), NEW p \in Paths, p # <<>>,
           NEW d, d = Walk(image, Parent(p)), Walk(image, p) \in I,
           NEW i, i = find_dirent(Entries(image, d), Name(p))
    PROVE  /\ d \in I /\ image[d].type = "dir"
           /\ i \in Slots /\ Entries(image, d)[i] # NULL
           /\ Entries(image, d)[i].name = Name(p)
           /\ Entries(image, d)[i].inode = Walk(image, p)
<1>1. d \in I /\ Walk(image, p) = Lookup(image, d, Name(p))
  BY WalkInto
<1>2. image[d].type = "dir" /\ i # 0 /\ Walk(image, p) = Entries(image, d)[i].inode
  BY <1>1, LookupFacts
<1>3. i \in Slots /\ Entries(image, d)[i] # NULL /\ Entries(image, d)[i].name = Name(p)
  BY <1>2, FindFacts
<1> QED
  BY <1>1, <1>2, <1>3

-----------------------------------------------------------------------------
(* One lemma per handler: its step preserves the invariant. *)

\* A handler that writes one block.
LEMMA OnePutStep ==
    ASSUME IInv, Serving, NEW call, NEW code, NEW a \in Blocks, NEW block \in Block,
           Commit(call, code, <<Put(a, block)>>),
           \A image : image[a] = block /\ (\A b \in Blocks \ {a} : image[b] = disk[b])
                      => Held(InUse, image, aborted = "no")
    PROVE  IInv'
<1>1. PICK writes : writes = <<Put(a, block)>>
  OBVIOUS
<1>2. Len(writes) = 1 /\ writes[1] = Put(a, block) /\ Commit(call, code, writes)
  BY <1>1
<1>3. writes[1].op = "put" /\ writes[1].blk = a /\ writes[1].block = block
  BY <1>2 DEF Put
<1>4. \A i \in 1..1 : i = 1
  OBVIOUS
<1>5. \A i \in 1..1 : writes[i].op = "put" /\ writes[i].blk = a /\ writes[i].block = block
  BY <1>3, <1>4
<1>6. MarkedAfter(InUse, writes, 1) = InUse
  <2>1. \A b \in Blocks : b \in MarkedAfter(InUse, writes, 1) <=> b \in InUse
    BY <1>5, MarkLeft
  <2>2. InUse \subseteq Blocks /\ MarkedAfter(InUse, writes, 1) \subseteq Blocks
    BY DEF IInv, TypeOK, MarkedAfter, InUse
  <2> QED
    BY <2>1, <2>2
<1>7. PICK image : image = block_write(disk, writes, 1)
  OBVIOUS
<1>8. image[a] = block
  <2>1. 1 \in 1..1 /\ \A i \in (1+1)..1 : FALSE
    OBVIOUS
  <2> QED
    BY <1>3, <1>7, <2>1, BlockPut
<1>9. \A b \in Blocks \ {a} : image[b] = disk[b]
  BY <1>5, <1>7, BlockLeft
<1>10. Held(InUse, image, aborted = "no")
  BY <1>8, <1>9, Zenon
<1>11. Held(MarkedAfter(InUse, writes, 1), block_write(disk, writes, 1), aborted = "no")
  BY <1>6, <1>7, <1>10, Zenon
<1>12. \A i \in 1..1 : writes[i].op = "put" => writes[i].block \in Block
  BY <1>5
<1>13. \A m \in 1..(1 - 1) : FALSE
  OBVIOUS
<1>14. 1 = Len(writes) /\ 1 \in Nat
  BY <1>2
<1>15. \E i \in 1..1 : writes[i].op # "clear"
  BY <1>3
<1> QED
  BY <1>2, <1>11, <1>12, <1>13, <1>14, <1>15, CommitStep

LEMMA ChmodStep ==
    ASSUME IInv, NEW p \in Paths, NEW perm \in Perms, fs_chmod(p, perm)
    PROVE  IInv'
<1>0. Serving
  BY DEF fs_chmod
<1>1. PICK call : call = [op |-> "chmod", path |-> p, perm |-> perm]
  OBVIOUS
<1>2. PICK c : c = Walk(disk, p)
  OBVIOUS
<1>3. PICK new : new = [disk[c] EXCEPT !.perm = perm]
  OBVIOUS
<1>4. CASE Refuse(call, ChmodError(c))
  BY <1>0, <1>4, RefuseStep
<1>5. CASE c >= 0 /\ Commit(call, 0, <<Put(c, new)>>)
  <2>1. PICK I \in SUBSET Blocks : /\ Shape(I, disk) /\ Marked(I, InUse, disk)
                                   /\ aborted = "no" => Exact(I, InUse, disk) /\ Reached(I, disk)
    BY <1>0, HeldNow DEF Held
  <2>2. c \in I
    BY <1>2, <1>5, <2>1, PathInode
  <2>3. disk[c] \in Inode
    BY <2>1, <2>2 DEF Shape, Inodal
  <2>4. new \in Inode /\ new.type = disk[c].type /\ new.size = disk[c].size /\ new.ptrs = disk[c].ptrs
    BY <1>3, <2>3 DEF Inode
  <2>5. ASSUME NEW image, image[c] = new, \A b \in Blocks \ {c} : image[b] = disk[b]
        PROVE  Held(InUse, image, aborted = "no")
    <3>1. \A b \in I : /\ image[b] \in Inode /\ image[b].type = disk[b].type
                       /\ image[b].size = disk[b].size /\ image[b].ptrs = disk[b].ptrs
      BY <2>1, <2>4, <2>5 DEF Shape, Inodal
    <3>2. ASSUME NEW b \in I, disk[b].type = "dir"
          PROVE  /\ image[disk[b].ptrs[0]] = disk[disk[b].ptrs[0]]
                 /\ image[disk[b].ptrs[0]] \in DirBlock
                 /\ Entries(image, b) = Entries(disk, b)
      <4>1. disk[b].ptrs[0] \in Blocks \ {c} /\ disk[disk[b].ptrs[0]] \in DirBlock
        BY <2>1, <2>2, <3>2, DirFacts
      <4>2. image[disk[b].ptrs[0]] = disk[disk[b].ptrs[0]]
        BY <2>5, <4>1
      <4>3. image[b].ptrs = disk[b].ptrs
        BY <3>1
      <4>4. Entries(image, b) = Entries(disk, b)
        BY ONLY <4>2, <4>3 DEF Entries
      <4> QED
        BY <4>1, <4>2, <4>4
    <3>3. /\ Shape(I, image)
          /\ \A map : Marked(I, map, disk) => Marked(I, map, image)
          /\ \A map : Exact(I, map, disk) => Exact(I, map, image)
      BY <2>1, <3>1, <3>2, Kept
    <3>4. Reached(I, disk) => Reached(I, image)
      BY <2>1, <3>1, <3>2, <3>3, ReachedSame
    <3> QED
      BY <2>1, <3>3, <3>4 DEF Held
  <2>6. c \in Blocks /\ new \in Block
    BY <2>2, <2>4 DEF Block
  <2> QED
    BY <1>0, <1>5, <2>5, <2>6, OnePutStep
<1> QED
  BY <1>1, <1>2, <1>3, <1>4, <1>5 DEF fs_chmod, path2inum

LEMMA RenameStep ==
    ASSUME IInv, NEW src \in Paths, NEW dst \in Nameable, fs_rename(src, dst)
    PROVE  IInv'
<1>0. Serving
  BY DEF fs_rename
<1>1. PICK call : call = [op |-> "rename", path |-> src, dst |-> dst]
  OBVIOUS
<1>2. PICK d : d = Walk(disk, Parent(src))
  OBVIOUS
<1>3. PICK a : a = disk[d].ptrs[0]
  OBVIOUS
<1>4. PICK i : i = find_dirent(Entries(disk, d), Name(src))
  OBVIOUS
<1>5. PICK new : new = [disk[a] EXCEPT !.slots[i].name = Name(dst)]
  OBVIOUS
<1>6. CASE Refuse(call, RenameError(src, dst))
  BY <1>0, <1>6, RefuseStep
<1>7. CASE RenameError(src, dst) = 0 /\ Commit(call, 0, <<Put(a, new)>>)
  <2>1. PICK I \in SUBSET Blocks : /\ Shape(I, disk) /\ Marked(I, InUse, disk)
                                   /\ aborted = "no" => Exact(I, InUse, disk) /\ Reached(I, disk)
    BY <1>0, HeldNow DEF Held
  <2>2. dst \in Paths /\ (dst = <<>> \/ Name(dst) \in Names)
    BY DEF Nameable, Name
  <2>3. /\ ~ (Walk(disk, src) < 0) /\ ~ (Walk(disk, dst) > 0)
        /\ Len(src) = Len(dst) /\ Parent(src) = Parent(dst)
    BY <1>7 DEF RenameError, path2inum, ENOENT, EEXIST, EINVAL
  <2>4. Walk(disk, src) \in I /\ Walk(disk, dst) \notin I
    BY <2>1, <2>2, <2>3, PathInode
  <2>5. dst # <<>> /\ src # <<>>
    <3>1. Walk(disk, <<>>) \in I
      BY <2>1, WalkRoot DEF Shape, Inodal
    <3>2. dst # <<>>
      BY <2>4, <3>1
    <3> QED
      BY <2>2, <2>3, <3>2, PathFacts
  <2>6. /\ d \in I /\ disk[d].type = "dir"
        /\ i \in Slots /\ Entries(disk, d)[i] # NULL
    BY <1>2, <1>4, <2>1, <2>4, <2>5, HasEntry
  <2>7. /\ a \in Blocks \ ({0, 1} \cup I) /\ disk[a] \in DirBlock
        /\ \A b \in I \ {d} : disk[b].type = "dir" => disk[b].ptrs[0] # a
    BY <1>3, <2>1, <2>6, DirFacts
  <2>8. \A j \in Slots : Entries(disk, d)[j] # NULL => Entries(disk, d)[j].name # Name(dst)
    BY <1>2, <2>1, <2>2, <2>3, <2>4, <2>5, <2>6, NoEntry
  <2>9. disk[a].slots = Entries(disk, d)
    BY ONLY <1>3 DEF Entries
  <2>10. PICK e : e = [disk[a].slots[i] EXCEPT !.name = Name(dst)]
    OBVIOUS
  <2>11. /\ e \in Dirent /\ e.name = Name(dst) /\ e.inode = disk[a].slots[i].inode
    <3>1. disk[a].slots[i] \in Dirent
      BY <2>6, <2>7, <2>9 DEF DirBlock
    <3> QED
      BY <2>2, <2>5, <2>10, <3>1 DEF Dirent
  <2>12. e # NULL
    <3>1. e \in [name : Names, inode : Nat]
      BY <2>11, BlocksFacts DEF Dirent
    <3> QED
      BY <3>1, SentinelAssumption
  <2>13. new = [disk[a] EXCEPT !.slots[i] = e]
    BY <1>5, <2>7, <2>10 DEF DirBlock
  <2>14. /\ new \in DirBlock
         /\ \A j \in Slots : new.slots[j] = IF j = i THEN e ELSE disk[a].slots[j]
    <3>1. e \in Dirent \cup {NULL}
      BY <2>11
    <3> QED
      BY <2>6, <2>7, <2>13, <3>1 DEF DirBlock
  <2>15. ASSUME NEW image, image[a] = new, \A b \in Blocks \ {a} : image[b] = disk[b]
         PROVE  Held(InUse, image, aborted = "no")
    <3>1. \A b \in I : image[b] = disk[b]
      BY <2>7, <2>15
    <3>2. \A b \in I \ {d} : disk[b].type = "dir" =>
              image[disk[b].ptrs[0]] = disk[disk[b].ptrs[0]]
      <4>1. \A b \in I : disk[b].type = "dir" => disk[b].ptrs[0] \in Blocks
        BY <2>1, DirFacts
      <4> QED
        BY <2>7, <2>15, <4>1
    <3>3. ASSUME NEW b \in I, disk[b].type = "dir"
          PROVE  /\ image[disk[b].ptrs[0]] \in DirBlock
                 /\ \A j \in Slots :
                       /\ Entries(image, b)[j] = NULL <=> Entries(disk, b)[j] = NULL
                       /\ Entries(disk, b)[j] # NULL =>
                             Entries(image, b)[j].inode = Entries(disk, b)[j].inode
      <4>1. image[b].ptrs = disk[b].ptrs
        BY <3>1
      <4>2. Entries(image, b) = image[disk[b].ptrs[0]].slots
        BY ONLY <4>1 DEF Entries
      <4>3. CASE b = d
        <5>1. image[disk[b].ptrs[0]] = new
          BY <1>3, <2>15, <4>3
        <5> QED
          BY <2>6, <2>9, <2>11, <2>12, <2>14, <4>2, <4>3, <5>1
      <4>4. CASE b # d
        <5>1. image[disk[b].ptrs[0]] = disk[disk[b].ptrs[0]] /\ disk[disk[b].ptrs[0]] \in DirBlock
          BY <2>1, <3>2, <3>3, <4>4, DirFacts
        <5>2. Entries(image, b) = Entries(disk, b)
          BY ONLY <4>2, <5>1 DEF Entries
        <5> QED
          BY <5>1, <5>2
      <4> QED
        BY <4>3, <4>4
    <3>4. /\ Shape(I, image)
          /\ \A map : Marked(I, map, disk) => Marked(I, map, image)
          /\ \A map : Exact(I, map, disk) => Exact(I, map, image)
      <4>1. \A b \in I : /\ image[b] \in Inode /\ image[b].type = disk[b].type
                         /\ image[b].size = disk[b].size /\ image[b].ptrs = disk[b].ptrs
        BY <2>1, <3>1 DEF Shape, Inodal
      <4> QED
        BY <2>1, <3>3, <4>1, Kept
    <3>5. /\ image[disk[d].ptrs[0]].slots[i] = e
          /\ \A j \in Slots \ {i} : image[disk[d].ptrs[0]].slots[j] = Entries(disk, d)[j]
      BY <1>3, <2>6, <2>9, <2>14, <2>15
    <3>6. e.inode = Entries(disk, d)[i].inode
      BY <2>9, <2>11
    <3>7. Name(dst) \in Names
      BY <2>2, <2>5
    <3>8. Reached(I, disk) => Reached(I, image)
      <4>1. /\ image[disk[d].ptrs[0]].slots[i] # NULL
            /\ image[disk[d].ptrs[0]].slots[i].name = Name(dst)
            /\ image[disk[d].ptrs[0]].slots[i].inode = Entries(disk, d)[i].inode
        BY <2>11, <2>12, <3>5, <3>6
      <4>2. Relabels(I, disk, image, d, i, Name(src), Name(dst))
        BY ONLY <1>4, <2>6, <2>8, <3>1, <3>2, <3>5, <3>7, <4>1 DEF Relabels
      <4>3. Shape(I, disk)
        BY <2>1
      <4> QED
        BY ONLY <3>4, <4>2, <4>3, ReachedRenamed
    <3> QED
      BY <2>1, <3>4, <3>8 DEF Held
  <2>16. a \in Blocks /\ new \in Block
    BY <2>7, <2>14 DEF Block
  <2> QED
    BY <1>0, <1>7, <2>15, <2>16, OnePutStep
<1> QED
  BY <1>1, <1>2, <1>3, <1>4, <1>5, <1>6, <1>7 DEF fs_rename, path2inum, DataOf, SlotsOf, Entries


\* What the checks of create and mkdir establish.
LEMMA MakeFacts ==
    ASSUME NEW I, Shape(I, disk), NEW p \in Paths, p # <<>>, MakeError(p) = 0,
           NEW d, d = Walk(disk, Parent(p)), NEW i, i = find_empty(Entries(disk, d))
    PROVE  /\ d \in I /\ disk[d].type = "dir"
           /\ i \in Slots /\ Entries(disk, d)[i] = NULL
           /\ Name(p) \in Names
           /\ \A j \in Slots : Entries(disk, d)[j] # NULL => Entries(disk, d)[j].name # Name(p)
           /\ \A c : Enter(p, c) = Put(disk[d].ptrs[0], [disk[disk[d].ptrs[0]] EXCEPT
                                          !.slots[i] = [name |-> Name(p), inode |-> c]])
<1>1. Parent(p) \in Paths /\ Name(p) \in Names \cup LongNames
  BY ParentFacts
<1>2. SlotsOf(d) = Entries(disk, d) /\ DataOf(d) = disk[d].ptrs[0]
  BY DEF SlotsOf, DataOf, Entries
<1>3. /\ ~ (Walk(disk, p) > 0) /\ Name(p) \notin LongNames /\ ~ (d < 0)
      /\ disk[d].type = "dir" /\ i # 0
  BY <1>2 DEF MakeError, path2inum, IsDir, EEXIST, EINVAL, ENOENT, ENOTDIR, ENOSPC
<1>4. d \in I /\ Walk(disk, p) \notin I
  BY <1>1, <1>3, PathInode
<1>5. i \in Slots /\ Entries(disk, d)[i] = NULL
  BY <1>3, EmptyFacts
<1>6. Name(p) \in Names
  BY <1>1, <1>3
<1>7. \A j \in Slots : Entries(disk, d)[j] # NULL => Entries(disk, d)[j].name # Name(p)
  BY <1>3, <1>4, <1>6, NoEntry
<1>8. \A c : Enter(p, c) = Put(disk[d].ptrs[0], [disk[disk[d].ptrs[0]] EXCEPT
                                  !.slots[i] = [name |-> Name(p), inode |-> c]])
  BY <1>2, Zenon DEF Enter, path2inum
<1> QED
  BY <1>3, <1>4, <1>5, <1>6, <1>7, <1>8

\* What create and mkdir write: a new inode, the entries of a new directory,
\* and the entry in its parent; nothing else that is in use changes.
Blank(in, c) ==
    /\ in.type = "file" => in.size = 0
    /\ in.type = "dir" => in.size # 0 /\ in.ptrs[0] \in Blocks \ ({0, 1, c} \cup InUse)
EntryMade(image, a, i, e, c, in) ==
    /\ image[c] = in /\ (in.type = "dir" => image[in.ptrs[0]] = NoEntries)
    /\ image[a] \in DirBlock
    /\ \A j \in Slots : image[a].slots[j] = IF j = i THEN e ELSE disk[a].slots[j]
    /\ \A b \in Blocks \cap InUse : b # a => image[b] = disk[b]
MarkedNew(map, c, in) ==
    /\ map \subseteq Blocks
    /\ \A x \in Blocks : x \in map <=> x \in InUse \/ x = c \/ \E k \in Pointers(in) : x = in.ptrs[k]

\* How the image differs once the entry is written.
Gains(I, image, d, i, name, c) ==
    /\ c \notin I /\ Shape(I \cup {c}, image)
    /\ \A b \in I : image[b] = disk[b]
    /\ \A b \in I \ {d} : disk[b].type = "dir" => image[disk[b].ptrs[0]] = disk[disk[b].ptrs[0]]
    /\ image[disk[d].ptrs[0]].slots[i] # NULL
    /\ image[disk[d].ptrs[0]].slots[i].name = name
    /\ image[disk[d].ptrs[0]].slots[i].inode = c
    /\ \A j \in Slots \ {i} : image[disk[d].ptrs[0]].slots[j] = Entries(disk, d)[j]

LEMMA MadeShape ==
    ASSUME NEW I, I \subseteq Blocks, Shape(I, disk), Marked(I, InUse, disk),
           NEW p \in Paths, p # <<>>, NEW d \in I, disk[d].type = "dir",
           NEW i \in Slots, Entries(disk, d)[i] = NULL, Name(p) \in Names,
           NEW c \in Blocks \ ({0, 1} \cup InUse), NEW in \in Inode, Blank(in, c),
           NEW a, a = disk[d].ptrs[0], NEW e, e = [name |-> Name(p), inode |-> c],
           NEW image, EntryMade(image, a, i, e, c, in),
           NEW map, MarkedNew(map, c, in)
    PROVE  /\ Gains(I, image, d, i, Name(p), c) /\ Marked(I \cup {c}, map, image)
           /\ Exact(I, InUse, disk) => Exact(I \cup {c}, map, image)
<1>0. /\ image[c] = in /\ (in.type = "dir" => image[in.ptrs[0]] = NoEntries)
      /\ image[a] \in DirBlock
      /\ \A j \in Slots : image[a].slots[j] = IF j = i THEN e ELSE disk[a].slots[j]
      /\ \A b \in Blocks \cap InUse : b # a => image[b] = disk[b]
  BY DEF EntryMade
<1>b. /\ in.type = "file" => in.size = 0
      /\ in.type = "dir" => in.size # 0 /\ in.ptrs[0] \in Blocks \ ({0, 1, c} \cup InUse)
  BY DEF Blank
<1>1. /\ disk[d].ptrs[0] \in Blocks \ ({0, 1} \cup I)
      /\ \A b \in I \ {d} : disk[b].type = "dir" => disk[b].ptrs[0] # disk[d].ptrs[0]
  BY DirFacts
<1>2. \A b \in I : image[b] = disk[b]
  BY <1>0, <1>1 DEF Marked
<1>3. ASSUME NEW b \in I \ {d}, disk[b].type = "dir"
      PROVE  image[disk[b].ptrs[0]] = disk[disk[b].ptrs[0]]
  <2>1. disk[b].ptrs[0] \in Blocks /\ disk[b].ptrs[0] # disk[d].ptrs[0]
    BY <1>1, <1>3, DirFacts
  <2>2. disk[b] \in Inode
    BY DEF Shape, Inodal
  <2>3. disk[b].ptrs[0] \in InUse
    BY <1>3, <2>2, PointersFacts DEF Marked
  <2> QED
    BY <1>0, <2>1, <2>3
<1>4. disk[a].slots = Entries(disk, d)
  BY DEF Entries
<1>5. e \in [name : Names, inode : Nat] /\ e.name = Name(p) /\ e.inode = c
  BY BlocksFacts
<1>6. e # NULL /\ e.name = Name(p) /\ e.inode = c
  BY <1>5, SentinelAssumption
<1>7. image[disk[d].ptrs[0]].slots[i] = e /\ image[disk[d].ptrs[0]] \in DirBlock
  BY <1>0, <1>5
<1>8. \A j \in Slots \ {i} : image[disk[d].ptrs[0]].slots[j] = Entries(disk, d)[j]
  BY <1>0, <1>4
<1>9. /\ image[c] \in Inode
      /\ image[c].type = "file" => image[c].size = 0
      /\ image[c].type = "dir" => /\ image[c].size # 0
                                  /\ image[c].ptrs[0] \in Blocks \ ({0, 1, c} \cup InUse)
                                  /\ image[image[c].ptrs[0]] \in DirBlock
                                  /\ \A j \in Slots : Entries(image, c)[j] = NULL
  BY <1>0, <1>b DEF NoEntries, DirBlock, Entries
<1>a. \A x \in Blocks : x \in map <=>
         x \in InUse \/ x = c \/ \E k \in Pointers(image[c]) : x = image[c].ptrs[k]
  BY <1>0 DEF MarkedNew
<1>10. /\ c \notin I
       /\ Shape(I \cup {c}, image) /\ Marked(I \cup {c}, map, image)
       /\ Exact(I, InUse, disk) => Exact(I \cup {c}, map, image)
  <2>1. image[disk[d].ptrs[0]].slots[i] # NULL /\ image[disk[d].ptrs[0]].slots[i].inode = c
    BY <1>6, <1>7
  <2>2. /\ Shape(I, disk) /\ Marked(I, InUse, disk) /\ d \in I /\ disk[d].type = "dir"
        /\ i \in Slots /\ Entries(disk, d)[i] = NULL /\ c \in Blocks \ ({0, 1} \cup InUse)
        /\ map \subseteq Blocks
    BY DEF MarkedNew
  <2> QED
    <3>1. Enters(I, disk, InUse, image, map, d, i, c)
      BY ONLY <1>a, <1>2, <1>3, <1>7, <1>8, <1>9, <2>1 DEF Enters
    <3> QED
      BY ONLY <2>2, <3>1, Entered
<1> QED
  BY <1>2, <1>3, <1>6, <1>7, <1>8, <1>10 DEF Gains

LEMMA MadeHeld ==
    ASSUME NEW I, I \subseteq Blocks, Shape(I, disk), Marked(I, InUse, disk),
           aborted = "no" => Exact(I, InUse, disk) /\ Reached(I, disk),
           NEW p \in Paths, p # <<>>, NEW d \in I, d = Walk(disk, Parent(p)), disk[d].type = "dir",
           NEW i \in Slots, Entries(disk, d)[i] = NULL, Name(p) \in Names,
           \A j \in Slots : Entries(disk, d)[j] # NULL => Entries(disk, d)[j].name # Name(p),
           NEW c \in Blocks \ ({0, 1} \cup InUse), NEW in \in Inode, Blank(in, c),
           NEW a, a = disk[d].ptrs[0], NEW e, e = [name |-> Name(p), inode |-> c],
           NEW image, EntryMade(image, a, i, e, c, in),
           NEW map, MarkedNew(map, c, in)
    PROVE  Held(map, image, aborted = "no")
<1>1. /\ Gains(I, image, d, i, Name(p), c) /\ Marked(I \cup {c}, map, image)
      /\ Exact(I, InUse, disk) => Exact(I \cup {c}, map, image)
  BY MadeShape
<1>2. Shape(I \cup {c}, image)
  BY <1>1 DEF Gains
<1>3. ASSUME Reached(I, disk) PROVE Reached(I \cup {c}, image)
  <2>1. /\ c \notin I /\ Shape(I \cup {c}, image)
        /\ \A b \in I : image[b] = disk[b]
        /\ \A b \in I \ {d} : disk[b].type = "dir" => image[disk[b].ptrs[0]] = disk[disk[b].ptrs[0]]
        /\ image[disk[d].ptrs[0]].slots[i] # NULL
        /\ image[disk[d].ptrs[0]].slots[i].name = Name(p)
        /\ image[disk[d].ptrs[0]].slots[i].inode = c
        /\ \A j \in Slots \ {i} : image[disk[d].ptrs[0]].slots[j] = Entries(disk, d)[j]
    BY <1>1 DEF Gains
  <2>2. /\ Shape(I, disk) /\ p \in Paths /\ p # <<>> /\ d \in I /\ d = Walk(disk, Parent(p))
        /\ Name(p) \in Names /\ disk[d].type = "dir" /\ i \in Slots /\ Entries(disk, d)[i] = NULL
        /\ \A j \in Slots : Entries(disk, d)[j] # NULL => Entries(disk, d)[j].name # Name(p)
    OBVIOUS
  <2> QED
    <3>1. EntersPath(I, disk, image, p, d, i, c)
      BY ONLY <2>1, <2>2 DEF EntersPath
    <3> QED
      BY ONLY <1>3, <2>1, <2>2, <3>1, ReachedEntered
<1>4. I \cup {c} \in SUBSET Blocks
  OBVIOUS
<1> QED
  BY <1>1, <1>2, <1>3, <1>4 DEF Held

\* create and mkdir mark and write the blocks they allocated, and the entry last.
Makes(writes, n, p, c, in) ==
    /\ Blank(in, c)
    /\ n >= 1 /\ n + 1 = Len(writes)
    /\ writes[1].op = "set"
    /\ \A i \in 1..n : writes[i].op \in {"set", "put"} /\ writes[i].blk \in Blocks \ InUse
    /\ \A i \in 1..n : writes[i].op = "put" => writes[i].block \in Block
    /\ \E k \in 1..n : /\ writes[k] = Put(c, in)
                       /\ \A i \in (k+1)..n : writes[i].op # "put"
    /\ in.type = "dir" => \E k \in 1..n :
          /\ writes[k] = Put(in.ptrs[0], NoEntries)
          /\ \A i \in (k+1)..n : writes[i].op = "put" => writes[i].blk # in.ptrs[0]
    /\ \A x \in Blocks : (\E i \in 1..n : writes[i].op = "set" /\ writes[i].blk = x) <=>
          x = c \/ \E k \in Pointers(in) : x = in.ptrs[k]
    /\ writes[n + 1] = Enter(p, c)

\* The writes of create and mkdir are those of an entry made.
LEMMA MadeImage ==
    ASSUME NEW I, I \subseteq Blocks, Shape(I, disk), Marked(I, InUse, disk),
           NEW p \in Paths, p # <<>>, MakeError(p) = 0,
           NEW d, d = Walk(disk, Parent(p)), NEW i, i = find_empty(Entries(disk, d)),
           NEW a, a = disk[d].ptrs[0], NEW c \in Blocks \ ({0, 1} \cup InUse), NEW in \in Inode,
           NEW e, e = [name |-> Name(p), inode |-> c],
           NEW writes, NEW n \in Nat, Makes(writes, n, p, c, in),
           NEW image, image = block_write(disk, writes, n + 1)
    PROVE  /\ EntryMade(image, a, i, e, c, in)
           /\ writes[n + 1].op = "put" /\ writes[n + 1].block \in DirBlock
<1> USE DEF Makes
<1>2. PICK new : new = [disk[a] EXCEPT !.slots[i] = e]
  OBVIOUS
<1>6. /\ d \in I /\ disk[d].type = "dir"
      /\ i \in Slots /\ Entries(disk, d)[i] = NULL /\ Name(p) \in Names
      /\ \A j \in Slots : Entries(disk, d)[j] # NULL => Entries(disk, d)[j].name # Name(p)
  BY MakeFacts
<1>7. writes[n + 1] = Put(a, new)
  <2>1. \A x : Enter(p, x) = Put(disk[d].ptrs[0], [disk[disk[d].ptrs[0]] EXCEPT
                                 !.slots[i] = [name |-> Name(p), inode |-> x]])
    BY Zenon DEF Enter, path2inum, DataOf, SlotsOf, Entries
  <2>2. Enter(p, c) = Put(disk[d].ptrs[0], [disk[disk[d].ptrs[0]] EXCEPT
                                 !.slots[i] = [name |-> Name(p), inode |-> c]])
    BY <2>1, Zenon
  <2> QED
    BY <1>2, <2>2, Zenon
<1>8. a \in Blocks /\ a \in InUse /\ disk[a] \in DirBlock /\ a # c
  <2>1. disk[d] \in Inode
    BY <1>6 DEF Shape, Inodal
  <2>2. a \in InUse
    BY <1>6, <2>1, PointersFacts DEF Marked
  <2> QED
    BY <1>6, <2>2, DirFacts
<1>9. /\ new \in DirBlock
      /\ \A j \in Slots : new.slots[j] = IF j = i THEN e ELSE disk[a].slots[j]
  <2>1. e \in Dirent \cup {NULL}
    BY <1>6 DEF Dirent
  <2>2. i \in Slots /\ disk[a] \in DirBlock
    BY <1>6, <1>8
  <2> QED
    BY ONLY <1>2, <2>1, <2>2 DEF DirBlock
<1>10. writes[n + 1].op = "put" /\ writes[n + 1].blk = a /\ writes[n + 1].block = new
  BY <1>7 DEF Put
<1>11. n + 1 \in Nat /\ \A k \in 1..(n + 1) : k \in 1..n \/ k = n + 1
  OBVIOUS
<1>12. image = block_write(disk, writes, n + 1) /\ c \in Blocks
  OBVIOUS
<1>13. image[a] = new
  <2>1. n + 1 \in 1..(n + 1) /\ \A k \in (n + 1 + 1)..(n + 1) : FALSE
    OBVIOUS
  <2> QED
    BY ONLY <1>8, <1>10, <1>11, <1>12, <2>1, BlockPut
<1>14. image[c] = in
  <2>1. PICK k \in 1..n : writes[k] = Put(c, in) /\ \A j \in (k+1)..n : writes[j].op # "put"
    OBVIOUS
  <2>2. k \in 1..(n + 1) /\ \A j \in (k+1)..(n + 1) : j \in (k+1)..n \/ j = n + 1
    OBVIOUS
  <2>3. writes[k].op = "put" /\ writes[k].blk = c /\ writes[k].block = in
    BY <2>1 DEF Put
  <2>4. \A j \in (k+1)..(n + 1) : writes[j].op = "put" => writes[j].blk # c
    BY <1>8, <1>10, <2>1, <2>2
  <2> QED
    BY ONLY <1>11, <1>12, <2>2, <2>3, <2>4, BlockPut
<1>15. in.type = "dir" => image[in.ptrs[0]] = NoEntries
  <2> SUFFICES ASSUME in.type = "dir" PROVE image[in.ptrs[0]] = NoEntries
    OBVIOUS
  <2>0. PICK x : x = in.ptrs[0]
    OBVIOUS
  <2>1. PICK k \in 1..n : /\ writes[k] = Put(x, NoEntries)
                          /\ \A j \in (k+1)..n : writes[j].op = "put" => writes[j].blk # x
    BY <2>0
  <2>2. k \in 1..(n + 1) /\ \A j \in (k+1)..(n + 1) : j \in (k+1)..n \/ j = n + 1
    OBVIOUS
  <2>3. writes[k].op = "put" /\ writes[k].blk = x /\ writes[k].block = NoEntries
    BY <2>1 DEF Put
  <2>4. x \in Blocks /\ x # a
    BY <1>8, <2>0 DEF Blank
  <2>5. \A j \in (k+1)..(n + 1) : writes[j].op = "put" => writes[j].blk # x
    BY <1>10, <2>1, <2>2, <2>4
  <2>6. image[x] = NoEntries
    BY ONLY <1>11, <1>12, <2>2, <2>3, <2>4, <2>5, BlockPut
  <2> QED
    BY <2>0, <2>6
<1>16. ASSUME NEW b \in Blocks \cap InUse, b # a PROVE image[b] = disk[b]
  <2>1. \A k \in 1..(n + 1) : writes[k].op = "put" => writes[k].blk # b
    BY <1>10, <1>11, <1>16
  <2> QED
    BY <1>11, <2>1, BlockLeft
<1>17. /\ image[a] \in DirBlock
       /\ \A j \in Slots : image[a].slots[j] = IF j = i THEN e ELSE disk[a].slots[j]
  BY <1>9, <1>13
<1>18. writes[n + 1].op = "put" /\ writes[n + 1].block \in DirBlock
  BY <1>9, <1>10
<1> QED
  BY ONLY <1>14, <1>15, <1>16, <1>17, <1>18 DEF EntryMade

LEMMA MakeStep ==
    ASSUME IInv, Serving, NEW p \in Paths, p # <<>>, MakeError(p) = 0,
           NEW c \in Blocks \ ({0, 1} \cup InUse), NEW in \in Inode,
           NEW call, NEW code, NEW writes, Commit(call, code, writes),
           NEW n \in Nat, Makes(writes, n, p, c, in)
    PROVE  IInv'
<1> USE DEF Makes
<1>1. PICK I \in SUBSET Blocks : /\ Shape(I, disk) /\ Marked(I, InUse, disk)
                                 /\ aborted = "no" => Exact(I, InUse, disk) /\ Reached(I, disk)
  BY HeldNow DEF Held
<1>2. PICK d : d = Walk(disk, Parent(p))
  OBVIOUS
<1>3. PICK i : i = find_empty(Entries(disk, d))
  OBVIOUS
<1>4. PICK a : a = disk[d].ptrs[0]
  OBVIOUS
<1>5. PICK e : e = [name |-> Name(p), inode |-> c]
  OBVIOUS
<1>6. /\ d \in I /\ disk[d].type = "dir"
      /\ i \in Slots /\ Entries(disk, d)[i] = NULL /\ Name(p) \in Names
      /\ \A j \in Slots : Entries(disk, d)[j] # NULL => Entries(disk, d)[j].name # Name(p)
  BY <1>1, <1>2, <1>3, MakeFacts
<1>7. PICK image : image = block_write(disk, writes, n + 1)
  OBVIOUS
<1>8. PICK map : map = MarkedAfter(InUse, writes, n + 1)
  OBVIOUS
<1> HIDE DEF Makes
<1>9. /\ EntryMade(image, a, i, e, c, in)
      /\ writes[n + 1].op = "put" /\ writes[n + 1].block \in DirBlock
  BY <1>1, <1>2, <1>3, <1>4, <1>5, <1>7, MadeImage
<1> USE DEF Makes
<1>11. n + 1 \in Nat /\ \A k \in 1..(n + 1) : k \in 1..n \/ k = n + 1
  OBVIOUS
<1>12. \A k \in 1..(n + 1) : writes[k].op = "put" => writes[k].block \in Block
  BY <1>9, <1>11 DEF Block
<1>13. Held(MarkedAfter(InUse, writes, n + 1), block_write(disk, writes, n + 1), aborted = "no")
  <2>7. ASSUME NEW x \in Blocks
        PROVE  x \in map <=> x \in InUse \/ x = c \/ \E k \in Pointers(in) : x = in.ptrs[k]
    <3>1. \A k \in 1..(n + 1) : writes[k].op # "clear"
      BY <1>9, <1>11
    <3>2. x \in map <=> x \in InUse \/ \E k \in 1..(n + 1) : writes[k].op = "set" /\ writes[k].blk = x
      BY <1>8, <1>11, <3>1, MarkSet
    <3>3. (\E k \in 1..(n + 1) : writes[k].op = "set" /\ writes[k].blk = x)
          <=> (\E k \in 1..n : writes[k].op = "set" /\ writes[k].blk = x)
      BY <1>9, <1>11
    <3> QED
      BY <3>2, <3>3
  <2>8. MarkedNew(map, c, in)
    BY <1>8, <2>7 DEF MarkedAfter, MarkedNew
  <2>9. Held(map, image, aborted = "no")
    <3>1. /\ p \in Paths /\ p # <<>> /\ I \subseteq Blocks
          /\ c \in Blocks \ ({0, 1} \cup InUse) /\ in \in Inode /\ Blank(in, c)
      OBVIOUS
    <3> QED
      BY ONLY <1>1, <1>2, <1>4, <1>5, <1>6, <1>9, <2>8, <3>1, MadeHeld
  <2> QED
    BY <1>7, <1>8, <2>9, Zenon
<1>14. ASSUME NEW m \in 1..n
       PROVE  /\ \E k \in 1..m : writes[k].op # "clear"
              /\ Held(MarkedAfter(InUse, writes, m), block_write(disk, writes, m), FALSE)
  <2>1. m \in Nat /\ 1 \in 1..m /\ \A k \in 1..m : k \in 1..n
    OBVIOUS
  <2>2. \A k \in 1..m : writes[k].op \in {"set", "put"}
    BY <2>1
  <2>3. ASSUME NEW k \in 1..m
        PROVE  /\ writes[k].blk \notin I
               /\ \A b \in I : disk[b].type = "dir" => writes[k].blk # disk[b].ptrs[0]
    <3>1. writes[k].blk \notin InUse
      BY <2>1
    <3>2. \A b \in I : b \in InUse
      BY <1>1 DEF Marked
    <3>3. \A b \in I : disk[b] \in Inode
      BY <1>1 DEF Shape, Inodal
    <3>4. \A b \in I : disk[b].type = "dir" => disk[b].ptrs[0] \in InUse
      BY <1>1, <3>3, PointersFacts DEF Marked
    <3> QED
      BY <3>1, <3>2, <3>4
  <2>4. Held(MarkedAfter(InUse, writes, m), block_write(disk, writes, m), FALSE)
    <3>1. PICK mapM : mapM = MarkedAfter(InUse, writes, m)
      OBVIOUS
    <3>2. PICK imageM : imageM = block_write(disk, writes, m)
      OBVIOUS
    <3>3. Shape(I, imageM) /\ Marked(I, mapM, imageM)
      <4>1. \A k \in 1..m : writes[k].op = "put" =>
                /\ writes[k].blk \notin I
                /\ \A b \in I : disk[b].type = "dir" => writes[k].blk # disk[b].ptrs[0]
        BY <2>3
      <4>2. I \subseteq Blocks /\ m \in Nat /\ Shape(I, disk) /\ Marked(I, InUse, disk)
        BY <1>1, <2>1
      <4> QED
        BY ONLY <2>2, <3>1, <3>2, <4>1, <4>2, Harmless
    <3> QED
      BY <3>1, <3>2, <3>3 DEF Held
  <2> QED
    BY <2>1, <2>4
<1>15. (n + 1) - 1 = n
  OBVIOUS
<1>16. \E k \in 1..(n + 1) : writes[k].op # "clear"
  <2>1. n + 1 \in 1..(n + 1)
    BY <1>11
  <2> QED
    BY <1>9, <2>1
<1>17. IInv /\ Serving /\ n + 1 = Len(writes) /\ Commit(call, code, writes)
  OBVIOUS
<1> QED
  BY ONLY <1>11, <1>12, <1>13, <1>14, <1>15, <1>16, <1>17, CommitStep

\* The block of entries is written in its format, wherever the inode is.
LEMMA EnterTyped ==
    ASSUME NEW I, Shape(I, disk), NEW p \in Paths, p # <<>>, MakeError(p) = 0, NEW c \in Blocks
    PROVE  Enter(p, c).op = "put" /\ Enter(p, c).block \in DirBlock
<1>1. PICK d : d = Walk(disk, Parent(p))
  OBVIOUS
<1>2. PICK i : i = find_empty(Entries(disk, d))
  OBVIOUS
<1>3. PICK a : a = disk[d].ptrs[0]
  OBVIOUS
<1>4. PICK e : e = [name |-> Name(p), inode |-> c]
  OBVIOUS
<1>5. PICK new : new = [disk[a] EXCEPT !.slots[i] = e]
  OBVIOUS
<1>6. d \in I /\ disk[d].type = "dir" /\ i \in Slots /\ Name(p) \in Names
  BY <1>1, <1>2, MakeFacts
<1>7. Enter(p, c) = Put(a, new)
  <2>1. \A x : Enter(p, x) = Put(disk[d].ptrs[0], [disk[disk[d].ptrs[0]] EXCEPT
                                 !.slots[i] = [name |-> Name(p), inode |-> x]])
    BY <1>1, <1>2, Zenon DEF Enter, path2inum, DataOf, SlotsOf, Entries
  <2>2. Enter(p, c) = Put(disk[d].ptrs[0], [disk[disk[d].ptrs[0]] EXCEPT
                                 !.slots[i] = [name |-> Name(p), inode |-> c]])
    BY <2>1, Zenon
  <2> QED
    BY <1>3, <1>4, <1>5, <2>2, Zenon
<1>8. disk[a] \in DirBlock
  BY <1>3, <1>6, DirFacts
<1>9. e \in Dirent \cup {NULL}
  BY <1>4, <1>6 DEF Dirent
<1>10. new \in DirBlock
  BY ONLY <1>5, <1>6, <1>8, <1>9 DEF DirBlock
<1> QED
  BY <1>7, <1>10 DEF Put

LEMMA NewInodes ==
    ASSUME NEW perm \in Perms
    PROVE  /\ NewFile(perm) \in Inode /\ NewFile(perm).type = "file" /\ NewFile(perm).size = 0
           /\ Pointers(NewFile(perm)) = {}
           /\ \A x \in Blocks : /\ NewDir(perm, x) \in Inode /\ NewDir(perm, x).type = "dir"
                                /\ NewDir(perm, x).size # 0 /\ NewDir(perm, x).ptrs[0] = x
                                /\ Pointers(NewDir(perm, x)) = {0}
<1>1. FS_BLOCK_SIZE \in Nat \ {0} /\ NUM_PTRS_INODE \in Nat \ {0}
  BY SizesAssumption
<1>2. FS_BLOCK_SIZE * NUM_PTRS_INODE \in Nat /\ FS_BLOCK_SIZE =< FS_BLOCK_SIZE * NUM_PTRS_INODE
  BY <1>1
<1>3. 0 \in Ptrs /\ FS_BLOCK_SIZE \in 0..MAX_FILE /\ 0 \in 0..MAX_FILE
  BY <1>1, <1>2 DEF Ptrs, MAX_FILE
<1>4. NewFile(perm) \in Inode /\ NewFile(perm).type = "file" /\ NewFile(perm).size = 0
  BY <1>3 DEF NewFile, NoPtrs, Inode
<1>5. ASSUME NEW x \in Blocks
      PROVE  /\ NewDir(perm, x) \in Inode /\ NewDir(perm, x).type = "dir"
             /\ NewDir(perm, x).size # 0 /\ NewDir(perm, x).ptrs[0] = x
  <2>1. [NoPtrs EXCEPT ![0] = x] \in [Ptrs -> Blocks \cup {JUNK}]
    BY DEF NoPtrs
  <2>2. [NoPtrs EXCEPT ![0] = x][0] = x
    BY <1>3 DEF NoPtrs
  <2> QED
    BY <1>1, <1>3, <2>1, <2>2 DEF NewDir, Inode
<1> QED
  BY <1>4, <1>5, PointersFacts

\* The writes of create, once the inode's block is found.
CreateWrites(p, c, in) == <<Set(c), Put(c, in), Enter(p, c)>>

LEMMA CreateMakes ==
    ASSUME NEW p, NEW perm \in Perms, NEW c \in Blocks \ ({0, 1} \cup InUse),
           NEW in, in = NewFile(perm), NEW writes, writes = CreateWrites(p, c, in)
    PROVE  in \in Inode /\ Makes(writes, 2, p, c, in)
<1>2. in \in Inode /\ in.type = "file" /\ in.size = 0 /\ Pointers(in) = {}
  BY NewInodes
<1>3. /\ Len(writes) = 2 + 1 /\ 2 \in Nat
      /\ writes[1] = Set(c) /\ writes[2] = Put(c, in) /\ writes[2 + 1] = Enter(p, c)
  BY DEF CreateWrites
<1>4. /\ writes[1].op = "set" /\ writes[1].blk = c
      /\ writes[2].op = "put" /\ writes[2].blk = c /\ writes[2].block = in
  BY <1>3 DEF Set, Put
<1>5. \A i \in 1..2 : i = 1 \/ i = 2
  OBVIOUS
<1>6. 1 \in 1..2 /\ 2 \in 1..2 /\ 2 >= 1 /\ \A i \in (2+1)..2 : FALSE
  OBVIOUS
<1>7. \A i \in 1..2 : writes[i].op \in {"set", "put"} /\ writes[i].blk \in Blocks \ InUse
  BY <1>4, <1>5
<1>8. \A i \in 1..2 : writes[i].op = "put" => writes[i].block \in Block
  BY <1>2, <1>4, <1>5 DEF Block
<1>9. \A x \in Blocks : (\E i \in 1..2 : writes[i].op = "set" /\ writes[i].blk = x) <=>
          x = c \/ \E k \in Pointers(in) : x = in.ptrs[k]
  BY <1>2, <1>4, <1>5, <1>6
<1>10. \E k \in 1..2 : writes[k] = Put(c, in) /\ \A i \in (k+1)..2 : writes[i].op # "put"
  BY <1>3, <1>6
<1>11. in.type = "file" => in.size = 0
  BY <1>2
<1>12. in.type # "dir"
  BY <1>2
<1> QED
  BY <1>2, <1>3, <1>4, <1>6, <1>7, <1>8, <1>9, <1>10, <1>11, <1>12 DEF Makes, Blank

LEMMA CreateStep ==
    ASSUME IInv, NEW p \in NonRoot, NEW perm \in Perms, fs_create(p, perm)
    PROVE  IInv'
<1>0. Serving /\ p \in Paths /\ p # <<>>
  BY DEF fs_create, NonRoot
<1>1. PICK call : call = [op |-> "create", path |-> p, perm |-> perm]
  OBVIOUS
<1>2. PICK c : c = alloc_blk(bitmap)
  OBVIOUS
<1>3. PICK in : in = NewFile(perm)
  OBVIOUS
<1>4. PICK writes : writes = <<Set(c), Put(c, in), Enter(p, c)>>
  OBVIOUS
<1>5. CASE Refuse(call, MakeError(p)) \/ Refuse(call, c)
  BY <1>0, <1>5, RefuseStep
<1>6. CASE MakeError(p) = 0 /\ c > 0 /\ Commit(call, 0, writes)
  <2>1. c \in Blocks \ ({0, 1} \cup bitmap)
    BY <1>2, <1>6, AllocFacts
  <2>2. /\ Len(writes) = 3 /\ writes[1] = Set(c) /\ writes[2] = Put(c, in)
        /\ writes[3] = Enter(p, c) /\ 3 \in Nat
    BY <1>4
  <2>3. CASE aborted' = "reused"
    <3>1. PICK I \in SUBSET Blocks : Shape(I, disk)
      BY <1>0, HeldNow DEF Held
    <3>2. Enter(p, c).block \in DirBlock
      BY <1>0, <1>6, <2>1, <3>1, EnterTyped
    <3>3. in \in Inode
      BY <1>3, NewInodes
    <3>4. writes[1].op # "put" /\ writes[2].block = in /\ writes[3].block \in DirBlock
      BY <2>2, <3>2 DEF Set, Put
    <3>5. \A i \in 1..3 : i = 1 \/ i = 2 \/ i = 3
      OBVIOUS
    <3>6. \A i \in 1..3 : writes[i].op = "put" => writes[i].block \in Block
      BY <3>3, <3>4, <3>5 DEF Block
    <3> QED
      BY <1>0, <1>6, <2>2, <2>3, <3>6, CommitTyped
  <2>4. CASE aborted' # "reused"
    <3>1. 1 \in 1..Len(writes) /\ writes[1].op = "set" /\ writes[1].blk = c
      BY <2>2 DEF Set
    <3>2. c \notin loose
      BY <1>6, <2>4, <3>1, NotReused
    <3>3. c \in Blocks \ ({0, 1} \cup InUse)
      BY <2>1, <3>2 DEF InUse
    <3>4. in \in Inode /\ Makes(writes, 2, p, c, in) /\ 2 \in Nat
      BY <1>3, <1>4, <3>3, CreateMakes DEF CreateWrites
    <3> QED
      BY <1>0, <1>6, <3>3, <3>4, MakeStep
  <2> QED
    BY <2>3, <2>4
<1> QED
  BY <1>1, <1>2, <1>3, <1>4, <1>5, <1>6, Zenon DEF fs_create

\* The writes of mkdir, once both blocks are found.
LEMMA MkdirMakes ==
    ASSUME NEW p, NEW perm \in Perms, NEW c \in Blocks \ ({0, 1} \cup InUse),
           NEW x \in Blocks \ ({0, 1, c} \cup InUse), ~ (x < 0), NEW in, in = NewDir(perm, x),
           NEW writes, writes = MkdirWrites(p, perm, c, x)
    PROVE  in \in Inode /\ Makes(writes, 4, p, c, in)
<1>3. /\ in \in Inode /\ in.type = "dir" /\ in.size # 0 /\ in.ptrs[0] = x /\ Pointers(in) = {0}
  BY NewInodes
<1>4. writes = <<Set(c), Set(x), Put(x, NoEntries), Put(c, in), Enter(p, c)>>
  BY DEF MkdirWrites
<1>5. /\ Len(writes) = 4 + 1 /\ 4 \in Nat
      /\ writes[1] = Set(c) /\ writes[2] = Set(x) /\ writes[3] = Put(x, NoEntries)
      /\ writes[4] = Put(c, in) /\ writes[4 + 1] = Enter(p, c)
  BY <1>4
<1>6. /\ writes[1].op = "set" /\ writes[1].blk = c
      /\ writes[2].op = "set" /\ writes[2].blk = x
      /\ writes[3].op = "put" /\ writes[3].blk = x /\ writes[3].block = NoEntries
      /\ writes[4].op = "put" /\ writes[4].blk = c /\ writes[4].block = in
  BY <1>5 DEF Set, Put
<1>7. \A i \in 1..4 : i = 1 \/ i = 2 \/ i = 3 \/ i = 4
  OBVIOUS
<1>8. /\ 1 \in 1..4 /\ 2 \in 1..4 /\ 3 \in 1..4 /\ 4 \in 1..4 /\ 4 >= 1
      /\ (\A i \in (4+1)..4 : FALSE) /\ (\A i \in (3+1)..4 : i = 4)
  OBVIOUS
<1>9. \A i \in 1..4 : writes[i].op \in {"set", "put"} /\ writes[i].blk \in Blocks \ InUse
  BY <1>6, <1>7
<1>10. \A i \in 1..4 : writes[i].op = "put" => writes[i].block \in Block
  <2>1. NoEntries \in DirBlock
    BY DEF NoEntries, DirBlock
  <2> QED
    BY <1>3, <1>6, <1>7, <2>1 DEF Block
<1>11. \A y \in Blocks : (\E i \in 1..4 : writes[i].op = "set" /\ writes[i].blk = y) <=>
          y = c \/ \E k \in Pointers(in) : y = in.ptrs[k]
  BY <1>3, <1>6, <1>7, <1>8
<1>12. \E k \in 1..4 : writes[k] = Put(c, in) /\ \A i \in (k+1)..4 : writes[i].op # "put"
  BY <1>5, <1>8
<1>13. \E k \in 1..4 : /\ writes[k] = Put(in.ptrs[0], NoEntries)
                       /\ \A i \in (k+1)..4 : writes[i].op = "put" => writes[i].blk # in.ptrs[0]
  <2>1. \A i \in (3+1)..4 : writes[i].op = "put" => writes[i].blk # in.ptrs[0]
    BY <1>3, <1>6, <1>8
  <2>2. writes[3] = Put(in.ptrs[0], NoEntries)
    BY <1>3, <1>5
  <2> QED
    BY <1>8, <2>1, <2>2
<1>14. in.type = "dir" => in.size # 0 /\ in.ptrs[0] \in Blocks \ ({0, 1, c} \cup InUse)
  BY <1>3
<1>15. in.type # "file"
  BY <1>3
<1> QED
  BY <1>3, <1>5, <1>6, <1>8, <1>9, <1>10, <1>11, <1>12, <1>13, <1>14, <1>15 DEF Makes, Blank

LEMMA MkdirStep ==
    ASSUME IInv, NEW p \in NonRoot, NEW perm \in Perms, fs_mkdir(p, perm)
    PROVE  IInv'
<1>0. Serving /\ p \in Paths /\ p # <<>>
  BY DEF fs_mkdir, NonRoot
<1>1. PICK call : call = [op |-> "mkdir", path |-> p, perm |-> perm]
  OBVIOUS
<1>2. PICK c : c = alloc_blk(bitmap)
  OBVIOUS
<1>3. PICK x : x = alloc_blk(bitmap \cup {c})
  OBVIOUS
<1>4. PICK code : code = IF x < 0 THEN x ELSE 0
  OBVIOUS
<1>5. PICK writes : writes = MkdirWrites(p, perm, c, x)
  OBVIOUS
<1>6. CASE Refuse(call, MakeError(p)) \/ Refuse(call, c)
  BY <1>0, <1>6, RefuseStep
<1>7. CASE MakeError(p) = 0 /\ c > 0 /\ Commit(call, code, writes)
  <2>0. c \in Blocks \ ({0, 1} \cup bitmap)
    BY <1>2, <1>7, AllocFacts
  <2>1. aborted' # "reused" /\ Len(writes) >= 1 /\ Len(writes) \in Nat /\ writes[1] = Set(c)
        => c \in Blocks \ ({0, 1} \cup InUse)
    <3> SUFFICES ASSUME aborted' # "reused", Len(writes) >= 1, Len(writes) \in Nat, writes[1] = Set(c)
                 PROVE  c \notin loose
      BY <2>0 DEF InUse
    <3>1. 1 \in 1..Len(writes) /\ writes[1].op = "set" /\ writes[1].blk = c
      BY DEF Set
    <3> QED
      BY <1>7, <3>1, NotReused
  <2>2. CASE x < 0 /\ aborted' # "reused"
    <3>1. writes = <<Set(c), Clear(c)>>
      BY <1>5, <2>2 DEF MkdirWrites
    <3>2. 2 = Len(writes) /\ 2 \in Nat /\ writes[1] = Set(c) /\ writes[2] = Clear(c)
      BY <3>1
    <3>a. c \in Blocks \ ({0, 1} \cup InUse)
      BY <2>1, <2>2, <3>2
    <3>3. writes[1].op = "set" /\ writes[2].op = "clear" /\ writes[1].blk = c /\ writes[2].blk = c
      BY <3>2 DEF Set, Clear
    <3>4. \A i \in 1..2 : i = 1 \/ i = 2
      OBVIOUS
    <3>5. \A i \in 1..2 : writes[i].op # "put" /\ writes[i].blk = c
      BY <3>3, <3>4
    <3>6. TypeOK
      BY DEF IInv
    <3>7. MarkedAfter(InUse, writes, 2) = InUse
      <4>1. InUse \subseteq Blocks /\ MarkedAfter(InUse, writes, 2) \subseteq Blocks
        BY <3>6 DEF TypeOK, MarkedAfter, InUse
      <4>2. ASSUME NEW b \in Blocks \ {c} PROVE b \in MarkedAfter(InUse, writes, 2) <=> b \in InUse
        BY <3>2, <3>5, MarkLeft
      <4>3. c \notin MarkedAfter(InUse, writes, 2)
        <5>1. PICK W : W = WritesTo(c, {"set", "clear"}, writes, 2)
          OBVIOUS
        <5>2. W \subseteq 0..2 /\ 2 \in W
          BY <3>3, <5>1 DEF WritesTo
        <5>3. Max(W) \in W /\ Max(W) >= 2
          BY <5>2, MaxIn
        <5>a. \A m \in 0..2 : m >= 2 => m = 2
          OBVIOUS
        <5>4. Max(W) = 2
          BY <5>a, <5>2, <5>3
        <5>5. c \in MarkedAfter(InUse, writes, 2) <=> writes[Max(W)].op = "set"
          BY <3>a, <5>1, <5>2, MarkWritten
        <5> QED
          BY <3>3, <5>4, <5>5
      <4> QED
        BY <3>a, <4>1, <4>2, <4>3
    <3>8. block_write(disk, writes, 2) = disk
      <4>1. \A b \in Blocks : block_write(disk, writes, 2)[b] = disk[b]
        BY <3>2, <3>5, BlockLeft
      <4>2. /\ block_write(disk, writes, 2) = [b \in Blocks |-> block_write(disk, writes, 2)[b]]
            /\ disk = [b \in Blocks |-> disk[b]]
        BY <3>6 DEF TypeOK, block_write
      <4> QED
        BY <4>1, <4>2
    <3>9. Held(MarkedAfter(InUse, writes, 2), block_write(disk, writes, 2), aborted = "no")
      BY <1>0, <3>7, <3>8, HeldNow, Zenon
    <3>10. ASSUME NEW m \in 1..(2 - 1)
           PROVE  /\ \E i \in 1..m : writes[i].op # "clear"
                  /\ Held(MarkedAfter(InUse, writes, m), block_write(disk, writes, m), FALSE)
      <4>1. m = 1 /\ m \in Nat /\ 1 \in 1..m
        OBVIOUS
      <4>2. \A i \in 1..m : i = 1
        BY <4>1
      <4>3. PICK I \in SUBSET Blocks : Shape(I, disk) /\ Marked(I, InUse, disk)
        BY <1>0, HeldNow DEF Held
      <4>4. PICK map : map = MarkedAfter(InUse, writes, m)
        OBVIOUS
      <4>5. PICK image : image = block_write(disk, writes, m)
        OBVIOUS
      <4>6. \A i \in 1..m : writes[i].op \in {"set", "put"}
        BY <3>3, <4>2
      <4>7. \A i \in 1..m : writes[i].op = "put" =>
               /\ writes[i].blk \notin I
               /\ \A b \in I : disk[b].type = "dir" => writes[i].blk # disk[b].ptrs[0]
        BY <3>3, <4>2
      <4>8. I \subseteq Blocks
        OBVIOUS
      <4>9. Shape(I, image) /\ Marked(I, map, image)
        BY ONLY <4>1, <4>3, <4>4, <4>5, <4>6, <4>7, <4>8, Harmless
      <4>10. Held(MarkedAfter(InUse, writes, m), block_write(disk, writes, m), FALSE)
        BY <4>4, <4>5, <4>9 DEF Held
      <4> QED
        BY <3>3, <4>1, <4>10
    <3>11. \A i \in 1..2 : writes[i].op = "put" => writes[i].block \in Block
      BY <3>5
    <3>12. \E i \in 1..2 : writes[i].op # "clear"
      BY <3>3
    <3> QED
      BY ONLY IInv, <1>0, <1>7, <3>2, <3>9, <3>10, <3>11, <3>12, CommitStep
  <2>3. CASE x < 0 /\ aborted' = "reused"
    <3>1. writes = <<Set(c), Clear(c)>>
      BY <1>5, <2>3 DEF MkdirWrites
    <3>2. Len(writes) = 2 /\ 2 \in Nat /\ \A i \in 1..2 : writes[i].op # "put"
      BY <3>1 DEF Set, Clear
    <3> QED
      BY <1>0, <1>7, <2>3, <3>2, CommitTyped
  <2>4. CASE ~ (x < 0)
    <3>1. PICK in : in = NewDir(perm, x)
      OBVIOUS
    <3>2. x \in Blocks \ ({0, 1, c} \cup bitmap)
      BY <1>3, <2>4, AllocFacts
    <3>3. writes = <<Set(c), Set(x), Put(x, NoEntries), Put(c, in), Enter(p, c)>>
      BY <1>5, <2>4, <3>1 DEF MkdirWrites
    <3>4. /\ Len(writes) = 5 /\ writes[1] = Set(c) /\ writes[2] = Set(x)
          /\ writes[3] = Put(x, NoEntries) /\ writes[4] = Put(c, in) /\ writes[5] = Enter(p, c)
          /\ 5 \in Nat
      BY <3>3
    <3>5. CASE aborted' = "reused"
      <4>1. PICK I \in SUBSET Blocks : Shape(I, disk)
        BY <1>0, HeldNow DEF Held
      <4>2. Enter(p, c).block \in DirBlock
        BY <1>0, <1>7, <2>0, <4>1, EnterTyped
      <4>3. in \in Inode /\ NoEntries \in DirBlock
        BY <3>1, <3>2, NewInodes DEF NoEntries, DirBlock
      <4>4. /\ writes[1].op # "put" /\ writes[2].op # "put" /\ writes[3].block = NoEntries
            /\ writes[4].block = in /\ writes[5].block \in DirBlock
        BY <3>4, <4>2 DEF Set, Put
      <4>5. \A i \in 1..5 : i = 1 \/ i = 2 \/ i = 3 \/ i = 4 \/ i = 5
        OBVIOUS
      <4>6. \A i \in 1..5 : writes[i].op = "put" => writes[i].block \in Block
        BY <4>3, <4>4, <4>5 DEF Block
      <4> QED
        BY <1>0, <1>7, <3>4, <3>5, <4>6, CommitTyped
    <3>6. CASE aborted' # "reused"
      <4>1. c \in Blocks \ ({0, 1} \cup InUse)
        BY <2>1, <3>4, <3>6
      <4>2. 2 \in 1..Len(writes) /\ writes[2].op = "set" /\ writes[2].blk = x
        BY <3>4 DEF Set
      <4>3. x \notin loose
        BY <1>7, <3>6, <4>2, NotReused
      <4>4. x \in Blocks \ ({0, 1, c} \cup InUse)
        BY <3>2, <4>3 DEF InUse
      <4>5. in \in Inode /\ Makes(writes, 4, p, c, in) /\ 4 \in Nat
        BY <1>5, <2>4, <3>1, <4>1, <4>4, MkdirMakes
      <4> QED
        BY <1>0, <1>7, <4>1, <4>5, MakeStep
    <3> QED
      BY <3>5, <3>6
  <2> QED
    BY <2>2, <2>3, <2>4
<1> QED
  BY <1>1, <1>2, <1>3, <1>4, <1>5, <1>6, <1>7, Zenon DEF fs_mkdir

-----------------------------------------------------------------------------
(* The handlers that remove. *)

\* u holds the elements of s and then those of t.
Joins(u, s, t) ==
    /\ Len(u) = Len(s) + Len(t)
    /\ \A k \in 1..Len(s) : u[k] = s[k]
    /\ \A k \in 1..Len(t) : u[Len(s) + k] = t[k]

LEMMA Concat == \A S : \A s, t \in Seq(S) : s \o t \in Seq(S) /\ Joins(s \o t, s, t)
<1>1. SUFFICES ASSUME NEW S, NEW s \in Seq(S), NEW t \in Seq(S)
               PROVE  s \o t \in Seq(S) /\ Joins(s \o t, s, t)
  OBVIOUS
<1> QED
  BY DEF Joins

\* What the checks of unlink and rmdir establish.
LEMMA RemoveFacts ==
    ASSUME NEW I, Shape(I, disk), NEW p \in Paths, p # <<>>, FindError(p) = 0,
           NEW d, d = Walk(disk, Parent(p)), NEW i, i = find_dirent(Entries(disk, d), Name(p)),
           NEW c, c = Entries(disk, d)[i].inode
    PROVE  /\ d \in I /\ disk[d].type = "dir"
           /\ i \in Slots /\ Entries(disk, d)[i] # NULL
           /\ c \in I \ {ROOT} /\ Walk(disk, p) = c
<1>1. Parent(p) \in Paths
  BY ParentFacts
<1>2. SlotsOf(d) = Entries(disk, d)
  BY DEF SlotsOf, DataOf, Entries
<1>3. ~ (d < 0) /\ disk[d].type = "dir" /\ i # 0
  BY <1>2 DEF FindError, path2inum, IsDir, ENOENT, ENOTDIR
<1>4. d \in I
  BY <1>1, <1>3, PathInode
<1>5. i \in Slots /\ Entries(disk, d)[i] # NULL /\ Entries(disk, d)[i].name = Name(p)
  BY <1>3, FindFacts
<1>6. c \in I \ {ROOT}
  BY <1>3, <1>4, <1>5 DEF Shape, Closed
<1>7. Name(p) \notin LongNames
  <2>1. Entries(disk, d) \in [Slots -> Dirent \cup {NULL}]
    BY <1>3, <1>4, DirFacts
  <2>2. Entries(disk, d)[i] \in Dirent
    BY <1>5, <2>1
  <2>3. Entries(disk, d)[i].name \in Names
    BY <2>2 DEF Dirent
  <2> QED
    BY <1>5, <2>3, NamesAssumption
<1>8. Walk(disk, p) = c
  <2>1. Walk(disk, p) = Lookup(disk, d, Name(p))
    BY <1>4, WalkInto
  <2> QED
    BY <1>3, <1>4, <1>7, <2>1, LookupFacts
<1> QED
  BY <1>3, <1>4, <1>5, <1>6, <1>8

\* The writes of a removal: the data blocks are freed, then the inode; then the
\* entry is cleared.
Frees(writes, n, p, d, a, i, c) ==
    /\ Pointers(disk[c]) = 0..(n - 1)
    /\ Len(writes) = n + 3
    /\ \A k \in 1..n : writes[k] = Clear(disk[c].ptrs[k - 1])
    /\ writes[n + 1] = Clear(c)
    /\ writes[n + 2] = Put(a, [disk[a] EXCEPT !.slots[i] = NULL])
    /\ writes[n + 3] = Put(d, disk[d])

LEMMA FreesFacts ==
    ASSUME NEW n \in Nat, NEW writes, NEW p, NEW d, NEW a, NEW i, NEW c,
           Frees(writes, n, p, d, a, i, c), disk[a] \in DirBlock, i \in Slots, disk[d] \in Inode
    PROVE  \E new :
           /\ \A k \in 1..n : writes[k].op = "clear" /\ writes[k].blk = disk[c].ptrs[k - 1]
           /\ writes[n + 1].op = "clear" /\ writes[n + 1].blk = c
           /\ writes[n + 2].op = "put" /\ writes[n + 2].blk = a /\ writes[n + 2].block = new
           /\ writes[n + 3].op = "put" /\ writes[n + 3].blk = d /\ writes[n + 3].block = disk[d]
           /\ new \in DirBlock
           /\ \A j \in Slots : new.slots[j] = IF j = i THEN NULL ELSE disk[a].slots[j]
<1>0. PICK new : new = [disk[a] EXCEPT !.slots[i] = NULL]
  OBVIOUS
<1>1. \A x : Clear(x).op = "clear" /\ Clear(x).blk = x
  BY DEF Clear
<1>2. \A x, y : Put(x, y).op = "put" /\ Put(x, y).blk = x /\ Put(x, y).block = y
  BY DEF Put
<1>3. \A k \in 1..n : writes[k].op = "clear" /\ writes[k].blk = disk[c].ptrs[k - 1]
  BY <1>1 DEF Frees
<1>4. writes[n + 1] = Clear(c) /\ writes[n + 2] = Put(a, new) /\ writes[n + 3] = Put(d, disk[d])
  BY <1>0, Zenon DEF Frees
<1>5. /\ new \in DirBlock
      /\ \A j \in Slots : new.slots[j] = IF j = i THEN NULL ELSE disk[a].slots[j]
  BY <1>0 DEF DirBlock
<1> QED
  BY <1>1, <1>2, <1>3, <1>4, <1>5

\* Once the entry is cleared, whether or not the parent's inode is written.
EntryCleared(image, a, i) ==
    /\ image[a] \in DirBlock
    /\ \A j \in Slots : image[a].slots[j] = IF j = i THEN NULL ELSE disk[a].slots[j]
    /\ \A b \in Blocks \ {a} : image[b] = disk[b]
LEMMA RemovedImage ==
    ASSUME NEW I, I \subseteq Blocks, Shape(I, disk),
           NEW p, NEW d \in I, disk[d].type = "dir", NEW a, a = disk[d].ptrs[0], NEW i \in Slots, NEW c,
           NEW n \in Nat, NEW writes, Frees(writes, n, p, d, a, i, c),
           NEW m, m = n + 2 \/ m = n + 3,
           NEW image, image = block_write(disk, writes, m)
    PROVE  EntryCleared(image, a, i)
<1>0. disk[a] \in DirBlock /\ disk[d] \in Inode /\ a \in Blocks \ I /\ d \in Blocks /\ a # d
  BY DirFacts DEF Shape, Inodal
<1>2. PICK new :
      /\ \A k \in 1..n : writes[k].op = "clear" /\ writes[k].blk = disk[c].ptrs[k - 1]
      /\ writes[n + 1].op = "clear" /\ writes[n + 1].blk = c
      /\ writes[n + 2].op = "put" /\ writes[n + 2].blk = a /\ writes[n + 2].block = new
      /\ writes[n + 3].op = "put" /\ writes[n + 3].blk = d /\ writes[n + 3].block = disk[d]
      /\ new \in DirBlock
      /\ \A j \in Slots : new.slots[j] = IF j = i THEN NULL ELSE disk[a].slots[j]
  BY <1>0, FreesFacts
<1>3. /\ m \in Nat /\ n + 1 \in 1..m /\ n + 2 \in 1..m
      /\ \A k \in 1..m : k \in 1..n \/ k = n + 1 \/ k = n + 2 \/ k = n + 3
      /\ \A k \in 1..n : k \in 1..m
      /\ \A k \in (n + 2 + 1)..m : k = n + 3
      /\ \A k \in (n + 3 + 1)..m : FALSE
      /\ n + 3 \in 1..m \/ \A k \in 1..m : k # n + 3
  OBVIOUS
<1>4. image[a] = new
  BY <1>0, <1>2, <1>3, BlockPut
<1>5. ASSUME NEW b \in Blocks \ {a} PROVE image[b] = disk[b]
  <2>1. CASE b # d
    <3>1. \A k \in 1..m : writes[k].op = "put" => writes[k].blk # b
      BY <1>2, <1>3, <2>1
    <3> QED
      BY <1>3, <3>1, BlockLeft
  <2>2. CASE b = d /\ n + 3 \in 1..m
    BY <1>2, <1>3, <2>2, BlockPut
  <2>3. CASE b = d /\ \A k \in 1..m : k # n + 3
    <3>1. \A k \in 1..m : writes[k].op = "put" => writes[k].blk # b
      BY <1>2, <1>3, <2>3
    <3> QED
      BY <1>3, <3>1, BlockLeft
  <2> QED
    BY <1>3, <2>1, <2>2, <2>3
<1> QED
  BY <1>2, <1>4, <1>5 DEF EntryCleared

\* Once the entry is cleared the tree is whole again.
LEMMA RemovedHeld ==
    ASSUME NEW I, I \subseteq Blocks, Shape(I, disk), Marked(I, InUse, disk),
           aborted = "no" => Exact(I, InUse, disk) /\ Reached(I, disk),
           NEW p, NEW d \in I, disk[d].type = "dir", NEW a, a = disk[d].ptrs[0],
           NEW i \in Slots, Entries(disk, d)[i] # NULL,
           NEW c \in I \ {ROOT}, c = Entries(disk, d)[i].inode,
           disk[c].type = "dir" => \A j \in Slots : Entries(disk, c)[j] = NULL,
           NEW n \in Nat, NEW writes, Frees(writes, n, p, d, a, i, c),
           NEW m, m = n + 2 \/ m = n + 3,
           NEW image, image = block_write(disk, writes, m),
           NEW map, map = MarkedAfter(InUse, writes, m)
    PROVE  Held(map, image, aborted = "no")
<1>0. disk[a] \in DirBlock /\ disk[d] \in Inode /\ a \in Blocks \ I /\ d \in Blocks /\ a # d
  BY DirFacts DEF Shape, Inodal
<1>2. PICK new :
      /\ \A k \in 1..n : writes[k].op = "clear" /\ writes[k].blk = disk[c].ptrs[k - 1]
      /\ writes[n + 1].op = "clear" /\ writes[n + 1].blk = c
      /\ writes[n + 2].op = "put" /\ writes[n + 2].blk = a /\ writes[n + 2].block = new
      /\ writes[n + 3].op = "put" /\ writes[n + 3].blk = d /\ writes[n + 3].block = disk[d]
      /\ new \in DirBlock
      /\ \A j \in Slots : new.slots[j] = IF j = i THEN NULL ELSE disk[a].slots[j]
  BY <1>0, FreesFacts
<1>3. /\ m \in Nat /\ n + 1 \in 1..m /\ n + 2 \in 1..m
      /\ \A k \in 1..m : k \in 1..n \/ k = n + 1 \/ k = n + 2 \/ k = n + 3
      /\ \A k \in 1..n : k \in 1..m
      /\ \A k \in (n + 2 + 1)..m : k = n + 3
      /\ \A k \in (n + 3 + 1)..m : FALSE
      /\ n + 3 \in 1..m \/ \A k \in 1..m : k # n + 3
  OBVIOUS
<1>5. EntryCleared(image, a, i)
  BY RemovedImage
<1>4. /\ image[a] \in DirBlock
      /\ \A j \in Slots : image[a].slots[j] = IF j = i THEN NULL ELSE disk[a].slots[j]
      /\ \A b \in Blocks \ {a} : image[b] = disk[b]
  BY <1>5 DEF EntryCleared
<1>6. ASSUME NEW x \in Blocks
      PROVE  x \in map <=> x \in InUse /\ x # c /\ \A k \in Pointers(disk[c]) : x # disk[c].ptrs[k]
  <2>1. \A k \in 1..m : writes[k].op # "set"
    BY <1>2, <1>3
  <2>2. x \in map <=> x \in InUse /\ \A k \in 1..m : writes[k].op = "clear" => writes[k].blk # x
    BY <1>3, <2>1, MarkClear
  <2>3. Pointers(disk[c]) = 0..(n - 1)
    BY DEF Frees
  <2>4. ASSUME \A k \in 1..m : writes[k].op = "clear" => writes[k].blk # x
        PROVE  x # c /\ \A k \in Pointers(disk[c]) : x # disk[c].ptrs[k]
    <3>1. x # c
      BY <1>2, <1>3, <2>4
    <3>2. ASSUME NEW k \in 0..(n - 1) PROVE x # disk[c].ptrs[k]
      <4>1. k + 1 \in 1..n /\ (k + 1) - 1 = k
        OBVIOUS
      <4>2. writes[k + 1].op = "clear" /\ writes[k + 1].blk = disk[c].ptrs[k] /\ k + 1 \in 1..m
        BY <1>2, <1>3, <4>1
      <4> QED
        BY <2>4, <4>2
    <3> QED
      BY <2>3, <3>1, <3>2
  <2>5. ASSUME x # c, \A k \in Pointers(disk[c]) : x # disk[c].ptrs[k]
        PROVE  \A k \in 1..m : writes[k].op = "clear" => writes[k].blk # x
    <3>2. ASSUME NEW k \in 1..n PROVE writes[k].blk # x
      <4>1. k - 1 \in Pointers(disk[c])
        BY <2>3
      <4>2. writes[k].blk = disk[c].ptrs[k - 1]
        BY <1>2
      <4> QED
        BY <2>5, <4>1, <4>2
    <3> QED
      BY <1>2, <1>3, <2>5, <3>2
  <2> QED
    BY <2>2, <2>4, <2>5
<1>7. \A b \in I : image[b] = disk[b]
  BY <1>0, <1>4
<1>8. ASSUME NEW b \in I \ {d}, disk[b].type = "dir"
      PROVE  image[disk[b].ptrs[0]] = disk[disk[b].ptrs[0]]
  <2>1. disk[b].ptrs[0] \in Blocks /\ disk[b].ptrs[0] # a
    BY <1>8, DirFacts
  <2> QED
    BY <1>4, <2>1
<1>9. /\ image[disk[d].ptrs[0]] \in DirBlock
      /\ \A j \in Slots : image[disk[d].ptrs[0]].slots[j] = IF j = i THEN NULL ELSE Entries(disk, d)[j]
  <2>1. disk[a].slots = Entries(disk, d)
    BY ONLY a = disk[d].ptrs[0] DEF Entries
  <2> QED
    BY ONLY <1>4, <2>1, a = disk[d].ptrs[0]
<1>10. Removes(I, disk, InUse, image, map, d, i, c)
  BY ONLY <1>6, <1>7, <1>8, <1>9 DEF Removes
<1>11. map \subseteq Blocks
  BY DEF MarkedAfter
<1>12. /\ c \in I \ {ROOT, d}
       /\ Shape(I \ {c}, image) /\ Marked(I \ {c}, map, image)
       /\ Exact(I, InUse, disk) => Exact(I \ {c}, map, image)
  <2>1. /\ Shape(I, disk) /\ Marked(I, InUse, disk) /\ d \in I /\ disk[d].type = "dir"
        /\ i \in Slots /\ Entries(disk, d)[i] # NULL /\ c = Entries(disk, d)[i].inode
        /\ disk[c].type = "dir" => \A j \in Slots : Entries(disk, c)[j] = NULL
    OBVIOUS
  <2>2. Removal(I, disk, InUse, image, map, d, i, c)
    BY <1>10, <1>11, <2>1, Zenon DEF Removal
  <2>3. PICK J : J = I \ {c}
    OBVIOUS
  <2>4. c # d /\ Shape(J, image) /\ Marked(J, map, image) /\ (Exact(I, InUse, disk) => Exact(J, map, image))
    BY ONLY <2>2, <2>3, RemovedTree
  <2> QED
    BY <2>3, <2>4
<1>13. Reached(I, disk) => Reached(I \ {c}, image)
  BY <1>7, <1>8, <1>9, <1>12, ReachedRemoved
<1>14. I \ {c} \in SUBSET Blocks
  OBVIOUS
<1> QED
  BY <1>12, <1>13, <1>14 DEF Held

LEMMA RemoveStep ==
    ASSUME IInv, Serving, NEW p \in Paths, p # <<>>, FindError(p) = 0,
           NEW d, d = Walk(disk, Parent(p)), NEW a, a = disk[d].ptrs[0],
           NEW i, i = find_dirent(Entries(disk, d), Name(p)),
           NEW c, c = Entries(disk, d)[i].inode,
           disk[c].type = "dir" => \A j \in Slots : Entries(disk, c)[j] = NULL,
           NEW n \in Nat, NEW writes, Frees(writes, n, p, d, a, i, c),
           NEW call, call.path = p, NEW code, Commit(call, code, writes)
    PROVE  IInv'
<1>1. PICK I \in SUBSET Blocks : /\ Shape(I, disk) /\ Marked(I, InUse, disk)
                                 /\ aborted = "no" => Exact(I, InUse, disk) /\ Reached(I, disk)
  BY HeldNow DEF Held
<1>2. /\ d \in I /\ disk[d].type = "dir" /\ i \in Slots /\ Entries(disk, d)[i] # NULL
      /\ c \in I \ {ROOT} /\ Walk(disk, p) = c
  BY <1>1, RemoveFacts
<1>3. disk[a] \in DirBlock /\ disk[d] \in Inode
  BY <1>1, <1>2, DirFacts DEF Shape, Inodal
<1>4. PICK new :
      /\ \A k \in 1..n : writes[k].op = "clear" /\ writes[k].blk = disk[c].ptrs[k - 1]
      /\ writes[n + 1].op = "clear" /\ writes[n + 1].blk = c
      /\ writes[n + 2].op = "put" /\ writes[n + 2].block = new
      /\ writes[n + 3].op = "put" /\ writes[n + 3].block = disk[d]
      /\ new \in DirBlock
  BY <1>2, <1>3, FreesFacts, SMTT(30)
<1>5. /\ n + 3 \in Nat /\ n + 3 = Len(writes)
      /\ \A k \in 1..(n + 3) : k \in 1..n \/ k = n + 1 \/ k = n + 2 \/ k = n + 3
      /\ \A m \in 1..((n + 3) - 1) : (m \in Nat /\ \A k \in 1..m : k \in 1..n \/ k = n + 1) \/ m = n + 2
  BY SMTT(30) DEF Frees
<1>6. ASSUME NEW m, m = n + 2 \/ m = n + 3
      PROVE  Held(MarkedAfter(InUse, writes, m), block_write(disk, writes, m), aborted = "no")
  <2>1. PICK image : image = block_write(disk, writes, m)
    OBVIOUS
  <2>2. PICK map : map = MarkedAfter(InUse, writes, m)
    OBVIOUS
  <2>3. Held(map, image, aborted = "no")
    <3>1. /\ I \subseteq Blocks /\ n \in Nat /\ Frees(writes, n, p, d, a, i, c)
          /\ a = disk[d].ptrs[0] /\ c = Entries(disk, d)[i].inode
          /\ disk[c].type = "dir" => \A j \in Slots : Entries(disk, c)[j] = NULL
      OBVIOUS
    <3> QED
      BY ONLY <1>1, <1>2, <1>6, <2>1, <2>2, <3>1, RemovedHeld
  <2> QED
    BY <2>1, <2>2, <2>3, Zenon
<1>7. \A k \in 1..(n + 3) : writes[k].op = "put" => writes[k].block \in Block
  BY <1>3, <1>4, <1>5 DEF Block
<1>8. ASSUME NEW m \in Nat, \A k \in 1..m : k \in 1..n \/ k = n + 1
      PROVE  /\ call.path \in Paths /\ Walk(disk, call.path) \in Blocks
             /\ \A k \in 1..m : /\ writes[k].op = "clear" /\ writes[k].blk \in Blocks
                                /\ writes[k].blk \in Own(disk, Walk(disk, call.path))
  <2>1. \A k \in 1..n : k - 1 \in Pointers(disk[c])
    BY DEF Frees
  <2>2. c \in Blocks /\ \A l \in Pointers(disk[c]) : disk[c].ptrs[l] \in Blocks
    BY <1>1, <1>2 DEF Shape, Inodal
  <2>3. c \in Own(disk, c) /\ \A l \in Pointers(disk[c]) : disk[c].ptrs[l] \in Own(disk, c)
    BY DEF Own
  <2>4. ASSUME NEW k \in 1..m
        PROVE  writes[k].op = "clear" /\ writes[k].blk \in Blocks /\ writes[k].blk \in Own(disk, c)
    <3>1. CASE k = n + 1
      BY ONLY <1>4, <2>2, <2>3, <3>1
    <3>2. CASE k \in 1..n
      <4>1. PICK l \in Pointers(disk[c]) : l = k - 1
        BY <2>1, <3>2
      <4>2. writes[k].op = "clear" /\ writes[k].blk = disk[c].ptrs[l]
        BY <1>4, <3>2, <4>1
      <4> QED
        BY <2>2, <2>3, <4>2
    <3> QED
      BY ONLY <1>8, <3>1, <3>2
  <2> QED
    BY <1>2, <2>2, <2>4
<1>9. ASSUME NEW m, m = n + 2
      PROVE  /\ \E k \in 1..m : writes[k].op # "clear"
             /\ Held(MarkedAfter(InUse, writes, m), block_write(disk, writes, m), FALSE)
  <2>1. n + 2 \in 1..m
    BY <1>9
  <2>2. Held(MarkedAfter(InUse, writes, m), block_write(disk, writes, m), aborted = "no")
    BY <1>6, <1>9
  <2>3. Held(MarkedAfter(InUse, writes, m), block_write(disk, writes, m), FALSE)
    BY <2>2 DEF Held
  <2> QED
    BY <1>4, <2>1, <2>3
<1>10. ASSUME NEW m \in 1..((n + 3) - 1)
       PROVE  \/ /\ \E k \in 1..m : writes[k].op # "clear"
                 /\ Held(MarkedAfter(InUse, writes, m), block_write(disk, writes, m), FALSE)
              \/ /\ call.path \in Paths /\ Walk(disk, call.path) \in Blocks
                 /\ \A k \in 1..m : /\ writes[k].op = "clear" /\ writes[k].blk \in Blocks
                                    /\ writes[k].blk \in Own(disk, Walk(disk, call.path))
  <2>1. CASE m = n + 2
    BY ONLY <1>9, <2>1
  <2>2. CASE m \in Nat /\ \A k \in 1..m : k \in 1..n \/ k = n + 1
    BY ONLY <1>8, <2>2
  <2> QED
    BY <1>5, <2>1, <2>2
<1>11. Held(MarkedAfter(InUse, writes, n + 3), block_write(disk, writes, n + 3), aborted = "no")
  BY <1>6
<1>12. \E k \in 1..(n + 3) : writes[k].op # "clear"
  <2>1. n + 2 \in 1..(n + 3)
    OBVIOUS
  <2> QED
    BY <1>4, <2>1
<1> QED
  BY ONLY IInv, Serving, Commit(call, code, writes), <1>5, <1>7, <1>10, <1>11, <1>12, CommitStep

\* The blocks of a file are freed in their order.
LEMMA FreeDataFacts ==
    ASSUME NEW c, disk[c] \in Inode, disk[c].type = "file", NEW n, n = DIV_ROUND_UP(disk[c].size)
    PROVE  /\ n \in Nat /\ Pointers(disk[c]) = 0..(n - 1)
           /\ Len(FreeData(c)) = n /\ DOMAIN FreeData(c) = 1..n
           /\ \A k \in 1..n : FreeData(c)[k] = Clear(disk[c].ptrs[k - 1])
           /\ FreeData(c) \in Seq({FreeData(c)[k] : k \in 1..n})
<1>1. disk[c].size \in Nat
  <2>1. MAX_FILE \in Nat
    BY SizesAssumption DEF MAX_FILE
  <2> QED
    BY <2>1 DEF Inode
<1>2. n \in Nat
  BY <1>1, RoundUp
<1>3. FreeData(c) = [k \in 1..n |-> Clear(disk[c].ptrs[k - 1])]
  BY DEF FreeData
<1>4. Len(FreeData(c)) = n /\ DOMAIN FreeData(c) = 1..n
  BY <1>2, <1>3
<1>5. \A k \in 1..n : FreeData(c)[k] = Clear(disk[c].ptrs[k - 1])
  BY <1>3
<1>6. FreeData(c) \in Seq({FreeData(c)[k] : k \in 1..n})
  <2>1. FreeData(c) \in [1..n -> {FreeData(c)[k] : k \in 1..n}]
    BY <1>3
  <2> QED
    BY <1>2, <2>1
<1>7. Pointers(disk[c]) = 0..(n - 1)
  BY DEF Pointers
<1> QED
  BY <1>2, <1>4, <1>5, <1>6, <1>7

\* The writes of unlink.
UnlinkWrites(p) == FreeData(Child(p)) \o <<Clear(Child(p))>> \o ClearEntry(p)
LEMMA UnlinkFrees ==
    ASSUME NEW I, Shape(I, disk), NEW p \in Paths, p # <<>>, UnlinkError(p) = 0,
           NEW d, d = Walk(disk, Parent(p)), NEW a, a = disk[d].ptrs[0],
           NEW i, i = find_dirent(Entries(disk, d), Name(p)),
           NEW c, c = Entries(disk, d)[i].inode,
           NEW writes, writes = UnlinkWrites(p)
    PROVE  /\ FindError(p) = 0 /\ disk[c].type = "file"
           /\ \E n \in Nat : Frees(writes, n, p, d, a, i, c)
<1>6. FindError(p) = 0
  BY DEF UnlinkError
<1>a. c \in I
  BY <1>6, RemoveFacts
<1>b. SlotsOf(d) = Entries(disk, d) /\ DataOf(d) = a
  BY DEF SlotsOf, DataOf, Entries
<1>c. ChildSlot(p) = i /\ Child(p) = c
  BY <1>b, Zenon DEF ChildSlot, Child, path2inum
<1>d. ClearEntry(p) = <<Put(a, [disk[a] EXCEPT !.slots[i] = NULL]), Put(d, disk[d])>>
  BY <1>b, <1>c, Zenon DEF ClearEntry, path2inum
<1>7. /\ c \in I /\ Child(p) = c
      /\ ClearEntry(p) = <<Put(a, [disk[a] EXCEPT !.slots[i] = NULL]), Put(d, disk[d])>>
  BY <1>a, <1>c, <1>d
<1>8. disk[c] \in Inode /\ disk[c].type # "dir"
  BY <1>6, <1>7 DEF UnlinkError, IsDir, EISDIR, Shape, Inodal
<1>9. disk[c].type = "file"
  BY <1>8, PointersFacts
<1>10. PICK n : n = DIV_ROUND_UP(disk[c].size)
  OBVIOUS
<1>11. /\ n \in Nat /\ Pointers(disk[c]) = 0..(n - 1)
       /\ Len(FreeData(c)) = n
       /\ \A k \in 1..n : FreeData(c)[k] = Clear(disk[c].ptrs[k - 1])
       /\ FreeData(c) \in Seq({FreeData(c)[k] : k \in 1..n})
  BY ONLY <1>8, <1>9, <1>10, FreeDataFacts
<1>12. PICK e : e = Put(a, [disk[a] EXCEPT !.slots[i] = NULL])
  OBVIOUS
<1>13. Frees(writes, n, p, d, a, i, c)
  <2>1. PICK S : S = {FreeData(c)[k] : k \in 1..n} \cup {Clear(c), e, Put(d, disk[d])}
    OBVIOUS
  <2>a. PICK f : f = FreeData(c)
    OBVIOUS
  <2>3. PICK t : t = <<Clear(c)>>
    OBVIOUS
  <2>2. PICK s : s = f \o t
    OBVIOUS
  <2>4. PICK u : u = <<e, Put(d, disk[d])>>
    OBVIOUS
  <2>5. /\ t \in Seq(S) /\ Len(t) = 1 /\ t[1] = Clear(c)
        /\ u \in Seq(S) /\ Len(u) = 2 /\ u[1] = e /\ u[2] = Put(d, disk[d])
    BY <2>1, <2>3, <2>4
  <2>6. f \in Seq(S) /\ Len(f) = n /\ \A k \in 1..n : f[k] = Clear(disk[c].ptrs[k - 1])
    BY <1>11, <2>a, <2>1
  <2>b. s \in Seq(S) /\ Joins(s, f, t)
    BY <2>2, <2>5, <2>6, Concat, Zenon
  <2>7. /\ s \in Seq(S) /\ Len(s) = n + 1
        /\ \A k \in 1..n : s[k] = f[k]
        /\ \A k \in 1..1 : s[n + k] = t[k]
    BY <1>11, <2>b, <2>5, <2>6 DEF Joins
  <2>8. writes = s \o u
    BY <1>7, <1>12, <2>a, <2>2, <2>3, <2>4, Zenon DEF UnlinkWrites
  <2>9. /\ Len(writes) = n + 1 + 2
        /\ \A k \in 1..(n + 1) : writes[k] = s[k]
        /\ \A k \in 1..2 : writes[n + 1 + k] = u[k]
    <3>1. Joins(writes, s, u)
      BY <2>5, <2>7, <2>8, Concat, Zenon
    <3> QED
      BY ONLY <1>11, <2>5, <2>7, <3>1 DEF Joins
  <2>10. /\ n + 1 + 1 = n + 2 /\ n + 1 + 2 = n + 3 /\ n + 1 \in 1..(n + 1)
         /\ 1 \in 1..1 /\ 1 \in 1..2 /\ 2 \in 1..2 /\ \A k \in 1..n : k \in 1..(n + 1)
    BY <1>11
  <2>11. \A k \in 1..n : writes[k] = Clear(disk[c].ptrs[k - 1])
    BY <2>6, <2>7, <2>9, <2>10
  <2>12. writes[n + 1] = Clear(c) /\ writes[n + 2] = e /\ writes[n + 3] = Put(d, disk[d])
    BY <2>5, <2>7, <2>9, <2>10
  <2> QED
    BY <1>11, <1>12, <2>9, <2>10, <2>11, <2>12 DEF Frees
<1> QED
  BY <1>6, <1>9, <1>11, <1>13

LEMMA UnlinkStep ==
    ASSUME IInv, NEW p \in NonRoot, fs_unlink(p)
    PROVE  IInv'
<1>0. Serving /\ p \in Paths /\ p # <<>>
  BY DEF fs_unlink, NonRoot
<1>1. PICK call : call = On("unlink", p)
  OBVIOUS
<1>2. PICK writes : writes = UnlinkWrites(p)
  OBVIOUS
<1>3. CASE Refuse(call, UnlinkError(p))
  BY <1>0, <1>3, RefuseStep
<1>4. CASE UnlinkError(p) = 0 /\ Commit(call, 0, writes)
  <2>1. PICK I \in SUBSET Blocks : Shape(I, disk)
    BY <1>0, HeldNow DEF Held
  <2>2. PICK d : d = Walk(disk, Parent(p))
    OBVIOUS
  <2>3. PICK a : a = disk[d].ptrs[0]
    OBVIOUS
  <2>4. PICK i : i = find_dirent(Entries(disk, d), Name(p))
    OBVIOUS
  <2>5. PICK c : c = Entries(disk, d)[i].inode
    OBVIOUS
  <2>6. /\ FindError(p) = 0 /\ disk[c].type = "file"
        /\ \E n \in Nat : Frees(writes, n, p, d, a, i, c)
    BY <1>0, <1>2, <1>4, <2>1, <2>2, <2>3, <2>4, <2>5, UnlinkFrees
  <2>7. PICK n \in Nat : Frees(writes, n, p, d, a, i, c)
    BY <2>6
  <2>8. call.path = p
    BY <1>1 DEF On
  <2> QED
    BY <1>0, <1>4, <2>2, <2>3, <2>4, <2>5, <2>6, <2>7, <2>8, RemoveStep
<1> QED
  BY <1>1, <1>2, <1>3, <1>4, Zenon DEF fs_unlink, UnlinkWrites

\* The writes of rmdir.
RmdirWrites(p) == <<Clear(DataOf(Child(p))), Clear(Child(p))>> \o ClearEntry(p)
LEMMA RmdirFrees ==
    ASSUME NEW I, Shape(I, disk), NEW p \in Paths, RmdirError(p) = 0,
           NEW d, d = Walk(disk, Parent(p)), NEW a, a = disk[d].ptrs[0],
           NEW i, i = find_dirent(Entries(disk, d), Name(p)),
           NEW c, c = Entries(disk, d)[i].inode,
           NEW writes, writes = RmdirWrites(p)
    PROVE  /\ p # <<>> /\ FindError(p) = 0 /\ disk[c].type = "dir"
           /\ \A j \in Slots : Entries(disk, c)[j] = NULL
           /\ Frees(writes, 1, p, d, a, i, c)
<1>6. p # <<>> /\ FindError(p) = 0
  BY DEF RmdirError, ENOENT
<1>a. c \in I
  BY <1>6, RemoveFacts
<1>b. SlotsOf(d) = Entries(disk, d) /\ DataOf(d) = a
  BY DEF SlotsOf, DataOf, Entries
<1>c. ChildSlot(p) = i /\ Child(p) = c
  BY <1>b, Zenon DEF ChildSlot, Child, path2inum
<1>d. ClearEntry(p) = <<Put(a, [disk[a] EXCEPT !.slots[i] = NULL]), Put(d, disk[d])>>
  BY <1>b, <1>c, Zenon DEF ClearEntry, path2inum
<1>7. /\ c \in I /\ Child(p) = c
      /\ ClearEntry(p) = <<Put(a, [disk[a] EXCEPT !.slots[i] = NULL]), Put(d, disk[d])>>
  BY <1>a, <1>c, <1>d
<1>8. disk[c] \in Inode /\ disk[c].type = "dir" /\ find_full(SlotsOf(c)) = 0
  BY <1>6, <1>7 DEF RmdirError, IsDir, ENOTDIR, ENOENT, ENOTEMPTY, Shape, Inodal
<1>9. Pointers(disk[c]) = 0..(1 - 1)
  <2>1. 0..(1 - 1) = {0}
    OBVIOUS
  <2> QED
    BY <1>8, <2>1, PointersFacts
<1>10. \A j \in Slots : Entries(disk, c)[j] = NULL
  <2>1. SlotsOf(c) = Entries(disk, c)
    BY DEF SlotsOf, DataOf, Entries
  <2> QED
    BY <1>8, <2>1, FullFacts
<1>11. PICK e : e = Put(a, [disk[a] EXCEPT !.slots[i] = NULL])
  OBVIOUS
<1>12. Frees(writes, 1, p, d, a, i, c)
  <2>1. writes = <<Clear(disk[c].ptrs[0]), Clear(c)>> \o <<e, Put(d, disk[d])>>
    BY <1>7, <1>11, Zenon DEF DataOf, RmdirWrites
  <2>2. PICK S : S = {Clear(disk[c].ptrs[0]), Clear(c), e, Put(d, disk[d])}
    OBVIOUS
  <2>a. PICK s : s = <<Clear(disk[c].ptrs[0]), Clear(c)>>
    OBVIOUS
  <2>b. PICK t : t = <<e, Put(d, disk[d])>>
    OBVIOUS
  <2>c. /\ s \in Seq(S) /\ Len(s) = 2 /\ s[1] = Clear(disk[c].ptrs[0]) /\ s[2] = Clear(c)
        /\ t \in Seq(S) /\ Len(t) = 2 /\ t[1] = e /\ t[2] = Put(d, disk[d])
    BY <2>2, <2>a, <2>b
  <2>d. writes = s \o t
    BY <2>1, <2>a, <2>b, Zenon
  <2>e. /\ Len(writes) = 2 + 2
        /\ \A k \in 1..2 : writes[k] = s[k]
        /\ \A k \in 1..2 : writes[2 + k] = t[k]
    <3>1. Joins(writes, s, t)
      BY <2>c, <2>d, Concat, Zenon
    <3> QED
      BY <2>c, <3>1 DEF Joins
  <2>f. 1 \in 1..2 /\ 2 \in 1..2 /\ 2 + 1 = 3 /\ 2 + 2 = 4
    OBVIOUS
  <2>3. /\ Len(writes) = 4 /\ writes[1] = Clear(disk[c].ptrs[0]) /\ writes[2] = Clear(c)
        /\ writes[3] = e /\ writes[4] = Put(d, disk[d])
    BY <2>c, <2>e, <2>f
  <2>4. 1 + 1 = 2 /\ 1 + 2 = 3 /\ 1 + 3 = 4 /\ \A k \in 1..1 : k = 1 /\ k - 1 = 0
    OBVIOUS
  <2>5. \A k \in 1..1 : writes[k] = Clear(disk[c].ptrs[k - 1])
    BY <2>3, <2>4
  <2> QED
    BY <1>9, <1>11, <2>3, <2>4, <2>5 DEF Frees
<1> QED
  BY <1>6, <1>8, <1>10, <1>12

LEMMA RmdirStep ==
    ASSUME IInv, NEW p \in Paths, fs_rmdir(p)
    PROVE  IInv'
<1>0. Serving
  BY DEF fs_rmdir
<1>1. PICK call : call = On("rmdir", p)
  OBVIOUS
<1>2. PICK writes : writes = RmdirWrites(p)
  OBVIOUS
<1>3. CASE Refuse(call, RmdirError(p))
  BY <1>0, <1>3, RefuseStep
<1>4. CASE RmdirError(p) = 0 /\ Commit(call, 0, writes)
  <2>1. PICK I \in SUBSET Blocks : Shape(I, disk)
    BY <1>0, HeldNow DEF Held
  <2>2. PICK d : d = Walk(disk, Parent(p))
    OBVIOUS
  <2>3. PICK a : a = disk[d].ptrs[0]
    OBVIOUS
  <2>4. PICK i : i = find_dirent(Entries(disk, d), Name(p))
    OBVIOUS
  <2>5. PICK c : c = Entries(disk, d)[i].inode
    OBVIOUS
  <2>6. /\ p # <<>> /\ FindError(p) = 0
        /\ \A j \in Slots : Entries(disk, c)[j] = NULL
        /\ Frees(writes, 1, p, d, a, i, c)
    BY ONLY p \in Paths, <1>2, <1>4, <2>1, <2>2, <2>3, <2>4, <2>5, RmdirFrees
  <2>7. call.path = p /\ 1 \in Nat
    BY <1>1 DEF On
  <2> QED
    BY <1>0, <1>4, <2>2, <2>3, <2>4, <2>5, <2>6, <2>7, RemoveStep
<1> QED
  BY <1>1, <1>2, <1>3, <1>4, Zenon DEF fs_rmdir, RmdirWrites

\* The writes of a truncation free the data and then write the inode.
Empties(writes, n, c, new) ==
    /\ Len(writes) = n + 1
    /\ \A k \in 1..n : writes[k].op = "clear" /\ writes[k].blk = disk[c].ptrs[k - 1]
    /\ writes[n + 1].op = "put" /\ writes[n + 1].blk = c /\ writes[n + 1].block = new
LEMMA TruncateWrites ==
    ASSUME NEW c, disk[c] \in Inode, disk[c].type = "file", NEW n, n = DIV_ROUND_UP(disk[c].size),
           NEW new, NEW writes, writes = Append(FreeData(c), Put(c, new))
    PROVE  n \in Nat /\ Empties(writes, n, c, new)
<1>1. /\ n \in Nat /\ Len(FreeData(c)) = n
      /\ \A k \in 1..n : FreeData(c)[k] = Clear(disk[c].ptrs[k - 1])
      /\ FreeData(c) \in Seq({FreeData(c)[k] : k \in 1..n})
  BY FreeDataFacts
<1>2. PICK f : f = FreeData(c)
  OBVIOUS
<1>3. PICK S : S = {f[k] : k \in 1..n} \cup {Put(c, new)}
  OBVIOUS
<1>4. f \in Seq(S) /\ Len(f) = n /\ Put(c, new) \in S
  BY <1>1, <1>2, <1>3
<1>5. writes = Append(f, Put(c, new))
  BY <1>2
<1>6. Len(writes) = n + 1 /\ writes[n + 1] = Put(c, new) /\ \A k \in 1..n : writes[k] = f[k]
  BY ONLY <1>1, <1>4, <1>5
<1> QED
  BY <1>1, <1>2, <1>6 DEF Clear, Put, Empties

LEMMA TruncateStep ==
    ASSUME IInv, NEW p \in Paths, NEW len, fs_truncate(p, len)
    PROVE  IInv'
<1>0. Serving
  BY DEF fs_truncate
<1>1. PICK call : call = [op |-> "truncate", path |-> p, len |-> len]
  OBVIOUS
<1>2. PICK c : c = Walk(disk, p)
  OBVIOUS
<1>3. PICK new : new = [disk[c] EXCEPT !.size = 0]
  OBVIOUS
<1>4. PICK writes : writes = Append(FreeData(c), Put(c, new))
  OBVIOUS
<1>5. CASE Refuse(call, TruncateError(c, len))
  BY <1>0, <1>5, RefuseStep
<1>6. CASE TruncateError(c, len) = 0 /\ Commit(call, 0, writes)
  <2>1. PICK I \in SUBSET Blocks : /\ Shape(I, disk) /\ Marked(I, InUse, disk)
                                   /\ aborted = "no" => Exact(I, InUse, disk) /\ Reached(I, disk)
    BY <1>0, HeldNow DEF Held
  <2>2. ~ (c < 0) /\ disk[c].type # "dir"
    BY <1>6 DEF TruncateError, EISDIR, EINVAL, IsDir
  <2>3. c \in I
    BY <1>2, <2>1, <2>2, PathInode
  <2>4. disk[c] \in Inode /\ disk[c].type = "file" /\ c \in Blocks
    BY <2>1, <2>2, <2>3, PointersFacts DEF Shape, Inodal
  <2>5. new \in Inode /\ new.type = "file" /\ new.size = 0
    <3>1. 0 \in 0..MAX_FILE
      BY SizesAssumption DEF MAX_FILE
    <3> QED
      BY <1>3, <2>4, <3>1 DEF Inode
  <2>6. PICK n : n = DIV_ROUND_UP(disk[c].size)
    OBVIOUS
  <2>7. n \in Nat /\ Pointers(disk[c]) = 0..(n - 1)
    BY <2>4, <2>6, FreeDataFacts
  <2>8. Empties(writes, n, c, new)
    BY <1>4, <2>4, <2>6, TruncateWrites
  <2>9. /\ Len(writes) = n + 1
        /\ \A k \in 1..n : writes[k].op = "clear" /\ writes[k].blk = disk[c].ptrs[k - 1]
        /\ writes[n + 1].op = "put" /\ writes[n + 1].blk = c /\ writes[n + 1].block = new
    BY <2>8 DEF Empties
  <2>10. /\ n + 1 \in Nat /\ n + 1 \in 1..(n + 1)
         /\ \A k \in 1..(n + 1) : k \in 1..n \/ k = n + 1
         /\ \A k \in 1..n : k \in 1..(n + 1) /\ k # n + 1
         /\ \A k \in (n + 1 + 1)..(n + 1) : FALSE
         /\ \A m \in 1..((n + 1) - 1) : m \in Nat /\ \A k \in 1..m : k \in 1..n
    BY <2>7
  <2>11. PICK image : image = block_write(disk, writes, n + 1)
    OBVIOUS
  <2>12. PICK map : map = MarkedAfter(InUse, writes, n + 1)
    OBVIOUS
  <2>13. image[c] = new
    BY <2>4, <2>9, <2>10, <2>11, BlockPut
  <2>14. ASSUME NEW b \in Blocks \ {c} PROVE image[b] = disk[b]
    <3>1. \A k \in 1..(n + 1) : writes[k].op = "put" => writes[k].blk # b
      BY <2>9, <2>10
    <3> QED
      BY <2>10, <2>11, <3>1, BlockLeft
  <2>15. ASSUME NEW x \in Blocks
         PROVE  x \in map <=> x \in InUse /\ \A k \in Pointers(disk[c]) : x # disk[c].ptrs[k]
    <3>1. \A k \in 1..(n + 1) : writes[k].op # "set"
      BY <2>9, <2>10
    <3>2. x \in map <=>
             x \in InUse /\ \A k \in 1..(n + 1) : writes[k].op = "clear" => writes[k].blk # x
      BY <2>10, <2>12, <3>1, MarkClear
    <3>3. ASSUME \A k \in 1..(n + 1) : writes[k].op = "clear" => writes[k].blk # x,
                 NEW k \in 0..(n - 1)
          PROVE  x # disk[c].ptrs[k]
      <4>1. k + 1 \in 1..n /\ (k + 1) - 1 = k
        BY <2>7
      <4>2. writes[k + 1].op = "clear" /\ writes[k + 1].blk = disk[c].ptrs[k] /\ k + 1 \in 1..(n + 1)
        BY <2>9, <2>10, <4>1
      <4> QED
        BY <3>3, <4>2
    <3>4. ASSUME \A k \in Pointers(disk[c]) : x # disk[c].ptrs[k], NEW k \in 1..n
          PROVE  writes[k].blk # x
      <4>1. k - 1 \in Pointers(disk[c])
        BY <2>7
      <4>2. writes[k].blk = disk[c].ptrs[k - 1]
        BY <2>9
      <4> QED
        BY <3>4, <4>1, <4>2
    <3> QED
      BY <2>7, <2>9, <2>10, <3>2, <3>3, <3>4
  <2>16. ASSUME NEW b \in I, disk[b].type = "dir"
         PROVE  image[disk[b].ptrs[0]] = disk[disk[b].ptrs[0]]
    <3>1. disk[b].ptrs[0] \in Blocks \ {c}
      BY <2>1, <2>3, <2>16, DirFacts
    <3> QED
      BY <2>14, <3>1
  <2>17. \A b \in I \ {c} : image[b] = disk[b]
    BY <2>14
  <2>18. Truncates(I, disk, InUse, image, map, c)
    BY ONLY <2>5, <2>13, <2>15, <2>16, <2>17 DEF Truncates
  <2>19. map \subseteq Blocks
    BY <2>12 DEF MarkedAfter
  <2>20. /\ Shape(I, image) /\ Marked(I, map, image)
         /\ Exact(I, InUse, disk) => Exact(I, map, image)
    BY ONLY <2>1, <2>3, <2>4, <2>18, <2>19, Truncated
  <2>21. Reached(I, disk) => Reached(I, image)
    <3>1. \A b \in I : (image[b].type = disk[b].type /\ image[b].ptrs = disk[b].ptrs)
                       \/ (disk[b].type = "file" /\ image[b].type = "file")
      BY <2>4, <2>5, <2>13, <2>17
    <3> QED
      BY ONLY <2>1, <2>16, <2>20, <3>1, ReachedSame
  <2>22. Held(map, image, aborted = "no")
    BY <2>1, <2>20, <2>21 DEF Held
  <2>23. Held(MarkedAfter(InUse, writes, n + 1), block_write(disk, writes, n + 1), aborted = "no")
    BY <2>11, <2>12, <2>22, Zenon
  <2>24. call.path = p
    BY <1>1
  <2>25. ASSUME NEW m \in 1..((n + 1) - 1)
         PROVE  /\ call.path \in Paths /\ Walk(disk, call.path) \in Blocks
                /\ \A k \in 1..m : /\ writes[k].op = "clear" /\ writes[k].blk \in Blocks
                                   /\ writes[k].blk \in Own(disk, Walk(disk, call.path))
    <3>1. \A k \in 1..n : k - 1 \in Pointers(disk[c])
      BY <2>7
    <3>2. \A l \in Pointers(disk[c]) : disk[c].ptrs[l] \in Blocks
      BY <2>1, <2>3 DEF Shape, Inodal
    <3>3. \A l \in Pointers(disk[c]) : disk[c].ptrs[l] \in Own(disk, c)
      BY DEF Own
    <3>4. \A k \in 1..m : /\ writes[k].op = "clear" /\ writes[k].blk \in Blocks
                          /\ writes[k].blk \in Own(disk, c)
      BY <2>9, <2>10, <3>1, <3>2, <3>3
    <3> QED
      BY <1>2, <2>4, <2>24, <3>4
  <2>26. \A k \in 1..(n + 1) : writes[k].op = "put" => writes[k].block \in Block
    BY <2>5, <2>9, <2>10 DEF Block
  <2>27. \E k \in 1..(n + 1) : writes[k].op # "clear"
    BY <2>9, <2>10
  <2> QED
    BY ONLY IInv, <1>0, <1>6, <2>9, <2>10, <2>23, <2>25, <2>26, <2>27, CommitStep
<1> QED
  BY <1>1, <1>2, <1>3, <1>4, <1>5, <1>6, Zenon DEF fs_truncate, path2inum

-----------------------------------------------------------------------------
(* The handlers that change a file's data. *)

Elements(s) == {s[j] : j \in 1..Len(s)}

LEMMA ElementsJoined ==
    ASSUME NEW S, NEW s \in Seq(S), NEW t \in Seq(S)
    PROVE  s \o t \in Seq(S) /\ Elements(s \o t) = Elements(s) \cup Elements(t)
<1>1. PICK u : u = s \o t
  OBVIOUS
<1>2. u \in Seq(S) /\ Joins(u, s, t)
  BY <1>1, Concat, Zenon
<1>3. /\ Len(s) \in Nat /\ Len(t) \in Nat
      /\ Len(u) = Len(s) + Len(t)
      /\ \A k \in 1..Len(s) : u[k] = s[k]
      /\ \A k \in 1..Len(t) : u[Len(s) + k] = t[k]
  BY <1>2 DEF Joins
<1>4. ASSUME NEW k \in 1..Len(u) PROVE u[k] \in Elements(s) \cup Elements(t)
  <2>1. CASE k =< Len(s)
    BY <1>3, <2>1 DEF Elements
  <2>2. CASE ~ (k =< Len(s))
    <3>1. k - Len(s) \in 1..Len(t) /\ Len(s) + (k - Len(s)) = k
      BY <1>3, <2>2
    <3>2. u[k] = t[k - Len(s)]
      BY <1>3, <3>1
    <3> QED
      BY <3>1, <3>2 DEF Elements
  <2> QED
    BY <2>1, <2>2
<1>5. ASSUME NEW k \in 1..Len(s) PROVE s[k] \in Elements(u)
  <2>1. k \in 1..Len(u) /\ u[k] = s[k]
    BY <1>3
  <2> QED
    BY <2>1 DEF Elements
<1>6. ASSUME NEW k \in 1..Len(t) PROVE t[k] \in Elements(u)
  <2>1. Len(s) + k \in 1..Len(u) /\ u[Len(s) + k] = t[k]
    BY <1>3
  <2> QED
    BY <2>1 DEF Elements
<1>7. Elements(u) = Elements(s) \cup Elements(t)
  BY <1>4, <1>5, <1>6 DEF Elements
<1> QED
  BY <1>1, <1>2, <1>7

Flattens(w, parts, m) == w[1] = parts[1] /\ \A k \in 2..m : w[k] = w[k-1] \o parts[k]

\* FlattenSeq is what its recursive definition says it is.
LEMMA FlattenDefined ==
    ASSUME NEW m \in Nat, NEW parts, Len(parts) = m, m # 0
    PROVE  \E w : FlattenSeq(parts) = w[m] /\ Flattens(w, parts, m)
<1> DEFINE D(f, k) == IF k = 1 THEN parts[k] ELSE f[k-1] \o parts[k]
           S == {n \in Nat : \E f : f = [k \in 1..n |-> D(f, k)]}
<1>1. 0 \in S
  <2> DEFINE g == [k \in 1..0 |-> 0]
  <2> HIDE DEF D
  <2>1. g = [k \in 1..0 |-> D(g, k)]
    <3>1. \A k \in 1..0 : FALSE
      OBVIOUS
    <3> QED
      BY <3>1
  <2> QED
    BY <2>1
<1>2. ASSUME NEW n \in Nat, n \in S PROVE n + 1 \in S
  <2>1. PICK f : f = [k \in 1..n |-> D(f, k)]
    BY <1>2
  <2> DEFINE g == [k \in 1..(n+1) |-> IF k = n + 1 THEN D(f, k) ELSE f[k]]
  <2>2. ASSUME NEW k \in 1..(n+1) PROVE g[k] = D(g, k)
    <3>0. g[k] = D(f, k)
      <4>1. CASE k = n + 1
        <5> HIDE DEF D
        <5> QED
          BY <4>1
      <4>2. CASE k # n + 1
        <5>1. k \in 1..n
          BY <4>2
        <5>2. f[k] = D(f, k)
          <6> HIDE DEF D
          <6> QED
            BY <2>1, <5>1
        <5> HIDE DEF D
        <5> QED
          BY <4>2, <5>2
      <4> QED
        BY <4>1, <4>2
    <3>1. CASE k = 1
      <4> HIDE DEF g
      <4> QED
        BY <3>0, <3>1
    <3>2. CASE k # 1
      <4>1. k - 1 \in 1..n /\ k - 1 \in 1..(n+1) /\ k - 1 # n + 1
        BY <3>2
      <4>2. g[k-1] = f[k-1]
        <5> HIDE DEF D
        <5> QED
          BY <4>1
      <4> HIDE DEF g
      <4> QED
        BY <3>0, <3>2, <4>2, Zenon
    <3> QED
      BY <3>1, <3>2
  <2>3. g = [k \in 1..(n+1) |-> D(g, k)]
    <3> HIDE DEF D
    <3>1. g = [k \in 1..(n+1) |-> g[k]]
      OBVIOUS
    <3> HIDE DEF D, g
    <3> QED
      BY <2>2, <3>1
  <2> HIDE DEF g, D
  <2> QED
    BY <2>3
<1> HIDE DEF S
<1>3. m \in S
  BY <1>1, <1>2, Induction
<1>4. \E f : f = [k \in 1..m |-> D(f, k)]
  BY <1>3 DEF S
<1> DEFINE w == CHOOSE f : f = [k \in 1..m |-> D(f, k)]
<1>5. w = [k \in 1..m |-> D(w, k)]
  <2> HIDE DEF D
  <2> QED
    BY <1>4, Zenon
<1>6. FlattenSeq(parts) = w[m]
  BY Zenon DEF FlattenSeq
<1> HIDE DEF w, D
<1>7. 1 \in 1..m /\ \A k \in 2..m : k \in 1..m /\ k # 1
  OBVIOUS
<1>8. \A k \in 1..m : w[k] = D(w, k)
  BY <1>5
<1>9. w[1] = parts[1]
  BY <1>7, <1>8, Zenon DEF D
<1>10. \A k \in 2..m : w[k] = w[k-1] \o parts[k]
  BY <1>7, <1>8, Zenon DEF D
<1>11. Flattens(w, parts, m)
  BY <1>9, <1>10, Zenon DEF Flattens
<1> QED
  BY <1>6, <1>11

Parts(parts, m, S) ==
    /\ Len(parts) = m /\ (parts = <<>> \/ m # 0)
    /\ \A i \in 1..m : parts[i] \in Seq(S)

\* A flat sequence has the elements of its parts.
LEMMA Flattened ==
    ASSUME NEW S, NEW m \in Nat, NEW parts, Parts(parts, m, S), NEW flat, flat = FlattenSeq(parts)
    PROVE  /\ flat \in Seq(S)
           /\ \A x : x \in Elements(flat) <=> \E i \in 1..m : x \in Elements(parts[i])
<1> USE DEF Parts
<1>1. CASE m = 0
  <2>1. flat = <<>>
    BY <1>1, Zenon DEF FlattenSeq
  <2>2. \A x : x \notin Elements(flat)
    BY <2>1 DEF Elements
  <2> QED
    BY <1>1, <2>1, <2>2
<1>2. CASE m # 0
  <2>1. PICK w : FlattenSeq(parts) = w[m] /\ Flattens(w, parts, m)
    BY <1>2, FlattenDefined
  <2> DEFINE P(n) == /\ w[n] \in Seq(S)
                     /\ \A x : x \in Elements(w[n]) <=> \E i \in 1..n : x \in Elements(parts[i])
             T == {n \in Nat : n + 1 =< m => P(n + 1)}
  <2>2. 0 \in T
    <3>1. 1 \in 1..m /\ \A i \in 1..1 : i = 1
      BY <1>2
    <3>2. P(1)
      BY <2>1, <3>1 DEF Flattens
    <3> QED
      BY <3>2
  <2>3. ASSUME NEW n \in Nat, n \in T PROVE n + 1 \in T
    <3>1. SUFFICES ASSUME n + 2 =< m PROVE P(n + 2)
      <4>1. (n + 1) + 1 = n + 2
        OBVIOUS
      <4> HIDE DEF P
      <4> QED
        BY <4>1
    <3>2. P(n + 1)
      <4> HIDE DEF P
      <4> QED
        BY <2>3, <3>1
    <3>3. /\ n + 2 \in 2..m /\ n + 2 \in 1..m /\ (n + 2) - 1 = n + 1
          /\ \A i : i \in 1..(n + 2) <=> i \in 1..(n + 1) \/ i = n + 2
      BY <3>1
    <3>4. w[n + 2] = w[n + 1] \o parts[n + 2] /\ parts[n + 2] \in Seq(S) /\ w[n + 1] \in Seq(S)
      BY <2>1, <3>2, <3>3 DEF Flattens
    <3>5. /\ w[n + 2] \in Seq(S)
          /\ Elements(w[n + 2]) = Elements(w[n + 1]) \cup Elements(parts[n + 2])
      BY <3>4, ElementsJoined
    <3> QED
      BY <3>2, <3>3, <3>5
  <2> HIDE DEF T, P
  <2>4. m - 1 \in Nat /\ (m - 1) + 1 = m /\ m =< m
    BY <1>2
  <2>5. m - 1 \in T
    BY <2>2, <2>3, <2>4, Induction
  <2>6. P(m)
    BY <2>4, <2>5 DEF T
  <2> QED
    BY <2>1, <2>6 DEF P
<1> QED
  BY <1>1, <1>2

\* The blocks a write allocates: f[k] is in turn the first block that is free.
Allocates(f, c, have) ==
    \A k \in Ptrs : f[k] = IF k < have THEN disk[c].ptrs[k]
                           ELSE alloc_blk(bitmap \cup {f[j] : j \in have..(k - 1)})

\* The pointers are what their recursive definition says they are.
LEMMA FreshDefined ==
    ASSUME NEW c, NEW len, NEW offset, DIV_ROUND_UP(disk[c].size) \in Nat
    PROVE  \E f :
              /\ Allocates(f, c, DIV_ROUND_UP(disk[c].size))
              /\ WrittenPtrs(c, len, offset) =
                    [k \in Ptrs |-> IF k \in Touched(len, offset) THEN f[k] ELSE disk[c].ptrs[k]]
<1> DEFINE have == DIV_ROUND_UP(disk[c].size)
           D(f, k) == IF k < have THEN disk[c].ptrs[k]
                      ELSE alloc_blk(bitmap \cup {f[j] : j \in have..(k - 1)})
           S == {n \in Nat : \E f : f = [k \in 0..(n-1) |-> D(f, k)]}
<1> HIDE DEF have
<1>0. have \in Nat
  BY DEF have
<1>1. 0 \in S
  <2> DEFINE g == [k \in 0..(0-1) |-> 0]
  <2> HIDE DEF D
  <2>1. g = [k \in 0..(0-1) |-> D(g, k)]
    <3>1. \A k \in 0..(0-1) : FALSE
      OBVIOUS
    <3> QED
      BY <3>1
  <2> QED
    BY <2>1
<1>2. ASSUME NEW n \in Nat, n \in S PROVE n + 1 \in S
  <2>1. PICK f : f = [k \in 0..(n-1) |-> D(f, k)]
    BY <1>2
  <2> DEFINE g == [k \in 0..n |-> IF k = n THEN D(f, k) ELSE f[k]]
  <2>2. ASSUME NEW k \in 0..n PROVE g[k] = D(g, k)
    <3>1. g[k] = D(f, k)
      <4>1. CASE k = n
        <5> HIDE DEF D
        <5> QED
          BY <4>1
      <4>2. CASE k # n
        <5>1. k \in 0..(n-1)
          BY <4>2
        <5>2. f[k] = D(f, k)
          <6> HIDE DEF D
          <6> QED
            BY <2>1, <5>1
        <5> HIDE DEF D
        <5> QED
          BY <4>2, <5>2
      <4> QED
        BY <4>1, <4>2
    <3>2. ASSUME NEW j \in have..(k - 1) PROVE g[j] = f[j]
      <4>1. j \in 0..n /\ j # n
        BY <1>0
      <4> HIDE DEF D
      <4> QED
        BY <4>1
    <3> HIDE DEF g
    <3>3. {g[j] : j \in have..(k - 1)} = {f[j] : j \in have..(k - 1)}
      BY <3>2
    <3> QED
      BY <3>1, <3>3, Zenon
  <2>3. g = [k \in 0..n |-> D(g, k)]
    <3> HIDE DEF D
    <3>1. g = [k \in 0..n |-> g[k]]
      OBVIOUS
    <3> HIDE DEF D, g
    <3> QED
      BY <2>2, <3>1
  <2> HIDE DEF g, D
  <2>4. (n + 1) - 1 = n /\ n + 1 \in Nat
    OBVIOUS
  <2> QED
    BY <2>3, <2>4
<1> HIDE DEF S
<1>3. NUM_PTRS_INODE \in Nat
  BY SizesAssumption
<1>4. NUM_PTRS_INODE \in S
  BY <1>1, <1>2, <1>3, Induction
<1>5. \E f : f = [k \in Ptrs |-> D(f, k)]
  BY <1>4 DEF S, Ptrs
<1> DEFINE w == CHOOSE f : f = [k \in Ptrs |-> D(f, k)]
<1>6. w = [k \in Ptrs |-> D(w, k)]
  <2> HIDE DEF D
  <2> QED
    BY <1>5, Zenon
<1>7. WrittenPtrs(c, len, offset) =
         [k \in Ptrs |-> IF k \in Touched(len, offset) THEN w[k] ELSE disk[c].ptrs[k]]
  BY Zenon DEF WrittenPtrs, have
<1> HIDE DEF w, D
<1>8. \A k \in Ptrs : w[k] = D(w, k)
  BY <1>6
<1>9. Allocates(w, c, have)
  BY <1>8, Zenon DEF D, Allocates
<1> QED
  BY <1>7, <1>9 DEF have

\* A block that is allocated was free, and is allocated once.
LEMMA FreshFacts ==
    ASSUME NEW c, NEW have \in Nat, NEW f, Allocates(f, c, have)
    PROVE  /\ \A k \in Ptrs : k < have => f[k] = disk[c].ptrs[k]
           /\ \A k \in Ptrs : ~ (k < have) =>
                 f[k] \in Int /\ (f[k] < 0 \/ f[k] \in Blocks \ ({0, 1} \cup bitmap))
           /\ \A k, l \in Ptrs : ~ (k < have) /\ ~ (l < have) /\ ~ (f[k] < 0) /\ f[k] = f[l] => k = l
<1>0. \A k \in Ptrs : k \in Int
  BY DEF Ptrs
<1>1. \A k \in Ptrs : k < have => f[k] = disk[c].ptrs[k]
  BY DEF Allocates
<1>2. ASSUME NEW k \in Ptrs, ~ (k < have)
      PROVE  /\ f[k] \in Int
             /\ f[k] < 0 \/ f[k] \in Blocks \ ({0, 1} \cup bitmap)
             /\ \A j \in have..(k - 1) : f[k] < 0 \/ f[k] # f[j]
  <2>1. PICK map : map = bitmap \cup {f[j] : j \in have..(k - 1)}
    OBVIOUS
  <2>2. f[k] = alloc_blk(map)
    BY <1>2, <2>1, Zenon DEF Allocates
  <2>3. f[k] \in Int /\ (f[k] < 0 \/ f[k] \in Blocks \ ({0, 1, ROOT} \cup map))
    BY <2>2, AllocFacts
  <2> QED
    BY <2>1, <2>3
<1>3. ASSUME NEW k \in Ptrs, NEW l \in Ptrs, ~ (k < have), ~ (l < have), ~ (f[k] < 0), f[k] = f[l]
      PROVE  k = l
  <2>1. ~ (f[l] < 0)
    BY <1>3
  <2>2. CASE k < l
    <3>1. k \in have..(l - 1)
      BY <1>0, <1>3, <2>2
    <3> QED
      BY <1>2, <1>3, <2>1, <3>1
  <2>3. CASE l < k
    <3>1. l \in have..(k - 1)
      BY <1>0, <1>3, <2>3
    <3> QED
      BY <1>2, <1>3, <3>1
  <2> QED
    BY <1>0, <2>2, <2>3
<1>4. ASSUME NEW k \in Ptrs, ~ (k < have)
      PROVE  f[k] \in Int /\ (f[k] < 0 \/ f[k] \in Blocks \ ({0, 1} \cup bitmap))
  BY <1>2, <1>4
<1> QED
  BY <1>1, <1>3, <1>4

\* The rounds of the loop run through an interval of pointers.
Convex(S) == S \subseteq Ptrs /\ \A k, l \in S : \A x \in k..l : x \in S
LEMMA Interval ==
    ASSUME NEW S, Convex(S)
    PROVE  /\ Cardinality(S) \in Nat
           /\ \A i \in 1..Cardinality(S) : Lowest(S) + i - 1 \in S
           /\ \A k \in S : \E i \in 1..Cardinality(S) : k = Lowest(S) + i - 1
<1> USE DEF Convex
<1>1. CASE S = {}
  <2>1. Cardinality(S) = 0
    BY <1>1, FS_EmptySet
  <2> QED
    BY <1>1, <2>1
<1>2. CASE S # {}
  <2>1. S \subseteq Nat /\ S \subseteq 0..(NUM_PTRS_INODE - 1) /\ NUM_PTRS_INODE - 1 \in Nat
    BY SizesAssumption DEF Ptrs
  <2>2. PICK a : a = Lowest(S)
    OBVIOUS
  <2>3. PICK b : b = Max(S)
    OBVIOUS
  <2>4. a \in S /\ \A j \in S : a =< j
    BY <1>2, <2>1, <2>2, LowestIn
  <2>5. b \in S /\ \A j \in S : b >= j
    BY <1>2, <2>1, <2>3, MaxIn
  <2>6. a \in Nat /\ b \in Nat /\ a =< b
    BY <2>1, <2>4, <2>5
  <2>7. S = a..b
    <3>1. \A x \in a..b : x \in S
      BY <2>4, <2>5
    <3>2. \A x \in S : x \in a..b
      BY <2>1, <2>4, <2>5, <2>6
    <3> QED
      BY <3>1, <3>2
  <2>8. Cardinality(S) = b - a + 1
    BY <2>6, <2>7, FS_Interval
  <2>9. \A i \in 1..(b - a + 1) : a + i - 1 \in a..b
    BY <2>6
  <2>10. ASSUME NEW k \in a..b PROVE \E i \in 1..(b - a + 1) : k = a + i - 1
    <3>1. k - a + 1 \in 1..(b - a + 1) /\ k = a + (k - a + 1) - 1
      BY <2>6
    <3> QED
      BY <3>1
  <2>11. b - a + 1 \in Nat
    BY <2>6
  <2> QED
    BY ONLY <2>2, <2>7, <2>8, <2>9, <2>10, <2>11, ZenonT(60)
<1> QED
  BY <1>1, <1>2

LEMMA TouchedFacts ==
    ASSUME NEW len \in Nat, NEW offset \in Nat
    PROVE  /\ Touched(len, offset) \subseteq Ptrs
           /\ \A k \in Ptrs : /\ offset =< k * FS_BLOCK_SIZE /\ k * FS_BLOCK_SIZE < offset + len
                              => k \in Touched(len, offset)
           /\ \A k \in Touched(len, offset) : k * FS_BLOCK_SIZE < offset + len
           /\ \A k, l \in Touched(len, offset) : \A x \in k..l : x \in Touched(len, offset)
<1>0. FS_BLOCK_SIZE \in Nat /\ FS_BLOCK_SIZE # 0 /\ Ptrs \subseteq Nat
  BY SizesAssumption DEF Ptrs
<1>1. Touched(len, offset) \subseteq Ptrs
  BY DEF Touched
<1>2. ASSUME NEW k \in Ptrs, offset =< k * FS_BLOCK_SIZE, k * FS_BLOCK_SIZE < offset + len
      PROVE  k \in Touched(len, offset)
  <2>1. k * FS_BLOCK_SIZE \in Nat /\ (k + 1) * FS_BLOCK_SIZE = k * FS_BLOCK_SIZE + FS_BLOCK_SIZE
    BY <1>0
  <2>2. offset < (k + 1) * FS_BLOCK_SIZE
    BY <1>0, <1>2, <2>1
  <2> QED
    BY <1>2, <2>2 DEF Touched
<1>3. \A k \in Touched(len, offset) : k * FS_BLOCK_SIZE < offset + len
  BY DEF Touched
<1>4. ASSUME NEW k \in Touched(len, offset), NEW l \in Touched(len, offset), NEW x \in k..l
      PROVE  x \in Touched(len, offset)
  <2>1. k \in Nat /\ l \in Nat /\ k \in Ptrs /\ l \in Ptrs
    BY <1>0, <1>1
  <2>2. x \in Nat /\ k =< x /\ x =< l
    BY <2>1
  <2>3. x \in Ptrs
    BY <2>1, <2>2, SizesAssumption DEF Ptrs
  <2>4. (k + 1) * FS_BLOCK_SIZE =< (x + 1) * FS_BLOCK_SIZE
    BY <1>0, <2>1, <2>2
  <2>5. x * FS_BLOCK_SIZE =< l * FS_BLOCK_SIZE
    BY <1>0, <2>1, <2>2
  <2>6. offset < (k + 1) * FS_BLOCK_SIZE /\ l * FS_BLOCK_SIZE < offset + len
    BY DEF Touched
  <2>7. /\ (k + 1) * FS_BLOCK_SIZE \in Nat /\ (x + 1) * FS_BLOCK_SIZE \in Nat
        /\ x * FS_BLOCK_SIZE \in Nat /\ l * FS_BLOCK_SIZE \in Nat
    BY <1>0, <2>1, <2>2
  <2>8. offset < (x + 1) * FS_BLOCK_SIZE /\ x * FS_BLOCK_SIZE < offset + len
    BY <2>4, <2>5, <2>6, <2>7
  <2> QED
    BY <2>3, <2>8 DEF Touched
<1> QED
  BY <1>1, <1>2, <1>3, <1>4

\* The blocks before the first that could not be allocated.
Good(ptrs, K, bad, good) ==
    bad = {k \in K : ptrs[k] < 0} /\ good = {k \in K : \A j \in bad : k < j}
Positive(ptrs, good) == \A k \in good : ~ (ptrs[k] < 0)
LEMMA GoodFacts ==
    ASSUME NEW len \in Nat, NEW offset \in Nat, NEW K, K = Touched(len, offset),
           NEW ptrs, NEW bad, NEW good, Good(ptrs, K, bad, good)
    PROVE  /\ good \subseteq K /\ (bad = {} => good = K)
           /\ Convex(good) /\ Positive(ptrs, good)
<1> USE DEF Good
<1>0. K \subseteq Ptrs /\ Ptrs \subseteq Nat
  BY TouchedFacts, SizesAssumption DEF Ptrs
<1>1. ASSUME NEW k \in good, NEW l \in good, NEW x \in k..l PROVE x \in good
  <2>1. k \in K /\ l \in K /\ \A j \in bad : l < j
    OBVIOUS
  <2>2. x \in K
    BY <2>1, TouchedFacts
  <2>3. \A j \in bad : x < j
    BY <1>0, <2>1, <2>2
  <2> QED
    BY <2>2, <2>3
<1>2. ASSUME NEW k \in good PROVE k \notin bad
  BY <1>0
<1>3. Convex(good)
  BY <1>0, <1>1 DEF Convex
<1>4. Positive(ptrs, good)
  BY <1>2 DEF Positive
<1> QED
  BY <1>3, <1>4

LEMMA OverlaidType ==
    ASSUME NEW k, NEW b \in Blocks, disk \in [Blocks -> Block], NEW data \in Payloads, NEW offset
    PROVE  Overlaid(k, b, data, offset) \in DataBlock
<1>1. \A j \in DOMAIN data : data[j] \in Bytes
  BY DEF Payloads
<1>2. BytesOf(disk[b]) \in [BlockBytes -> Bytes \cup {JUNK}]
  <2>1. disk[b] \in Block
    OBVIOUS
  <2>2. CASE disk[b].kind = "data"
    <3>1. disk[b] \in DataBlock
      BY <2>1, <2>2 DEF Block, Inode, DirBlock, OtherBlock
    <3> QED
      BY <2>2, <3>1 DEF BytesOf, DataBlock
  <2>3. CASE disk[b].kind # "data"
    BY <2>3 DEF BytesOf
  <2> QED
    BY <2>2, <2>3
<1>3. PICK start : start = k * FS_BLOCK_SIZE - offset + 1
  OBVIOUS
<1>4. PICK bytes : bytes = [i \in BlockBytes |->
                              IF start + i \in DOMAIN data THEN data[start + i]
                              ELSE BytesOf(disk[b])[i]]
  OBVIOUS
<1>5. bytes \in [BlockBytes -> Bytes \cup {JUNK}]
  BY <1>1, <1>2, <1>4
<1>6. Overlaid(k, b, data, offset) = [kind |-> "data", bytes |-> bytes]
  BY <1>3, <1>4, Zenon DEF Overlaid
<1> QED
  BY <1>5, <1>6 DEF DataBlock

\* What the rounds write: data, to the blocks in ptrs, and the marks of the
\* blocks past the end of the file.
Rounds(rounds, ptrs, good, have) ==
    /\ \A j \in 1..Len(rounds) :
          \/ /\ rounds[j].op = "set"
             /\ \E k \in good : ~ (k < have) /\ rounds[j].blk = ptrs[k]
          \/ /\ rounds[j].op = "put" /\ rounds[j].block \in DataBlock
             /\ \E k \in good : rounds[j].blk = ptrs[k]
    /\ \A k \in good : ~ (k < have) =>
          \E j \in 1..Len(rounds) : rounds[j].op = "set" /\ rounds[j].blk = ptrs[k]

LEMMA RoundFacts ==
    ASSUME NEW c, NEW ptrs, NEW k, NEW data, NEW offset, NEW have, have = DIV_ROUND_UP(disk[c].size),
           have \in Int, k \in Int, NEW s, s = Set(ptrs[k]),
           NEW w, w = Put(ptrs[k], Overlaid(k, ptrs[k], data, offset)),
           NEW r, r = Round(c, ptrs, k, data, offset), NEW S, s \in S, w \in S
    PROVE  /\ r \in Seq(S)
           /\ \A x : x \in Elements(r) <=> x = w \/ (x = s /\ ~ (k < have))
<1>1. CASE k < have
  <2>1. r = <<>> \o <<w>>
    <3>1. ~ (k >= have)
      BY <1>1
    <3> QED
      BY <3>1, Zenon DEF Round
  <2>2. r \in Seq(S) /\ Len(r) = 1 /\ r[1] = w
    BY <2>1
  <2>3. \A j \in 1..1 : j = 1
    OBVIOUS
  <2>4. 1 \in 1..1
    OBVIOUS
  <2> QED
    BY <1>1, <2>2, <2>3, <2>4 DEF Elements
<1>2. CASE ~ (k < have)
  <2>1. r = <<s>> \o <<w>>
    <3>1. k >= have
      BY <1>2
    <3> QED
      BY <3>1, Zenon DEF Round
  <2>2. r \in Seq(S) /\ Len(r) = 2 /\ r[1] = s /\ r[2] = w
    BY <2>1
  <2>3. (\A j \in 1..2 : j = 1 \/ j = 2) /\ 1 \in 1..2 /\ 2 \in 1..2
    OBVIOUS
  <2> QED
    BY <1>2, <2>2, <2>3 DEF Elements
<1> QED
  BY <1>1, <1>2

AllRounds(rounds, c, ptrs, good, data, offset) ==
    rounds = FlattenSeq([i \in 1..Cardinality(good) |->
                            Round(c, ptrs, Lowest(good) + i - 1, data, offset)])

\* The blocks that are written hold no inode and no entries.
Apart(I, ptrs, good) ==
    /\ \A k \in good : ptrs[k] \in Blocks \ I
    /\ \A k \in good : \A b \in I : disk[b].type = "dir" => ptrs[k] # disk[b].ptrs[0]

LEMMA RoundsFacts ==
    ASSUME NEW c, NEW have \in Nat, have = DIV_ROUND_UP(disk[c].size), disk \in [Blocks -> Block],
           NEW ptrs, NEW good, Convex(good), \A k \in good : ptrs[k] \in Blocks,
           NEW data \in Payloads, NEW offset,
           NEW rounds, AllRounds(rounds, c, ptrs, good, data, offset)
    PROVE  Len(rounds) \in Nat /\ (\E S : rounds \in Seq(S)) /\ Rounds(rounds, ptrs, good, have)
<1> DEFINE set(k) == Set(ptrs[k])
           put(k) == Put(ptrs[k], Overlaid(k, ptrs[k], data, offset))
           S == {set(k) : k \in good} \cup {put(k) : k \in good}
<1>1. PICK m : m = Cardinality(good)
  OBVIOUS
<1>2. PICK low : low = Lowest(good)
  OBVIOUS
<1>3. PICK parts : parts = [i \in 1..m |-> Round(c, ptrs, low + i - 1, data, offset)]
  OBVIOUS
<1>4. /\ m \in Nat
      /\ \A i \in 1..m : low + i - 1 \in good
      /\ \A k \in good : \E i \in 1..m : k = low + i - 1
  BY <1>1, <1>2, Interval
<1>5. rounds = FlattenSeq(parts)
  BY <1>1, <1>2, <1>3, Zenon DEF AllRounds
<1>6. Len(parts) = m /\ (parts = <<>> \/ m # 0)
  BY <1>3, <1>4
<1>7. \A k \in good : k \in Int /\ ptrs[k] \in Blocks
  BY DEF Ptrs, Convex
<1>8. ASSUME NEW k \in good
      PROVE  /\ Round(c, ptrs, k, data, offset) \in Seq(S)
             /\ \A x : x \in Elements(Round(c, ptrs, k, data, offset)) <=>
                          x = put(k) \/ (x = set(k) /\ ~ (k < have))
  <2>1. PICK s : s = set(k)
    OBVIOUS
  <2>2. PICK w : w = put(k)
    OBVIOUS
  <2>3. PICK r : r = Round(c, ptrs, k, data, offset)
    OBVIOUS
  <2>4. s \in S /\ w \in S
    BY <2>1, <2>2, Zenon
  <2>5. PICK U : U = S
    OBVIOUS
  <2>6. have \in Int /\ k \in Int
    BY <1>7
  <2>7. /\ r \in Seq(U)
        /\ \A x : x \in Elements(r) <=> x = w \/ (x = s /\ ~ (k < have))
    <3>1. s = Set(ptrs[k]) /\ w = Put(ptrs[k], Overlaid(k, ptrs[k], data, offset))
      BY <2>1, <2>2, Zenon
    <3>2. s \in U /\ w \in U
      BY <2>4, <2>5, Zenon
    <3>3. have = DIV_ROUND_UP(disk[c].size)
      OBVIOUS
    <3> QED
      BY ONLY <2>3, <2>6, <3>1, <3>2, <3>3, RoundFacts
  <2> HIDE DEF S
  <2> QED
    BY <2>1, <2>2, <2>3, <2>5, <2>7
<1>9. \A k \in good : set(k).op = "set" /\ set(k).blk = ptrs[k]
  BY DEF Set
<1>10. ASSUME NEW k \in good
       PROVE  put(k).op = "put" /\ put(k).blk = ptrs[k] /\ put(k).block \in DataBlock
  <2>1. Overlaid(k, ptrs[k], data, offset) \in DataBlock
    BY <1>7, OverlaidType
  <2> QED
    BY <2>1 DEF Put
<1> HIDE DEF S, set, put
<1>11. ASSUME NEW i \in 1..m
       PROVE  /\ parts[i] \in Seq(S)
              /\ \A x : x \in Elements(parts[i]) <=>
                    x = put(low + i - 1) \/ (x = set(low + i - 1) /\ ~ (low + i - 1 < have))
  <2>1. parts[i] = Round(c, ptrs, low + i - 1, data, offset) /\ low + i - 1 \in good
    BY <1>3, <1>4
  <2> QED
    BY <1>8, <2>1
<1>12. /\ rounds \in Seq(S)
       /\ \A x : x \in Elements(rounds) <=> \E i \in 1..m : x \in Elements(parts[i])
  <2>1. PICK U : U = S
    OBVIOUS
  <2>2. m \in Nat /\ \A i \in 1..m : parts[i] \in Seq(U)
    BY <1>4, <1>11, <2>1
  <2>3. /\ rounds \in Seq(U)
        /\ \A x : x \in Elements(rounds) <=> \E i \in 1..m : x \in Elements(parts[i])
    <3>1. Parts(parts, m, U)
      BY <1>6, <2>2 DEF Parts
    <3> QED
      BY ONLY <1>5, <2>2, <3>1, Flattened
  <2> QED
    BY <2>1, <2>3, Zenon
<1>13. Len(rounds) \in Nat
  BY <1>12
<1>14. ASSUME NEW j \in 1..Len(rounds)
       PROVE  \/ /\ rounds[j].op = "set"
                 /\ \E k \in good : ~ (k < have) /\ rounds[j].blk = ptrs[k]
              \/ /\ rounds[j].op = "put" /\ rounds[j].block \in DataBlock
                 /\ \E k \in good : rounds[j].blk = ptrs[k]
  <2>1. rounds[j] \in Elements(rounds)
    BY DEF Elements
  <2>2. PICK i \in 1..m : rounds[j] \in Elements(parts[i])
    BY <1>12, <2>1
  <2>3. PICK k \in good : rounds[j] = put(k) \/ (rounds[j] = set(k) /\ ~ (k < have))
    BY <1>4, <1>11, <2>2
  <2> QED
    BY <1>9, <1>10, <2>3
<1>15. ASSUME NEW k \in good, ~ (k < have)
       PROVE  \E j \in 1..Len(rounds) : rounds[j].op = "set" /\ rounds[j].blk = ptrs[k]
  <2>1. PICK i \in 1..m : k = low + i - 1
    BY <1>4
  <2>2. set(k) \in Elements(rounds)
    BY <1>11, <1>12, <1>15, <2>1
  <2>3. PICK j \in 1..Len(rounds) : set(k) = rounds[j]
    BY <2>2 DEF Elements
  <2> QED
    BY <1>9, <2>3
<1> QED
  BY <1>12, <1>13, <1>14, <1>15 DEF Rounds

\* The pointers a write leaves: those of the file stay, the others get blocks
\* that are free in the bitmap, or alloc_blk's error.
Allotted(ptrs, c, have, K) ==
    /\ ptrs = [k \in Ptrs |-> ptrs[k]]
    /\ \A k \in Ptrs : k \notin K \/ k < have => ptrs[k] = disk[c].ptrs[k]
    /\ \A k \in K : ~ (k < have) => ptrs[k] < 0 \/ ptrs[k] \in Blocks \ ({0, 1} \cup bitmap)
    /\ \A k, l \in K : ~ (k < have) /\ ~ (l < have) /\ ~ (ptrs[k] < 0) /\ ptrs[k] = ptrs[l] => k = l
\* Every block was free, and none is still in the tree.
Unused(ptrs, have, good) == \A k \in good : ~ (k < have) => ptrs[k] \in Blocks \ ({0, 1} \cup InUse)
Written(ptrs, c, have, K) == Allotted(ptrs, c, have, K) /\ Unused(ptrs, have, K)

LEMMA WrittenFacts ==
    ASSUME NEW c, disk[c] \in Inode, NEW len \in Nat, NEW offset \in Nat,
           NEW have, have = DIV_ROUND_UP(disk[c].size), NEW K, K = Touched(len, offset),
           NEW ptrs, ptrs = WrittenPtrs(c, len, offset)
    PROVE  have \in Nat /\ Allotted(ptrs, c, have, K)
<1>1. disk[c].size \in Nat
  <2>1. MAX_FILE \in Nat
    BY SizesAssumption DEF MAX_FILE
  <2> QED
    BY <2>1 DEF Inode
<1>2. have \in Nat
  BY <1>1, RoundUp
<1>3. PICK f : /\ Allocates(f, c, DIV_ROUND_UP(disk[c].size))
               /\ ptrs = [k \in Ptrs |-> IF k \in Touched(len, offset) THEN f[k] ELSE disk[c].ptrs[k]]
  BY <1>2, FreshDefined
<1>4. Allocates(f, c, have)
  BY <1>3, Zenon
<1>5. /\ \A k \in Ptrs : k < have => f[k] = disk[c].ptrs[k]
      /\ \A k \in Ptrs : ~ (k < have) =>
            f[k] \in Int /\ (f[k] < 0 \/ f[k] \in Blocks \ ({0, 1} \cup bitmap))
      /\ \A k, l \in Ptrs : ~ (k < have) /\ ~ (l < have) /\ ~ (f[k] < 0) /\ f[k] = f[l] => k = l
  BY <1>2, <1>4, FreshFacts
<1>6. K \subseteq Ptrs
  BY TouchedFacts
<1>7. \A k \in Ptrs : ptrs[k] = IF k \in K THEN f[k] ELSE disk[c].ptrs[k]
  BY ONLY <1>3, K = Touched(len, offset)
<1>8. ptrs = [k \in Ptrs |-> ptrs[k]]
  BY ONLY <1>3
<1>9. Allotted(ptrs, c, have, K)
  BY ONLY <1>5, <1>6, <1>7, <1>8 DEF Allotted
<1> QED
  BY <1>2, <1>9

\* The file's size after a write, and the pointers that come into use.
LEMMA GrowFacts ==
    ASSUME NEW len \in Nat, NEW offset \in Nat, NEW size \in 0..MAX_FILE, offset =< size,
           offset + len =< MAX_FILE,
           NEW size2, size2 = IF offset + len > size THEN offset + len ELSE size,
           NEW have, have = DIV_ROUND_UP(size), NEW have2, have2 = DIV_ROUND_UP(size2)
    PROVE  /\ size2 \in 0..MAX_FILE
           /\ have \in Nat /\ have2 \in Nat
           /\ 0..(have - 1) \subseteq 0..(have2 - 1)
           /\ 0..(have2 - 1) \subseteq Ptrs
           /\ \A k \in 0..(have2 - 1) : ~ (k < have) => k \in Touched(len, offset)
           /\ Touched(len, offset) \subseteq 0..(have2 - 1)
<1>0. /\ FS_BLOCK_SIZE \in Nat \ {0} /\ NUM_PTRS_INODE \in Nat \ {0}
      /\ MAX_FILE = FS_BLOCK_SIZE * NUM_PTRS_INODE
  BY SizesAssumption DEF MAX_FILE
<1>1. MAX_FILE \in Nat
  BY <1>0
<1>2. size \in Nat /\ size2 \in Nat /\ size =< size2 /\ offset + len =< size2 /\ size2 =< MAX_FILE
  BY <1>1
<1>3. have \in Nat /\ \A k \in Nat : k < have <=> k * FS_BLOCK_SIZE < size
  BY <1>2, RoundUp
<1>4. have2 \in Nat /\ \A k \in Nat : k < have2 <=> k * FS_BLOCK_SIZE < size2
  BY <1>2, RoundUp
<1>5. \A k \in Nat : k * FS_BLOCK_SIZE \in Nat
  BY <1>0
<1>6. ASSUME NEW k \in 0..(have - 1) PROVE k \in 0..(have2 - 1)
  <2>1. k \in Nat /\ k < have
    BY <1>3
  <2>2. k < have2
    BY <1>2, <1>3, <1>4, <1>5, <2>1
  <2> QED
    BY <1>4, <2>1, <2>2
<1>7. ASSUME NEW k \in 0..(have2 - 1) PROVE k \in Ptrs
  <2>1. k \in Nat /\ k < have2
    BY <1>4
  <2>2. k * FS_BLOCK_SIZE < FS_BLOCK_SIZE * NUM_PTRS_INODE
    BY <1>0, <1>1, <1>2, <1>4, <1>5, <2>1
  <2>3. k < NUM_PTRS_INODE
    <3>1. SUFFICES ASSUME k >= NUM_PTRS_INODE PROVE FALSE
      BY <1>0, <2>1
    <3>2. k * FS_BLOCK_SIZE >= FS_BLOCK_SIZE * NUM_PTRS_INODE
      BY ONLY <1>0, <2>1, <3>1
    <3> QED
      BY <1>0, <1>5, <2>1, <2>2, <3>2
  <2> QED
    BY <1>0, <2>1, <2>3 DEF Ptrs
<1>8. ASSUME NEW k \in 0..(have2 - 1), ~ (k < have) PROVE k \in Touched(len, offset)
  <2>1. k \in Nat /\ k < have2
    BY <1>4
  <2>2. k * FS_BLOCK_SIZE < size2 /\ ~ (k * FS_BLOCK_SIZE < size)
    BY <1>3, <1>4, <1>8, <2>1
  <2>3. offset =< k * FS_BLOCK_SIZE /\ k * FS_BLOCK_SIZE < offset + len
    BY <1>2, <1>5, <2>1, <2>2
  <2> QED
    BY <1>7, <2>3, TouchedFacts
<1>9. ASSUME NEW k \in Touched(len, offset) PROVE k \in 0..(have2 - 1)
  <2>1. k \in Ptrs /\ k * FS_BLOCK_SIZE < offset + len
    BY TouchedFacts
  <2>2. k \in Nat
    BY <1>0, <2>1 DEF Ptrs
  <2>3. k < have2
    BY <1>2, <1>4, <1>5, <2>1, <2>2
  <2> QED
    BY <1>4, <2>2, <2>3
<1>10. size2 \in 0..MAX_FILE
  BY <1>1, <1>2
<1> QED
  BY <1>3, <1>4, <1>6, <1>7, <1>8, <1>9, <1>10

\* The blocks the rounds write exist.
LEMMA GoodBlocks ==
    ASSUME NEW I, Shape(I, disk), NEW c \in I, disk[c].type = "file",
           NEW have \in Nat, have = DIV_ROUND_UP(disk[c].size),
           NEW K, K \subseteq Ptrs, NEW ptrs, Allotted(ptrs, c, have, K),
           NEW good, good \subseteq K, Positive(ptrs, good)
    PROVE  \A k \in good : ptrs[k] \in Blocks
<1>1. Pointers(disk[c]) = 0..(have - 1)
  BY DEF Pointers
<1>2. ASSUME NEW k \in good PROVE ptrs[k] \in Blocks
  <2>1. CASE k < have
    <3>1. k \in Nat
      BY SizesAssumption DEF Ptrs
    <3>2. k \in Pointers(disk[c])
      BY <1>1, <2>1, <3>1
    <3>3. ptrs[k] = disk[c].ptrs[k]
      BY <2>1 DEF Allotted
    <3> QED
      BY <3>2, <3>3 DEF Shape, Inodal
  <2>2. CASE ~ (k < have)
    BY <2>2 DEF Allotted, Positive
  <2> QED
    BY <2>1, <2>2
<1> QED
  BY <1>2

\* Unless the history says so, none of the blocks that are marked is in use.
LEMMA UnusedBlocks ==
    ASSUME NEW c, NEW have, NEW K, NEW ptrs, Allotted(ptrs, c, have, K),
           NEW good, good \subseteq K, Positive(ptrs, good),
           NEW rounds, Rounds(rounds, ptrs, good, have),
           \A j \in 1..Len(rounds) : rounds[j].op = "set" => rounds[j].blk \notin loose
    PROVE  Unused(ptrs, have, good)
<1>1. ASSUME NEW k \in good, ~ (k < have) PROVE ptrs[k] \in Blocks \ ({0, 1} \cup InUse)
  <2>1. ptrs[k] \in Blocks \ ({0, 1} \cup bitmap)
    BY <1>1 DEF Allotted, Positive
  <2>2. PICK j \in 1..Len(rounds) : rounds[j].op = "set" /\ rounds[j].blk = ptrs[k]
    BY <1>1 DEF Rounds
  <2>3. ptrs[k] \notin loose
    BY <2>2
  <2> QED
    BY <2>1, <2>3 DEF InUse
<1> QED
  BY <1>1 DEF Unused

\* The rounds write no inode and no directory.
LEMMA SafeRounds ==
    ASSUME NEW I, Shape(I, disk), Marked(I, InUse, disk), NEW c \in I, disk[c].type = "file",
           NEW have \in Nat, have = DIV_ROUND_UP(disk[c].size),
           NEW K, K \subseteq Ptrs, NEW ptrs, Allotted(ptrs, c, have, K),
           NEW good, good \subseteq K, Unused(ptrs, have, good)
    PROVE  Apart(I, ptrs, good)
<1>1. Pointers(disk[c]) = 0..(have - 1)
  BY DEF Pointers
<1>2. ASSUME NEW k \in good
      PROVE  /\ ptrs[k] \in Blocks /\ ptrs[k] \notin I
             /\ \A b \in I : disk[b].type = "dir" => ptrs[k] # disk[b].ptrs[0]
  <2>1. CASE k < have
    <3>1. k \in Nat
      BY SizesAssumption DEF Ptrs
    <3>2. k \in Pointers(disk[c])
      BY <1>1, <2>1, <3>1
    <3>3. ptrs[k] = disk[c].ptrs[k]
      BY <2>1 DEF Allotted
    <3>4. disk[c].ptrs[k] \in Blocks \ I
      BY <3>2 DEF Shape, Inodal
    <3>5. ASSUME NEW b \in I, disk[b].type = "dir" PROVE disk[c].ptrs[k] # disk[b].ptrs[0]
      <4>1. c # b
        BY <3>5
      <4> QED
        BY <3>2, <3>5, <4>1, DirFacts
    <3> QED
      BY <3>3, <3>4, <3>5
  <2>2. CASE ~ (k < have)
    <3>2. ptrs[k] \in Blocks \ InUse
      BY <2>2 DEF Unused
    <3>3. \A b \in I : b \in InUse
      BY DEF Marked
    <3>4. ASSUME NEW b \in I, disk[b].type = "dir" PROVE disk[b].ptrs[0] \in InUse
      <4>1. disk[b] \in Inode
        BY DEF Shape, Inodal
      <4>2. 0 \in Pointers(disk[b])
        BY <3>4, <4>1, PointersFacts
      <4> QED
        BY <4>2 DEF Marked
    <3> QED
      BY <3>2, <3>3, <3>4
  <2> QED
    BY <2>1, <2>2
<1> QED
  BY <1>2 DEF Apart

\* As long as only rounds have been written, the tree is as it was.
Begins(writes, n, rounds) == \A i \in 1..n : i \in 1..Len(rounds) /\ writes[i] = rounds[i]
LEMMA RoundsHeld ==
    ASSUME NEW I, I \subseteq Blocks, Shape(I, disk), Marked(I, InUse, disk),
           NEW ptrs, NEW good, NEW have, NEW rounds, Rounds(rounds, ptrs, good, have),
           Apart(I, ptrs, good), NEW n \in Nat, NEW writes, Begins(writes, n, rounds)
    PROVE  /\ \A i \in 1..n : writes[i].op \in {"set", "put"}
           /\ \A i \in 1..n : writes[i].op = "put" => writes[i].block \in Block
           /\ Held(MarkedAfter(InUse, writes, n), block_write(disk, writes, n), FALSE)
<1>1. \A i \in 1..n : writes[i].op \in {"set", "put"}
  BY DEF Rounds, Begins
<1>2. \A i \in 1..n : writes[i].op = "put" =>
         writes[i].block \in DataBlock /\ \E k \in good : writes[i].blk = ptrs[k]
  BY DEF Rounds, Begins
<1>3. \A i \in 1..n : writes[i].op = "put" => writes[i].block \in Block
  BY <1>2 DEF Block
<1>4. \A i \in 1..n : writes[i].op = "put" =>
         /\ writes[i].blk \notin I
         /\ \A b \in I : disk[b].type = "dir" => writes[i].blk # disk[b].ptrs[0]
  BY <1>2 DEF Apart
<1>5. PICK map : map = MarkedAfter(InUse, writes, n)
  OBVIOUS
<1>6. PICK image : image = block_write(disk, writes, n)
  OBVIOUS
<1>7. Shape(I, image) /\ Marked(I, map, image)
  BY <1>1, <1>4, <1>5, <1>6, Harmless
<1>8. Held(MarkedAfter(InUse, writes, n), block_write(disk, writes, n), FALSE)
  BY <1>5, <1>6, <1>7 DEF Held
<1> QED
  BY <1>1, <1>3, <1>8

\* The inode a write leaves.
Updated(new, c, ptrs, size2) == new = [disk[c] EXCEPT !.ptrs = ptrs, !.size = size2]
LEMMA WrittenInode ==
    ASSUME NEW I, Shape(I, disk), Marked(I, InUse, disk), NEW c \in I, disk[c].type = "file",
           NEW have \in Nat, have = DIV_ROUND_UP(disk[c].size), NEW K, K \subseteq Ptrs,
           NEW ptrs, Allotted(ptrs, c, have, K), Positive(ptrs, K), NEW size2 \in 0..MAX_FILE,
           NEW new, Updated(new, c, ptrs, size2)
    PROVE  new \in Inode /\ new.type = "file" /\ new.size = size2 /\ new.ptrs = ptrs
<1>1. disk[c] \in Inode
  BY DEF Shape, Inodal
<1>2. disk[c].ptrs \in [Ptrs -> Blocks \cup {JUNK}]
  BY <1>1 DEF Inode
<1>3. ASSUME NEW k \in Ptrs PROVE ptrs[k] \in Blocks \cup {JUNK}
  <2>1. CASE k \notin K \/ k < have
    <3>1. ptrs[k] = disk[c].ptrs[k]
      BY <2>1 DEF Allotted
    <3> QED
      BY <1>2, <3>1
  <2>2. CASE k \in K /\ ~ (k < have)
    BY <2>2 DEF Allotted, Positive
  <2> QED
    BY <2>1, <2>2
<1>4. ptrs \in [Ptrs -> Blocks \cup {JUNK}]
  <2>1. ptrs = [k \in Ptrs |-> ptrs[k]]
    BY DEF Allotted
  <2> QED
    BY ONLY <1>3, <2>1
<1> QED
  BY <1>1, <1>4 DEF Inode, Updated

\* What the write as a whole does, once the inode is written too.
Extends(writes, r, rounds, c, new) ==
    /\ r = Len(rounds) /\ Len(writes) = r + 1
    /\ \A i \in 1..r : writes[i] = rounds[i]
    /\ writes[r + 1].op = "put" /\ writes[r + 1].blk = c /\ writes[r + 1].block = new

Larger(I, map, image, c, new) ==
    /\ Shape(I, image) /\ Marked(I, map, image) /\ image[c] = new
    /\ Exact(I, InUse, disk) => Exact(I, map, image)
    /\ \A b \in I \ {c} : image[b] = disk[b]
    /\ \A b \in I : disk[b].type = "dir" => image[disk[b].ptrs[0]] = disk[disk[b].ptrs[0]]

LEMMA WrittenGrows ==
    ASSUME NEW I, I \subseteq Blocks, Shape(I, disk), Marked(I, InUse, disk),
           NEW c \in I, disk[c].type = "file", NEW len \in Nat, NEW offset \in Nat,
           offset =< disk[c].size, offset + len =< MAX_FILE,
           NEW K, K = Touched(len, offset), NEW have, have = DIV_ROUND_UP(disk[c].size),
           NEW ptrs, Written(ptrs, c, have, K), Positive(ptrs, K),
           NEW rounds, Rounds(rounds, ptrs, K, have),
           NEW new, new \in Inode, new.type = "file", new.ptrs = ptrs,
           new.size = IF offset + len > disk[c].size THEN offset + len ELSE disk[c].size,
           NEW r \in Nat, NEW writes, Extends(writes, r, rounds, c, new),
           NEW map, map = MarkedAfter(InUse, writes, r + 1),
           NEW image, image = block_write(disk, writes, r + 1)
    PROVE  Larger(I, map, image, c, new)
<1>1. disk[c] \in Inode /\ disk[c].size \in 0..MAX_FILE
  BY DEF Shape, Inodal, Inode
<1>2. PICK have2 : have2 = DIV_ROUND_UP(new.size)
  OBVIOUS
<1>3. /\ have \in Nat /\ have2 \in Nat
      /\ 0..(have - 1) \subseteq 0..(have2 - 1)
      /\ 0..(have2 - 1) \subseteq Ptrs
      /\ \A k \in 0..(have2 - 1) : ~ (k < have) => k \in K
      /\ K \subseteq 0..(have2 - 1)
  <2>1. PICK size : size = disk[c].size
    OBVIOUS
  <2>2. PICK size2 : size2 = new.size
    OBVIOUS
  <2>3. /\ size \in 0..MAX_FILE /\ offset =< size /\ offset + len =< MAX_FILE
        /\ size2 = IF offset + len > size THEN offset + len ELSE size
        /\ have = DIV_ROUND_UP(size) /\ have2 = DIV_ROUND_UP(size2)
    BY <1>1, <1>2, <2>1, <2>2
  <2>4. len \in Nat /\ offset \in Nat /\ K = Touched(len, offset)
    OBVIOUS
  <2>5. /\ have \in Nat /\ have2 \in Nat
        /\ 0..(have - 1) \subseteq 0..(have2 - 1)
        /\ 0..(have2 - 1) \subseteq Ptrs
        /\ \A k \in 0..(have2 - 1) : ~ (k < have) => k \in Touched(len, offset)
        /\ Touched(len, offset) \subseteq 0..(have2 - 1)
    BY ONLY <2>3, <2>4, GrowFacts
  <2> QED
    BY ONLY <2>4, <2>5
<1>4. Pointers(disk[c]) = 0..(have - 1) /\ Pointers(new) = 0..(have2 - 1)
  BY <1>2 DEF Pointers
<1>5. /\ \A k \in K : ptrs[k] \in Blocks /\ ptrs[k] \notin I
      /\ \A k \in K : \A b \in I : disk[b].type = "dir" => ptrs[k] # disk[b].ptrs[0]
  <2>1. K \subseteq Ptrs /\ have \in Nat /\ K \subseteq K
    BY <1>3
  <2>2. /\ Shape(I, disk) /\ Marked(I, InUse, disk) /\ c \in I /\ disk[c].type = "file"
        /\ have = DIV_ROUND_UP(disk[c].size)
        /\ Allotted(ptrs, c, have, K) /\ Unused(ptrs, have, K)
    BY DEF Written
  <2>3. Apart(I, ptrs, K)
    BY ONLY <2>1, <2>2, SafeRounds
  <2> QED
    BY <2>3 DEF Apart
<1>6. /\ r + 1 \in Nat /\ r + 1 \in 1..(r + 1)
      /\ \A i \in 1..(r + 1) : i \in 1..r \/ i = r + 1
      /\ \A i \in 1..r : i \in 1..(r + 1) /\ i \in 1..Len(rounds)
      /\ \A i \in (r + 1 + 1)..(r + 1) : FALSE
  BY DEF Extends
<1>7. /\ \A i \in 1..r : writes[i] = rounds[i]
      /\ writes[r + 1].op = "put" /\ writes[r + 1].blk = c /\ writes[r + 1].block = new
  BY DEF Extends
<1>8. \A i \in 1..(r + 1) : writes[i].op \in {"set", "put"}
  BY <1>6, <1>7 DEF Rounds
<1>9. \A i \in 1..(r + 1) : writes[i].op = "put" =>
         writes[i].blk = c \/ \E k \in K : writes[i].blk = ptrs[k]
  BY <1>6, <1>7 DEF Rounds
<1>10. image[c] = new
  <2>1. c \in Blocks
    OBVIOUS
  <2> QED
    BY <1>6, <1>7, <2>1, BlockPut
<1>11. ASSUME NEW b \in Blocks \ {c}, \A k \in K : b # ptrs[k] PROVE image[b] = disk[b]
  <2>1. \A i \in 1..(r + 1) : writes[i].op = "put" => writes[i].blk # b
    BY <1>9, <1>11
  <2> QED
    BY <1>6, <2>1, BlockLeft
<1>12. \A b \in I \ {c} : image[b] = disk[b]
  BY <1>5, <1>11
<1>13. ASSUME NEW b \in I, disk[b].type = "dir"
       PROVE  image[disk[b].ptrs[0]] = disk[disk[b].ptrs[0]]
  <2>1. disk[b].ptrs[0] \in Blocks \ {c}
    BY <1>13, DirFacts
  <2>2. \A k \in K : disk[b].ptrs[0] # ptrs[k]
    BY <1>5, <1>13
  <2> QED
    BY <1>11, <2>1, <2>2
<1>14. \A k : k \in Pointers(image[c]) \ Pointers(disk[c]) <=> k \in K /\ ~ (k < have)
  <2>1. \A k \in 0..(have2 - 1) : k \in Nat
    OBVIOUS
  <2>2. \A k \in Nat : k \in 0..(have - 1) <=> k < have
    BY <1>3
  <2> QED
    BY <1>3, <1>4, <1>10, <2>1, <2>2
<1>15. ASSUME NEW x \in Blocks
       PROVE  x \in map <=> x \in InUse \/ \E k \in K : ~ (k < have) /\ x = ptrs[k]
  <2>1. \A i \in 1..(r + 1) : writes[i].op = "clear" => writes[i].blk # x
    BY <1>8
  <2>2. x \in map <=> x \in InUse \/ \E i \in 1..(r + 1) : writes[i].op = "set" /\ writes[i].blk = x
    BY <1>6, <2>1, MarkSet
  <2>3. ASSUME NEW i \in 1..(r + 1), writes[i].op = "set", writes[i].blk = x
        PROVE  \E k \in K : ~ (k < have) /\ x = ptrs[k]
    <3>1. i \in 1..Len(rounds) /\ writes[i] = rounds[i]
      BY <1>6, <1>7, <2>3
    <3> QED
      BY <2>3, <3>1 DEF Rounds
  <2>4. ASSUME NEW k \in K, ~ (k < have), x = ptrs[k]
        PROVE  \E i \in 1..(r + 1) : writes[i].op = "set" /\ writes[i].blk = x
    <3>1. PICK i \in 1..Len(rounds) : rounds[i].op = "set" /\ rounds[i].blk = ptrs[k]
      BY <2>4 DEF Rounds
    <3>2. i \in 1..r /\ i \in 1..(r + 1)
      BY <1>6 DEF Extends
    <3> QED
      BY <1>7, <2>4, <3>1, <3>2
  <2> QED
    BY <2>2, <2>3, <2>4
<1>16. Grows(I, disk, InUse, image, map, c)
  <2>1. image[c] \in Inode /\ image[c].type = "file"
    BY <1>10
  <2>2. Pointers(disk[c]) \subseteq Pointers(image[c])
    BY <1>3, <1>4, <1>10
  <2>3. ASSUME NEW k \in Pointers(disk[c]) PROVE image[c].ptrs[k] = disk[c].ptrs[k]
    <3>1. k \in Ptrs /\ k < have
      BY <1>3, <1>4
    <3> QED
      BY <1>10, <3>1 DEF Written, Allotted
  <2>4. ASSUME NEW k \in Pointers(image[c]) \ Pointers(disk[c])
        PROVE  image[c].ptrs[k] \in Blocks \ ({0, 1} \cup InUse)
    BY <1>10, <1>14 DEF Written, Unused
  <2>5. ASSUME NEW k \in Pointers(image[c]) \ Pointers(disk[c]),
               NEW l \in Pointers(image[c]) \ Pointers(disk[c]),
               image[c].ptrs[k] = image[c].ptrs[l]
        PROVE  k = l
    BY <1>10, <1>14, <2>5 DEF Written, Allotted, Positive
  <2>6. ASSUME NEW x \in Blocks
        PROVE  x \in map <=> \/ x \in InUse
                             \/ \E k \in Pointers(image[c]) \ Pointers(disk[c]) : x = image[c].ptrs[k]
    BY <1>10, <1>14, <1>15
  <2> QED
    BY ONLY <1>12, <1>13, <2>1, <2>2, <2>3, <2>4, <2>5, <2>6 DEF Grows
<1>17. map \subseteq Blocks
  BY DEF MarkedAfter
<1>18. /\ Shape(I, image) /\ Marked(I, map, image)
       /\ Exact(I, InUse, disk) => Exact(I, map, image)
  <2>1. Shape(I, disk) /\ Marked(I, InUse, disk) /\ c \in I /\ disk[c].type = "file"
    OBVIOUS
  <2> QED
    BY ONLY <1>16, <1>17, <2>1, Grown
<1> QED
  BY <1>10, <1>12, <1>13, <1>18 DEF Larger

LEMMA WrittenHeld ==
    ASSUME NEW I, I \subseteq Blocks, Shape(I, disk), Marked(I, InUse, disk),
           aborted = "no" => Exact(I, InUse, disk) /\ Reached(I, disk),
           NEW c \in I, disk[c].type = "file", NEW len \in Nat, NEW offset \in Nat,
           offset =< disk[c].size, offset + len =< MAX_FILE,
           NEW K, K = Touched(len, offset), NEW have, have = DIV_ROUND_UP(disk[c].size),
           NEW ptrs, Written(ptrs, c, have, K), Positive(ptrs, K),
           NEW rounds, Rounds(rounds, ptrs, K, have),
           NEW new, new \in Inode, new.type = "file", new.ptrs = ptrs,
           new.size = IF offset + len > disk[c].size THEN offset + len ELSE disk[c].size,
           NEW r \in Nat, NEW writes, Extends(writes, r, rounds, c, new),
           NEW map, map = MarkedAfter(InUse, writes, r + 1),
           NEW image, image = block_write(disk, writes, r + 1)
    PROVE  Held(map, image, aborted = "no")
<1>1. /\ Shape(I, image) /\ Marked(I, map, image) /\ image[c] = new
      /\ Exact(I, InUse, disk) => Exact(I, map, image)
      /\ \A b \in I \ {c} : image[b] = disk[b]
      /\ \A b \in I : disk[b].type = "dir" => image[disk[b].ptrs[0]] = disk[disk[b].ptrs[0]]
  <2>1. /\ I \subseteq Blocks /\ Shape(I, disk) /\ Marked(I, InUse, disk)
        /\ c \in I /\ disk[c].type = "file" /\ len \in Nat /\ offset \in Nat
        /\ offset =< disk[c].size /\ offset + len =< MAX_FILE
        /\ K = Touched(len, offset) /\ have = DIV_ROUND_UP(disk[c].size)
        /\ Written(ptrs, c, have, K) /\ Positive(ptrs, K) /\ Rounds(rounds, ptrs, K, have)
    OBVIOUS
  <2>2. /\ new \in Inode /\ new.type = "file" /\ new.ptrs = ptrs
        /\ new.size = IF offset + len > disk[c].size THEN offset + len ELSE disk[c].size
        /\ r \in Nat /\ Extends(writes, r, rounds, c, new)
        /\ map = MarkedAfter(InUse, writes, r + 1) /\ image = block_write(disk, writes, r + 1)
    OBVIOUS
  <2>3. Larger(I, map, image, c, new)
    BY ONLY <2>1, <2>2, WrittenGrows
  <2> QED
    BY <2>3 DEF Larger
<1>2. Reached(I, disk) => Reached(I, image)
  <2>1. \A b \in I : (image[b].type = disk[b].type /\ image[b].ptrs = disk[b].ptrs)
                     \/ (disk[b].type = "file" /\ image[b].type = "file")
    BY <1>1
  <2>2. Shape(I, disk)
    OBVIOUS
  <2> QED
    BY ONLY <1>1, <2>1, <2>2, ReachedSame
<1> QED
  BY <1>1, <1>2 DEF Held

\* The names fs_write gives to what it computes.
Writing(c, data, offset, K, ptrs, bad, good, rounds) ==
    /\ K = Touched(Len(data), offset)
    /\ ptrs = WrittenPtrs(c, Len(data), offset)
    /\ Good(ptrs, K, bad, good)
    /\ AllRounds(rounds, c, ptrs, good, data, offset)

LEMMA WriteBody ==
    ASSUME IInv, Serving, NEW p \in Paths, NEW data \in Payloads, NEW offset \in Offsets,
           NEW call, NEW c, c = Walk(disk, p), WriteError(c, Len(data), offset) = 0,
           NEW K, NEW ptrs, NEW bad, NEW good, NEW rounds,
           Writing(c, data, offset, K, ptrs, bad, good, rounds),
           NEW size2, size2 = (IF offset + Len(data) > disk[c].size THEN offset + Len(data)
                                                                    ELSE disk[c].size),
           NEW new, Updated(new, c, ptrs, size2), NEW writes, writes = Append(rounds, Put(c, new)),
           \/ bad = {} /\ Commit(call, Len(data), writes)
           \/ bad # {} /\ Dies(call, -SIGABRT, rounds, Len(rounds))
    PROVE  IInv'
<1>1. PICK I \in SUBSET Blocks : /\ Shape(I, disk) /\ Marked(I, InUse, disk)
                                 /\ aborted = "no" => Exact(I, InUse, disk) /\ Reached(I, disk)
  BY HeldNow DEF Held
<1>2. PICK len : len = Len(data)
  OBVIOUS
<1>3. len \in Nat /\ offset \in Nat /\ MAX_FILE \in Nat
  <2>1. MAX_FILE \in Nat
    BY SizesAssumption DEF MAX_FILE
  <2>2. PICK m \in 0..MAX_WRITE : data \in [1..m -> Bytes]
    BY DEF Payloads
  <2>3. m \in Nat
    BY SizesAssumption
  <2>4. Len(data) = m
    BY <2>2, <2>3
  <2> QED
    BY <1>2, <2>1, <2>3, <2>4 DEF Offsets
<1>4. ~ (c < 0) /\ disk[c].type # "dir" /\ ~ (offset > disk[c].size) /\ ~ (offset + len > MAX_FILE)
  BY <1>2 DEF WriteError, EISDIR, EINVAL, ENOSPC, IsDir
<1>5. c \in I
  BY <1>1, <1>4, PathInode
<1>6. disk[c] \in Inode /\ disk[c].type = "file"
  BY <1>1, <1>4, <1>5, PointersFacts DEF Shape, Inodal
<1>7. disk[c].size \in 0..MAX_FILE /\ offset =< disk[c].size /\ offset + len =< MAX_FILE
  <2>1. disk[c].size \in 0..MAX_FILE
    BY <1>6 DEF Inode
  <2> QED
    BY <1>3, <1>4, <2>1
<1>8. PICK have : have = DIV_ROUND_UP(disk[c].size)
  OBVIOUS
<1>9. K = Touched(len, offset) /\ ptrs = WrittenPtrs(c, len, offset)
  BY <1>2 DEF Writing
<1>10. have \in Nat /\ Allotted(ptrs, c, have, K)
  BY ONLY <1>3, <1>6, <1>8, <1>9, WrittenFacts
<1>11. K \subseteq Ptrs
  BY <1>3, <1>9, TouchedFacts
<1>12. good \subseteq K /\ (bad = {} => good = K) /\ Convex(good) /\ Positive(ptrs, good)
  <2>1. Good(ptrs, K, bad, good)
    BY DEF Writing
  <2> QED
    BY ONLY <1>3, <1>9, <2>1, GoodFacts
<1>13. \A k \in good : ptrs[k] \in Blocks
  BY ONLY <1>1, <1>5, <1>6, <1>8, <1>10, <1>11, <1>12, GoodBlocks
<1>14. /\ disk \in [Blocks -> Block] /\ aborted \in {"no", "died"}
       /\ TypeOK /\ loose \subseteq Blocks
  BY DEF IInv, TypeOK, Block, Serving
<1>15. /\ Len(rounds) \in Nat /\ (\E S : rounds \in Seq(S))
       /\ Rounds(rounds, ptrs, good, have)
  <2>1. AllRounds(rounds, c, ptrs, good, data, offset) /\ data \in Payloads
    BY DEF Writing
  <2> QED
    BY ONLY <1>8, <1>10, <1>12, <1>13, <1>14, <2>1, RoundsFacts
<1>16. PICK r : r = Len(rounds)
  OBVIOUS
<1>17. r \in Nat
  BY <1>15, <1>16
<1>18. ASSUME \A j \in 1..Len(rounds) : rounds[j].op = "set" => rounds[j].blk \notin loose
       PROVE  /\ Unused(ptrs, have, good)
              /\ \A n \in Nat : \A s : Begins(s, n, rounds) =>
                     /\ \A i \in 1..n : s[i].op \in {"set", "put"}
                     /\ \A i \in 1..n : s[i].op = "put" => s[i].block \in Block
                     /\ Held(MarkedAfter(InUse, s, n), block_write(disk, s, n), FALSE)
  <2>1. I \subseteq Blocks
    OBVIOUS
  <2>2. Unused(ptrs, have, good)
    BY ONLY <1>10, <1>12, <1>15, <1>18, UnusedBlocks
  <2>3. Apart(I, ptrs, good)
    BY ONLY <1>1, <1>5, <1>6, <1>8, <1>10, <1>11, <1>12, <2>2, SafeRounds
  <2>4. ASSUME NEW n \in Nat, NEW s, Begins(s, n, rounds)
        PROVE  /\ \A i \in 1..n : s[i].op \in {"set", "put"}
               /\ \A i \in 1..n : s[i].op = "put" => s[i].block \in Block
               /\ Held(MarkedAfter(InUse, s, n), block_write(disk, s, n), FALSE)
    BY ONLY <1>1, <1>15, <2>1, <2>3, <2>4, RoundsHeld
  <2> QED
    BY <2>2, <2>4
<1>19. CASE bad = {} /\ Commit(call, len, writes)
  <2>1. good = K /\ Positive(ptrs, K)
    BY <1>12, <1>19
  <2>2. size2 \in 0..MAX_FILE /\ size2 = IF offset + len > disk[c].size THEN offset + len ELSE disk[c].size
    BY <1>2, <1>3, <1>7
  <2>3. Updated(new, c, ptrs, size2)
    OBVIOUS
  <2>4. new \in Inode /\ new.type = "file" /\ new.size = size2 /\ new.ptrs = ptrs
    BY ONLY <1>1, <1>5, <1>6, <1>8, <1>10, <1>11, <2>1, <2>2, <2>3, WrittenInode
  <2>5. /\ Len(writes) = r + 1
        /\ \A i \in 1..r : writes[i] = rounds[i]
        /\ writes[r + 1] = Put(c, new)
    <3>1. PICK S : rounds \in Seq(S)
      BY <1>15
    <3>2. PICK x : x = Put(c, new)
      OBVIOUS
    <3>3. writes = Append(rounds, x)
      BY <3>2
    <3>4. rounds \in Seq(S \cup {x})
      BY ONLY <3>1
    <3>5. Len(writes) = r + 1 /\ (\A i \in 1..r : writes[i] = rounds[i]) /\ writes[r + 1] = x
      BY ONLY <1>16, <3>3, <3>4
    <3> QED
      BY <3>2, <3>5
  <2>6. Extends(writes, r, rounds, c, new)
    BY <1>16, <2>5 DEF Extends, Put
  <2>7. /\ r + 1 \in Nat
        /\ \A i \in 1..(r + 1) : i \in 1..r \/ i = r + 1
        /\ \A i \in 1..r : i \in 1..Len(rounds) /\ i \in 1..(r + 1)
        /\ \A m \in 1..((r + 1) - 1) : m \in Nat /\ 1 \in 1..m /\ \A i \in 1..m : i \in 1..r
        /\ r + 1 \in 1..(r + 1) /\ 1..Len(rounds) = 1..r
    BY <1>16, <1>17
  <2>8. \A i \in 1..(r + 1) : writes[i].op = "put" => writes[i].block \in Block
    <3>1. \A i \in 1..r : rounds[i].op = "put" => rounds[i].block \in DataBlock
      BY <1>15, <2>7 DEF Rounds
    <3>2. writes[r + 1].block = new
      BY <2>6 DEF Extends
    <3> QED
      BY <2>4, <2>5, <2>7, <3>1, <3>2 DEF Block
  <2>9. IInv /\ Serving /\ r + 1 = Len(writes) /\ r + 1 \in Nat
    BY <2>5, <2>7
  <2>10. CASE aborted' = "reused"
    BY ONLY <1>19, <2>8, <2>9, <2>10, CommitTyped
  <2>11. CASE aborted' # "reused"
    <3>1. \A i \in 1..Len(writes) : writes[i].op = "set" => writes[i].blk \notin loose
      BY ONLY <1>19, <2>9, <2>11, NotReused
    <3>2. \A j \in 1..Len(rounds) : rounds[j].op = "set" => rounds[j].blk \notin loose
      BY <2>5, <2>7, <3>1
    <3>3. Written(ptrs, c, have, K)
      BY <1>10, <1>18, <2>1, <3>2 DEF Written
    <3>4. \A n \in Nat : \A s : Begins(s, n, rounds) =>
             /\ \A i \in 1..n : s[i].op \in {"set", "put"}
             /\ Held(MarkedAfter(InUse, s, n), block_write(disk, s, n), FALSE)
      BY ONLY <1>18, <3>2
    <3>5. PICK map : map = MarkedAfter(InUse, writes, r + 1)
      OBVIOUS
    <3>6. PICK image : image = block_write(disk, writes, r + 1)
      OBVIOUS
    <3>7. Held(map, image, aborted = "no")
      <4>1. Rounds(rounds, ptrs, K, have)
        BY <1>15, <2>1
      <4>2. I \subseteq Blocks /\ new.size = IF offset + len > disk[c].size THEN offset + len ELSE disk[c].size
        BY <2>2, <2>4
      <4> QED
        BY ONLY <1>1, <1>3, <1>5, <1>6, <1>7, <1>8, <1>9, <1>17, <2>1, <2>4, <2>6,
                <3>3, <3>5, <3>6, <4>1, <4>2, WrittenHeld
    <3>8. Held(MarkedAfter(InUse, writes, r + 1), block_write(disk, writes, r + 1), aborted = "no")
      BY <3>5, <3>6, <3>7, Zenon
    <3>9. ASSUME NEW m \in 1..((r + 1) - 1)
          PROVE  /\ \E i \in 1..m : writes[i].op # "clear"
                 /\ Held(MarkedAfter(InUse, writes, m), block_write(disk, writes, m), FALSE)
      <4>1. m \in Nat /\ 1 \in 1..m /\ Begins(writes, m, rounds)
        BY <2>5, <2>7 DEF Begins
      <4>2. /\ \A i \in 1..m : writes[i].op \in {"set", "put"}
            /\ Held(MarkedAfter(InUse, writes, m), block_write(disk, writes, m), FALSE)
        BY ONLY <3>4, <4>1
      <4> QED
        BY <4>1, <4>2
    <3>10. \E i \in 1..(r + 1) : writes[i].op # "clear"
      BY <2>6, <2>7 DEF Extends
    <3> QED
      BY ONLY <1>19, <2>8, <2>9, <3>8, <3>9, <3>10, CommitStep
  <2> QED
    BY <2>10, <2>11
<1>20. CASE bad # {} /\ Dies(call, -SIGABRT, rounds, Len(rounds))
  <2>1. /\ Performed(rounds, r) /\ up' = FALSE /\ returned'.code = -SIGABRT
        /\ aborted' = IF Reuses(rounds, r) THEN "reused" ELSE "died"
    BY <1>16, <1>20 DEF Dies, Reply
  <2>2. 1..Len(rounds) = 1..r /\ Begins(rounds, r, rounds)
    BY <1>16 DEF Begins
  <2>3. /\ \A i \in 1..r : rounds[i].op \in {"set", "put"}
        /\ \A i \in 1..r : rounds[i].op = "put" => rounds[i].block \in Block
    BY <1>15, <2>2 DEF Rounds, Block
  <2>4. CASE Reuses(rounds, r)
    BY <1>14, <1>17, <2>1, <2>3, <2>4, ReusedStep
  <2>5. CASE ~ Reuses(rounds, r)
    <3>1. \A j \in 1..Len(rounds) : rounds[j].op = "set" => rounds[j].blk \notin loose
      BY <2>2, <2>5 DEF Reuses
    <3>2. Held(MarkedAfter(InUse, rounds, r), block_write(disk, rounds, r), FALSE)
      BY ONLY <1>17, <1>18, <2>2, <3>1
    <3>3. InUse' = MarkedAfter(InUse, rounds, r) /\ loose' \subseteq loose
      <4>1. \A i \in 1..r : rounds[i].op # "clear"
        BY <2>3
      <4> QED
        BY ONLY <1>14, <1>17, <2>1, <4>1, InUseAfter
    <3>4. bitmap' \subseteq Blocks /\ disk' \in [Blocks -> Block]
      BY <1>14, <1>17, <2>1, <2>3, WriteTypes DEF Performed, TypeOK
    <3>5. aborted' = "died"
      BY <2>1, <2>5
    <3>6. Held(InUse', disk', aborted' = "no")
      BY <2>1, <3>2, <3>3, <3>5 DEF Performed
    <3>7. Torn' /\ loose' \subseteq Blocks
      BY <1>14, <2>1, <3>3 DEF Torn, SIGABRT
    <3> QED
      BY <2>1, <3>4, <3>5, <3>6, <3>7, HeldNext
  <2> QED
    BY <2>4, <2>5
<1> QED
  BY <1>2, <1>19, <1>20

LEMMA WriteStep ==
    ASSUME IInv, NEW p \in Paths, NEW data \in Payloads, NEW offset \in Offsets,
           fs_write(p, data, offset)
    PROVE  IInv'
<1> DEFINE call == [op |-> "write", path |-> p, data |-> data, at |-> offset]
           c == path2inum(p)
           K == Touched(Len(data), offset)
           ptrs == WrittenPtrs(c, Len(data), offset)
           bad == {k \in K : ptrs[k] < 0}
           good == {k \in K : \A j \in bad : k < j}
           rounds == FlattenSeq([i \in 1..Cardinality(good) |->
                        Round(c, ptrs, Lowest(good) + i - 1, data, offset)])
           size2 == IF offset + Len(data) > disk[c].size THEN offset + Len(data) ELSE disk[c].size
           new == [disk[c] EXCEPT !.ptrs = ptrs, !.size = size2]
           writes == Append(rounds, Put(c, new))
           Body == \/ bad = {} /\ Commit(call, Len(data), writes)
                   \/ bad # {} /\ Dies(call, -SIGABRT, rounds, Len(rounds))
<1>1. Serving
  BY DEF fs_write
<1>2. Refuse(call, WriteError(c, Len(data), offset)) \/ (WriteError(c, Len(data), offset) = 0 /\ Body)
  BY Zenon DEF fs_write
<1>3. CASE Refuse(call, WriteError(c, Len(data), offset))
  <2> HIDE DEF call
  <2> QED
    BY <1>1, <1>3, RefuseStep
<1>4. CASE WriteError(c, Len(data), offset) = 0 /\ Body
  <2>1. c = Walk(disk, p)
    BY DEF path2inum
  <2>2. Good(ptrs, K, bad, good)
    BY Zenon DEF Good
  <2>3. AllRounds(rounds, c, ptrs, good, data, offset)
    BY Zenon DEF AllRounds
  <2>4. Updated(new, c, ptrs, size2)
    BY Zenon DEF Updated
  <2>5. /\ K = Touched(Len(data), offset) /\ ptrs = WrittenPtrs(c, Len(data), offset)
        /\ size2 = (IF offset + Len(data) > disk[c].size THEN offset + Len(data) ELSE disk[c].size)
        /\ writes = Append(rounds, Put(c, new))
    BY Zenon
  <2>6. \/ bad = {} /\ Commit(call, Len(data), writes)
        \/ bad # {} /\ Dies(call, -SIGABRT, rounds, Len(rounds))
    BY <1>4, Zenon
  <2>7. WriteError(c, Len(data), offset) = 0
    BY <1>4, Zenon
  <2> HIDE DEF call, c, K, ptrs, bad, good, rounds, size2, new, writes, Body
  <2>8. Writing(c, data, offset, K, ptrs, bad, good, rounds)
    BY <2>2, <2>3, <2>5, Zenon DEF Writing
  <2>9. PICK call1, c1, K1, ptrs1, bad1, good1, rounds1, size21, new1, writes1 :
           /\ call1 = call /\ c1 = c /\ K1 = K /\ ptrs1 = ptrs /\ bad1 = bad /\ good1 = good
           /\ rounds1 = rounds /\ size21 = size2 /\ new1 = new /\ writes1 = writes
    OBVIOUS
  <2>10. /\ c1 = Walk(disk, p) /\ WriteError(c1, Len(data), offset) = 0
         /\ Writing(c1, data, offset, K1, ptrs1, bad1, good1, rounds1)
         /\ size21 = (IF offset + Len(data) > disk[c1].size THEN offset + Len(data)
                                                             ELSE disk[c1].size)
         /\ Updated(new1, c1, ptrs1, size21)
         /\ writes1 = Append(rounds1, Put(c1, new1))
         /\ \/ bad1 = {} /\ Commit(call1, Len(data), writes1)
            \/ bad1 # {} /\ Dies(call1, -SIGABRT, rounds1, Len(rounds1))
    BY <2>1, <2>4, <2>5, <2>6, <2>7, <2>8, <2>9, Zenon
  <2>11. IInv /\ Serving /\ p \in Paths /\ data \in Payloads /\ offset \in Offsets
    BY <1>1
  <2> QED
    BY ONLY <2>10, <2>11, WriteBody
<1> QED
  BY <1>2, <1>3, <1>4

-----------------------------------------------------------------------------
(* The specification. *)

LEMMA ReadStep == ASSUME IInv, ReadOnly PROVE IInv'
<1>1. Serving
  BY DEF ReadOnly
<1> QED
  BY <1>1, RefuseStep

LEMMA StutterStep == ASSUME IInv, UNCHANGED vars PROVE IInv'
<1>1. /\ bitmap' = bitmap /\ disk' = disk /\ up' = up /\ loose' = loose
      /\ returned' = returned /\ aborted' = aborted
  BY DEF vars
<1>2. TypeOK'
  BY <1>1 DEF IInv, TypeOK
<1>3. InUse' = InUse /\ (Torn <=> Torn')
  BY <1>1 DEF InUse, Torn
<1>4. aborted' # "reused" => Held(InUse', disk', aborted' = "no") /\ Torn'
  <2>1. aborted # "reused" => Held(InUse, disk, aborted = "no") /\ Torn
    BY DEF IInv
  <2> QED
    BY <1>1, <1>3, <2>1, Zenon
<1>5. aborted' = "no" => loose' = {}
  BY <1>1 DEF IInv
<1> QED
  BY <1>2, <1>4, <1>5, Zenon DEF IInv

LEMMA NextStep == ASSUME IInv, [Next]_vars PROVE IInv'
<1>1. CASE fs_init
  BY <1>1, InitStep
<1>2. CASE fs_statfs
  BY <1>2, ReadStep DEF fs_statfs
<1>3. ASSUME NEW p \in Paths,
             \/ fs_getattr(p) \/ fs_readdir(p) \/ fs_utime(p)
             \/ \E len \in 0..MAX_WRITE, off \in Offsets : fs_read(p, len, off)
      PROVE  IInv'
  <2>1. ReadOnly
    BY <1>3 DEF fs_getattr, fs_readdir, fs_utime, fs_read
  <2> QED
    BY <2>1, ReadStep
<1>4. ASSUME NEW p \in Paths, NEW dst \in Nameable, fs_rename(p, dst) PROVE IInv'
  BY <1>4, RenameStep
<1>5. ASSUME NEW p \in Paths, NEW perm \in Perms, fs_chmod(p, perm) PROVE IInv'
  BY <1>5, ChmodStep
<1>6. ASSUME NEW p \in Paths, fs_rmdir(p) PROVE IInv'
  BY <1>6, RmdirStep
<1>7. ASSUME NEW p \in Paths, NEW data \in Payloads, NEW off \in Offsets, fs_write(p, data, off)
      PROVE  IInv'
  BY <1>7, WriteStep
<1>8. ASSUME NEW p \in Paths, NEW len \in {0, 1}, fs_truncate(p, len) PROVE IInv'
  BY <1>8, TruncateStep
<1>9. ASSUME NEW p \in NonRoot, NEW perm \in Perms, fs_create(p, perm) PROVE IInv'
  BY <1>9, CreateStep
<1>10. ASSUME NEW p \in NonRoot, NEW perm \in Perms, fs_mkdir(p, perm) PROVE IInv'
  BY <1>10, MkdirStep
<1>11. ASSUME NEW p \in NonRoot, fs_unlink(p) PROVE IInv'
  BY <1>11, UnlinkStep
<1>12. CASE UNCHANGED vars
  BY <1>12, StutterStep
<1> QED
  BY <1>1, <1>2, <1>3, <1>4, <1>5, <1>6, <1>7, <1>8, <1>9, <1>10, <1>11, <1>12 DEF Next

\* The inductive invariant: there is a tree on the image, whatever the handlers
\* did and wherever a process died, until a block of a torn removal is reused.
THEOREM ImageHoldsTree == Spec => []IInv
<1>1. Init => IInv
  BY InitIInv
<1>2. IInv /\ [Next]_vars => IInv'
  BY NextStep
<1> QED
  BY <1>1, <1>2, PTL DEF Spec

\* Every block of the image keeps its format: no handler of fs5600.c writes a
\* block that is not an inode, a block of entries or data, whatever the sizes.
THEOREM BlocksTyped == Spec => []TypeOK
<1>1. IInv => TypeOK
  BY DEF IInv
<1> QED
  BY <1>1, ImageHoldsTree, PTL

\* No block has two owners and none in use is free in the bitmap, through every
\* sequence of calls, deaths of the process and remounts, but for the blocks a
\* removal freed before it was cut short: until one of those is allocated again
\* alloc_blk never hands out a block of a file.
THEOREM BlocksOwnedOnce == Spec => []OwnedOnce
<1>1. IInv => OwnedOnce
  BY OwnedOnceHolds
<1> QED
  BY <1>1, ImageHoldsTree, PTL

\* While no process died, the bitmap marks exactly the blocks in use: unlink,
\* rmdir, truncate and a failed mkdir give everything back.
THEOREM BlocksAccounted == Spec => []NothingLeaked
<1>1. IInv => NothingLeaked
  BY NothingLeakedHolds
<1> QED
  BY <1>1, ImageHoldsTree, PTL

=============================================================================
