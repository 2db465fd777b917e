-------------------------- MODULE Fs5600TreeProofs --------------------------
(***************************************************************************)
(* Fs5600 implements FsTree, whatever the sizes of the image, a block, a   *)
(* directory and an inode are.                                             *)
(*                                                                         *)
(* The tree is a function of paths, and a handler changes blocks.  On an   *)
(* image in the shape that Fs5600Proofs shows to be invariant every path   *)
(* leads to an inode of its own, so that a change of one directory's       *)
(* entries changes what the paths through that entry lead to and no        *)
(* others.  The lemmas say so for two images and the sets of their inodes; *)
(* the steps of the handlers then follow one by one.                       *)
(***************************************************************************)
EXTENDS Fs5600RefinesTree, Fs5600Proofs

\* The root is a directory.  A directory that a path leads to has no name
\* twice, and its entries are within reach of a path.
Fit(image) ==
  /\ image[ROOT].type = "dir"
  /\ \A p \in Paths : Walk(image, p) > 0 /\ image[Walk(image, p)].type = "dir" =>
        \A i \in Slots : Entries(image, Walk(image, p))[i] # NULL =>
            /\ Len(p) < MAX_LEVELS
            /\ \A j \in Slots :
                  /\ Entries(image, Walk(image, p))[j] # NULL
                  /\ Entries(image, Walk(image, p))[j].name = Entries(image, Walk(image, p))[i].name
                  => j = i

TreeInv == IInv /\ aborted # "reused" /\ Fit(disk) /\ tree = TreeOf(disk)

-----------------------------------------------------------------------------
(* Paths. *)

LEMMA PathFunction == \A p \in Paths : p = [i \in 1..Len(p) |-> p[i]]
<1> SUFFICES ASSUME NEW p \in Paths PROVE p = [i \in 1..Len(p) |-> p[i]]
  OBVIOUS
<1>1. DOMAIN p = 1..Len(p)
  BY PathFacts
<1>2. CASE p \in [1..1 -> LongNames]
  BY <1>1, <1>2
<1>3. CASE \E m \in 0..MAX_LEVELS : p \in [1..m -> Names]
  BY <1>1, <1>3
<1> QED
  BY <1>2, <1>3 DEF Paths

LEMMA PathEqual ==
    ASSUME NEW p \in Paths, NEW q \in Paths, Len(p) = Len(q),
           \A i \in 1..Len(p) : p[i] = q[i]
    PROVE  p = q
<1>1. p = [i \in 1..Len(p) |-> p[i]] /\ q = [i \in 1..Len(q) |-> q[i]]
  BY PathFunction
<1> QED
  BY <1>1

LEMMA PathSplit ==
    ASSUME NEW p \in Paths, NEW q \in Paths, p # <<>>, q # <<>>,
           Parent(p) = Parent(q), Name(p) = Name(q)
    PROVE  p = q
<1>1. /\ Len(p) \in Nat /\ Len(q) \in Nat /\ Len(p) # 0
      /\ Len(Parent(p)) = Len(p) - 1 /\ Len(Parent(q)) = Len(q) - 1
      /\ \A i \in 1..(Len(p) - 1) : Parent(p)[i] = p[i]
      /\ \A i \in 1..(Len(q) - 1) : Parent(q)[i] = q[i]
  BY PathFacts, ParentFacts
<1>2. Len(p) = Len(q)
  BY <1>1
<1>3. \A i \in 1..(Len(p) - 1) : p[i] = q[i]
  BY <1>1, <1>2
<1>4. p[Len(p)] = q[Len(p)]
  BY <1>2 DEF Name
<1>5. \A i \in 1..Len(p) : i \in 1..(Len(p) - 1) \/ i = Len(p)
  BY <1>1
<1>6. \A i \in 1..Len(p) : p[i] = q[i]
  BY <1>3, <1>4, <1>5
<1> QED
  BY <1>2, <1>6, PathEqual

\* An inode is at one path.
LEMMA PathsDiffer ==
    ASSUME NEW I, NEW image, Shape(I, image)
    PROVE  \A p, q \in Paths : Walk(image, p) \in I /\ Walk(image, q) = Walk(image, p) => p = q
<1> DEFINE S == {n \in Nat : \A p, q \in Paths :
                    Len(p) = n /\ Walk(image, p) \in I /\ Walk(image, q) = Walk(image, p) => p = q}
<1>1. ASSUME NEW q \in Paths, q # <<>>, Walk(image, q) \in I
      PROVE  \E d \in I, i \in Slots :
                /\ d = Walk(image, Parent(q)) /\ image[d].type = "dir"
                /\ Entries(image, d)[i] # NULL
                /\ Entries(image, d)[i].name = Name(q)
                /\ Entries(image, d)[i].inode = Walk(image, q)
                /\ Walk(image, q) # ROOT
  <2>1. PICK d, i : d = Walk(image, Parent(q)) /\ i = find_dirent(Entries(image, d), Name(q))
    OBVIOUS
  <2>2. /\ d \in I /\ image[d].type = "dir"
        /\ i \in Slots /\ Entries(image, d)[i] # NULL
        /\ Entries(image, d)[i].name = Name(q)
        /\ Entries(image, d)[i].inode = Walk(image, q)
    BY <1>1, <2>1, HasEntry
  <2>3. Entries(image, d)[i].inode # ROOT
    BY <2>2 DEF Shape, Closed
  <2> QED
    BY <2>1, <2>2, <2>3
<1>2. Walk(image, <<>>) = ROOT
  BY WalkRoot
<1>3. 0 \in S
  <2> SUFFICES ASSUME NEW p \in Paths, NEW q \in Paths, Len(p) = 0, Walk(image, p) \in I,
                      Walk(image, q) = Walk(image, p)
               PROVE  p = q
    OBVIOUS
  <2>1. p = <<>>
    BY PathFacts
  <2> QED
    BY <1>1, <1>2, <2>1
<1>4. ASSUME NEW n \in Nat, n \in S PROVE n + 1 \in S
  <2> SUFFICES ASSUME NEW p \in Paths, NEW q \in Paths, Len(p) = n + 1, Walk(image, p) \in I,
                      Walk(image, q) = Walk(image, p)
               PROVE  p = q
    OBVIOUS
  <2>1. p # <<>>
    BY PathFacts
  <2>2. q # <<>>
    BY <1>1, <1>2, <2>1
  <2>3. PICK d \in I, i \in Slots :
            /\ d = Walk(image, Parent(p)) /\ image[d].type = "dir"
            /\ Entries(image, d)[i] # NULL
            /\ Entries(image, d)[i].name = Name(p)
            /\ Entries(image, d)[i].inode = Walk(image, p)
    BY <1>1, <2>1
  <2>4. PICK e \in I, j \in Slots :
            /\ e = Walk(image, Parent(q)) /\ image[e].type = "dir"
            /\ Entries(image, e)[j] # NULL
            /\ Entries(image, e)[j].name = Name(q)
            /\ Entries(image, e)[j].inode = Walk(image, q)
    BY <1>1, <2>2
  <2>5. d = e /\ i = j
    BY <2>3, <2>4 DEF Shape, NoSharedInode
  <2>6. /\ Parent(p) \in Paths /\ Parent(q) \in Paths /\ Len(Parent(p)) = n
        /\ Walk(image, Parent(p)) \in I /\ Walk(image, Parent(q)) = Walk(image, Parent(p))
    BY <2>1, <2>2, <2>3, <2>4, <2>5, ParentFacts
  <2>7. Parent(p) = Parent(q)
    BY <1>4, <2>6
  <2> QED
    BY <2>1, <2>2, <2>3, <2>4, <2>5, <2>7, PathSplit
<1> HIDE DEF S
<1>5. Nat \subseteq S
  BY <1>3, <1>4, Induction
<1> QED
  BY <1>5, PathFacts DEF S

-----------------------------------------------------------------------------
(* The tree of an image. *)

LEMMA TreeDomain ==
    ASSUME NEW I, NEW image, Shape(I, image)
    PROVE  TreeOf(image) = [p \in {q \in Paths : Walk(image, q) \in I} |->
                               NodeOf(image, Walk(image, p))]
<1>1. \A b \in I : image[b].kind = "inode"
  BY DEF Shape, Inodal, Inode
<1>2. \A q \in Paths : Walk(image, q) > 0 /\ image[Walk(image, q)].kind = "inode"
                       <=> Walk(image, q) \in I
  BY <1>1, PathInode
<1>3. {q \in Paths : Walk(image, q) > 0 /\ image[Walk(image, q)].kind = "inode"}
        = {q \in Paths : Walk(image, q) \in I}
  BY <1>2
<1>4. TreeOf(image) = [p \in {q \in Paths : Walk(image, q) > 0 /\ image[Walk(image, q)].kind = "inode"}
                         |-> NodeOf(image, Walk(image, p))]
  BY DEF TreeOf
<1> QED
  BY <1>3, <1>4

LEMMA TreeFacts ==
    ASSUME NEW I, NEW image, Shape(I, image), NEW t, t = TreeOf(image)
    PROVE  /\ t = [p \in DOMAIN t |-> t[p]]
           /\ \A p : p \in DOMAIN t <=> p \in Paths /\ Walk(image, p) \in I
           /\ \A p \in DOMAIN t : t[p] = NodeOf(image, Walk(image, p))
<1>1. t = [p \in {q \in Paths : Walk(image, q) \in I} |-> NodeOf(image, Walk(image, p))]
  BY TreeDomain, ZenonT(60)
<1> QED
  BY <1>1

\* To know a tree is to know its paths and their nodes.
LEMMA TreeIs ==
    ASSUME NEW I, NEW image, Shape(I, image), NEW t, t = [p \in DOMAIN t |-> t[p]],
           \A p : p \in DOMAIN t <=> p \in Paths /\ Walk(image, p) \in I,
           \A p \in DOMAIN t : NodeOf(image, Walk(image, p)) = t[p]
    PROVE  TreeOf(image) = t
<1>1. PICK T : T = TreeOf(image)
  OBVIOUS
<1>2. /\ T = [p \in DOMAIN T |-> T[p]]
      /\ \A p : p \in DOMAIN T <=> p \in Paths /\ Walk(image, p) \in I
      /\ \A p \in DOMAIN T : T[p] = NodeOf(image, Walk(image, p))
  BY <1>1, TreeFacts
<1>3. DOMAIN T = DOMAIN t
  <2>1. \A p : p \in DOMAIN t <=> p \in DOMAIN T
    BY <1>2
  <2> QED
    BY <2>1, Zenon
<1>4. \A p \in DOMAIN t : T[p] = t[p]
  BY <1>2, <1>3
<1> QED
  BY <1>1, <1>2, <1>3, <1>4

\* Where a byte of a file is.
LEMMA BytePlace ==
    ASSUME NEW size \in Nat, NEW pos \in Nat, pos < size, NEW k, k = pos \div FS_BLOCK_SIZE,
           NEW i, i = pos % FS_BLOCK_SIZE
    PROVE  /\ k \in 0..(DIV_ROUND_UP(size) - 1) /\ i \in BlockBytes
           /\ pos = k * FS_BLOCK_SIZE + i
<1> DEFINE B == FS_BLOCK_SIZE
<1>1. B \in Nat \ {0}
  BY SizesAssumption
<1>2. k \in Nat /\ i \in 0..(B - 1) /\ pos = B * k + i
  BY <1>1
<1>3. B * k = k * B /\ k * B \in Nat
  BY <1>1, <1>2
<1> HIDE DEF B
<1>4. k * B < size
  BY <1>1, <1>2, <1>3
<1>5. k < DIV_ROUND_UP(size) /\ DIV_ROUND_UP(size) \in Nat
  BY <1>2, <1>4, RoundUp DEF B
<1> QED
  BY <1>1, <1>2, <1>3, <1>5 DEF B, BlockBytes

\* A node depends on its inode and on the blocks that hold its data.
LEMMA NodeSame ==
    ASSUME NEW image, NEW image2, NEW b, image[b] \in Inode, image2[b] = image[b],
           image[b].type = "file" => \A k \in Pointers(image[b]) :
              image2[image[b].ptrs[k]] = image[image[b].ptrs[k]]
    PROVE  NodeOf(image2, b) = NodeOf(image, b)
<1>1. CASE image[b].type = "dir"
  BY <1>1 DEF NodeOf
<1>2. CASE image[b].type # "dir"
  <2>1. image[b].type = "file" /\ image[b].size \in Nat
    BY <1>2, SizesAssumption DEF Inode, MAX_FILE
  <2>2. ASSUME NEW i \in 1..image[b].size
        PROVE  FileByte(image2, b, i - 1) = FileByte(image, b, i - 1)
    <3>1. PICK k : k = (i - 1) \div FS_BLOCK_SIZE
      OBVIOUS
    <3>2. i - 1 \in Nat /\ i - 1 < image[b].size
      BY <2>1
    <3>3. k \in Pointers(image[b])
      BY <2>1, <3>1, <3>2, BytePlace DEF Pointers
    <3>4. image2[image[b].ptrs[k]] = image[image[b].ptrs[k]]
      BY <2>1, <3>3
    <3> QED
      BY <3>1, <3>4 DEF FileByte
  <2>3. [i \in 1..image[b].size |-> FileByte(image2, b, i - 1)]
          = [i \in 1..image[b].size |-> FileByte(image, b, i - 1)]
    BY <2>2
  <2> QED
    BY <1>2, <2>3 DEF NodeOf
<1> QED
  BY <1>1, <1>2

LEMMA LookupSame ==
    ASSUME NEW image, NEW image2, NEW d, NEW name,
           image2[d].kind = image[d].kind, image2[d].type = image[d].type,
           image2[d].size = image[d].size,
           image[d].type = "dir" =>
               /\ image2[d].ptrs[0] = image[d].ptrs[0]
               /\ image2[image[d].ptrs[0]] = image[image[d].ptrs[0]]
    PROVE  Lookup(image2, d, name) = Lookup(image, d, name)
BY DEF Lookup

LEMMA WalkSame ==
    ASSUME NEW I, NEW image, Shape(I, image), NEW image2,
           \A d \in I : \A name : Lookup(image2, d, name) = Lookup(image, d, name)
    PROVE  \A p \in Paths : Walk(image2, p) = Walk(image, p)
<1> DEFINE S == {n \in Nat : \A p \in Paths : Len(p) = n => Walk(image2, p) = Walk(image, p)}
<1>1. 0 \in S
  BY PathFacts, WalkRoot
<1>2. ASSUME NEW n \in Nat, n \in S PROVE n + 1 \in S
  <2> SUFFICES ASSUME NEW p \in Paths, Len(p) = n + 1 PROVE Walk(image2, p) = Walk(image, p)
    OBVIOUS
  <2>1. p # <<>>
    BY PathFacts
  <2>2. Parent(p) \in Paths /\ Len(Parent(p)) = n
    BY <2>1, ParentFacts
  <2>3. Walk(image2, Parent(p)) = Walk(image, Parent(p))
    BY <1>2, <2>2
  <2>4. /\ ~ (Walk(image, Parent(p)) < 0) => Walk(image, Parent(p)) \in I
    BY <2>2, PathInode
  <2> QED
    BY <2>1, <2>3, <2>4, WalkStep
<1> HIDE DEF S
<1>3. Nat \subseteq S
  BY <1>1, <1>2, Induction
<1> QED
  BY <1>3, PathFacts DEF S

\* The entries an image has in place of another's: the same ones, or a change.
LEMMA FitSame ==
    ASSUME NEW I, NEW image, Shape(I, image), NEW image2, Shape(I, image2), Fit(image),
           \A p \in Paths : Walk(image2, p) = Walk(image, p),
           \A d \in I : /\ image2[d].type = image[d].type
                        /\ image[d].type = "dir" => Entries(image2, d) = Entries(image, d)
    PROVE  Fit(image2)
<1>1. \A p \in Paths : Walk(image, p) > 0 <=> Walk(image, p) \in I
  BY PathInode
<1>2. ROOT \in I
  BY DEF Shape, Inodal
<1> QED
  BY <1>1, <1>2 DEF Fit

\* Blocks that the tree does not use may change.
LEMMA TreeFrame ==
    ASSUME NEW I, NEW image, Shape(I, image), NEW image2,
           \A b \in I : image2[b] = image[b],
           \A b \in I : \A k \in Pointers(image[b]) :
               image2[image[b].ptrs[k]] = image[image[b].ptrs[k]]
    PROVE  /\ Shape(I, image2)
           /\ TreeOf(image2) = TreeOf(image)
           /\ Fit(image) => Fit(image2)
<1>0. \A b \in I : image[b] \in Inode
  BY DEF Shape, Inodal
<1>1. \A b \in I : image[b].type = "dir" => image2[image[b].ptrs[0]] = image[image[b].ptrs[0]]
  <2>1. \A b \in I : image[b].type = "dir" => 0 \in Pointers(image[b])
    BY <1>0, PointersFacts
  <2> QED
    BY <2>1
<1>2. Shape(I, image2)
  BY <1>1, Untouched
<1>3. \A d \in I : \A name : Lookup(image2, d, name) = Lookup(image, d, name)
  BY <1>1, LookupSame
<1>4. \A p \in Paths : Walk(image2, p) = Walk(image, p)
  BY <1>3, WalkSame
<1>5. \A b \in I : NodeOf(image2, b) = NodeOf(image, b)
  BY <1>0, NodeSame
<1>6. PICK t : t = TreeOf(image)
  OBVIOUS
<1>7. /\ t = [p \in DOMAIN t |-> t[p]]
      /\ \A p : p \in DOMAIN t <=> p \in Paths /\ Walk(image, p) \in I
      /\ \A p \in DOMAIN t : t[p] = NodeOf(image, Walk(image, p))
  BY <1>6, TreeFacts
<1>8. TreeOf(image2) = t
  <2>1. \A p : p \in DOMAIN t <=> p \in Paths /\ Walk(image2, p) \in I
    BY <1>4, <1>7
  <2>2. \A p \in DOMAIN t : NodeOf(image2, Walk(image2, p)) = t[p]
    BY <1>4, <1>5, <1>7
  <2> QED
    BY <1>2, <1>7, <2>1, <2>2, TreeIs
<1>9. Fit(image) => Fit(image2)
  <2>1. \A d \in I : image[d].type = "dir" => Entries(image2, d) = Entries(image, d)
    BY <1>1 DEF Entries
  <2> QED
    BY <1>2, <1>4, <2>1, FitSame
<1> QED
  BY <1>2, <1>6, <1>8, <1>9

-----------------------------------------------------------------------------
(* An entry comes, or goes. *)

LEMMA LookupIs ==
    ASSUME NEW I, NEW image, Shape(I, image), NEW d \in I, NEW name,
           NEW i, i = find_dirent(Entries(image, d), name)
    PROVE  Lookup(image, d, name) =
              IF name \in LongNames THEN -ENOENT
              ELSE IF image[d].type # "dir" THEN -ENOTDIR
              ELSE IF i = 0 THEN -ENOENT ELSE Entries(image, d)[i].inode
<1>1. image[d].kind = "inode" /\ (image[d].type = "dir" => image[d].size # 0)
  BY DEF Shape, Inodal, Closed, Inode
<1> QED
  BY <1>1 DEF Lookup, Entries

\* Two directories in which one finds the same entries of a name.
LEMMA FindSame ==
    ASSUME NEW slots, NEW slots2, NEW name,
           \A j \in Slots : (slots2[j] # NULL /\ slots2[j].name = name)
                            <=> (slots[j] # NULL /\ slots[j].name = name)
    PROVE  find_dirent(slots2, name) = find_dirent(slots, name)
<1>1. {j \in Slots : slots2[j] # NULL /\ slots2[j].name = name}
        = {j \in Slots : slots[j] # NULL /\ slots[j].name = name}
  OBVIOUS
<1> QED
  BY <1>1 DEF find_dirent

\* image2 is image with one entry more, for the inode c.
Adds(I, image, image2, d, i, name, c) ==
    /\ c \notin I /\ d \in I /\ image[d].type = "dir" /\ i \in Slots /\ name \in Names
    /\ \A b \in I : image2[b] = image[b]
    /\ \A b \in I \ {d} : image[b].type = "dir" => Entries(image2, b) = Entries(image, b)
    /\ Entries(image, d)[i] = NULL
    /\ Entries(image2, d)[i] # NULL
    /\ Entries(image2, d)[i].name = name /\ Entries(image2, d)[i].inode = c
    /\ \A j \in Slots \ {i} : Entries(image2, d)[j] = Entries(image, d)[j]
    /\ \A j \in Slots : Entries(image, d)[j] # NULL => Entries(image, d)[j].name # name
    /\ image2[c].type = "dir" => \A j \in Slots : Entries(image2, c)[j] = NULL

LEMMA LookupAdded ==
    ASSUME NEW I, NEW image, Shape(I, image), NEW c, NEW J, J = I \cup {c},
           NEW image2, Shape(J, image2), NEW d, NEW i, NEW name,
           Adds(I, image, image2, d, i, name, c)
    PROVE  /\ \A b \in I : \A n : Lookup(image2, b, n) =
                 IF b = d /\ n = name THEN c ELSE Lookup(image, b, n)
           /\ Lookup(image, d, name) \in Neg
           /\ \A n : Lookup(image2, c, n) \in Neg
<1>0. name \notin LongNames /\ d \in I /\ image[d].type = "dir" /\ i \in Slots
  BY NamesAssumption DEF Adds
<1>1. \A b \in I : image2[b] = image[b]
  BY DEF Adds
<1>2. ASSUME NEW b \in I \ {d}, NEW n PROVE Lookup(image2, b, n) = Lookup(image, b, n)
  <2>1. PICK k : k = find_dirent(Entries(image, b), n)
    OBVIOUS
  <2>2. image[b].type = "dir" => Entries(image2, b) = Entries(image, b)
    BY DEF Adds
  <2>3. PICK l : l = find_dirent(Entries(image2, b), n)
    OBVIOUS
  <2>4. Lookup(image, b, n) =
              IF n \in LongNames THEN -ENOENT
              ELSE IF image[b].type # "dir" THEN -ENOTDIR
              ELSE IF k = 0 THEN -ENOENT ELSE Entries(image, b)[k].inode
    BY <2>1, LookupIs
  <2>5. Lookup(image2, b, n) =
              IF n \in LongNames THEN -ENOENT
              ELSE IF image2[b].type # "dir" THEN -ENOTDIR
              ELSE IF l = 0 THEN -ENOENT ELSE Entries(image2, b)[l].inode
    BY <2>3, LookupIs
  <2> QED
    BY <1>1, <2>1, <2>2, <2>3, <2>4, <2>5
<1>3. ASSUME NEW n, n # name PROVE Lookup(image2, d, n) = Lookup(image, d, n)
  <2>1. PICK k : k = find_dirent(Entries(image, d), n)
    OBVIOUS
  <2>2. \A j \in Slots : (Entries(image2, d)[j] # NULL /\ Entries(image2, d)[j].name = n)
                         <=> (Entries(image, d)[j] # NULL /\ Entries(image, d)[j].name = n)
    BY <1>3 DEF Adds
  <2>3. k = find_dirent(Entries(image2, d), n)
    BY <2>1, <2>2, FindSame
  <2>4. k # 0 => k \in Slots /\ Entries(image, d)[k] # NULL
    BY <2>1, FindFacts
  <2>5. k # 0 => Entries(image2, d)[k] = Entries(image, d)[k]
    BY <2>4 DEF Adds
  <2>6. Lookup(image, d, n) =
              IF n \in LongNames THEN -ENOENT
              ELSE IF image[d].type # "dir" THEN -ENOTDIR
              ELSE IF k = 0 THEN -ENOENT ELSE Entries(image, d)[k].inode
    BY <1>0, <2>1, LookupIs
  <2>7. Lookup(image2, d, n) =
              IF n \in LongNames THEN -ENOENT
              ELSE IF image2[d].type # "dir" THEN -ENOTDIR
              ELSE IF k = 0 THEN -ENOENT ELSE Entries(image2, d)[k].inode
    BY <1>0, <2>3, LookupIs
  <2> QED
    BY <1>0, <1>1, <2>5, <2>6, <2>7
<1>4. Lookup(image2, d, name) = c
  <2>1. /\ Entries(image2, d)[i] # NULL /\ Entries(image2, d)[i].name = name
        /\ Entries(image2, d)[i].inode = c
        /\ \A j \in Slots : Entries(image2, d)[j] # NULL /\ Entries(image2, d)[j].name = name => j = i
    BY DEF Adds
  <2>2. i =< i
    BY <1>0 DEF Slots
  <2>3. find_dirent(Entries(image2, d), name) = i /\ i # 0
    BY <1>0, <2>1, <2>2, FindIs DEF Slots
  <2> QED
    BY <1>0, <1>1, <2>1, <2>3, LookupIs
<1>5. Lookup(image, d, name) = -ENOENT
  <2>1. \A j \in Slots : Entries(image, d)[j] # NULL => Entries(image, d)[j].name # name
    BY DEF Adds
  <2>2. find_dirent(Entries(image, d), name) = 0
    BY <2>1, FindFacts
  <2> QED
    BY <1>0, <2>2, LookupIs
<1>6. ASSUME NEW n PROVE Lookup(image2, c, n) \in Neg
  <2>1. c \in J
    OBVIOUS
  <2>2. image2[c].type = "dir" => find_dirent(Entries(image2, c), n) = 0
    BY FindFacts DEF Adds
  <2> QED
    BY <2>1, <2>2, LookupIs DEF Neg
<1> QED
  BY <1>2, <1>3, <1>4, <1>5, <1>6 DEF Neg

\* The paths that lead into the image with the entry are those that did
\* without it, and the path of the entry.
LEMMA WalkAdded ==
    ASSUME NEW I, NEW image, Shape(I, image), NEW c, NEW J, J = I \cup {c},
           NEW image2, Shape(J, image2), NEW d, NEW i, NEW p \in Paths, p # <<>>,
           Adds(I, image, image2, d, i, Name(p), c),
           d = Walk(image, Parent(p)) \/ d = Walk(image2, Parent(p))
    PROVE  /\ Walk(image2, p) = c /\ Walk(image, p) \in Neg
           /\ Walk(image, Parent(p)) = d /\ Walk(image2, Parent(p)) = d
           /\ \A q \in Paths \ {p} : \/ Walk(image, q) \in I /\ Walk(image2, q) = Walk(image, q)
                                     \/ Walk(image, q) \in Neg /\ Walk(image2, q) \in Neg
<1> DEFINE Agree(q) == \/ Walk(image, q) \in I /\ Walk(image2, q) = Walk(image, q)
                       \/ Walk(image, q) \in Neg /\ Walk(image2, q) \in Neg
           S == {n \in Nat : \A q \in Paths \ {p} : Len(q) =< n => Agree(q)}
<1>0. /\ \A b \in I : \A n : Lookup(image2, b, n) =
             IF b = d /\ n = Name(p) THEN c ELSE Lookup(image, b, n)
      /\ Lookup(image, d, Name(p)) \in Neg
      /\ \A n : Lookup(image2, c, n) \in Neg
  BY LookupAdded
<1>a. d \in I /\ c \notin I
  BY DEF Adds
<1>b. \A b \in J : ~ (b < 0) /\ b \notin Neg
  BY BlocksFacts DEF Shape, Inodal
<1>c. \A b \in Neg : b < 0
  BY BlocksFacts
<1>d. Parent(p) \in Paths /\ Len(Parent(p)) = Len(p) - 1 /\ Len(p) \in Nat /\ Len(p) - 1 \in Nat
  BY PathFacts, ParentFacts
<1>e. Parent(p) # p
  BY <1>d
<1>f. ROOT \in I
  BY DEF Shape, Inodal
<1>1. Agree(Parent(p)) =>
        /\ Walk(image, Parent(p)) = d /\ Walk(image2, Parent(p)) = d
        /\ Walk(image2, p) = c /\ Walk(image, p) \in Neg
  <2> SUFFICES ASSUME Agree(Parent(p))
               PROVE  /\ Walk(image, Parent(p)) = d /\ Walk(image2, Parent(p)) = d
                      /\ Walk(image2, p) = c /\ Walk(image, p) \in Neg
    OBVIOUS
  <2>1. Walk(image, Parent(p)) = d /\ Walk(image2, Parent(p)) = d
    BY <1>a, <1>b
  <2> QED
    BY <2>1, <1>0, <1>a, <1>b, WalkStep
<1>2. 0 \in S
  <2> SUFFICES ASSUME NEW q \in Paths \ {p}, Len(q) =< 0 PROVE Agree(q)
    OBVIOUS
  <2>1. q = <<>>
    BY PathFacts
  <2> QED
    BY <2>1, WalkRoot, <1>f
<1>3. ASSUME NEW n \in Nat, n \in S PROVE n + 1 \in S
  <2> SUFFICES ASSUME NEW q \in Paths \ {p}, Len(q) = n + 1 PROVE Agree(q)
    <3>1. \A q \in Paths \ {p} : Len(q) \in Nat
      BY PathFacts
    <3> QED
      BY <1>3, <3>1
  <2>1. q # <<>>
    BY PathFacts
  <2>2. Parent(q) \in Paths /\ Len(Parent(q)) = n
    BY <2>1, ParentFacts
  <2>3. CASE Parent(q) = p
    <3>1. Len(Parent(p)) =< n
      BY <2>2, <2>3, <1>d
    <3>2. Agree(Parent(p))
      BY <1>3, <1>d, <1>e, <3>1
    <3>3. Walk(image2, p) = c /\ Walk(image, p) \in Neg
      BY <1>1, <3>2
    <3>4. Walk(image, q) \in Neg
      BY <2>1, <2>3, <3>3, <1>c, WalkStep
    <3>5. Walk(image2, q) \in Neg
      BY <2>1, <2>3, <3>3, <1>0, <1>b, WalkStep
    <3> QED
      BY <3>4, <3>5
  <2>4. CASE Parent(q) # p
    <3>1. Agree(Parent(q))
      BY <1>3, <2>2, <2>4
    <3>2. CASE Walk(image, Parent(q)) \in Neg /\ Walk(image2, Parent(q)) \in Neg
      BY <2>1, <3>2, <1>c, WalkStep
    <3>3. CASE Walk(image, Parent(q)) \in I /\ Walk(image2, Parent(q)) = Walk(image, Parent(q))
      <4>1. PICK b \in I : b = Walk(image, Parent(q)) /\ b = Walk(image2, Parent(q))
        BY <3>3
      <4>2. Walk(image, q) = Lookup(image, b, Name(q)) /\ Walk(image2, q) = Lookup(image2, b, Name(q))
        BY <2>1, <4>1, <1>b, WalkStep
      <4>3. ~ (b = d /\ Name(q) = Name(p))
        <5> SUFFICES ASSUME b = d, Name(q) = Name(p) PROVE FALSE
          OBVIOUS
        <5>1. Parent(q) = Parent(p)
          <6>1. CASE d = Walk(image, Parent(p))
            <7>1. Walk(image, Parent(p)) \in I /\ Walk(image, Parent(q)) = Walk(image, Parent(p))
              BY <6>1, <4>1
            <7>2. Parent(p) \in Paths /\ Parent(q) \in Paths
              BY <1>d, <2>2
            <7> QED
              BY ONLY <7>1, <7>2, Shape(I, image), PathsDiffer
          <6>2. CASE d = Walk(image2, Parent(p))
            <7>1. d \in J
              BY <1>a
            <7> QED
              BY <6>2, <7>1, <1>d, <2>2, <4>1, PathsDiffer
          <6> QED
            BY <6>1, <6>2
        <5> QED
          BY <2>1, <5>1, PathSplit
      <4>4. Walk(image2, q) = Walk(image, q)
        BY <1>0, <4>2, <4>3
      <4>5. Walk(image, q) \in I \cup Neg
        BY WalkFacts
      <4> QED
        BY <4>4, <4>5
    <3> QED
      BY <3>1, <3>2, <3>3
  <2> QED
    BY <2>3, <2>4
<1> HIDE DEF S
<1>4. Nat \subseteq S
  BY <1>2, <1>3, Induction
<1>5. \A q \in Paths \ {p} : Agree(q)
  <2>1. \A q \in Paths \ {p} : Len(q) \in Nat /\ Len(q) =< Len(q)
    BY PathFacts
  <2> QED
    BY <1>4, <2>1 DEF S
<1> QED
  BY <1>1, <1>5, <1>d, <1>e

\* A tree with one more node, and with one less.
AddedTree(t, p, node) == [q \in DOMAIN t \cup {p} |-> IF q = p THEN node ELSE t[q]]
Pruned(t, p) == [q \in DOMAIN t \ {p} |-> t[q]]

LEMMA TreeAdded ==
    ASSUME NEW I, NEW image, Shape(I, image), NEW c, NEW J, J = I \cup {c},
           NEW image2, Shape(J, image2), NEW d, NEW i, NEW p \in Paths, p # <<>>,
           Adds(I, image, image2, d, i, Name(p), c),
           d = Walk(image, Parent(p)) \/ d = Walk(image2, Parent(p)),
           \A b \in I : NodeOf(image2, b) = NodeOf(image, b),
           NEW t, t = TreeOf(image), NEW t2, t2 = TreeOf(image2)
    PROVE  /\ p \notin DOMAIN t
           /\ t2 = AddedTree(t, p, NodeOf(image2, c)) /\ t = Pruned(t2, p)
<1>1. /\ Walk(image2, p) = c /\ Walk(image, p) \in Neg
      /\ \A q \in Paths \ {p} : \/ Walk(image, q) \in I /\ Walk(image2, q) = Walk(image, q)
                                \/ Walk(image, q) \in Neg /\ Walk(image2, q) \in Neg
  BY WalkAdded
<1>2. \A b \in J : b \notin Neg
  BY BlocksFacts DEF Shape, Inodal
<1>3. /\ t = [q \in DOMAIN t |-> t[q]]
      /\ \A q : q \in DOMAIN t <=> q \in Paths /\ Walk(image, q) \in I
      /\ \A q \in DOMAIN t : t[q] = NodeOf(image, Walk(image, q))
  BY TreeFacts
<1>4. /\ t2 = [q \in DOMAIN t2 |-> t2[q]]
      /\ \A q : q \in DOMAIN t2 <=> q \in Paths /\ Walk(image2, q) \in J
      /\ \A q \in DOMAIN t2 : t2[q] = NodeOf(image2, Walk(image2, q))
  BY TreeFacts
<1>5. p \notin DOMAIN t /\ p \in DOMAIN t2 /\ t2[p] = NodeOf(image2, c)
  BY <1>1, <1>2, <1>3, <1>4
<1>6. \A q : q # p => (q \in DOMAIN t <=> q \in DOMAIN t2)
  BY <1>1, <1>2, <1>3, <1>4
<1>7. \A q \in DOMAIN t : q # p => t2[q] = t[q]
  <2> SUFFICES ASSUME NEW q \in DOMAIN t, q # p PROVE t2[q] = t[q]
    OBVIOUS
  <2>1. q \in Paths /\ Walk(image, q) \in I /\ Walk(image2, q) = Walk(image, q)
    BY <1>1, <1>2, <1>3
  <2>2. t2[q] = NodeOf(image2, Walk(image, q)) /\ t[q] = NodeOf(image, Walk(image, q))
    BY <1>3, <1>4, <1>6, <2>1
  <2> QED
    BY <2>1, <2>2
<1>8. DOMAIN t2 = DOMAIN t \cup {p} /\ DOMAIN t = DOMAIN t2 \ {p}
  BY <1>5, <1>6
<1>9. t2 = [q \in DOMAIN t \cup {p} |-> IF q = p THEN NodeOf(image2, c) ELSE t[q]]
  BY <1>4, <1>5, <1>7, <1>8
<1>10. t = [q \in DOMAIN t2 \ {p} |-> t2[q]]
  BY <1>3, <1>5, <1>7, <1>8
<1> QED
  BY <1>5, <1>9, <1>10, Zenon DEF AddedTree, Pruned

LEMMA FitAdded ==
    ASSUME NEW I, NEW image, Shape(I, image), NEW c, NEW J, J = I \cup {c},
           NEW image2, Shape(J, image2), NEW d, NEW i, NEW p \in Paths, p # <<>>,
           Adds(I, image, image2, d, i, Name(p), c),
           d = Walk(image, Parent(p)) \/ d = Walk(image2, Parent(p))
    PROVE  Fit(image) <=> Fit(image2)
<1>1. /\ Walk(image2, p) = c /\ Walk(image, p) \in Neg
      /\ Walk(image, Parent(p)) = d /\ Walk(image2, Parent(p)) = d
      /\ \A q \in Paths \ {p} : \/ Walk(image, q) \in I /\ Walk(image2, q) = Walk(image, q)
                                \/ Walk(image, q) \in Neg /\ Walk(image2, q) \in Neg
  BY WalkAdded
<1>2. \A b \in J : b \notin Neg
  BY BlocksFacts DEF Shape, Inodal
<1>3. \A q \in Paths : /\ Walk(image, q) > 0 <=> Walk(image, q) \in I
                       /\ Walk(image2, q) > 0 <=> Walk(image2, q) \in J
  BY PathInode
<1>4. Parent(p) \in Paths /\ Len(Parent(p)) < MAX_LEVELS
  <2>1. Parent(p) \in Paths /\ Len(Parent(p)) = Len(p) - 1 /\ Len(p) \in Nat
    BY PathFacts, ParentFacts
  <2>2. Name(p) \in Names /\ Name(p) \notin LongNames
    BY NamesAssumption DEF Adds
  <2>3. Len(p) =< MAX_LEVELS
    <3>1. Len(p) =< MAX_LEVELS \/ (Len(p) = 1 /\ p[1] \in LongNames)
      BY PathFacts
    <3>2. Len(p) = 1 => Name(p) = p[1]
      BY DEF Name
    <3> QED
      BY <2>2, <3>1, <3>2
  <2> QED
    BY <2>1, <2>3, SizesAssumption
<1>5. d \in I /\ c \notin I /\ image[d].type = "dir" /\ image2[d].type = "dir" /\ i \in Slots
  BY DEF Adds
<1>6. ASSUME NEW q \in Paths, Walk(image, q) \in I, Walk(image, q) # d,
             image[Walk(image, q)].type = "dir"
      PROVE  /\ Walk(image2, q) = Walk(image, q)
             /\ image2[Walk(image, q)].type = "dir"
             /\ Entries(image2, Walk(image, q)) = Entries(image, Walk(image, q))
  <2>1. Walk(image2, q) = Walk(image, q)
    BY <1>1, <1>2, <1>6
  <2> QED
    BY <1>6, <2>1 DEF Adds
<1>7. /\ Entries(image, d)[i] = NULL
      /\ Entries(image2, d)[i] # NULL
      /\ Entries(image2, d)[i].name = Name(p)
      /\ \A j \in Slots \ {i} : Entries(image2, d)[j] = Entries(image, d)[j]
      /\ \A j \in Slots : Entries(image, d)[j] # NULL => Entries(image, d)[j].name # Name(p)
  BY DEF Adds
<1>7a. image2[ROOT] = image[ROOT]
  BY DEF Adds, Shape, Inodal
<1>8. ASSUME Fit(image) PROVE Fit(image2)
  <2>0. image2[ROOT].type = "dir"
    BY <1>7a, <1>8 DEF Fit
  <2> SUFFICES ASSUME NEW q \in Paths, Walk(image2, q) > 0, image2[Walk(image2, q)].type = "dir",
                      NEW k \in Slots, Entries(image2, Walk(image2, q))[k] # NULL
               PROVE  /\ Len(q) < MAX_LEVELS
                      /\ \A j \in Slots :
                            /\ Entries(image2, Walk(image2, q))[j] # NULL
                            /\ Entries(image2, Walk(image2, q))[j].name =
                                  Entries(image2, Walk(image2, q))[k].name
                            => j = k
    BY <2>0 DEF Fit
  <2>1. q # p
    <3> SUFFICES ASSUME q = p PROVE FALSE
      OBVIOUS
    <3>1. \A j \in Slots : Entries(image2, c)[j] = NULL
      BY <1>1 DEF Adds
    <3> QED
      BY <1>1, <3>1
  <2>2. Walk(image, q) \in I /\ Walk(image2, q) = Walk(image, q) /\ Walk(image, q) > 0
    BY <1>1, <1>2, <1>3, <2>1
  <2>3. CASE Walk(image, q) # d
    <3>1. image[Walk(image, q)].type = "dir"
      BY <2>2 DEF Adds
    <3>2. Entries(image2, Walk(image2, q)) = Entries(image, Walk(image, q))
      BY <1>6, <2>2, <2>3, <3>1
    <3> QED
      BY <1>8, <2>2, <3>1, <3>2 DEF Fit
  <2>4. CASE Walk(image, q) = d
    <3>1. q = Parent(p)
      BY <1>1, <1>4, <1>5, <2>4, PathsDiffer
    <3>2. \A x, y \in Slots :
             /\ Entries(image, d)[x] # NULL /\ Entries(image, d)[y] # NULL
             /\ Entries(image, d)[y].name = Entries(image, d)[x].name
             => y = x
      BY <1>5, <1>8, <2>2, <2>4 DEF Fit
    <3>3. \A y \in Slots : Entries(image2, d)[y] # NULL
                           /\ Entries(image2, d)[y].name = Entries(image2, d)[k].name => y = k
      BY <1>7, <2>2, <2>4, <3>2
    <3> QED
      BY <1>4, <2>2, <2>4, <3>1, <3>3
  <2> QED
    BY <2>3, <2>4
<1>9. ASSUME Fit(image2) PROVE Fit(image)
  <2>0. image[ROOT].type = "dir"
    BY <1>7a, <1>9 DEF Fit
  <2> SUFFICES ASSUME NEW q \in Paths, Walk(image, q) > 0, image[Walk(image, q)].type = "dir",
                      NEW k \in Slots, Entries(image, Walk(image, q))[k] # NULL
               PROVE  /\ Len(q) < MAX_LEVELS
                      /\ \A j \in Slots :
                            /\ Entries(image, Walk(image, q))[j] # NULL
                            /\ Entries(image, Walk(image, q))[j].name =
                                  Entries(image, Walk(image, q))[k].name
                            => j = k
    BY <2>0 DEF Fit
  <2>1. q # p
    BY <1>1, <1>2, <1>3
  <2>2. Walk(image, q) \in I /\ Walk(image2, q) = Walk(image, q) /\ Walk(image2, q) > 0
    BY <1>1, <1>2, <1>3, <2>1
  <2>3. CASE Walk(image, q) # d
    <3>1. /\ image2[Walk(image, q)].type = "dir"
          /\ Entries(image2, Walk(image, q)) = Entries(image, Walk(image, q))
      BY <1>6, <2>2, <2>3
    <3> QED
      BY <1>9, <2>2, <3>1 DEF Fit
  <2>4. CASE Walk(image, q) = d
    <3>2. \A x, y \in Slots :
             /\ Entries(image2, d)[x] # NULL /\ Entries(image2, d)[y] # NULL
             /\ Entries(image2, d)[y].name = Entries(image2, d)[x].name
             => y = x
      BY <1>5, <1>9, <2>2, <2>4 DEF Fit
    <3>3. \A y \in Slots : Entries(image, d)[y] # NULL
                           /\ Entries(image, d)[y].name = Entries(image, d)[k].name => y = k
      BY <1>7, <2>4, <3>2
    <3>4. k # i /\ Entries(image2, d)[k] # NULL
      BY <1>7, <2>4
    <3>5. Len(q) < MAX_LEVELS
      BY <1>5, <1>9, <2>2, <2>4, <3>4 DEF Fit
    <3> QED
      BY <2>4, <3>3, <3>5
  <2> QED
    BY <2>3, <2>4
<1> QED
  BY <1>8, <1>9

-----------------------------------------------------------------------------
(* An inode changes, or what is in a file. *)

LEMMA LookupAlike ==
    ASSUME NEW I, NEW image, Shape(I, image), NEW image2, Shape(I, image2), NEW d \in I, NEW name,
           image2[d].type = image[d].type,
           image[d].type = "dir" => Entries(image2, d) = Entries(image, d)
    PROVE  Lookup(image2, d, name) = Lookup(image, d, name)
<1>1. PICK k : k = find_dirent(Entries(image, d), name)
  OBVIOUS
<1>2. PICK l : l = find_dirent(Entries(image2, d), name)
  OBVIOUS
<1>3. Lookup(image, d, name) =
          IF name \in LongNames THEN -ENOENT
          ELSE IF image[d].type # "dir" THEN -ENOTDIR
          ELSE IF k = 0 THEN -ENOENT ELSE Entries(image, d)[k].inode
  BY <1>1, LookupIs
<1>4. Lookup(image2, d, name) =
          IF name \in LongNames THEN -ENOENT
          ELSE IF image2[d].type # "dir" THEN -ENOTDIR
          ELSE IF l = 0 THEN -ENOENT ELSE Entries(image2, d)[l].inode
  BY <1>2, LookupIs
<1> QED
  BY <1>1, <1>2, <1>3, <1>4

LEMMA TreeChanged ==
    ASSUME NEW I, NEW image, Shape(I, image), NEW image2, Shape(I, image2),
           \A b \in I : /\ image2[b].type = image[b].type
                        /\ image[b].type = "dir" => Entries(image2, b) = Entries(image, b),
           NEW p \in Paths, NEW c \in I, c = Walk(image, p),
           \A b \in I \ {c} : NodeOf(image2, b) = NodeOf(image, b),
           NEW t, t = TreeOf(image), NEW node, node = NodeOf(image2, c)
    PROVE  /\ p \in DOMAIN t /\ t[p] = NodeOf(image, c)
           /\ TreeOf(image2) = [t EXCEPT ![p] = node]
           /\ Fit(image) => Fit(image2)
<1>1. \A d \in I : \A name : Lookup(image2, d, name) = Lookup(image, d, name)
  BY LookupAlike
<1>2. \A q \in Paths : Walk(image2, q) = Walk(image, q)
  BY <1>1, WalkSame
<1>3. /\ t = [q \in DOMAIN t |-> t[q]]
      /\ \A q : q \in DOMAIN t <=> q \in Paths /\ Walk(image, q) \in I
      /\ \A q \in DOMAIN t : t[q] = NodeOf(image, Walk(image, q))
  BY TreeFacts
<1>4. p \in DOMAIN t /\ t[p] = NodeOf(image, c)
  BY <1>3
<1>5. PICK u : u = [t EXCEPT ![p] = node]
  OBVIOUS
<1>6. /\ u = [q \in DOMAIN u |-> u[q]] /\ DOMAIN u = DOMAIN t
      /\ \A q \in DOMAIN t : u[q] = IF q = p THEN node ELSE t[q]
  BY <1>3, <1>5
<1>7. \A q : q \in DOMAIN u <=> q \in Paths /\ Walk(image2, q) \in I
  BY <1>2, <1>3, <1>6
<1>8. ASSUME NEW q \in DOMAIN u PROVE NodeOf(image2, Walk(image2, q)) = u[q]
  <2>1. q \in Paths /\ Walk(image, q) \in I /\ Walk(image2, q) = Walk(image, q)
    BY <1>2, <1>3, <1>6
  <2>2. CASE q = p
    BY <1>6, <2>1, <2>2
  <2>3. CASE q # p
    <3>1. Walk(image, q) # c
      BY <2>1, <2>3, PathsDiffer
    <3> QED
      BY <1>3, <1>6, <2>1, <2>3, <3>1
  <2> QED
    BY <2>2, <2>3
<1>9. TreeOf(image2) = u
  BY <1>6, <1>7, <1>8, TreeIs
<1>10. Fit(image) => Fit(image2)
  BY <1>2, FitSame
<1> QED
  BY <1>4, <1>5, <1>9, <1>10

-----------------------------------------------------------------------------
(* An entry gets another name. *)

\* image2 is image with another name in the entry.
Renames(I, image, image2, d, i, old, new) ==
    /\ d \in I /\ image[d].type = "dir" /\ i \in Slots
    /\ old \in Names /\ new \in Names /\ old # new
    /\ \A b \in I : image2[b] = image[b]
    /\ \A b \in I \ {d} : image[b].type = "dir" => Entries(image2, b) = Entries(image, b)
    /\ Entries(image, d)[i] # NULL /\ Entries(image, d)[i].name = old
    /\ Entries(image2, d)[i] # NULL /\ Entries(image2, d)[i].name = new
    /\ Entries(image2, d)[i].inode = Entries(image, d)[i].inode
    /\ \A j \in Slots \ {i} :
          /\ Entries(image2, d)[j] = Entries(image, d)[j]
          /\ Entries(image, d)[j] # NULL => Entries(image, d)[j].name \notin {old, new}

LEMMA RenamesBack ==
    ASSUME NEW I, NEW image, NEW image2, NEW d, NEW i, NEW old, NEW new,
           Renames(I, image, image2, d, i, old, new)
    PROVE  Renames(I, image2, image, d, i, new, old)
BY DEF Renames

LEMMA LookupRenamed ==
    ASSUME NEW I, NEW image, Shape(I, image), NEW image2, Shape(I, image2), NEW d, NEW i, NEW old,
           NEW new, Renames(I, image, image2, d, i, old, new)
    PROVE  /\ Lookup(image2, d, new) = Lookup(image, d, old)
           /\ Lookup(image, d, new) \in Neg
           /\ \A b \in I : \A n : b # d \/ n \notin {old, new} =>
                 Lookup(image2, b, n) = Lookup(image, b, n)
<1>0. /\ new \notin LongNames /\ old \notin LongNames
      /\ d \in I /\ image[d].type = "dir" /\ image2[d].type = "dir" /\ i \in Slots
      /\ old # new
  BY NamesAssumption DEF Renames
<1>1. ASSUME NEW b \in I \ {d}, NEW n PROVE Lookup(image2, b, n) = Lookup(image, b, n)
  <2>1. /\ image2[b].type = image[b].type
        /\ image[b].type = "dir" => Entries(image2, b) = Entries(image, b)
    BY DEF Renames
  <2> QED
    BY <2>1, LookupAlike
<1>2. ASSUME NEW n, n \notin {old, new} PROVE Lookup(image2, d, n) = Lookup(image, d, n)
  <2>1. PICK k : k = find_dirent(Entries(image, d), n)
    OBVIOUS
  <2>2. \A j \in Slots : (Entries(image2, d)[j] # NULL /\ Entries(image2, d)[j].name = n)
                         <=> (Entries(image, d)[j] # NULL /\ Entries(image, d)[j].name = n)
    BY <1>2 DEF Renames
  <2>3. k = find_dirent(Entries(image2, d), n)
    BY <2>1, <2>2, FindSame
  <2>4. k # 0 => k \in Slots /\ Entries(image, d)[k] # NULL /\ Entries(image, d)[k].name = n
    BY <2>1, FindFacts
  <2>5. k # 0 => Entries(image2, d)[k] = Entries(image, d)[k]
    BY <1>2, <2>4 DEF Renames
  <2>6. Lookup(image, d, n) =
              IF n \in LongNames THEN -ENOENT
              ELSE IF image[d].type # "dir" THEN -ENOTDIR
              ELSE IF k = 0 THEN -ENOENT ELSE Entries(image, d)[k].inode
    BY <1>0, <2>1, LookupIs
  <2>7. Lookup(image2, d, n) =
              IF n \in LongNames THEN -ENOENT
              ELSE IF image2[d].type # "dir" THEN -ENOTDIR
              ELSE IF k = 0 THEN -ENOENT ELSE Entries(image2, d)[k].inode
    BY <1>0, <2>3, LookupIs
  <2> QED
    BY <1>0, <2>5, <2>6, <2>7
<1>3. i =< i /\ i # 0
  BY <1>0 DEF Slots
<1>4. Lookup(image, d, old) = Entries(image, d)[i].inode
  <2>1. /\ Entries(image, d)[i] # NULL /\ Entries(image, d)[i].name = old
        /\ \A j \in Slots : Entries(image, d)[j] # NULL /\ Entries(image, d)[j].name = old => j = i
    BY DEF Renames
  <2>2. find_dirent(Entries(image, d), old) = i
    BY <1>0, <1>3, <2>1, FindIs
  <2> QED
    BY <1>0, <1>3, <2>2, LookupIs
<1>5. Lookup(image2, d, new) = Entries(image2, d)[i].inode
  <2>1. /\ Entries(image2, d)[i] # NULL /\ Entries(image2, d)[i].name = new
        /\ \A j \in Slots : Entries(image2, d)[j] # NULL /\ Entries(image2, d)[j].name = new => j = i
    BY DEF Renames
  <2>2. find_dirent(Entries(image2, d), new) = i
    BY <1>0, <1>3, <2>1, FindIs
  <2> QED
    BY <1>0, <1>3, <2>2, LookupIs
<1>6. Lookup(image, d, new) = -ENOENT
  <2>1. \A j \in Slots : Entries(image, d)[j] # NULL => Entries(image, d)[j].name # new
    BY DEF Renames
  <2>2. find_dirent(Entries(image, d), new) = 0
    BY <2>1, FindFacts
  <2> QED
    BY <1>0, <2>2, LookupIs
<1>7. Entries(image2, d)[i].inode = Entries(image, d)[i].inode
  BY DEF Renames
<1> QED
  BY <1>1, <1>2, <1>4, <1>5, <1>6, <1>7 DEF Neg

MovedTo(src, dst, q) ==
    IF Tree!Under(src, q) THEN dst \o SubSeq(q, Len(src) + 1, Len(q)) ELSE q

LEMMA PathSeq == \A p \in Paths : p \in Seq(Names \cup LongNames)
<1> SUFFICES ASSUME NEW p \in Paths PROVE p \in Seq(Names \cup LongNames)
  OBVIOUS
<1>1. Len(p) \in Nat /\ p = [i \in 1..Len(p) |-> p[i]]
  BY PathFacts, PathFunction
<1>2. \A i \in 1..Len(p) : p[i] \in Names \cup LongNames
  BY PathFacts
<1> QED
  BY <1>1, <1>2

LEMMA UnderFacts ==
    ASSUME NEW src \in Paths, NEW q \in Paths
    PROVE  Tree!Under(src, q) <=> Len(src) =< Len(q) /\ \A k \in 1..Len(src) : q[k] = src[k]
<1>1. src \in Seq(Names \cup LongNames) /\ q \in Seq(Names \cup LongNames)
  BY PathSeq
<1>2. Len(src) \in Nat /\ Len(q) \in Nat /\ src = [k \in 1..Len(src) |-> src[k]]
  BY PathFacts, PathFunction
<1>3. Len(src) =< Len(q) => SubSeq(q, 1, Len(src)) = [k \in 1..Len(src) |-> q[k]]
  BY <1>1, <1>2
<1>4. Len(src) =< Len(q) => (SubSeq(q, 1, Len(src)) = src <=> \A k \in 1..Len(src) : q[k] = src[k])
  <2> SUFFICES ASSUME Len(src) =< Len(q)
               PROVE  SubSeq(q, 1, Len(src)) = src <=> \A k \in 1..Len(src) : q[k] = src[k]
    OBVIOUS
  <2>1. PICK u : u = SubSeq(q, 1, Len(src))
    OBVIOUS
  <2>2. u = [k \in 1..Len(src) |-> q[k]]
    BY <1>3, <2>1
  <2>3. ASSUME \A k \in 1..Len(src) : q[k] = src[k] PROVE u = src
    BY <1>2, <2>2, <2>3
  <2>4. ASSUME u = src PROVE \A k \in 1..Len(src) : q[k] = src[k]
    BY <2>2, <2>4
  <2> QED
    BY <2>1, <2>3, <2>4
<1> QED
  BY <1>4 DEF Tree!Under

\* What a renaming makes of the paths.
Rename(src, dst) ==
    /\ src \in Paths /\ dst \in Paths /\ src # <<>> /\ dst # <<>>
    /\ Parent(src) = Parent(dst)
    /\ Name(src) \in Names /\ Name(dst) \in Names /\ Name(src) # Name(dst)

LEMMA RenameFacts ==
    ASSUME NEW src, NEW dst, Rename(src, dst)
    PROVE  /\ Len(src) \in Nat /\ Len(src) # 0 /\ Len(dst) = Len(src) /\ Len(src) =< MAX_LEVELS
           /\ \A k \in 1..Len(src) : src[k] \in Names /\ dst[k] \in Names
           /\ \A k \in 1..(Len(src) - 1) : dst[k] = src[k]
           /\ src[Len(src)] = Name(src) /\ dst[Len(src)] = Name(dst)
<1>0. src \in Paths /\ dst \in Paths /\ src # <<>> /\ dst # <<>>
  BY DEF Rename
<1>1. ASSUME NEW p \in Paths, p # <<>>, Name(p) \in Names
      PROVE  Len(p) =< MAX_LEVELS /\ \A k \in 1..Len(p) : p[k] \in Names
  <2>1. (Len(p) =< MAX_LEVELS /\ \A k \in 1..Len(p) : p[k] \in Names)
        \/ (Len(p) = 1 /\ p[1] \in LongNames)
    BY PathFacts
  <2>2. Len(p) = 1 => p[1] \in Names
    BY <1>1 DEF Name
  <2> QED
    BY <2>1, <2>2, NamesAssumption
<1>2. /\ Len(src) \in Nat /\ Len(dst) \in Nat /\ Len(src) # 0 /\ Len(dst) # 0
      /\ Len(Parent(src)) = Len(src) - 1 /\ Len(Parent(dst)) = Len(dst) - 1
      /\ \A i \in 1..(Len(src) - 1) : Parent(src)[i] = src[i]
      /\ \A i \in 1..(Len(dst) - 1) : Parent(dst)[i] = dst[i]
  BY <1>0, PathFacts, ParentFacts
<1>3. Len(dst) = Len(src)
  BY <1>2 DEF Rename
<1>4. \A k \in 1..(Len(src) - 1) : dst[k] = src[k]
  BY <1>2, <1>3 DEF Rename
<1>5. src[Len(src)] = Name(src) /\ dst[Len(src)] = Name(dst)
  BY <1>3 DEF Name
<1>6. /\ Len(src) =< MAX_LEVELS /\ \A k \in 1..Len(src) : src[k] \in Names
      /\ \A k \in 1..Len(dst) : dst[k] \in Names
  BY <1>0, <1>1 DEF Rename
<1> QED
  BY <1>2, <1>3, <1>4, <1>5, <1>6

LEMMA MovedPath ==
    ASSUME NEW src, NEW dst, Rename(src, dst), NEW q \in Paths, NEW m, m = MovedTo(src, dst, q)
    PROVE  /\ m \in Paths /\ Len(m) = Len(q)
           /\ ~ Tree!Under(src, q) => m = q
           /\ Tree!Under(src, q) =>
                 \A k \in 1..Len(q) : m[k] = IF k =< Len(src) THEN dst[k] ELSE q[k]
<1>1. CASE ~ Tree!Under(src, q)
  BY <1>1 DEF MovedTo
<1>2. CASE Tree!Under(src, q)
  <2> DEFINE L == Len(src)
             n == Len(q)
             rest == SubSeq(q, L + 1, n)
  <2>1. /\ L \in Nat /\ L # 0 /\ Len(dst) = L
        /\ \A k \in 1..L : src[k] \in Names /\ dst[k] \in Names
        /\ src \in Paths /\ dst \in Paths
    BY RenameFacts DEF Rename
  <2>2. n \in Nat /\ L =< n /\ \A k \in 1..L : q[k] = src[k]
    BY <1>2, <2>1, UnderFacts, PathFacts
  <2>3. n =< MAX_LEVELS /\ \A k \in 1..n : q[k] \in Names
    <3>1. (n =< MAX_LEVELS /\ \A k \in 1..n : q[k] \in Names) \/ (n = 1 /\ q[1] \in LongNames)
      BY PathFacts
    <3>2. q[1] \in Names
      BY <2>1, <2>2
    <3> QED
      BY <3>1, <3>2, NamesAssumption
  <2>4. q \in Seq(Names) /\ dst \in Seq(Names)
    <3>1. q = [i \in 1..n |-> q[i]] /\ dst = [i \in 1..L |-> dst[i]]
      BY <2>1, PathFunction
    <3> QED
      BY <2>1, <2>2, <2>3, <3>1
  <2>5. rest \in Seq(Names) /\ Len(rest) = n - L /\ \A k \in 1..(n - L) : rest[k] = q[L + k]
    BY <2>1, <2>2, <2>4
  <2>6. m = dst \o rest
    BY <1>2 DEF MovedTo
  <2> HIDE DEF L, n, rest
  <2>7. m \in Seq(Names) /\ Joins(m, dst, rest)
    BY <2>4, <2>5, <2>6, Concat
  <2>8. Len(m) = n
    BY <2>1, <2>2, <2>5, <2>7 DEF Joins
  <2>9. \A k \in 1..n : m[k] = IF k =< L THEN dst[k] ELSE q[k]
    <3> SUFFICES ASSUME NEW k \in 1..n PROVE m[k] = IF k =< L THEN dst[k] ELSE q[k]
      OBVIOUS
    <3>1. CASE k =< L
      BY <2>1, <2>7, <3>1 DEF Joins
    <3>2. CASE ~ (k =< L)
      <4>1. k - L \in 1..(n - L) /\ L + (k - L) = k
        BY <2>1, <2>2, <3>2
      <4>2. m[L + (k - L)] = rest[k - L]
        BY <2>1, <2>5, <2>7, <4>1 DEF Joins
      <4>3. rest[k - L] = q[L + (k - L)]
        BY <2>5, <4>1
      <4> QED
        BY <3>2, <4>1, <4>2, <4>3
    <3> QED
      BY <3>1, <3>2
  <2>10. m \in Paths
    <3>1. m \in [1..n -> Names]
      BY <2>7, <2>8
    <3> QED
      BY <2>2, <2>3, <3>1, NamesPath, SizesAssumption
  <2> QED
    BY <1>2, <2>8, <2>9, <2>10 DEF L, n
<1> QED
  BY <1>1, <1>2

LEMMA MovedParent ==
    ASSUME NEW src, NEW dst, Rename(src, dst), NEW q \in Paths, q # <<>>, q # src,
           NEW m, m = MovedTo(src, dst, q)
    PROVE  m # <<>> /\ Parent(m) = MovedTo(src, dst, Parent(q)) /\ Name(m) = Name(q)
<1> DEFINE L == Len(src)
           n == Len(q)
           u == MovedTo(src, dst, Parent(q))
<1>1. L \in Nat /\ L # 0 /\ src \in Paths
  BY RenameFacts DEF Rename
<1>2. /\ n \in Nat /\ n # 0 /\ Parent(q) \in Paths /\ Len(Parent(q)) = n - 1
      /\ \A i \in 1..(n - 1) : Parent(q)[i] = q[i]
  BY PathFacts, ParentFacts
<1>3. /\ m \in Paths /\ Len(m) = n /\ (~ Tree!Under(src, q) => m = q)
      /\ Tree!Under(src, q) => \A k \in 1..n : m[k] = IF k =< L THEN dst[k] ELSE q[k]
  BY MovedPath
<1>4. /\ u \in Paths /\ Len(u) = n - 1 /\ (~ Tree!Under(src, Parent(q)) => u = Parent(q))
      /\ Tree!Under(src, Parent(q)) => \A k \in 1..(n - 1) : u[k] = IF k =< L THEN dst[k] ELSE Parent(q)[k]
  BY <1>2, MovedPath
<1>5. m # <<>>
  BY <1>2, <1>3, PathFacts
<1>6. /\ Parent(m) \in Paths /\ Len(Parent(m)) = n - 1
      /\ \A i \in 1..(n - 1) : Parent(m)[i] = m[i]
  BY <1>3, <1>5, ParentFacts
<1>7. Tree!Under(src, q) <=> L =< n /\ \A k \in 1..L : q[k] = src[k]
  BY <1>1, UnderFacts
<1>8. Tree!Under(src, Parent(q)) <=> L =< n - 1 /\ \A k \in 1..L : Parent(q)[k] = src[k]
  BY <1>1, <1>2, UnderFacts
<1> HIDE DEF u
<1>9. Tree!Under(src, q) => L =< n - 1
  <2> SUFFICES ASSUME Tree!Under(src, q), ~ (L =< n - 1) PROVE FALSE
    OBVIOUS
  <2>1. L = n /\ \A k \in 1..L : q[k] = src[k]
    BY <1>1, <1>2, <1>7
  <2> QED
    BY <1>1, <2>1, PathEqual
<1>10. Tree!Under(src, q) <=> Tree!Under(src, Parent(q))
  BY <1>1, <1>2, <1>7, <1>8, <1>9
<1>11. CASE ~ Tree!Under(src, q)
  BY <1>3, <1>4, <1>5, <1>10, <1>11 DEF u
<1>12. CASE Tree!Under(src, q)
  <2>1. \A k \in 1..(n - 1) : Parent(m)[k] = u[k]
    BY <1>1, <1>2, <1>3, <1>4, <1>6, <1>10, <1>12, SMTT(30)
  <2>2. Parent(m) = u
    BY <1>4, <1>6, <2>1, PathEqual
  <2>3. n \in 1..n /\ ~ (n =< L)
    BY <1>1, <1>2, <1>9, <1>12
  <2>4. m[n] = q[n]
    BY <1>3, <1>12, <2>3
  <2> QED
    BY <1>3, <1>5, <2>2, <2>4 DEF Name, u
<1> QED
  BY <1>11, <1>12

\* The moved path leads where the path led.
LEMMA WalkRenamed ==
    ASSUME NEW I, NEW image, Shape(I, image), NEW image2, Shape(I, image2), NEW d, NEW i,
           NEW src, NEW dst, Rename(src, dst), d = Walk(image, Parent(src)),
           Renames(I, image, image2, d, i, Name(src), Name(dst))
    PROVE  \A q \in Paths : Walk(image, q) \in I =>
               Walk(image2, MovedTo(src, dst, q)) = Walk(image, q)
<1> DEFINE S == {n \in Nat : \A q \in Paths : Len(q) = n /\ Walk(image, q) \in I =>
                    Walk(image2, MovedTo(src, dst, q)) = Walk(image, q)}
<1>0. /\ src \in Paths /\ dst \in Paths /\ src # <<>> /\ dst # <<>>
      /\ Parent(src) \in Paths /\ Parent(dst) = Parent(src)
      /\ Len(src) \in Nat /\ Len(src) # 0 /\ Len(Parent(src)) = Len(src) - 1
  BY RenameFacts, ParentFacts DEF Rename
<1>a. \A b \in I : ~ (b < 0) /\ b \notin Neg
  BY BlocksFacts DEF Shape, Inodal
<1>b. \A p \in Paths : Len(p) < Len(src) => MovedTo(src, dst, p) = p
  <2> SUFFICES ASSUME NEW p \in Paths, Len(p) < Len(src) PROVE MovedTo(src, dst, p) = p
    OBVIOUS
  <2>1. Len(p) \in Nat
    BY PathFacts
  <2>2. ~ Tree!Under(src, p)
    BY <1>0, <2>1, UnderFacts
  <2> QED
    BY <2>2 DEF MovedTo
<1>c. MovedTo(src, dst, src) = dst
  <2>1. Tree!Under(src, src)
    BY <1>0, UnderFacts
  <2>2. PICK m : m = MovedTo(src, dst, src)
    OBVIOUS
  <2>3. /\ m \in Paths /\ Len(m) = Len(src)
        /\ \A k \in 1..Len(src) : m[k] = IF k =< Len(src) THEN dst[k] ELSE src[k]
    BY <1>0, <2>1, <2>2, MovedPath
  <2>4. \A k \in 1..Len(src) : m[k] = dst[k]
    BY <2>3
  <2>5. Len(dst) = Len(src)
    BY RenameFacts
  <2> QED
    BY <1>0, <2>2, <2>3, <2>4, <2>5, PathEqual
<1>d. d \in I
  BY DEF Renames
<1>e. /\ Lookup(image2, d, Name(dst)) = Lookup(image, d, Name(src))
      /\ Lookup(image, d, Name(dst)) \in Neg
      /\ \A b \in I : \A n : b # d \/ n \notin {Name(src), Name(dst)} =>
            Lookup(image2, b, n) = Lookup(image, b, n)
  BY LookupRenamed
<1>1. 0 \in S
  <2> SUFFICES ASSUME NEW q \in Paths, Len(q) = 0
               PROVE  Walk(image2, MovedTo(src, dst, q)) = Walk(image, q)
    OBVIOUS
  <2>1. q = <<>> /\ MovedTo(src, dst, q) = q
    BY <1>0, <1>b, PathFacts
  <2> QED
    BY <2>1, WalkRoot
<1>2. ASSUME NEW n \in Nat, n \in S PROVE n + 1 \in S
  <2> SUFFICES ASSUME NEW q \in Paths, Len(q) = n + 1, Walk(image, q) \in I
               PROVE  Walk(image2, MovedTo(src, dst, q)) = Walk(image, q)
    OBVIOUS
  <2>1. q # <<>>
    BY PathFacts
  <2>2. Parent(q) \in Paths /\ Len(Parent(q)) = n
    BY <2>1, ParentFacts
  <2>3. PICK b : b = Walk(image, Parent(q))
    OBVIOUS
  <2>4. b \in I /\ Walk(image, q) = Lookup(image, b, Name(q))
    BY <2>1, <2>3, WalkInto
  <2>5. Walk(image2, MovedTo(src, dst, Parent(q))) = b
    BY <1>2, <2>2, <2>3, <2>4
  <2>6. CASE q = src
    <3>1. MovedTo(src, dst, Parent(q)) = Parent(dst)
      BY <1>0, <1>b, <2>2, <2>6
    <3>2. Walk(image2, Parent(dst)) = d
      BY <2>3, <2>5, <2>6, <3>1
    <3>3. Walk(image2, dst) = Lookup(image2, d, Name(dst))
      BY <1>0, <1>a, <1>d, <3>2, WalkStep
    <3> QED
      BY <1>c, <1>e, <2>3, <2>4, <2>6, <3>3
  <2>7. CASE q # src
    <3>1. PICK m : m = MovedTo(src, dst, q)
      OBVIOUS
    <3>2. m \in Paths /\ m # <<>> /\ Parent(m) = MovedTo(src, dst, Parent(q)) /\ Name(m) = Name(q)
      BY <2>1, <2>7, <3>1, MovedPath, MovedParent
    <3>3. Walk(image2, m) = Lookup(image2, b, Name(q))
      BY <1>a, <2>4, <2>5, <3>2, WalkStep
    <3>4. b = d => Name(q) \notin {Name(src), Name(dst)}
      <4> SUFFICES ASSUME b = d PROVE Name(q) # Name(src) /\ Name(q) # Name(dst)
        OBVIOUS
      <4>1. Parent(q) = Parent(src)
        <5>1. /\ Walk(image, Parent(q)) \in I /\ Walk(image, Parent(src)) = Walk(image, Parent(q))
              /\ Parent(q) \in Paths /\ Parent(src) \in Paths
          BY <1>0, <2>2, <2>3, <2>4
        <5> QED
          BY ONLY <5>1, Shape(I, image), PathsDiffer
      <4>2. Name(q) # Name(src)
        BY <1>0, <2>1, <2>7, <4>1, PathSplit
      <4>3. Name(q) # Name(dst)
        BY <1>a, <1>e, <2>4
      <4> QED
        BY <4>2, <4>3
    <3>5. Lookup(image2, b, Name(q)) = Lookup(image, b, Name(q))
      BY <1>e, <2>4, <3>4
    <3> QED
      BY <2>4, <3>1, <3>3, <3>5
  <2> QED
    BY <2>6, <2>7
<1> HIDE DEF S
<1>3. Nat \subseteq S
  BY <1>1, <1>2, Induction
<1> QED
  BY <1>3, PathFacts DEF S

LEMMA WalkRenamedBack ==
    ASSUME NEW I, NEW image, Shape(I, image), NEW image2, Shape(I, image2), NEW d, NEW i,
           NEW src, NEW dst, Rename(src, dst), d = Walk(image, Parent(src)),
           Renames(I, image, image2, d, i, Name(src), Name(dst))
    PROVE  \A r \in Paths : Walk(image2, r) \in I =>
               \E q \in Paths : /\ Walk(image, q) = Walk(image2, r)
                                /\ r = MovedTo(src, dst, q) /\ Len(q) = Len(r)
<1>1. Rename(dst, src)
  BY DEF Rename
<1>2. Renames(I, image2, image, d, i, Name(dst), Name(src))
  BY RenamesBack
<1>3. d = Walk(image2, Parent(dst))
  <2>1. /\ Parent(src) \in Paths /\ Parent(dst) = Parent(src) /\ d \in I
        /\ Len(Parent(src)) \in Nat /\ Len(src) \in Nat /\ Len(Parent(src)) < Len(src)
        /\ src \in Paths
    BY RenameFacts, ParentFacts DEF Rename, Renames
  <2>2. ~ Tree!Under(src, Parent(src))
    BY <2>1, UnderFacts
  <2>3. MovedTo(src, dst, Parent(src)) = Parent(src)
    BY <2>2 DEF MovedTo
  <2> QED
    BY <2>1, <2>3, WalkRenamed
<1> SUFFICES ASSUME NEW r \in Paths, Walk(image2, r) \in I
             PROVE  \E q \in Paths : /\ Walk(image, q) = Walk(image2, r)
                                     /\ r = MovedTo(src, dst, q) /\ Len(q) = Len(r)
  OBVIOUS
<1>4. PICK q : q = MovedTo(dst, src, r)
  OBVIOUS
<1>5. q \in Paths /\ Len(q) = Len(r)
  BY <1>1, <1>4, MovedPath
<1>6. Walk(image, q) = Walk(image2, r)
  BY <1>1, <1>2, <1>3, <1>4, WalkRenamed
<1>7. Walk(image2, MovedTo(src, dst, q)) = Walk(image2, r)
  BY <1>5, <1>6, WalkRenamed
<1>8. MovedTo(src, dst, q) \in Paths
  BY <1>5, MovedPath
<1>9. r = MovedTo(src, dst, q)
  BY <1>7, <1>8, PathsDiffer
<1> QED
  BY <1>5, <1>6, <1>9

\* What FsTree makes of the renaming, for any tree.
RenamedTree(t, src, dst) ==
    [r \in {MovedTo(src, dst, q) : q \in DOMAIN t} |->
        t[CHOOSE q \in DOMAIN t : MovedTo(src, dst, q) = r]]

LEMMA TreeRenamed ==
    ASSUME NEW I, NEW image, Shape(I, image), NEW image2, Shape(I, image2), NEW d, NEW i,
           NEW src, NEW dst, Rename(src, dst), d = Walk(image, Parent(src)),
           Renames(I, image, image2, d, i, Name(src), Name(dst)),
           \A b \in I : NodeOf(image2, b) = NodeOf(image, b),
           NEW t, t = TreeOf(image)
    PROVE  TreeOf(image2) = RenamedTree(t, src, dst)
<1> DEFINE D == {MovedTo(src, dst, q) : q \in DOMAIN t}
           u == [r \in D |-> t[CHOOSE q \in DOMAIN t : MovedTo(src, dst, q) = r]]
<1>1. /\ \A q : q \in DOMAIN t <=> q \in Paths /\ Walk(image, q) \in I
      /\ \A q \in DOMAIN t : t[q] = NodeOf(image, Walk(image, q))
  BY TreeFacts
<1>2. \A q \in Paths : Walk(image, q) \in I => Walk(image2, MovedTo(src, dst, q)) = Walk(image, q)
  BY WalkRenamed
<1>3. \A q \in Paths : MovedTo(src, dst, q) \in Paths
  BY MovedPath
<1>4. ASSUME NEW r PROVE r \in D <=> r \in Paths /\ Walk(image2, r) \in I
  <2>1. ASSUME r \in D PROVE r \in Paths /\ Walk(image2, r) \in I
    <3>1. PICK q \in DOMAIN t : r = MovedTo(src, dst, q)
      BY <2>1
    <3>2. q \in Paths /\ Walk(image, q) \in I
      BY <1>1
    <3> QED
      BY <1>2, <1>3, <3>1, <3>2
  <2>2. ASSUME r \in Paths, Walk(image2, r) \in I PROVE r \in D
    <3>1. PICK q \in Paths : Walk(image, q) = Walk(image2, r) /\ r = MovedTo(src, dst, q)
      BY <2>2, WalkRenamedBack
    <3>2. q \in DOMAIN t
      BY <1>1, <2>2, <3>1
    <3> QED
      BY <3>1, <3>2
  <2> QED
    BY <2>1, <2>2
<1>5. ASSUME NEW r \in D PROVE NodeOf(image2, Walk(image2, r)) = u[r]
  <2>1. PICK q : q = CHOOSE x \in DOMAIN t : MovedTo(src, dst, x) = r
    OBVIOUS
  <2>2. q \in DOMAIN t /\ MovedTo(src, dst, q) = r
    BY <1>5, <2>1
  <2>3. q \in Paths /\ Walk(image, q) \in I /\ t[q] = NodeOf(image, Walk(image, q))
    BY <1>1, <2>2
  <2>4. Walk(image2, r) = Walk(image, q)
    BY <1>2, <2>2, <2>3
  <2>5. u[r] = t[q]
    BY <1>5, <2>1
  <2> HIDE DEF u
  <2> QED
    BY <2>3, <2>4, <2>5
<1>6. DOMAIN u = D /\ u = [r \in DOMAIN u |-> u[r]]
  OBVIOUS
<1> HIDE DEF u, D
<1>7. TreeOf(image2) = u
  BY <1>4, <1>5, <1>6, TreeIs
<1> QED
  BY <1>7 DEF u, D, RenamedTree

LEMMA FitRenamed ==
    ASSUME NEW I, NEW image, Shape(I, image), NEW image2, Shape(I, image2), NEW d, NEW i,
           NEW src, NEW dst, Rename(src, dst), d = Walk(image, Parent(src)),
           Renames(I, image, image2, d, i, Name(src), Name(dst)), Fit(image)
    PROVE  Fit(image2)
<1>0. image2[ROOT].type = "dir"
  BY DEF Fit, Renames, Shape, Inodal
<1> SUFFICES ASSUME NEW r \in Paths, Walk(image2, r) > 0, image2[Walk(image2, r)].type = "dir",
                    NEW k \in Slots, Entries(image2, Walk(image2, r))[k] # NULL
             PROVE  /\ Len(r) < MAX_LEVELS
                    /\ \A j \in Slots :
                          /\ Entries(image2, Walk(image2, r))[j] # NULL
                          /\ Entries(image2, Walk(image2, r))[j].name =
                                Entries(image2, Walk(image2, r))[k].name
                          => j = k
  BY <1>0 DEF Fit
<1>1. PICK b \in I : b = Walk(image2, r)
  BY PathInode
<1>2. PICK q \in Paths : Walk(image, q) = b /\ Len(q) = Len(r)
  BY <1>1, WalkRenamedBack
<1>3. Walk(image, q) > 0
  BY <1>1, <1>2, PathInode
<1>4. image[b].type = "dir"
  BY <1>1 DEF Renames
<1>5. \A x \in Slots : Entries(image, b)[x] # NULL =>
         /\ Len(q) < MAX_LEVELS
         /\ \A y \in Slots : /\ Entries(image, b)[y] # NULL
                             /\ Entries(image, b)[y].name = Entries(image, b)[x].name
                             => y = x
  BY <1>2, <1>3, <1>4 DEF Fit
<1>6. CASE b # d
  <2>1. Entries(image2, b) = Entries(image, b)
    BY <1>4, <1>6 DEF Renames
  <2> QED
    BY <1>1, <1>2, <1>5, <2>1
<1>7. CASE b = d
  <2>1. /\ i \in Slots
        /\ Entries(image, d)[i] # NULL /\ Entries(image2, d)[i].name = Name(dst)
        /\ \A j \in Slots \ {i} :
              /\ Entries(image2, d)[j] = Entries(image, d)[j]
              /\ Entries(image, d)[j] # NULL => Entries(image, d)[j].name # Name(dst)
    BY DEF Renames
  <2>2. Entries(image, d)[k] # NULL
    BY <1>1, <1>7, <2>1
  <2>3. \A y \in Slots : Entries(image2, d)[y] # NULL
                         /\ Entries(image2, d)[y].name = Entries(image2, d)[k].name => y = k
    BY <1>5, <1>7, <2>1, <2>2
  <2> QED
    BY <1>1, <1>2, <1>5, <1>7, <2>2, <2>3
<1> QED
  BY <1>6, <1>7

-----------------------------------------------------------------------------
(* What FsTree says of the tree, in terms of the image. *)

\* The path goes through a file.
Blocked(I, image, p) ==
    \E n \in 0..(Len(p) - 1) :
        /\ Walk(image, SubSeq(p, 1, n)) \in I /\ image[Walk(image, SubSeq(p, 1, n))].type = "file"
        /\ p[n + 1] \notin LongNames

LEMMA PrefixPaths ==
    ASSUME NEW p \in Paths
    PROVE  \A n \in 0..Len(p) : SubSeq(p, 1, n) \in Paths /\ Len(SubSeq(p, 1, n)) = n
<1> TAKE n \in 0..Len(p)
<1>1. p \in Seq(Names \cup LongNames) /\ Len(p) \in Nat
  BY PathSeq, PathFacts
<1>2. PICK q : q = SubSeq(p, 1, n)
  OBVIOUS
<1>3. q = [i \in 1..n |-> p[i]] /\ Len(q) = n
  BY <1>1, <1>2
<1>4. CASE n = Len(p)
  <2>1. p = [i \in 1..n |-> p[i]]
    BY <1>4, PathFunction
  <2> QED
    BY <1>2, <1>3, <2>1
<1>5. CASE n # Len(p)
  <2>1. n =< MAX_LEVELS /\ \A i \in 1..n : p[i] \in Names
    <3>1. (Len(p) =< MAX_LEVELS /\ \A i \in 1..Len(p) : p[i] \in Names)
          \/ (Len(p) = 1 /\ p[1] \in LongNames)
      BY PathFacts
    <3>2. MAX_LEVELS \in Nat
      BY SizesAssumption
    <3>3. CASE Len(p) =< MAX_LEVELS /\ \A i \in 1..Len(p) : p[i] \in Names
      <4>1. \A i \in 1..n : i \in 1..Len(p)
        BY <1>1
      <4> QED
        BY <1>1, <3>2, <3>3, <4>1
    <3>4. CASE Len(p) = 1
      BY <1>5, <3>2, <3>4
    <3> QED
      BY <3>1, <3>3, <3>4
  <2>2. q \in [1..n -> Names]
    BY <1>3, <2>1
  <2>3. n \in 0..MAX_LEVELS
    BY <2>1
  <2> QED
    BY <1>2, <2>2, <2>3, NamesPath
<1> QED
  BY <1>4, <1>5

LEMMA PrefixesOfParent ==
    ASSUME NEW p \in Paths, p # <<>>
    PROVE  /\ SubSeq(p, 1, Len(p) - 1) = Parent(p)
           /\ \A n \in 0..(Len(p) - 1) : SubSeq(Parent(p), 1, n) = SubSeq(p, 1, n)
<1>1. /\ Parent(p) \in Paths /\ Len(p) - 1 \in Nat /\ Len(Parent(p)) = Len(p) - 1
      /\ \A i \in 1..(Len(p) - 1) : Parent(p)[i] = p[i]
  BY ParentFacts
<1>2. p \in Seq(Names \cup LongNames) /\ Parent(p) \in Seq(Names \cup LongNames)
  BY <1>1, PathSeq
<1>3. ASSUME NEW n \in 0..(Len(p) - 1) PROVE SubSeq(Parent(p), 1, n) = SubSeq(p, 1, n)
  <2>1. SubSeq(p, 1, n) = [i \in 1..n |-> p[i]]
    BY <1>1, <1>2
  <2>2. SubSeq(Parent(p), 1, n) = [i \in 1..n |-> Parent(p)[i]]
    BY <1>1, <1>2
  <2>3. \A i \in 1..n : Parent(p)[i] = p[i]
    BY <1>1
  <2> QED
    BY <2>1, <2>2, <2>3
<1> QED
  BY <1>3 DEF Parent

LEMMA WalkErrors ==
    ASSUME NEW I, NEW image, Shape(I, image)
    PROVE  \A p \in Paths :
              /\ Walk(image, p) \in I => ~ Blocked(I, image, p)
              /\ Walk(image, p) \in Neg =>
                    Walk(image, p) = IF Blocked(I, image, p) THEN -ENOTDIR ELSE -ENOENT
<1> DEFINE Right(p) == /\ Walk(image, p) \in I => ~ Blocked(I, image, p)
                       /\ Walk(image, p) \in Neg =>
                             Walk(image, p) = IF Blocked(I, image, p) THEN -ENOTDIR ELSE -ENOENT
           S == {n \in Nat : \A p \in Paths : Len(p) = n => Right(p)}
<1>a. \A b \in I : ~ (b < 0) /\ b \notin Neg
  BY BlocksFacts DEF Shape, Inodal
<1>b. \A b \in Neg : b < 0
  BY BlocksFacts
<1>1. 0 \in S
  <2> SUFFICES ASSUME NEW p \in Paths, Len(p) = 0 PROVE Right(p)
    OBVIOUS
  <2>1. p = <<>>
    BY PathFacts
  <2>2. Walk(image, p) = ROOT /\ ROOT \in I
    BY <2>1, WalkRoot DEF Shape, Inodal
  <2>3. ~ Blocked(I, image, p)
    BY DEF Blocked
  <2> QED
    BY <1>a, <2>2, <2>3
<1>2. ASSUME NEW n \in Nat, n \in S PROVE n + 1 \in S
  <2> SUFFICES ASSUME NEW p \in Paths, Len(p) = n + 1 PROVE Right(p)
    OBVIOUS
  <2>1. p # <<>>
    BY PathFacts
  <2>2. /\ Parent(p) \in Paths /\ Len(Parent(p)) = n
        /\ \A i \in 1..n : Parent(p)[i] = p[i]
    BY <2>1, ParentFacts
  <2>3. /\ SubSeq(p, 1, n) = Parent(p)
        /\ \A k \in 0..n : SubSeq(Parent(p), 1, k) = SubSeq(p, 1, k)
    <3>1. Len(p) - 1 = n
      OBVIOUS
    <3> QED
      BY <2>1, <3>1, PrefixesOfParent
  <2>4. Right(Parent(p))
    BY <1>2, <2>2
  <2>5. Name(p) = p[n + 1]
    BY DEF Name
  <2>6. Blocked(I, image, p) <=>
          \/ Blocked(I, image, Parent(p))
          \/ /\ Walk(image, Parent(p)) \in I /\ image[Walk(image, Parent(p))].type = "file"
             /\ Name(p) \notin LongNames
    <3>1. Blocked(I, image, p) <=> \E k \in 0..n :
            /\ Walk(image, SubSeq(p, 1, k)) \in I /\ image[Walk(image, SubSeq(p, 1, k))].type = "file"
            /\ p[k + 1] \notin LongNames
      <4>1. Len(p) - 1 = n
        OBVIOUS
      <4> QED
        BY <4>1 DEF Blocked
    <3>2. Blocked(I, image, Parent(p)) <=> \E k \in 0..(n - 1) :
            /\ Walk(image, SubSeq(p, 1, k)) \in I /\ image[Walk(image, SubSeq(p, 1, k))].type = "file"
            /\ p[k + 1] \notin LongNames
      <4>1. \A k \in 0..(n - 1) : SubSeq(Parent(p), 1, k) = SubSeq(p, 1, k) /\ Parent(p)[k + 1] = p[k + 1]
        BY <2>2, <2>3
      <4> QED
        BY <2>2, <4>1 DEF Blocked
    <3>3. \A k \in 0..n : k \in 0..(n - 1) \/ k = n
      OBVIOUS
    <3>4. n \in 0..n /\ \A k \in 0..(n - 1) : k \in 0..n
      OBVIOUS
    <3> QED
      BY <2>3, <2>5, <3>1, <3>2, <3>3, <3>4
  <2>7. Walk(image, Parent(p)) \in I \cup Neg
    BY <2>2, WalkFacts
  <2>8. CASE Walk(image, Parent(p)) \in Neg
    <3>1. Walk(image, p) = Walk(image, Parent(p))
      BY <1>b, <2>1, <2>8, WalkStep
    <3> QED
      BY <1>a, <2>4, <2>6, <2>8, <3>1
  <2>9. CASE Walk(image, Parent(p)) \in I
    <3>1. PICK d \in I : d = Walk(image, Parent(p))
      BY <2>9
    <3>2. PICK i : i = find_dirent(Entries(image, d), Name(p))
      OBVIOUS
    <3>3. Walk(image, p) = IF Name(p) \in LongNames THEN -ENOENT
                           ELSE IF image[d].type # "dir" THEN -ENOTDIR
                           ELSE IF i = 0 THEN -ENOENT ELSE Entries(image, d)[i].inode
      <4>1. Walk(image, p) = Lookup(image, d, Name(p))
        BY <1>a, <2>1, <3>1, WalkStep
      <4> QED
        BY <3>2, <4>1, LookupIs
    <3>4. image[d].type \in {"file", "dir"}
      BY <3>1, PointersFacts DEF Shape, Inodal
    <3>5. image[d].type = "dir" /\ i # 0 => Entries(image, d)[i].inode \in I
      <4>1. i # 0 => i \in Slots /\ Entries(image, d)[i] # NULL
        BY <3>2, FindFacts
      <4> QED
        BY <4>1 DEF Shape, Closed
    <3>6. ~ Blocked(I, image, Parent(p))
      BY <2>4, <2>9
    <3>7. -ENOENT \in Neg /\ -ENOTDIR \in Neg
      BY DEF Neg
    <3>8. Blocked(I, image, p) <=> image[d].type = "file" /\ Name(p) \notin LongNames
      BY <2>6, <3>1, <3>6
    <3> QED
      BY <1>a, <3>3, <3>4, <3>5, <3>7, <3>8
  <2> QED
    BY <2>7, <2>8, <2>9
<1> HIDE DEF S
<1>3. Nat \subseteq S
  BY <1>1, <1>2, Induction
<1> QED
  BY <1>3, PathFacts DEF S

\* What the calls are about: the inode that a path leads to, and its node.
LEMMA Vocabulary ==
    ASSUME NEW I, Shape(I, disk), tree = TreeOf(disk), NEW p \in Paths, NEW c, c = Walk(disk, p)
    PROVE  /\ c \in Int /\ (~ (c < 0) <=> c \in I) /\ (c > 0 <=> c \in I)
           /\ Tree!Exists(p) <=> c \in I
           /\ c \in I => /\ disk[c] \in Inode /\ tree[p] = NodeOf(disk, c)
                         /\ tree[p].type = disk[c].type /\ tree[p].perm = disk[c].perm
                         /\ disk[c].type \in {"file", "dir"} /\ disk[c].size \in 0..MAX_FILE
           /\ Tree!IsDir(p) <=> c \in I /\ disk[c].type = "dir"
           /\ Tree!IsFile(p) <=> c \in I /\ disk[c].type = "file"
           /\ c \notin I => c \in Neg
           /\ Tree!Parent(p) = Parent(p) /\ Tree!Name(p) = Name(p)
<1>1. /\ c \in Int /\ (~ (c < 0) <=> c \in I) /\ (c > 0 <=> c \in I)
  BY PathInode
<1>2. c \in I \cup Neg
  BY WalkFacts
<1>3. /\ p \in DOMAIN tree <=> c \in I
      /\ c \in I => tree[p] = NodeOf(disk, c)
  BY TreeFacts
<1>4. c \in I => /\ disk[c] \in Inode
                 /\ NodeOf(disk, c).type = disk[c].type /\ NodeOf(disk, c).perm = disk[c].perm
                 /\ disk[c].type \in {"file", "dir"} /\ disk[c].size \in 0..MAX_FILE
  BY DEF Shape, Inodal, NodeOf, Inode
<1>5. Tree!Parent(p) = Parent(p) /\ Tree!Name(p) = Name(p)
  BY DEF Tree!Parent, Tree!Name, Parent, Name
<1>6. Tree!Exists(p) <=> c \in I
  BY <1>3 DEF Tree!Exists
<1>7. /\ Tree!IsDir(p) <=> c \in I /\ disk[c].type = "dir"
      /\ Tree!IsFile(p) <=> c \in I /\ disk[c].type = "file"
  BY <1>3, <1>4, <1>6 DEF Tree!IsDir, Tree!IsFile
<1> QED
  BY <1>1, <1>2, <1>3, <1>4, <1>5, <1>6, <1>7

\* A path that leads nowhere gets the error the walk met.
LEMMA PathErrorIs ==
    ASSUME NEW I, Shape(I, disk), tree = TreeOf(disk), NEW p \in Paths, Walk(disk, p) \notin I
    PROVE  Tree!PathError(p) = Walk(disk, p) /\ Walk(disk, p) \in Neg
<1>1. Walk(disk, p) \in Neg
  BY WalkFacts
<1>2. Walk(disk, p) = IF Blocked(I, disk, p) THEN -ENOTDIR ELSE -ENOENT
  BY <1>1, WalkErrors
<1> DEFINE prefixes == {SubSeq(p, 1, n) : n \in 0..(Len(p) - 1)}
<1>3. (\E q \in prefixes : Tree!IsFile(q) /\ p[Len(q) + 1] \notin LongNames) <=> Blocked(I, disk, p)
  <2>1. \A n \in 0..(Len(p) - 1) : SubSeq(p, 1, n) \in Paths /\ Len(SubSeq(p, 1, n)) = n
    <3>1. Len(p) \in Nat
      BY PathFacts
    <3>2. \A n \in 0..(Len(p) - 1) : n \in 0..Len(p)
      BY <3>1
    <3> QED
      BY <3>2, PrefixPaths
  <2>2. \A q \in Paths : Tree!IsFile(q) <=> Walk(disk, q) \in I /\ disk[Walk(disk, q)].type = "file"
    BY Vocabulary
  <2>3. (\E q \in prefixes : Tree!IsFile(q) /\ p[Len(q) + 1] \notin LongNames)
        <=> \E n \in 0..(Len(p) - 1) : /\ Tree!IsFile(SubSeq(p, 1, n))
                                       /\ p[Len(SubSeq(p, 1, n)) + 1] \notin LongNames
    BY Zenon
  <2>4. \A n \in 0..(Len(p) - 1) :
           /\ Tree!IsFile(SubSeq(p, 1, n)) <=>
                 Walk(disk, SubSeq(p, 1, n)) \in I /\ disk[Walk(disk, SubSeq(p, 1, n))].type = "file"
           /\ p[Len(SubSeq(p, 1, n)) + 1] = p[n + 1]
    BY <2>1, <2>2, Zenon
  <2> QED
    BY <2>3, <2>4, Zenon DEF Blocked
<1>4. Tree!PathError(p) = IF Blocked(I, disk, p) THEN -Tree!ENOTDIR ELSE -Tree!ENOENT
  BY <1>3 DEF Tree!PathError
<1> QED
  BY <1>1, <1>2, <1>4 DEF Tree!ENOTDIR, Tree!ENOENT, ENOTDIR, ENOENT

\* The tree on the image while a process serves it.
LEMMA TreeNow ==
    ASSUME TreeInv, up
    PROVE  /\ \E I \in SUBSET Blocks : Shape(I, disk) /\ Marked(I, InUse, disk)
           /\ tree = TreeOf(disk) /\ Fit(disk) /\ disk \in [Blocks -> Block] /\ InUse \subseteq Blocks
BY HeldNow DEF TreeInv, Held, IInv, InUse, Serving, TypeOK, Block

\* An image that stays as it is keeps its tree.
LEMMA ImageKept ==
    ASSUME TreeInv, tree' = TreeOf(disk'), disk' = disk
    PROVE  tree' = tree /\ Fit(disk')
BY DEF TreeInv

LEMMA Refused ==
    ASSUME TreeInv, tree' = TreeOf(disk'), NEW call, NEW code, Refuse(call, code)
    PROVE  /\ tree' = tree /\ up' = up /\ Fit(disk')
           /\ returned'.call = call /\ returned'.code = code /\ code < 0
           /\ \A codes : code \in codes => Tree!Fails(codes)
<1>1. disk' = disk /\ up' = up /\ returned' = [call |-> call, code |-> code] /\ code < 0
  BY DEF Refuse, Reply
<1>2. tree' = tree /\ Fit(disk')
  BY <1>1, ImageKept
<1> QED
  BY <1>1, <1>2 DEF Tree!Fails, Tree!Returns

\* A handler that answers -ENOENT for every path it cannot follow is right but
\* where the path goes through a file.
Hiding == {"rename", "chmod", "create", "mkdir", "unlink", "rmdir"}
LEMMA NotFound ==
    ASSUME NEW I, Shape(I, disk), tree = TreeOf(disk), up, NEW p \in Paths, Walk(disk, p) \notin I,
           Tree!Fails({-ENOENT}), returned'.call.path = p, returned'.call.op \in Hiding
    PROVE  Tree!Fails({Tree!PathError(p)}) \/ HidesNotDir
<1>1. Tree!PathError(p) \in Neg
  BY PathErrorIs
<1>2. ~Tree!Exists(p)
  BY Vocabulary
<1>3. CASE Tree!PathError(p) = -ENOENT
  BY <1>3
<1>4. CASE Tree!PathError(p) = -ENOTDIR
  BY <1>2, <1>4 DEF HidesNotDir, Hiding
<1> QED
  BY <1>1, <1>3, <1>4 DEF Neg

\* A path whose parent is a file goes through a file.
LEMMA ThroughFile ==
    ASSUME NEW I, Shape(I, disk), tree = TreeOf(disk), NEW p \in Paths, p # <<>>,
           NEW d \in I, d = Walk(disk, Parent(p)), disk[d].type = "file", Fit(disk)
    PROVE  Walk(disk, p) \notin I /\ Tree!PathError(p) = -ENOTDIR
<1>1. Name(p) \notin LongNames
  <2>1. (\A i \in 1..Len(p) : p[i] \in Names) \/ Len(p) = 1
    BY PathFacts
  <2>2. ASSUME Len(p) = 1 PROVE FALSE
    <3>0. Parent(p) \in Paths /\ Len(Parent(p)) = Len(p) - 1
      BY ParentFacts
    <3>1. Parent(p) \in Paths /\ Len(Parent(p)) = 0
      BY ONLY <2>2, <3>0
    <3>2. Parent(p) = <<>>
      BY <3>1, PathFacts
    <3>3. d = ROOT
      BY <3>2, WalkRoot
    <3> QED
      BY <3>3 DEF Fit
  <2>3. Len(p) \in 1..Len(p)
    <3>1. Len(p) \in Nat /\ Len(p) # 0
      BY PathFacts
    <3> QED
      BY <3>1
  <2> QED
    BY <2>1, <2>2, <2>3, NamesAssumption DEF Name
<1>2. Walk(disk, p) = Lookup(disk, d, Name(p))
  BY WalkInto
<1>3. Walk(disk, p) = -ENOTDIR
  BY <1>1, <1>2 DEF Lookup
<1>4. Walk(disk, p) \notin I
  <2>1. Walk(disk, p) < 0
    BY <1>3 DEF ENOTDIR
  <2> QED
    BY <2>1, PathInode
<1> QED
  BY <1>3, <1>4, PathErrorIs

-----------------------------------------------------------------------------
(* One lemma per handler: its step is a step of the tree, or a departure. *)

LEMMA MountCall ==
    ASSUME TreeInv, tree' = TreeOf(disk'), fs_init
    PROVE  Fit(disk') /\ Tree!Next
<1>1. disk' = disk /\ ~ up /\ up' = TRUE /\ returned' = [call |-> On("init", <<>>), code |-> 0]
  BY DEF fs_init, Reply
<1>2. tree' = tree /\ Fit(disk')
  BY <1>1, ImageKept
<1>3. Tree!Mount
  BY <1>1, <1>2 DEF Tree!Mount, Tree!Returns, On
<1> QED
  BY <1>2, <1>3 DEF Tree!Next

LEMMA StatfsCall ==
    ASSUME TreeInv, tree' = TreeOf(disk'), fs_statfs
    PROVE  Fit(disk') /\ Tree!Next
<1>1. PICK out : /\ disk' = disk /\ up /\ up' = up
                 /\ returned' = [call |-> On("statfs", <<>>), code |-> 0, out |-> out]
  BY DEF fs_statfs, ReadOnly, Serving, Answer
<1>2. tree' = tree /\ Fit(disk')
  BY <1>1, ImageKept
<1>3. returned'.call.op = "statfs" /\ Tree!Statfs
  BY <1>1, <1>2 DEF Tree!Statfs, Tree!Returns, On
<1> QED
  BY <1>1, <1>2, <1>3 DEF Tree!Next, Tree!Serve

\* What stat says of an inode is what the tree says of its path.
LEMMA StatIs ==
    ASSUME NEW I, Shape(I, disk), tree = TreeOf(disk), NEW p \in Paths, NEW c \in I,
           c = Walk(disk, p), NEW stat, stat = inode2stat(c)
    PROVE  Tree!StatMatches(stat, p)
<1>1. stat.type = disk[c].type /\ stat.perm = disk[c].perm /\ stat.size = disk[c].size
  BY DEF inode2stat
<1>2. /\ tree[p] = NodeOf(disk, c) /\ tree[p].type = disk[c].type /\ tree[p].perm = disk[c].perm
      /\ Tree!IsFile(p) <=> disk[c].type = "file"
      /\ disk[c].size \in 0..MAX_FILE
  BY Vocabulary
<1>3. disk[c].type = "file" => Tree!Size(p) = disk[c].size
  <2> SUFFICES ASSUME disk[c].type = "file" PROVE Tree!Size(p) = disk[c].size
    OBVIOUS
  <2>1. tree[p].data = [i \in 1..disk[c].size |-> FileByte(disk, c, i - 1)]
    BY <1>2 DEF NodeOf
  <2>2. disk[c].size \in Nat
    BY <1>2
  <2>3. Len(tree[p].data) = disk[c].size
    BY <2>1, <2>2
  <2> QED
    BY <2>3 DEF Tree!Size
<1> QED
  BY <1>1, <1>2, <1>3 DEF Tree!StatMatches

LEMMA GetattrCall ==
    ASSUME TreeInv, tree' = TreeOf(disk'), NEW p \in Paths, fs_getattr(p)
    PROVE  Fit(disk') /\ Tree!Next
<1>1. up
  BY DEF fs_getattr, ReadOnly, Serving
<1>2. PICK I : Shape(I, disk)
  BY <1>1, TreeNow
<1>3. tree = TreeOf(disk)
  BY DEF TreeInv
<1>4. PICK c : c = Walk(disk, p)
  OBVIOUS
<1>5. /\ c \in Int /\ (~ (c < 0) <=> c \in I) /\ (Tree!Exists(p) <=> c \in I)
  BY <1>2, <1>3, <1>4, Vocabulary
<1>6. CASE Refuse(On("getattr", p), c)
  <2>1. /\ Fit(disk') /\ c < 0 /\ returned'.call = On("getattr", p)
        /\ \A codes : c \in codes => Tree!Fails(codes)
    BY <1>6, Refused
  <2>2. Tree!PathError(p) = c
    BY <1>2, <1>3, <1>4, <1>5, <2>1, PathErrorIs
  <2>3. Tree!Fails({Tree!PathError(p)})
    BY <2>1, <2>2
  <2>4. Tree!Getattr(p) /\ returned'.call.op = "getattr" /\ returned'.call.path = p
    BY <1>5, <2>1, <2>3 DEF Tree!Getattr, On
  <2> QED
    BY <1>1, <2>1, <2>4 DEF Tree!Next, Tree!Serve
<1>7. CASE c >= 0 /\ ReadOnly /\ Answer(On("getattr", p), 0, inode2stat(c))
  <2>1. /\ disk' = disk /\ up' = up /\ c \in I
        /\ returned' = [call |-> On("getattr", p), code |-> 0, out |-> inode2stat(c)]
    BY <1>5, <1>7 DEF ReadOnly, Answer
  <2>2. tree' = tree /\ Fit(disk')
    BY <2>1, ImageKept
  <2>3. Tree!StatMatches(returned'.out, p)
    BY <1>2, <1>3, <1>4, <2>1, StatIs
  <2>4. Tree!Getattr(p)
    BY <1>5, <2>1, <2>2, <2>3 DEF Tree!Getattr, Tree!Fails, Tree!Returns
  <2>5. returned'.call.op = "getattr" /\ returned'.call.path = p
    BY <2>1 DEF On
  <2> QED
    BY <1>1, <2>2, <2>4, <2>5 DEF Tree!Next, Tree!Serve
<1> QED
  BY <1>4, <1>6, <1>7 DEF fs_getattr, path2inum

LEMMA UtimeCall ==
    ASSUME TreeInv, tree' = TreeOf(disk'), NEW p \in Paths, fs_utime(p)
    PROVE  Fit(disk') /\ (Tree!Next \/ Departs)
<1>1. up
  BY DEF fs_utime, ReadOnly, Serving
<1>2. PICK I : Shape(I, disk)
  BY <1>1, TreeNow
<1>3. tree = TreeOf(disk)
  BY DEF TreeInv
<1>4. PICK c : c = Walk(disk, p)
  OBVIOUS
<1>5. /\ c \in Int /\ (~ (c < 0) <=> c \in I) /\ (Tree!Exists(p) <=> c \in I)
      /\ Tree!IsDir(p) <=> c \in I /\ disk[c].type = "dir"
      /\ Tree!IsFile(p) <=> c \in I /\ disk[c].type = "file"
      /\ c \in I => disk[c].type \in {"file", "dir"}
  BY <1>2, <1>3, <1>4, Vocabulary
<1>6. CASE Refuse(On("utime", p), ReadError(c))
  <2>1. /\ Fit(disk') /\ ReadError(c) < 0 /\ returned'.call = On("utime", p)
        /\ \A codes : ReadError(c) \in codes => Tree!Fails(codes)
    BY <1>6, Refused
  <2>2. ASSUME c \notin I PROVE Tree!Utime(p)
    <3>1. Tree!PathError(p) = c /\ ReadError(c) = c
      BY <1>2, <1>3, <1>4, <1>5, <2>2, PathErrorIs DEF ReadError
    <3>2. Tree!Fails({Tree!PathError(p)})
      BY <2>1, <3>1
    <3> QED
      BY <1>5, <2>2, <3>2 DEF Tree!Utime
  <2>3. returned'.call.op = "utime" /\ returned'.call.path = p
    BY <2>1 DEF On
  <2>4. ASSUME c \in I PROVE UtimeRefusesDir
    <3>1. disk[c].type = "dir" /\ ReadError(c) = -EISDIR
      BY <1>5, <2>1, <2>4 DEF ReadError, IsDir
    <3>2. Tree!Fails({-EISDIR})
      BY <2>1, <3>1
    <3> QED
      BY <1>1, <1>5, <2>3, <2>4, <3>1, <3>2 DEF UtimeRefusesDir
  <2> QED
    BY <1>1, <2>1, <2>2, <2>3, <2>4 DEF Tree!Next, Tree!Serve, Departs
<1>7. CASE ReadError(c) = 0 /\ ReadOnly /\ Reply(On("utime", p), 0)
  <2>1. /\ disk' = disk /\ up' = up
        /\ returned' = [call |-> On("utime", p), code |-> 0]
    BY <1>7 DEF ReadOnly, Reply
  <2>2. tree' = tree /\ Fit(disk')
    BY <2>1, ImageKept
  <2>3. Tree!Exists(p)
    BY <1>5, <1>7 DEF ReadError, IsDir, EISDIR
  <2>4. Tree!Utime(p)
    BY <2>1, <2>2, <2>3 DEF Tree!Utime, Tree!Fails, Tree!Returns
  <2>5. returned'.call.op = "utime" /\ returned'.call.path = p
    BY <2>1 DEF On
  <2> QED
    BY <1>1, <2>2, <2>4, <2>5 DEF Tree!Next, Tree!Serve
<1> QED
  BY <1>4, <1>6, <1>7 DEF fs_utime, path2inum

LEMMA PartOf ==
    ASSUME NEW S, NEW s \in Seq(S), NEW a \in Nat, NEW b \in Nat, b =< Len(s)
    PROVE  SubSeq(s, a + 1, b) = [k \in 1..(b - a) |-> s[a + k]]
<1>1. PICK t : t = SubSeq(s, a + 1, b)
  OBVIOUS
<1>2. CASE a >= b
  <2>1. t = <<>>
    BY <1>1, <1>2
  <2>2. 1..(b - a) = {}
    BY <1>2
  <2>3. [k \in 1..(b - a) |-> s[a + k]] = <<>>
    BY <2>2
  <2> QED
    BY <1>1, <2>1, <2>3
<1>3. CASE ~ (a >= b)
  <2>1. t \in Seq(S) /\ Len(t) = b - a
    BY <1>1, <1>3
  <2>2. \A k \in 1..(b - a) : t[k] = s[a + k]
    <3>1. \A k \in 1..(b - a) : SubSeq(s, a + 1, b)[k] = s[(a + 1) + k - 1]
      BY <1>3
    <3>2. \A k \in 1..(b - a) : (a + 1) + k - 1 = a + k
      OBVIOUS
    <3> QED
      BY <1>1, <3>1, <3>2
  <2>3. t = [k \in 1..Len(t) |-> t[k]]
    BY <2>1
  <2> QED
    BY <1>1, <2>1, <2>2, <2>3
<1> QED
  BY <1>2, <1>3

\* A read delivers a part of the file.
Part(data, at, n) == [k \in 1..n |-> data[at + k]]
End(size, len, at) == IF at + len > size THEN size ELSE at + len

LEMMA ReadIs ==
    ASSUME NEW S, NEW data \in Seq(S), NEW len \in Nat, NEW at \in Nat
    PROVE  /\ ReadLength(Len(data), len, at) \in Nat
           /\ SubSeq(data, at + 1, End(Len(data), len, at)) =
                 Part(data, at, ReadLength(Len(data), len, at))
<1>1. PICK size \in Nat : size = Len(data)
  OBVIOUS
<1>2. PICK end : end = End(size, len, at)
  OBVIOUS
<1>3. PICK n : n = ReadLength(size, len, at)
  OBVIOUS
<1>4. end \in Nat /\ end =< size
  BY <1>2 DEF End
<1>5. n \in Nat /\ n = IF at >= size THEN 0 ELSE end - at
  BY <1>2, <1>3 DEF ReadLength, End
<1>6. SubSeq(data, at + 1, end) = [k \in 1..(end - at) |-> data[at + k]]
  BY <1>1, <1>4, PartOf
<1>7. 1..n = 1..(end - at)
  BY <1>4, <1>5
<1> QED
  BY <1>1, <1>2, <1>3, <1>5, <1>6, <1>7 DEF Part

\* A path into the tree has no name that is too long.
LEMMA PathNames ==
    ASSUME NEW I, NEW image, Shape(I, image), NEW p \in Paths, Walk(image, p) \in I
    PROVE  \A k \in 1..Len(p) : p[k] \in Names
<1>1. (Len(p) =< MAX_LEVELS /\ \A i \in 1..Len(p) : p[i] \in Names)
      \/ (Len(p) = 1 /\ p[1] \in LongNames)
  BY PathFacts
<1>2. CASE Len(p) = 1 /\ p[1] \in LongNames
  <2>1. p # <<>>
    BY <1>2, PathFacts
  <2>2. PICK d : d = Walk(image, Parent(p))
    OBVIOUS
  <2>3. d \in I /\ Lookup(image, d, Name(p)) \in I
    BY <2>1, <2>2, WalkInto
  <2>4. Name(p) \notin LongNames
    BY <2>3, LookupFacts
  <2> QED
    BY <1>2, <2>4 DEF Name
<1> QED
  BY <1>1, <1>2

\* Every entry of a directory is at the path of its name.
LEMMA ChildPath ==
    ASSUME NEW I, NEW image, Shape(I, image), Fit(image), NEW p \in Paths,
           NEW d \in I, d = Walk(image, p), image[d].type = "dir",
           NEW i \in Slots, Entries(image, d)[i] # NULL
    PROVE  LET e == Entries(image, d)[i]
               q == Append(p, e.name)
           IN  /\ q \in Paths /\ q # <<>> /\ Parent(q) = p /\ Name(q) = e.name
               /\ e.name \in Names /\ e.inode \in I /\ Walk(image, q) = e.inode
<1>a. PICK e : e = Entries(image, d)[i]
  OBVIOUS
<1>b. PICK q : q = Append(p, e.name)
  OBVIOUS
<1>c. e # NULL
  BY <1>a
<1>1. Walk(image, p) > 0
  BY PathInode
<1>2. /\ Len(p) < MAX_LEVELS
      /\ \A j \in Slots : Entries(image, d)[j] # NULL /\ Entries(image, d)[j].name = e.name => j = i
  BY <1>1, <1>a, <1>c DEF Fit
<1>3. e \in Dirent
  BY <1>a, <1>c, DirFacts
<1>4. e.name \in Names
  BY <1>3 DEF Dirent
<1>5. e.inode \in I
  BY <1>a, <1>c DEF Shape, Closed
<1>6. \A k \in 1..Len(p) : p[k] \in Names
  BY PathNames
<1>7. q \in Paths /\ q # <<>> /\ Parent(q) = p /\ Name(q) = e.name
  BY <1>2, <1>4, <1>6, <1>b, AppendPath
<1>8. find_dirent(Entries(image, d), e.name) = i
  <2>1. \A j \in Slots : Entries(image, d)[j] # NULL /\ Entries(image, d)[j].name = e.name => i =< j
    <3>1. \A j \in Slots : j =< j
      BY SizesAssumption DEF Slots
    <3> QED
      BY <1>2, <3>1
  <2> QED
    BY <1>a, <1>c, <2>1, FindIs
<1>9. Lookup(image, d, e.name) = e.inode
  <2>1. e.name \notin LongNames
    BY <1>4, NamesAssumption
  <2>2. i # 0
    BY SizesAssumption DEF Slots
  <2>3. Lookup(image, d, e.name) = IF find_dirent(Entries(image, d), e.name) = 0 THEN -ENOENT
            ELSE Entries(image, d)[find_dirent(Entries(image, d), e.name)].inode
    BY <2>1, LookupFacts
  <2> QED
    BY <1>8, <1>a, <2>2, <2>3
<1>10. Walk(image, q) = e.inode
  <2>1. Walk(image, Parent(q)) = d
    BY <1>7
  <2>2. Walk(image, q) = Lookup(image, Walk(image, Parent(q)), Name(q))
    BY ONLY Shape(I, image), d \in I, <1>7, <2>1, WalkInto
  <2> QED
    BY <1>7, <1>9, <2>1, <2>2
<1> QED
  BY <1>4, <1>5, <1>7, <1>10, <1>a, <1>b

\* A set has as many elements as one from which it is numbered.
LEMMA SameCount ==
    ASSUME NEW S, IsFiniteSet(S), NEW T, NEW f \in [S -> T],
           \A x, y \in S : f[x] = f[y] => x = y,
           \A z \in T : \E x \in S : f[x] = z
    PROVE  IsFiniteSet(T) /\ Cardinality(T) = Cardinality(S)
<1>1. f \in Bijection(S, T)
  BY DEF Bijection, Injection, Surjection, IsInjective
<1>2. ExistsBijection(S, T)
  BY <1>1 DEF ExistsBijection
<1> QED
  BY <1>2, FS_Bijection

\* The entries of a directory that are valid.
Filled(d) == {i \in Slots : Entries(disk, d)[i] # NULL}

\* The children of a directory are its entries, and as many.
LEMMA ChildrenAre ==
    ASSUME NEW I, Shape(I, disk), tree = TreeOf(disk), Fit(disk), NEW p \in Paths,
           NEW d \in I, d = Walk(disk, p), disk[d].type = "dir"
    PROVE  /\ \A i \in Filled(d) : Append(p, Entries(disk, d)[i].name) \in Tree!Children(p)
           /\ \A q \in Tree!Children(p) : \E i \in Filled(d) :
                 q = Append(p, Entries(disk, d)[i].name) /\ Name(q) = Entries(disk, d)[i].name
           /\ \A i, j \in Filled(d) : Entries(disk, d)[i].name = Entries(disk, d)[j].name => i = j
           /\ IsFiniteSet(Filled(d)) /\ Cardinality(Tree!Children(p)) = Cardinality(Filled(d))
<1> DEFINE name(i) == Entries(disk, d)[i].name
<1>0. PICK V : V = Filled(d) /\ V = {i \in Slots : Entries(disk, d)[i] # NULL}
  BY DEF Filled
<1>1. ASSUME NEW i \in V
      PROVE  /\ Append(p, name(i)) \in Paths /\ Append(p, name(i)) # <<>>
             /\ Parent(Append(p, name(i))) = p /\ Name(Append(p, name(i))) = name(i)
             /\ Walk(disk, Append(p, name(i))) \in I
  <2>1. i \in Slots /\ Entries(disk, d)[i] # NULL
    BY <1>0
  <2> QED
    BY <2>1, ChildPath
<1>2. ASSUME NEW i \in V PROVE Append(p, name(i)) \in Tree!Children(p)
  <2>1. Append(p, name(i)) \in DOMAIN tree
    BY <1>1, TreeFacts
  <2> QED
    BY <1>1, <2>1 DEF Tree!Children, Tree!Parent, Parent
<1>3. ASSUME NEW q \in Tree!Children(p)
      PROVE  \E i \in V : q = Append(p, name(i)) /\ Name(q) = name(i)
  <2>1. q \in DOMAIN tree /\ q # <<>> /\ Parent(q) = p
    BY DEF Tree!Children, Tree!Parent, Parent
  <2>2. q \in Paths /\ Walk(disk, q) \in I
    BY <2>1, TreeFacts
  <2>3. PICK i : i = find_dirent(Entries(disk, d), Name(q))
    OBVIOUS
  <2>4. i \in V /\ name(i) = Name(q)
    BY <1>0, <2>1, <2>2, <2>3, HasEntry
  <2>5. q = Append(p, name(i))
    BY <1>1, <2>1, <2>2, <2>4, PathSplit
  <2> QED
    BY <2>4, <2>5
<1>4. \A i, j \in V : name(i) = name(j) => i = j
  <2>1. Walk(disk, p) > 0
    BY PathInode
  <2> QED
    BY <1>0, <2>1 DEF Fit
<1>5. IsFiniteSet(V)
  <2>1. IsFiniteSet(Slots)
    BY SizesAssumption, FS_Interval DEF Slots
  <2> QED
    BY <1>0, <2>1, FS_Subset
<1>6. Cardinality(Tree!Children(p)) = Cardinality(V)
  <2> DEFINE f == [i \in V |-> Append(p, name(i))]
  <2>1. f \in [V -> Tree!Children(p)]
    BY <1>2
  <2>2. \A i, j \in V : f[i] = f[j] => i = j
    BY <1>1, <1>4
  <2>3. \A q \in Tree!Children(p) : \E i \in V : f[i] = q
    BY <1>3
  <2> HIDE DEF f
  <2> QED
    BY <1>5, <2>1, <2>2, <2>3, SameCount
<1> QED
  BY <1>0, <1>2, <1>3, <1>4, <1>5, <1>6

Listing(d) == {[name |-> Entries(disk, d)[i].name,
                stat |-> inode2stat(Entries(disk, d)[i].inode)] : i \in Filled(d)}

\* What readdir hands over is what the tree has under the directory.
LEMMA ListingIs ==
    ASSUME NEW I, Shape(I, disk), tree = TreeOf(disk), Fit(disk), NEW p \in Paths,
           NEW d \in I, d = Walk(disk, p), disk[d].type = "dir", NEW out, out = Listing(d)
    PROVE  /\ {e.name : e \in out} = {Tree!Name(q) : q \in Tree!Children(p)}
           /\ Cardinality(out) = Cardinality(Tree!Children(p))
           /\ \A e \in out : Tree!StatMatches(e.stat, Append(p, e.name))
<1>0. PICK V : V = Filled(d)
  OBVIOUS
<1> DEFINE name(i) == Entries(disk, d)[i].name
           f == [i \in V |-> [name |-> name(i), stat |-> inode2stat(Entries(disk, d)[i].inode)]]
<1>1. /\ \A i \in V : Append(p, name(i)) \in Tree!Children(p)
      /\ \A q \in Tree!Children(p) : \E i \in V : q = Append(p, name(i)) /\ Name(q) = name(i)
      /\ \A i, j \in V : name(i) = name(j) => i = j
      /\ IsFiniteSet(V) /\ Cardinality(Tree!Children(p)) = Cardinality(V)
  BY <1>0, ChildrenAre
<1>2. /\ \A i \in V : f[i] \in out /\ f[i].name = name(i)
      /\ \A e \in out : \E i \in V : e = f[i]
  BY <1>0 DEF Listing
<1>3. Cardinality(out) = Cardinality(V)
  <2>1. f \in [V -> out]
    BY <1>2
  <2>2. \A i, j \in V : f[i] = f[j] => i = j
    BY <1>1, <1>2
  <2>3. \A e \in out : \E i \in V : f[i] = e
    BY <1>2
  <2>4. PICK g : g = f
    OBVIOUS
  <2>5. /\ g \in [V -> out] /\ \A i, j \in V : g[i] = g[j] => i = j
        /\ \A e \in out : \E i \in V : g[i] = e
    BY <2>1, <2>2, <2>3, <2>4
  <2>6. IsFiniteSet(V)
    BY <1>1
  <2> QED
    BY ONLY <2>5, <2>6, SameCount
<1>4. ASSUME NEW i \in V
      PROVE  /\ Append(p, name(i)) \in Paths /\ Name(Append(p, name(i))) = name(i)
             /\ Walk(disk, Append(p, name(i))) = Entries(disk, d)[i].inode
             /\ Entries(disk, d)[i].inode \in I
  <2>1. i \in Slots /\ Entries(disk, d)[i] # NULL
    BY <1>0 DEF Filled
  <2> QED
    BY <2>1, ChildPath
<1>5. ASSUME NEW e \in out PROVE Tree!StatMatches(e.stat, Append(p, e.name))
  <2>1. PICK i \in V : e = f[i]
    BY <1>2
  <2>2. e.name = name(i) /\ e.stat = inode2stat(Entries(disk, d)[i].inode)
    BY <2>1
  <2>3. PICK c : c = Entries(disk, d)[i].inode
    OBVIOUS
  <2>4. PICK q : q = Append(p, name(i))
    OBVIOUS
  <2>5. q \in Paths /\ c = Walk(disk, q) /\ c \in I
    BY <1>4, <2>3, <2>4
  <2>6. Tree!StatMatches(inode2stat(c), q)
    BY ONLY Shape(I, disk), tree = TreeOf(disk), <2>5, StatIs
  <2> QED
    BY <2>2, <2>3, <2>4, <2>6
<1>6. {e.name : e \in out} = {Tree!Name(q) : q \in Tree!Children(p)}
  <2>1. \A q : Tree!Name(q) = Name(q)
    BY DEF Tree!Name, Name
  <2> HIDE DEF f
  <2>2. {e.name : e \in out} = {name(i) : i \in V}
    <3>1. ASSUME NEW e \in out PROVE e.name \in {name(i) : i \in V}
      BY <1>2
    <3>2. ASSUME NEW i \in V PROVE name(i) \in {e.name : e \in out}
      BY <1>2
    <3> HIDE DEF name
    <3> QED
      BY <3>1, <3>2
  <2>3. {Name(q) : q \in Tree!Children(p)} = {name(i) : i \in V}
    <3>1. ASSUME NEW q \in Tree!Children(p) PROVE Name(q) \in {name(i) : i \in V}
      BY <1>1
    <3>2. ASSUME NEW i \in V PROVE name(i) \in {Name(q) : q \in Tree!Children(p)}
      BY <1>1, <1>4
    <3> HIDE DEF name
    <3> QED
      BY <3>1, <3>2
  <2> HIDE DEF name
  <2> QED
    BY <2>1, <2>2, <2>3
<1> QED
  BY <1>1, <1>3, <1>5, <1>6

LEMMA ReaddirCall ==
    ASSUME TreeInv, tree' = TreeOf(disk'), NEW p \in Paths, fs_readdir(p)
    PROVE  Fit(disk') /\ Tree!Next
<1>1. up
  BY DEF fs_readdir, ReadOnly, Serving
<1>2. PICK I : Shape(I, disk)
  BY <1>1, TreeNow
<1>3. tree = TreeOf(disk) /\ Fit(disk)
  BY DEF TreeInv
<1>4. PICK c : c = Walk(disk, p)
  OBVIOUS
<1>5. /\ c \in Int /\ (~ (c < 0) <=> c \in I) /\ (Tree!Exists(p) <=> c \in I)
      /\ Tree!IsDir(p) <=> c \in I /\ disk[c].type = "dir"
      /\ Tree!IsFile(p) <=> c \in I /\ disk[c].type = "file"
      /\ c \in I => disk[c].type \in {"file", "dir"}
  BY <1>2, <1>3, <1>4, Vocabulary
<1>6. CASE Refuse(On("readdir", p), ReaddirError(c))
  <2>1. /\ Fit(disk') /\ ReaddirError(c) < 0 /\ returned'.call = On("readdir", p)
        /\ \A codes : ReaddirError(c) \in codes => Tree!Fails(codes)
    BY <1>6, Refused
  <2>2. ASSUME c \notin I PROVE Tree!Readdir(p)
    <3>1. Tree!PathError(p) = c /\ ReaddirError(c) = c
      BY <1>2, <1>3, <1>4, <1>5, <2>2, PathErrorIs DEF ReaddirError
    <3>2. Tree!Fails({Tree!PathError(p)})
      BY <2>1, <3>1
    <3> QED
      BY <1>5, <2>2, <3>2 DEF Tree!Readdir
  <2>3. ASSUME c \in I PROVE Tree!Readdir(p)
    <3>1. disk[c].type = "file" /\ ReaddirError(c) = -Tree!ENOTDIR
      BY <1>5, <2>1, <2>3 DEF ReaddirError, IsDir, ENOTDIR, Tree!ENOTDIR
    <3>2. Tree!Fails({-Tree!ENOTDIR})
      BY <2>1, <3>1
    <3> QED
      BY <1>5, <2>3, <3>1, <3>2 DEF Tree!Readdir
  <2>4. Tree!Readdir(p) /\ returned'.call.op = "readdir" /\ returned'.call.path = p
    BY <2>1, <2>2, <2>3 DEF On
  <2> QED
    BY <1>1, <2>1, <2>4 DEF Tree!Next, Tree!Serve
<1>7. CASE ReaddirError(c) = 0 /\ ReadOnly /\ Answer(On("readdir", p), 0, Listing(c))
  <2>1. /\ disk' = disk /\ up' = up
        /\ returned' = [call |-> On("readdir", p), code |-> 0, out |-> Listing(c)]
    BY <1>7 DEF ReadOnly, Answer
  <2>2. tree' = tree /\ Fit(disk')
    BY <2>1, ImageKept
  <2>3. c \in I /\ disk[c].type = "dir"
    BY <1>5, <1>7 DEF ReaddirError, IsDir, ENOTDIR
  <2>a. PICK out : out = Listing(c)
    OBVIOUS
  <2>4. /\ {e.name : e \in out} = {Tree!Name(q) : q \in Tree!Children(p)}
        /\ Cardinality(out) = Cardinality(Tree!Children(p))
        /\ \A e \in out : Tree!StatMatches(e.stat, Append(p, e.name))
    BY <1>2, <1>3, <1>4, <2>3, <2>a, ListingIs
  <2>5. returned'.out = out /\ Tree!Fails({0}) /\ Tree!IsDir(p)
    BY <1>5, <2>1, <2>2, <2>3, <2>a DEF Tree!Fails, Tree!Returns
  <2>b. \A S : Tree!Cardinality(S) = Cardinality(S)
    BY DEF Tree!Cardinality, Cardinality
  <2>6. Tree!Readdir(p)
    BY <2>4, <2>5, <2>b DEF Tree!Readdir
  <2>7. returned'.call.op = "readdir" /\ returned'.call.path = p
    BY <2>1 DEF On
  <2> QED
    BY <1>1, <2>2, <2>6, <2>7 DEF Tree!Next, Tree!Serve
<1>8. SlotsOf(c) = Entries(disk, c)
  BY DEF SlotsOf, DataOf, Entries
<1> QED
  BY <1>4, <1>6, <1>7, <1>8 DEF fs_readdir, path2inum, Listing, Filled

LEMMA ReadCall ==
    ASSUME TreeInv, tree' = TreeOf(disk'), NEW p \in Paths, NEW len \in Nat, NEW at \in Nat,
           fs_read(p, len, at)
    PROVE  Fit(disk') /\ Tree!Next
<1> DEFINE call == [op |-> "read", path |-> p, len |-> len, at |-> at]
<1>1. up
  BY DEF fs_read, ReadOnly, Serving
<1>2. PICK I : Shape(I, disk)
  BY <1>1, TreeNow
<1>3. tree = TreeOf(disk) /\ Fit(disk)
  BY DEF TreeInv
<1>4. PICK c : c = Walk(disk, p)
  OBVIOUS
<1>5. /\ c \in Int /\ (~ (c < 0) <=> c \in I) /\ (Tree!Exists(p) <=> c \in I)
      /\ Tree!IsDir(p) <=> c \in I /\ disk[c].type = "dir"
      /\ Tree!IsFile(p) <=> c \in I /\ disk[c].type = "file"
      /\ c \in I => /\ disk[c].type \in {"file", "dir"} /\ tree[p] = NodeOf(disk, c)
                    /\ disk[c].size \in 0..MAX_FILE
  BY <1>2, <1>3, <1>4, Vocabulary
<1>6. CASE Refuse(call, ReadError(c))
  <2>1. /\ Fit(disk') /\ ReadError(c) < 0 /\ returned'.call = call
        /\ \A codes : ReadError(c) \in codes => Tree!Fails(codes)
    BY <1>6, Refused
  <2>2. ASSUME c \notin I PROVE Tree!Read(p, len, at)
    <3>1. Tree!PathError(p) = c /\ ReadError(c) = c
      BY <1>2, <1>3, <1>4, <1>5, <2>2, PathErrorIs DEF ReadError
    <3>2. Tree!Fails({Tree!PathError(p)})
      BY <2>1, <3>1
    <3> QED
      BY <1>5, <2>2, <3>2 DEF Tree!Read
  <2>3. ASSUME c \in I PROVE Tree!Read(p, len, at)
    <3>1. disk[c].type = "dir" /\ ReadError(c) = -Tree!EISDIR
      BY <1>5, <2>1, <2>3 DEF ReadError, IsDir, EISDIR, Tree!EISDIR
    <3>2. Tree!Fails({-Tree!EISDIR})
      BY <2>1, <3>1
    <3> QED
      BY <1>5, <2>3, <3>1, <3>2 DEF Tree!Read
  <2>4. /\ returned'.call.op = "read" /\ returned'.call.path = p
        /\ returned'.call.len = len /\ returned'.call.at = at
    BY <2>1
  <2>5. Tree!Read(p, len, at)
    BY <2>2, <2>3
  <2> QED
    BY <1>1, <2>1, <2>4, <2>5 DEF Tree!Next, Tree!Serve
<1> DEFINE n == ReadLength(disk[c].size, len, at)
           out == [k \in 1..n |-> FileByte(disk, c, at + k - 1)]
<1>7. CASE ReadError(c) = 0 /\ ReadOnly /\ Answer(call, n, out)
  <2>1. /\ disk' = disk /\ up' = up
        /\ returned' = [call |-> call, code |-> n, out |-> out]
    BY <1>7 DEF ReadOnly, Answer
  <2>2. tree' = tree /\ Fit(disk')
    BY <2>1, ImageKept
  <2>3. c \in I /\ disk[c].type = "file"
    BY <1>5, <1>7 DEF ReadError, IsDir, EISDIR
  <2>4. PICK size \in Nat : size = disk[c].size
    BY <1>5, <2>3
  <2>5. PICK data : data = tree[p].data /\ data = [i \in 1..size |-> FileByte(disk, c, i - 1)]
    <3>1. NodeOf(disk, c).data = [i \in 1..disk[c].size |-> FileByte(disk, c, i - 1)]
      BY <2>3 DEF NodeOf
    <3>2. tree[p] = NodeOf(disk, c)
      BY <1>5, <2>3
    <3> QED
      BY <2>4, <3>1, <3>2
  <2>6. Len(data) = size /\ Tree!Size(p) = size /\ \E S : data \in Seq(S)
    <3>1. Len(data) = size
      BY <2>4, <2>5
    <3>2. data \in [1..size -> {FileByte(disk, c, i - 1) : i \in 1..size}]
      BY <2>5
    <3>3. data \in Seq({FileByte(disk, c, i - 1) : i \in 1..size})
      BY <2>4, <3>2, SMTT(30)
    <3> QED
      BY <2>5, <3>1, <3>3 DEF Tree!Size
  <2>7. PICK end : end = End(size, len, at)
    OBVIOUS
  <2>a. n \in Nat /\ SubSeq(data, at + 1, end) = Part(data, at, n)
    <3>1. PICK S : data \in Seq(S)
      BY <2>6
    <3>2. n = ReadLength(size, len, at)
      BY <2>4
    <3>3. size = Len(data)
      BY <2>6
    <3> HIDE DEF n
    <3>4. /\ ReadLength(Len(data), len, at) \in Nat
          /\ SubSeq(data, at + 1, End(Len(data), len, at)) =
                Part(data, at, ReadLength(Len(data), len, at))
      BY ONLY len \in Nat, at \in Nat, <3>1, ReadIs
    <3> QED
      BY <2>7, <3>2, <3>3, <3>4
  <2>b. out = Part(data, at, n) /\ Len(out) = n
    <3>1. \A k \in 1..n : at + k \in 1..size /\ (at + k) - 1 = at + k - 1
      BY <2>4, <2>a DEF ReadLength
    <3>2. \A k \in 1..n : data[at + k] = FileByte(disk, c, at + k - 1)
      BY <2>5, <3>1
    <3> QED
      BY <2>a, <3>2 DEF Part
  <2>c. returned'.out = out /\ Tree!IsFile(p) /\ returned'.code = n
    BY <1>5, <2>1, <2>3
  <2> HIDE DEF out, n
  <2>8. Tree!Fails({Len(returned'.out)})
    BY <2>1, <2>2, <2>b, <2>c DEF Tree!Fails, Tree!Returns
  <2>9. Tree!Read(p, len, at)
    BY <2>5, <2>6, <2>7, <2>8, <2>a, <2>b, <2>c DEF Tree!Read, End
  <2>10. /\ returned'.call.op = "read" /\ returned'.call.path = p
         /\ returned'.call.len = len /\ returned'.call.at = at
    BY <2>1
  <2> QED
    BY <1>1, <2>2, <2>9, <2>10 DEF Tree!Next, Tree!Serve
<1> QED
  BY <1>4, <1>6, <1>7 DEF fs_read, path2inum

\* What a handler that writes one block leaves.
LEMMA OnePut ==
    ASSUME NEW call, NEW code, NEW a \in Blocks, NEW block, Commit(call, code, <<Put(a, block)>>)
    PROVE  /\ disk'[a] = block /\ \A b \in Blocks \ {a} : disk'[b] = disk[b]
           /\ up' = TRUE /\ returned' = [call |-> call, code |-> code]
<1>1. PICK writes : writes = <<Put(a, block)>>
  OBVIOUS
<1>2. Len(writes) = 1 /\ writes[1] = Put(a, block) /\ Commit(call, code, writes)
  BY <1>1
<1>3. writes[1].op = "put" /\ writes[1].blk = a /\ writes[1].block = block
  BY <1>2 DEF Put
<1>4. \A n \in 1..(Len(writes) - 1) : FALSE
  BY <1>2
<1>5. /\ disk' = block_write(disk, writes, 1)
      /\ up' = TRUE /\ returned' = [call |-> call, code |-> code]
  BY <1>2, <1>4 DEF Commit, Performed, Reply
<1>6. PICK image : image = block_write(disk, writes, 1)
  OBVIOUS
<1>7. image[a] = block
  <2>1. 1 \in 1..1 /\ \A i \in (1+1)..1 : FALSE
    OBVIOUS
  <2> QED
    BY <1>3, <1>6, <2>1, BlockPut
<1>8. \A b \in Blocks \ {a} : image[b] = disk[b]
  <2>1. \A i \in 1..1 : i = 1
    OBVIOUS
  <2> QED
    BY <1>3, <1>6, <2>1, BlockLeft
<1> QED
  BY <1>5, <1>6, <1>7, <1>8

\* A file has the same bytes as long as its blocks do.
LEMMA DataSame ==
    ASSUME NEW image, NEW image2, NEW b, image[b] \in Inode, image2[b].type = image[b].type,
           image2[b].size = image[b].size, image2[b].ptrs = image[b].ptrs,
           image[b].type = "file" => \A k \in Pointers(image[b]) :
              image2[image[b].ptrs[k]] = image[image[b].ptrs[k]]
    PROVE  NodeOf(image2, b).data = NodeOf(image, b).data
<1>1. CASE image[b].type = "dir"
  BY <1>1 DEF NodeOf
<1>2. CASE image[b].type # "dir"
  <2>1. image[b].type = "file" /\ image[b].size \in Nat
    BY <1>2, SizesAssumption DEF Inode, MAX_FILE
  <2>2. ASSUME NEW i \in 1..image[b].size
        PROVE  FileByte(image2, b, i - 1) = FileByte(image, b, i - 1)
    <3>1. PICK k : k = (i - 1) \div FS_BLOCK_SIZE
      OBVIOUS
    <3>2. i - 1 \in Nat /\ i - 1 < image[b].size
      BY <2>1
    <3>3. k \in Pointers(image[b])
      BY <2>1, <3>1, <3>2, BytePlace DEF Pointers
    <3>4. image2[image[b].ptrs[k]] = image[image[b].ptrs[k]]
      BY <2>1, <3>3
    <3> QED
      BY <3>1, <3>4 DEF FileByte
  <2>3. [i \in 1..image[b].size |-> FileByte(image2, b, i - 1)]
          = [i \in 1..image[b].size |-> FileByte(image, b, i - 1)]
    BY <2>2
  <2> QED
    BY <1>2, <2>3 DEF NodeOf
<1> QED
  BY <1>1, <1>2

\* A change of one inode and of its data leaves the other nodes alone.
LEMMA OtherNodes ==
    ASSUME NEW I, NEW image, Shape(I, image), NEW image2, NEW c \in I,
           \A b \in I \ {c} : image2[b] = image[b],
           \A b \in I \ {c} : \A k \in Pointers(image[b]) :
               image2[image[b].ptrs[k]] = image[image[b].ptrs[k]]
    PROVE  \A b \in I \ {c} : /\ NodeOf(image2, b) = NodeOf(image, b)
                              /\ image2[b].type = image[b].type
                              /\ image[b].type = "dir" => Entries(image2, b) = Entries(image, b)
<1> TAKE b \in I \ {c}
<1>1. image[b] \in Inode /\ image2[b] = image[b]
  BY DEF Shape, Inodal
<1>2. NodeOf(image2, b) = NodeOf(image, b)
  BY <1>1, NodeSame
<1>3. image[b].type = "dir" => Entries(image2, b) = Entries(image, b)
  <2>1. image[b].type = "dir" => 0 \in Pointers(image[b])
    BY <1>1, PointersFacts
  <2> QED
    BY <1>1, <2>1 DEF Entries
<1> QED
  BY <1>1, <1>2, <1>3

LEMMA ChmodCall ==
    ASSUME TreeInv, tree' = TreeOf(disk'), NEW p \in Paths, NEW perm \in Perms, fs_chmod(p, perm)
    PROVE  Fit(disk') /\ (Tree!Next \/ Departs)
<1>0. up
  BY DEF fs_chmod, Serving
<1>1. PICK call : call = [op |-> "chmod", path |-> p, perm |-> perm]
  OBVIOUS
<1>2. PICK c : c = Walk(disk, p)
  OBVIOUS
<1>3. PICK new : new = [disk[c] EXCEPT !.perm = perm]
  OBVIOUS
<1>4. PICK I \in SUBSET Blocks : Shape(I, disk)
  BY <1>0, TreeNow
<1>5. tree = TreeOf(disk) /\ Fit(disk)
  BY DEF TreeInv
<1>6. /\ c \in Int /\ (~ (c < 0) <=> c \in I) /\ (Tree!Exists(p) <=> c \in I)
      /\ c \notin I => c \in Neg
      /\ c \in I => disk[c] \in Inode /\ tree[p] = NodeOf(disk, c)
  BY <1>2, <1>4, <1>5, Vocabulary
<1>7. call.op = "chmod" /\ call.path = p /\ call.perm = perm
  BY <1>1
<1>8. CASE Refuse(call, ChmodError(c))
  <2>1. /\ Fit(disk') /\ ChmodError(c) < 0 /\ returned'.call = call
        /\ \A codes : ChmodError(c) \in codes => Tree!Fails(codes)
    BY <1>8, Refused
  <2>2. c \notin I /\ ChmodError(c) = -ENOENT
    BY <1>6, <2>1 DEF ChmodError
  <2>3. Tree!Fails({-ENOENT})
    BY <2>1, <2>2
  <2>4. Tree!Fails({Tree!PathError(p)}) \/ HidesNotDir
    BY <1>0, <1>2, <1>4, <1>5, <1>7, <2>1, <2>2, <2>3, NotFound DEF Hiding
  <2>5. Tree!Chmod(p, perm) \/ HidesNotDir
    BY <1>6, <2>2, <2>4 DEF Tree!Chmod
  <2> QED
    BY <1>0, <1>7, <2>1, <2>5 DEF Tree!Next, Tree!Serve, Departs
<1>9. CASE c >= 0 /\ Commit(call, 0, <<Put(c, new)>>)
  <2>1. c \in I /\ c \in Blocks
    BY <1>6, <1>9
  <2>2. PICK image : image = disk'
    OBVIOUS
  <2>3. /\ image[c] = new /\ \A b \in Blocks \ {c} : image[b] = disk[b]
        /\ up' = TRUE /\ returned' = [call |-> call, code |-> 0]
    BY <1>9, <2>1, <2>2, OnePut, ZenonT(60)
  <2>4. /\ new \in Inode /\ new.type = disk[c].type /\ new.size = disk[c].size
        /\ new.ptrs = disk[c].ptrs /\ new.perm = perm
    BY <1>3, <1>6, <2>1 DEF Inode
  <2>5. \A b \in I : \A k \in Pointers(disk[b]) : disk[b].ptrs[k] \in Blocks \ I
    BY <1>4 DEF Shape, Inodal
  <2>6. \A b \in I : \A k \in Pointers(disk[b]) : image[disk[b].ptrs[k]] = disk[disk[b].ptrs[k]]
    BY <2>1, <2>3, <2>5
  <2>7. \A b \in I \ {c} : image[b] = disk[b]
    BY <2>3
  <2>8. \A b \in I \ {c} : /\ NodeOf(image, b) = NodeOf(disk, b) /\ image[b].type = disk[b].type
                           /\ disk[b].type = "dir" => Entries(image, b) = Entries(disk, b)
    BY <1>4, <2>1, <2>6, <2>7, OtherNodes
  <2>9. disk[c].type = "dir" => /\ Entries(image, c) = Entries(disk, c)
                                /\ image[disk[c].ptrs[0]] = disk[disk[c].ptrs[0]]
    <3>1. disk[c].type = "dir" => 0 \in Pointers(disk[c])
      BY <1>6, <2>1, PointersFacts
    <3> QED
      BY <2>1, <2>3, <2>4, <2>6, <3>1 DEF Entries
  <2>10. \A b \in I : /\ image[b].type = disk[b].type
                      /\ disk[b].type = "dir" => Entries(image, b) = Entries(disk, b)
    BY <2>3, <2>4, <2>8, <2>9
  <2>11. Shape(I, image)
    <3>1. \A b \in I : /\ image[b] \in Inode /\ image[b].type = disk[b].type
                       /\ image[b].size = disk[b].size /\ image[b].ptrs = disk[b].ptrs
      BY <1>4, <2>3, <2>4, <2>7 DEF Shape, Inodal
    <3>2. \A b \in I : disk[b].type = "dir" => image[disk[b].ptrs[0]] \in DirBlock
      <4>1. \A b \in I : disk[b].type = "dir" =>
               disk[disk[b].ptrs[0]] \in DirBlock /\ disk[b].ptrs[0] \in Blocks \ I
        BY <1>4, DirFacts
      <4> QED
        BY <2>1, <2>3, <4>1
    <3> QED
      BY <1>4, <2>10, <3>1, <3>2, Kept
  <2>12. PICK node : node = NodeOf(image, c)
    OBVIOUS
  <2>13. TreeOf(image) = [tree EXCEPT ![p] = node] /\ Fit(image) /\ p \in DOMAIN tree
    BY <1>2, <1>4, <1>5, <2>1, <2>8, <2>10, <2>11, <2>12, TreeChanged
  <2>14. node = [tree[p] EXCEPT !.perm = perm]
    <3>1. NodeOf(image, c).data = NodeOf(disk, c).data
      BY <1>6, <2>1, <2>3, <2>4, <2>6, DataSame
    <3>2. /\ node = [type |-> disk[c].type, perm |-> perm, data |-> NodeOf(image, c).data]
          /\ NodeOf(disk, c) = [type |-> disk[c].type, perm |-> disk[c].perm, data |-> NodeOf(disk, c).data]
      BY <2>3, <2>4, <2>12 DEF NodeOf
    <3>3. tree[p] = NodeOf(disk, c)
      BY <1>6, <2>1
    <3> QED
      BY <3>1, <3>2, <3>3
  <2>15. tree' = [tree EXCEPT ![p].perm = perm] /\ Fit(disk')
    BY <2>2, <2>13, <2>14
  <2>16. Tree!Chmod(p, perm)
    BY <1>0, <1>6, <2>1, <2>3, <2>15 DEF Tree!Chmod, Tree!Succeeds, Tree!Returns
  <2> QED
    BY <1>0, <1>7, <2>3, <2>15, <2>16 DEF Tree!Next, Tree!Serve
<1> QED
  BY <1>1, <1>2, <1>3, <1>8, <1>9 DEF fs_chmod, path2inum

\* What the checks of rename establish.
LEMMA RenameChecked ==
    ASSUME NEW I, Shape(I, disk), NEW src \in Paths, NEW dst \in Nameable, RenameError(src, dst) = 0,
           NEW d, d = Walk(disk, Parent(src)), NEW i, i = find_dirent(Entries(disk, d), Name(src))
    PROVE  /\ Walk(disk, src) \in I /\ Walk(disk, dst) \notin I
           /\ Rename(src, dst)
           /\ d \in I /\ disk[d].type = "dir" /\ i \in Slots /\ Entries(disk, d)[i] # NULL
           /\ Entries(disk, d)[i].name = Name(src)
           /\ \A j \in Slots : Entries(disk, d)[j] # NULL => Entries(disk, d)[j].name # Name(dst)
<1>1. dst \in Paths /\ (dst = <<>> \/ Name(dst) \in Names)
  BY DEF Nameable, Name
<1>2. /\ ~ (Walk(disk, src) < 0) /\ ~ (Walk(disk, dst) > 0)
      /\ Len(src) = Len(dst) /\ Parent(src) = Parent(dst)
  BY DEF RenameError, path2inum, ENOENT, EEXIST, EINVAL
<1>3. Walk(disk, src) \in I /\ Walk(disk, dst) \notin I
  BY <1>1, <1>2, PathInode
<1>4. dst # <<>> /\ src # <<>>
  <2>1. Walk(disk, <<>>) \in I
    BY WalkRoot DEF Shape, Inodal
  <2>2. dst # <<>>
    BY <1>3, <2>1
  <2> QED
    BY <1>1, <1>2, <2>2, PathFacts
<1>5. /\ d \in I /\ disk[d].type = "dir" /\ i \in Slots /\ Entries(disk, d)[i] # NULL
      /\ Entries(disk, d)[i].name = Name(src)
  BY <1>3, <1>4, HasEntry
<1>6. Entries(disk, d)[i] \in Dirent
  BY <1>5, DirFacts
<1>7. Name(src) \in Names
  BY <1>5, <1>6 DEF Dirent
<1>8. Name(src) # Name(dst)
  BY <1>1, <1>2, <1>3, <1>4, PathSplit
<1>9. \A j \in Slots : Entries(disk, d)[j] # NULL => Entries(disk, d)[j].name # Name(dst)
  BY <1>1, <1>2, <1>3, <1>4, <1>5, NoEntry
<1> QED
  BY <1>1, <1>2, <1>3, <1>4, <1>5, <1>7, <1>8, <1>9 DEF Rename

RenamedEntry(block, i, name) == [block EXCEPT !.slots[i].name = name]

\* The image a renaming leaves.
LEMMA RenameImage ==
    ASSUME NEW I, I \subseteq Blocks, Shape(I, disk), NEW d \in I, disk[d].type = "dir",
           NEW a, a = disk[d].ptrs[0], NEW i \in Slots, Entries(disk, d)[i] # NULL,
           NEW old, NEW new \in Names, old # new, Entries(disk, d)[i].name = old,
           \A j \in Slots : Entries(disk, d)[j] # NULL => Entries(disk, d)[j].name # new,
           \A j \in Slots : Entries(disk, d)[j] # NULL /\ Entries(disk, d)[j].name = old => j = i,
           NEW image, image[a] = RenamedEntry(disk[a], i, new),
           \A b \in Blocks \ {a} : image[b] = disk[b]
    PROVE  /\ Shape(I, image) /\ Renames(I, disk, image, d, i, old, new)
           /\ \A b \in I : NodeOf(image, b) = NodeOf(disk, b)
<1>1. /\ a \in Blocks \ ({0, 1} \cup I) /\ disk[a] \in DirBlock
      /\ \A b \in I \ {d} : \A k \in Pointers(disk[b]) : disk[b].ptrs[k] # a
  BY DirFacts
<1>2. disk[a].slots = Entries(disk, d)
  BY DEF Entries
<1>3. PICK e : e = [disk[a].slots[i] EXCEPT !.name = new]
  OBVIOUS
<1>4. disk[a].slots[i] \in Dirent
  BY <1>1, <1>2 DEF DirBlock
<1>5. e \in Dirent /\ e.name = new /\ e.inode = disk[a].slots[i].inode
  BY <1>3, <1>4 DEF Dirent
<1>6. e # NULL
  <2>1. e \in [name : Names, inode : Nat]
    BY <1>5, BlocksFacts DEF Dirent
  <2> QED
    BY <2>1, SentinelAssumption
<1>7. image[a] = [disk[a] EXCEPT !.slots[i] = e]
  BY <1>1, <1>3 DEF DirBlock, RenamedEntry
<1>8. /\ image[a] \in DirBlock
      /\ \A j \in Slots : image[a].slots[j] = IF j = i THEN e ELSE disk[a].slots[j]
  <2>1. e \in Dirent \cup {NULL}
    BY <1>5
  <2> QED
    BY ONLY <1>1, <1>7, <2>1, i \in Slots DEF DirBlock
<1>9. \A b \in I : image[b] = disk[b]
  BY <1>1
<1>10. \A b \in I : disk[b] \in Inode
  BY DEF Shape, Inodal
<1>11. \A b \in I \ {d} : \A k \in Pointers(disk[b]) : image[disk[b].ptrs[k]] = disk[disk[b].ptrs[k]]
  BY <1>1 DEF Shape, Inodal
<1>12. \A b \in I \ {d} : /\ NodeOf(image, b) = NodeOf(disk, b)
                          /\ disk[b].type = "dir" => Entries(image, b) = Entries(disk, b)
  BY <1>9, <1>11, OtherNodes
<1>13. NodeOf(image, d) = NodeOf(disk, d)
  BY <1>9, <1>10, NodeSame
<1>14. Entries(image, d) = image[a].slots
  BY <1>9 DEF Entries
<1>15. Renames(I, disk, image, d, i, old, new)
  <2>1. old \in Names
    BY <1>2, <1>4 DEF Dirent
  <2> QED
    BY <1>2, <1>5, <1>6, <1>8, <1>9, <1>12, <1>14, <2>1 DEF Renames
<1>16. Shape(I, image)
  <2>1. \A b \in I : /\ image[b] \in Inode /\ image[b].type = disk[b].type
                     /\ image[b].size = disk[b].size /\ image[b].ptrs = disk[b].ptrs
    BY <1>9, <1>10
  <2>2. ASSUME NEW b \in I, disk[b].type = "dir"
        PROVE  /\ image[disk[b].ptrs[0]] \in DirBlock
               /\ \A j \in Slots :
                     /\ Entries(image, b)[j] = NULL <=> Entries(disk, b)[j] = NULL
                     /\ Entries(disk, b)[j] # NULL =>
                           Entries(image, b)[j].inode = Entries(disk, b)[j].inode
    <3>1. CASE b = d
      <4>1. image[a] \in DirBlock
        BY <1>8
      <4>2. ASSUME NEW j \in Slots
            PROVE  /\ Entries(image, d)[j] = NULL <=> Entries(disk, d)[j] = NULL
                   /\ Entries(disk, d)[j] # NULL =>
                         Entries(image, d)[j].inode = Entries(disk, d)[j].inode
        <5>1. Entries(image, d)[j] = IF j = i THEN e ELSE Entries(disk, d)[j]
          BY <1>2, <1>8, <1>14
        <5>2. e.inode = Entries(disk, d)[i].inode
          BY <1>2, <1>5
        <5> QED
          BY <1>6, <5>1, <5>2
      <4> QED
        BY <3>1, <4>1, <4>2
    <3>2. CASE b # d
      <4>1. disk[disk[b].ptrs[0]] \in DirBlock /\ 0 \in Pointers(disk[b])
        BY <1>10, <2>2, DirFacts, PointersFacts
      <4>2. image[disk[b].ptrs[0]] = disk[disk[b].ptrs[0]] /\ Entries(image, b) = Entries(disk, b)
        BY <1>11, <1>12, <2>2, <3>2, <4>1
      <4> QED
        BY <4>1, <4>2
    <3> QED
      BY <3>1, <3>2
  <2> QED
    BY <2>1, <2>2, Kept
<1> QED
  BY <1>12, <1>13, <1>15, <1>16

LEMMA RenameRefused ==
    ASSUME TreeInv, tree' = TreeOf(disk'), NEW I, Shape(I, disk), NEW src \in Paths, NEW dst \in Paths,
           NEW call, Refuse(call, RenameError(src, dst)), up, call.op = "rename", call.path = src
    PROVE  Tree!Rename(src, dst) \/ HidesNotDir
<1>1. /\ RenameError(src, dst) < 0 /\ returned'.call = call
      /\ \A codes : RenameError(src, dst) \in codes => Tree!Fails(codes)
  BY Refused
<1>2. tree = TreeOf(disk)
  BY DEF TreeInv
<1>3. /\ (Tree!Exists(src) <=> Walk(disk, src) \in I) /\ (~ (Walk(disk, src) < 0) <=> Walk(disk, src) \in I)
      /\ (Tree!Exists(dst) <=> Walk(disk, dst) \in I) /\ (Walk(disk, dst) > 0 <=> Walk(disk, dst) \in I)
      /\ Tree!Parent(src) = Parent(src) /\ Tree!Parent(dst) = Parent(dst)
  BY <1>2, Vocabulary
<1>4. CASE Walk(disk, src) < 0
  <2>1. RenameError(src, dst) = -ENOENT
    BY <1>4 DEF RenameError, path2inum
  <2>2. Tree!Fails({-ENOENT})
    BY <1>1, <2>1
  <2>3. Tree!Fails({Tree!PathError(src)}) \/ HidesNotDir
    BY <1>1, <1>2, <1>3, <1>4, <2>2, NotFound DEF Hiding
  <2> QED
    BY <1>3, <1>4, <2>3 DEF Tree!Rename
<1>5. CASE ~ (Walk(disk, src) < 0) /\ Walk(disk, dst) > 0
  <2>1. RenameError(src, dst) \in {-Tree!EEXIST}
    BY <1>5 DEF RenameError, path2inum, EEXIST, Tree!EEXIST
  <2> QED
    BY <1>1, <1>3, <1>5, <2>1 DEF Tree!Rename
<1>6. CASE ~ (Walk(disk, src) < 0) /\ ~ (Walk(disk, dst) > 0)
  <2>1. RenameError(src, dst) \in {-Tree!EINVAL} /\ (Len(src) # Len(dst) \/ Parent(src) # Parent(dst))
    BY <1>1, <1>6 DEF RenameError, path2inum, EINVAL, Tree!EINVAL
  <2>2. src = <<>> \/ Parent(src) # Parent(dst)
    <3> SUFFICES ASSUME src # <<>>, Len(src) # Len(dst) PROVE Parent(src) # Parent(dst)
      BY <2>1
    <3>1. dst # <<>>
      <4>1. Walk(disk, <<>>) \in I
        BY WalkRoot DEF Shape, Inodal
      <4> QED
        BY <1>3, <1>6, <4>1
    <3>2. /\ Len(Parent(src)) = Len(src) - 1 /\ Len(Parent(dst)) = Len(dst) - 1
          /\ Len(src) \in Nat /\ Len(dst) \in Nat
      BY <3>1, ParentFacts, PathFacts
    <3> QED
      BY <3>2
  <2> QED
    BY <1>1, <1>3, <1>6, <2>1, <2>2 DEF Tree!Rename
<1> QED
  BY <1>4, <1>5, <1>6

LEMMA RenameCall ==
    ASSUME TreeInv, tree' = TreeOf(disk'), NEW src \in Paths, NEW dst \in Nameable, fs_rename(src, dst)
    PROVE  Fit(disk') /\ (Tree!Next \/ Departs)
<1>0. up
  BY DEF fs_rename, Serving
<1>1. PICK call : call = [op |-> "rename", path |-> src, dst |-> dst]
  OBVIOUS
<1>2. PICK d : d = Walk(disk, Parent(src))
  OBVIOUS
<1>3. PICK a : a = disk[d].ptrs[0]
  OBVIOUS
<1>4. PICK i : i = find_dirent(Entries(disk, d), Name(src))
  OBVIOUS
<1>5. PICK new : new = RenamedEntry(disk[a], i, Name(dst))
  OBVIOUS
<1>6. PICK I \in SUBSET Blocks : Shape(I, disk)
  BY <1>0, TreeNow
<1>7. tree = TreeOf(disk) /\ Fit(disk) /\ dst \in Paths
  BY DEF TreeInv, Nameable
<1>8. call.op = "rename" /\ call.path = src /\ call.dst = dst
  BY <1>1
<1>9. CASE Refuse(call, RenameError(src, dst))
  <2>1. Fit(disk') /\ returned'.call = call
    BY <1>9, Refused
  <2>2. Tree!Rename(src, dst) \/ HidesNotDir
    BY <1>0, <1>6, <1>7, <1>8, <1>9, RenameRefused
  <2> QED
    BY <1>0, <1>8, <2>1, <2>2 DEF Tree!Next, Tree!Serve, Departs
<1>10. CASE RenameError(src, dst) = 0 /\ Commit(call, 0, <<Put(a, new)>>)
  <2>1. /\ Walk(disk, src) \in I /\ Walk(disk, dst) \notin I
        /\ Rename(src, dst)
        /\ d \in I /\ disk[d].type = "dir" /\ i \in Slots /\ Entries(disk, d)[i] # NULL
        /\ Entries(disk, d)[i].name = Name(src)
        /\ \A j \in Slots : Entries(disk, d)[j] # NULL => Entries(disk, d)[j].name # Name(dst)
    BY <1>2, <1>4, <1>6, <1>10, RenameChecked
  <2>2. src # <<>> /\ Parent(src) = Parent(dst) /\ Name(dst) \in Names /\ Name(src) # Name(dst)
    BY <2>1 DEF Rename
  <2>3. \A j \in Slots : Entries(disk, d)[j] # NULL /\ Entries(disk, d)[j].name = Name(src) => j = i
    <3>1. Parent(src) \in Paths
      BY <2>2, ParentFacts
    <3>2. Walk(disk, Parent(src)) > 0
      BY <1>2, <1>6, <2>1, <3>1, PathInode
    <3> QED
      BY <1>2, <1>7, <2>1, <3>1, <3>2 DEF Fit
  <2>4. a \in Blocks
    BY <1>3, <1>6, <2>1, DirFacts
  <2>5. PICK image : image = disk'
    OBVIOUS
  <2>6. /\ image[a] = new /\ \A b \in Blocks \ {a} : image[b] = disk[b]
        /\ up' = TRUE /\ returned' = [call |-> call, code |-> 0]
    BY <1>10, <2>4, <2>5, OnePut, ZenonT(60)
  <2>7. /\ Shape(I, image) /\ Renames(I, disk, image, d, i, Name(src), Name(dst))
        /\ \A b \in I : NodeOf(image, b) = NodeOf(disk, b)
    BY <1>3, <1>5, <1>6, <2>1, <2>2, <2>3, <2>6, RenameImage
  <2>8. TreeOf(image) = RenamedTree(tree, src, dst)
    BY <1>2, <1>6, <1>7, <2>1, <2>7, TreeRenamed
  <2>12. Fit(image)
    BY <1>2, <1>6, <1>7, <2>1, <2>7, FitRenamed
  <2>9. tree' = Tree!Renamed(src, dst) /\ Fit(disk')
    <3>1. tree' = TreeOf(image) /\ Fit(disk')
      BY <2>5, <2>12
    <3>2. TreeOf(image) = Tree!Renamed(src, dst)
      BY <2>8, Zenon DEF Tree!Renamed, MovedTo, RenamedTree
    <3> QED
      BY <3>1, <3>2
  <2>10. /\ Tree!Exists(src) /\ ~ Tree!Exists(dst)
         /\ Tree!Parent(src) = Parent(src) /\ Tree!Parent(dst) = Parent(dst)
    BY <1>6, <1>7, <2>1, Vocabulary
  <2>11. Tree!Rename(src, dst)
    BY <1>0, <2>2, <2>6, <2>9, <2>10 DEF Tree!Rename, Tree!Succeeds, Tree!Returns
  <2> QED
    BY <1>0, <1>8, <2>6, <2>9, <2>11 DEF Tree!Next, Tree!Serve
<1>11. SlotsOf(d) = Entries(disk, d) /\ DataOf(d) = disk[d].ptrs[0]
  BY DEF SlotsOf, DataOf, Entries
<1> QED
  BY <1>1, <1>2, <1>3, <1>4, <1>5, <1>9, <1>10, <1>11 DEF fs_rename, path2inum, RenamedEntry


-----------------------------------------------------------------------------
(* The handlers of several writes, of which a killed process makes the first. *)

\* How the image and the answer look when the handler has returned or died.
Done(call, code, writes, n) ==
    /\ disk' = block_write(disk, writes, n) /\ up' = TRUE
    /\ returned' = [call |-> call, code |-> code]
Cut(call, writes, m) ==
    /\ disk' = block_write(disk, writes, m) /\ up' = FALSE
    /\ returned' = [call |-> call, code |-> -1]

LEMMA Committed ==
    ASSUME NEW call, NEW code, NEW writes, NEW n, n = Len(writes), Commit(call, code, writes)
    PROVE  Done(call, code, writes, n) \/ \E m \in 1..(n - 1) : Cut(call, writes, m)
  BY DEF Commit, Dies, Performed, Reply, Done, Cut

\* Bits of the bitmap are no part of the tree.
LEMMA OnlyBits ==
    ASSUME disk \in [Blocks -> Block], NEW writes, NEW m \in Nat,
           \A i \in 1..m : writes[i].op # "put"
    PROVE  block_write(disk, writes, m) = disk
<1>1. \A b \in Blocks : block_write(disk, writes, m)[b] = disk[b]
  BY BlockLeft
<1>2. PICK image : image = block_write(disk, writes, m)
  OBVIOUS
<1>3. image = [b \in Blocks |-> image[b]]
  BY <1>2 DEF block_write
<1> QED
  BY <1>1, <1>2, <1>3

LEMMA KilledUnchanged ==
    ASSUME up, up' = FALSE, tree' = tree, NEW call, returned' = [call |-> call, code |-> -1],
           call.op \in {"create", "mkdir", "unlink", "rmdir", "truncate"}
    PROVE  Tree!Next
<1>1. returned'.call = call /\ returned'.code = -1
  OBVIOUS
<1>2. Tree!Die(call)
  BY <1>1 DEF Tree!Die, Tree!Returns
<1> QED
  BY <1>1, <1>2 DEF Tree!Next, Tree!Serve

LEMMA TruncateRefused ==
    ASSUME TreeInv, tree' = TreeOf(disk'), NEW I, Shape(I, disk), NEW p \in Paths, NEW len \in Nat,
           NEW call, NEW c, c = Walk(disk, p), Refuse(call, TruncateError(c, len))
    PROVE  Tree!Truncate(p, len)
<1>1. /\ TruncateError(c, len) < 0
      /\ \A codes : TruncateError(c, len) \in codes => Tree!Fails(codes)
  BY Refused
<1>2. tree = TreeOf(disk)
  BY DEF TreeInv
<1>3. /\ c \in Int /\ (~ (c < 0) <=> c \in I) /\ (Tree!Exists(p) <=> c \in I)
      /\ Tree!IsDir(p) <=> c \in I /\ disk[c].type = "dir"
  BY <1>2, Vocabulary
<1>4. CASE len # 0
  BY <1>1, <1>4 DEF TruncateError, Tree!Truncate, EINVAL, Tree!EINVAL
<1>5. CASE len = 0 /\ c < 0
  <2>1. TruncateError(c, len) = c
    BY <1>5 DEF TruncateError
  <2>2. c = Tree!PathError(p)
    BY <1>2, <1>3, <1>5, PathErrorIs
  <2> QED
    BY <1>1, <1>3, <1>5, <2>1, <2>2 DEF Tree!Truncate
<1>6. CASE len = 0 /\ ~ (c < 0)
  <2>1. disk[c].type = "dir" /\ TruncateError(c, len) = -EISDIR
    BY <1>1, <1>6 DEF TruncateError, IsDir
  <2> QED
    BY <1>1, <1>3, <1>6, <2>1 DEF Tree!Truncate, EISDIR, Tree!EISDIR
<1> QED
  BY <1>4, <1>5, <1>6

Emptied(in) == [in EXCEPT !.size = 0]

\* The image a truncation leaves.
LEMMA TruncateImage ==
    ASSUME NEW I, I \subseteq Blocks, Shape(I, disk), Marked(I, InUse, disk), InUse \subseteq Blocks,
           NEW c \in I, disk[c].type = "file",
           NEW image, image[c] = Emptied(disk[c]), \A b \in Blocks \ {c} : image[b] = disk[b]
    PROVE  /\ Shape(I, image)
           /\ \A b \in I : /\ image[b].type = disk[b].type
                           /\ disk[b].type = "dir" => Entries(image, b) = Entries(disk, b)
           /\ \A b \in I \ {c} : NodeOf(image, b) = NodeOf(disk, b)
           /\ NodeOf(image, c) = [NodeOf(disk, c) EXCEPT !.data = <<>>]
<1>1. disk[c] \in Inode /\ \A b \in I : \A k \in Pointers(disk[b]) : disk[b].ptrs[k] \in Blocks \ I
  BY DEF Shape, Inodal
<1>2. image[c] \in Inode /\ image[c].type = "file" /\ image[c].size = 0 /\ image[c].perm = disk[c].perm
  <2>1. 0 \in 0..MAX_FILE
    BY SizesAssumption DEF MAX_FILE
  <2> QED
    BY <1>1, <2>1 DEF Inode, Emptied
<1>3. \A b \in I \ {c} : image[b] = disk[b]
  OBVIOUS
<1>4. \A b \in I : \A k \in Pointers(disk[b]) : image[disk[b].ptrs[k]] = disk[disk[b].ptrs[k]]
  BY <1>1
<1>5. \A b \in I \ {c} : /\ NodeOf(image, b) = NodeOf(disk, b) /\ image[b].type = disk[b].type
                         /\ disk[b].type = "dir" => Entries(image, b) = Entries(disk, b)
  BY <1>3, <1>4, OtherNodes
<1>6. \A b \in I : disk[b].type = "dir" => image[disk[b].ptrs[0]] = disk[disk[b].ptrs[0]]
  BY DirFacts
<1>7. PICK map : map = {x \in InUse : \A k \in Pointers(disk[c]) : x # disk[c].ptrs[k]}
  OBVIOUS
<1>8. map \subseteq Blocks /\ \A x \in Blocks :
         x \in map <=> x \in InUse /\ \A k \in Pointers(disk[c]) : x # disk[c].ptrs[k]
  BY <1>7
<1>9. Truncates(I, disk, InUse, image, map, c)
  BY ONLY <1>2, <1>3, <1>6, <1>8 DEF Truncates
<1>10. Shape(I, image)
  BY <1>8, <1>9, Truncated
<1>11. NodeOf(image, c) = [NodeOf(disk, c) EXCEPT !.data = <<>>]
  <2>1. NodeOf(image, c).data = <<>>
    BY <1>2 DEF NodeOf
  <2>2. /\ NodeOf(image, c) = [type |-> "file", perm |-> disk[c].perm, data |-> NodeOf(image, c).data]
        /\ NodeOf(disk, c) = [type |-> "file", perm |-> disk[c].perm, data |-> NodeOf(disk, c).data]
    BY <1>2 DEF NodeOf
  <2> QED
    BY <2>1, <2>2
<1> QED
  BY <1>2, <1>5, <1>10, <1>11

LEMMA TruncateCall ==
    ASSUME TreeInv, tree' = TreeOf(disk'), NEW p \in Paths, NEW len \in Nat, fs_truncate(p, len)
    PROVE  Fit(disk') /\ Tree!Next
<1>0. up
  BY DEF fs_truncate, Serving
<1>1. PICK call : call = [op |-> "truncate", path |-> p, len |-> len]
  OBVIOUS
<1>2. PICK c : c = Walk(disk, p)
  OBVIOUS
<1>3. PICK new : new = Emptied(disk[c])
  OBVIOUS
<1>4. PICK writes : writes = Append(FreeData(c), Put(c, new))
  OBVIOUS
<1>5. PICK I \in SUBSET Blocks : Shape(I, disk) /\ Marked(I, InUse, disk)
  BY <1>0, TreeNow
<1>6. tree = TreeOf(disk) /\ Fit(disk) /\ disk \in [Blocks -> Block] /\ InUse \subseteq Blocks
  BY <1>0, TreeNow
<1>7. call.op = "truncate" /\ call.path = p /\ call.len = len
  BY <1>1
<1>8. CASE Refuse(call, TruncateError(c, len))
  <2>1. Fit(disk') /\ returned'.call = call
    BY <1>8, Refused
  <2>2. Tree!Truncate(p, len)
    BY <1>2, <1>5, <1>8, TruncateRefused
  <2> QED
    BY <1>0, <1>7, <2>1, <2>2 DEF Tree!Next, Tree!Serve
<1>9. CASE TruncateError(c, len) = 0 /\ Commit(call, 0, writes)
  <2>1. len = 0 /\ ~ (c < 0) /\ disk[c].type # "dir"
    BY <1>9 DEF TruncateError, EISDIR, EINVAL, IsDir
  <2>2. c \in I /\ disk[c] \in Inode /\ disk[c].type = "file" /\ Tree!IsFile(p) /\ tree[p] = NodeOf(disk, c)
    BY <1>2, <1>5, <1>6, <2>1, Vocabulary
  <2>3. PICK n : n = DIV_ROUND_UP(disk[c].size)
    OBVIOUS
  <2>4. n \in Nat /\ Empties(writes, n, c, new)
    BY <1>4, <2>2, <2>3, TruncateWrites
  <2>5. /\ Len(writes) = n + 1
        /\ \A k \in 1..n : writes[k].op = "clear"
        /\ writes[n + 1].op = "put" /\ writes[n + 1].blk = c /\ writes[n + 1].block = new
    BY <2>4 DEF Empties
  <2>6. CASE Done(call, 0, writes, n + 1)
    <3>1. PICK image : image = disk'
      OBVIOUS
    <3>2. image[c] = new /\ \A b \in Blocks \ {c} : image[b] = disk[b]
      <4>1. image = block_write(disk, writes, n + 1) /\ n + 1 \in Nat /\ n + 1 \in 1..(n + 1)
        BY <2>4, <2>6, <3>1 DEF Done
      <4>2. \A k \in (n + 1 + 1)..(n + 1) : FALSE
        BY <2>4
      <4>3. image[c] = new
        BY <2>2, <2>5, <4>1, <4>2, BlockPut
      <4>4. \A k \in 1..(n + 1) : k \in 1..n \/ k = n + 1
        BY <2>4
      <4>5. ASSUME NEW b \in Blocks \ {c} PROVE image[b] = disk[b]
        <5>1. \A k \in 1..(n + 1) : writes[k].op = "put" => writes[k].blk # b
          BY <2>5, <4>4
        <5> QED
          BY <4>1, <5>1, BlockLeft
      <4> QED
        BY <4>3, <4>5
    <3>3. /\ Shape(I, image)
          /\ \A b \in I : /\ image[b].type = disk[b].type
                          /\ disk[b].type = "dir" => Entries(image, b) = Entries(disk, b)
          /\ \A b \in I \ {c} : NodeOf(image, b) = NodeOf(disk, b)
          /\ NodeOf(image, c) = [NodeOf(disk, c) EXCEPT !.data = <<>>]
      BY <1>3, <1>5, <1>6, <2>2, <3>2, TruncateImage
    <3>4. PICK node : node = NodeOf(image, c)
      OBVIOUS
    <3>5. TreeOf(image) = [tree EXCEPT ![p] = node] /\ Fit(image) /\ p \in DOMAIN tree
      BY <1>2, <1>5, <1>6, <2>2, <3>3, <3>4, TreeChanged
    <3>6. tree' = [tree EXCEPT ![p].data = <<>>] /\ Fit(disk')
      BY <2>2, <3>1, <3>3, <3>4, <3>5
    <3>7. up' = TRUE /\ returned'.call = call /\ returned'.code = 0
      BY <2>6 DEF Done
    <3>8. Tree!Truncate(p, len)
      BY <1>0, <2>1, <2>2, <3>6, <3>7 DEF Tree!Truncate, Tree!Succeeds, Tree!Returns
    <3> QED
      BY <1>0, <1>7, <3>6, <3>7, <3>8 DEF Tree!Next, Tree!Serve
  <2>7. ASSUME NEW m \in 1..((n + 1) - 1), Cut(call, writes, m) PROVE Fit(disk') /\ Tree!Next
    <3>1. m \in Nat /\ \A k \in 1..m : k \in 1..n
      BY <2>4
    <3>2. disk' = disk
      BY <1>6, <2>5, <2>7, <3>1, OnlyBits DEF Cut
    <3>3. tree' = tree /\ Fit(disk')
      BY <3>2, ImageKept
    <3> QED
      BY <1>0, <1>7, <2>7, <3>3, KilledUnchanged DEF Cut
  <2> QED
    BY <1>9, <2>5, <2>6, <2>7, Committed
<1> QED
  BY <1>1, <1>2, <1>3, <1>4, <1>8, <1>9, Zenon DEF fs_truncate, path2inum, Emptied

\* The image once the entry has been cleared: without what the entry led to.
LeadsTo(d, i, name, c) ==
    /\ i \in Slots /\ Entries(disk, d)[i] # NULL
    /\ Entries(disk, d)[i].name = name /\ Entries(disk, d)[i].inode = c
    /\ \A j \in Slots : Entries(disk, d)[j] # NULL /\ Entries(disk, d)[j].name = name => j = i
    /\ disk[c].type = "dir" => \A j \in Slots : Entries(disk, c)[j] = NULL
Loses(J, image, d, i, name, c) ==
    /\ Shape(J, image) /\ Adds(J, image, disk, d, i, name, c)
    /\ \A b \in J : NodeOf(disk, b) = NodeOf(image, b)
LEMMA RemoveImage ==
    ASSUME NEW I, I \subseteq Blocks, Shape(I, disk), Marked(I, InUse, disk), InUse \subseteq Blocks,
           NEW d \in I, disk[d].type = "dir", NEW a, a = disk[d].ptrs[0],
           NEW i, NEW name, NEW c, LeadsTo(d, i, name, c),
           NEW image, EntryCleared(image, a, i), NEW J, I = J \cup {c}, c \notin J
    PROVE  Loses(J, image, d, i, name, c)
<1>0. /\ i \in Slots /\ Entries(disk, d)[i] # NULL
      /\ Entries(disk, d)[i].name = name /\ c = Entries(disk, d)[i].inode
      /\ \A j \in Slots : Entries(disk, d)[j] # NULL /\ Entries(disk, d)[j].name = name => j = i
      /\ disk[c].type = "dir" => \A j \in Slots : Entries(disk, c)[j] = NULL
  BY DEF LeadsTo
<1>1. /\ a \in Blocks \ I /\ disk[a] \in DirBlock /\ Entries(disk, d) \in [Slots -> Dirent \cup {NULL}]
      /\ \A b \in I \ {d} : \A k \in Pointers(disk[b]) : disk[b].ptrs[k] # a
      /\ \A b \in I \ {d} : disk[b].type = "dir" => disk[b].ptrs[0] # a
  BY DirFacts
<1>2. /\ image[a] \in DirBlock
      /\ \A j \in Slots : image[a].slots[j] = IF j = i THEN NULL ELSE disk[a].slots[j]
      /\ \A b \in Blocks \ {a} : image[b] = disk[b]
  BY DEF EntryCleared
<1>3. disk[a].slots = Entries(disk, d)
  BY ONLY a = disk[d].ptrs[0] DEF Entries
<1>4. \A b \in I : image[b] = disk[b]
  BY <1>1, <1>2
<1>5. \A b \in I : \A k \in Pointers(disk[b]) : disk[b].ptrs[k] \in Blocks
  BY DEF Shape, Inodal
<1>6. \A b \in I \ {d} : \A k \in Pointers(disk[b]) : image[disk[b].ptrs[k]] = disk[disk[b].ptrs[k]]
  BY <1>1, <1>2, <1>5
<1>7. \A b \in I \ {d} : disk[b].type = "dir" => image[disk[b].ptrs[0]] = disk[disk[b].ptrs[0]]
  <2>1. \A b \in I : disk[b].type = "dir" => disk[b].ptrs[0] \in Blocks
    BY DirFacts
  <2> QED
    BY <1>1, <1>2, <2>1
<1>8. \A b \in I \ {d} : /\ NodeOf(image, b) = NodeOf(disk, b)
                         /\ disk[b].type = "dir" => Entries(image, b) = Entries(disk, b)
  BY ONLY Shape(I, disk), d \in I, <1>4, <1>6, OtherNodes
<1>9. NodeOf(image, d) = NodeOf(disk, d)
  <2>1. disk[d] \in Inode
    BY DEF Shape, Inodal
  <2> QED
    BY <1>4, <2>1, NodeSame
<1>10. PICK map : map = {x \in InUse : x # c /\ \A k \in Pointers(disk[c]) : x # disk[c].ptrs[k]}
  OBVIOUS
<1>11. map \subseteq Blocks /\ \A x \in Blocks :
         x \in map <=> x \in InUse /\ x # c /\ \A k \in Pointers(disk[c]) : x # disk[c].ptrs[k]
  BY <1>10
<1>12. /\ image[disk[d].ptrs[0]] \in DirBlock
       /\ \A j \in Slots : image[disk[d].ptrs[0]].slots[j] = IF j = i THEN NULL ELSE Entries(disk, d)[j]
  BY ONLY <1>2, <1>3, a = disk[d].ptrs[0]
<1>13. Removes(I, disk, InUse, image, map, d, i, c)
  BY ONLY <1>4, <1>7, <1>11, <1>12 DEF Removes
<1>20. J = I \ {c}
  OBVIOUS
<1>14. c # d /\ Shape(J, image)
  <2>1. Removal(I, disk, InUse, image, map, d, i, c)
    BY <1>0, <1>11, <1>13 DEF Removal
  <2> QED
    BY ONLY <1>20, <2>1, RemovedTree
<1>15. /\ Entries(image, d)[i] = NULL
       /\ \A j \in Slots \ {i} : Entries(image, d)[j] = Entries(disk, d)[j]
  <2>1. Entries(image, d) = image[a].slots
    BY <1>4 DEF Entries
  <2> QED
    BY <1>0, <1>2, <1>3, <2>1
<1>16. \A j \in Slots : Entries(image, d)[j] # NULL => Entries(image, d)[j].name # name
  BY <1>0, <1>15
<1>17. name \in Names
  <2>1. Entries(disk, d)[i] \in Dirent
    BY <1>0, <1>1
  <2> QED
    BY <1>0, <2>1 DEF Dirent
<1>18. /\ c \notin J /\ d \in J /\ image[d].type = "dir"
       /\ \A b \in J : disk[b] = image[b]
       /\ \A b \in J \ {d} : image[b].type = "dir" => Entries(disk, b) = Entries(image, b)
  BY <1>4, <1>8, <1>14, <1>20
<1>19. Adds(J, image, disk, d, i, name, c)
  BY <1>0, <1>15, <1>16, <1>17, <1>18 DEF Adds
<1> QED
  BY <1>8, <1>9, <1>14, <1>19, <1>20 DEF Loses

Gone(p) == tree' = Tree!Without(p)

LEMMA RemoveCall ==
    ASSUME TreeInv, up, tree' = TreeOf(disk'), NEW I, I \subseteq Blocks, Shape(I, disk),
           Marked(I, InUse, disk), NEW p \in Paths, p # <<>>, FindError(p) = 0,
           NEW d, d = Walk(disk, Parent(p)), NEW a, a = disk[d].ptrs[0],
           NEW i, i = find_dirent(Entries(disk, d), Name(p)),
           NEW c, c = Entries(disk, d)[i].inode,
           disk[c].type = "dir" => \A j \in Slots : Entries(disk, c)[j] = NULL,
           NEW n \in Nat, NEW writes, Frees(writes, n, p, d, a, i, c),
           NEW call, Commit(call, 0, writes)
    PROVE  /\ Fit(disk')
           /\ \/ up' = TRUE /\ returned' = [call |-> call, code |-> 0] /\ Gone(p)
              \/ up' = FALSE /\ returned' = [call |-> call, code |-> -1] /\ Gone(p)
              \/ up' = FALSE /\ returned' = [call |-> call, code |-> -1] /\ tree' = tree
<1>1. tree = TreeOf(disk) /\ Fit(disk) /\ disk \in [Blocks -> Block] /\ InUse \subseteq Blocks
  BY TreeNow
<1>2. /\ d \in I /\ disk[d].type = "dir" /\ i \in Slots /\ Entries(disk, d)[i] # NULL
      /\ c \in I \ {ROOT} /\ Walk(disk, p) = c
  BY RemoveFacts
<1>3. Parent(p) \in Paths /\ Walk(disk, Parent(p)) > 0
  BY <1>2, ParentFacts, PathInode
<1>4. Entries(disk, d)[i].name = Name(p)
  BY <1>2, HasEntry
<1>5. \A j \in Slots : Entries(disk, d)[j] # NULL /\ Entries(disk, d)[j].name = Name(p) => j = i
  BY <1>1, <1>2, <1>3, <1>4 DEF Fit
<1>6. disk[a] \in DirBlock /\ disk[d] \in Inode
  BY <1>2, DirFacts DEF Shape, Inodal
<1>7. ASSUME NEW m, m = n + 2 \/ m = n + 3, disk' = block_write(disk, writes, m)
      PROVE  Fit(disk') /\ Gone(p)
  <2>1. PICK image : image = disk'
    OBVIOUS
  <2>2. EntryCleared(image, a, i)
    BY <1>2, <1>7, <2>1, RemovedImage
  <2>3. PICK J : J = I \ {c}
    OBVIOUS
  <2>4. /\ Shape(J, image) /\ Adds(J, image, disk, d, i, Name(p), c)
        /\ \A b \in J : NodeOf(disk, b) = NodeOf(image, b)
    <3>1. LeadsTo(d, i, Name(p), c)
      BY <1>2, <1>4, <1>5 DEF LeadsTo
    <3>2. I = J \cup {c} /\ c \notin J
      BY <1>2, <2>3
    <3>3. /\ I \subseteq Blocks /\ Shape(I, disk) /\ Marked(I, InUse, disk) /\ InUse \subseteq Blocks
          /\ d \in I /\ disk[d].type = "dir" /\ a = disk[d].ptrs[0]
      BY <1>1, <1>2
    <3>4. Loses(J, image, d, i, Name(p), c)
      BY ONLY <2>2, <3>1, <3>2, <3>3, RemoveImage
    <3> QED
      BY <3>4 DEF Loses
  <2>5. I = J \cup {c} /\ Shape(J, image) /\ Adds(J, image, disk, d, i, Name(p), c)
        /\ \A b \in J : NodeOf(disk, b) = NodeOf(image, b)
    BY <1>2, <2>3, <2>4
  <2>6. PICK t : t = TreeOf(image)
    OBVIOUS
  <2>7. t = Pruned(tree, p)
    BY <1>1, <2>5, <2>6, TreeAdded
  <2>8. Fit(image)
    BY <1>1, <2>5, FitAdded
  <2> QED
    BY <2>1, <2>6, <2>7, <2>8 DEF Gone, Tree!Without, Pruned
<1>8. ASSUME NEW m \in Nat, \A k \in 1..m : k \in 1..n \/ k = n + 1, disk' = block_write(disk, writes, m)
      PROVE  Fit(disk') /\ tree' = tree
  <2>1. writes[n + 1].op = "clear" /\ \A k \in 1..n : writes[k].op = "clear"
    BY <1>2, <1>6, FreesFacts
  <2>2. \A k \in 1..m : writes[k].op # "put"
    BY <1>8, <2>1
  <2>3. disk' = disk
    BY <1>1, <1>8, <2>2, OnlyBits
  <2> QED
    BY <2>3, ImageKept
<1>9. Len(writes) = n + 3
  BY DEF Frees
<1>10. CASE Done(call, 0, writes, n + 3)
  BY <1>7, <1>10 DEF Done
<1>11. ASSUME NEW m \in 1..((n + 3) - 1), Cut(call, writes, m)
       PROVE  /\ Fit(disk') /\ up' = FALSE /\ returned' = [call |-> call, code |-> -1]
              /\ Gone(p) \/ tree' = tree
  <2>1. (m \in Nat /\ \A k \in 1..m : k \in 1..n \/ k = n + 1) \/ m = n + 2
    OBVIOUS
  <2> QED
    BY <1>7, <1>8, <1>11, <2>1 DEF Cut
<1> QED
  BY <1>9, <1>10, <1>11, Committed

\* What unlink and rmdir find wrong with the entry is that there is none.
LEMMA FindErrorIs ==
    ASSUME NEW I, Shape(I, disk), tree = TreeOf(disk), Fit(disk), NEW p \in Paths, p # <<>>
    PROVE  /\ FindError(p) # 0 => /\ Walk(disk, p) \notin I
                                 /\ FindError(p) \in {-ENOENT, Tree!PathError(p)}
           /\ FindError(p) = 0 => Walk(disk, p) \in I /\ Child(p) = Walk(disk, p)
<1>1. PICK d : d = Walk(disk, Parent(p))
  OBVIOUS
<1>2. PICK i : i = find_dirent(Entries(disk, d), Name(p))
  OBVIOUS
<1>3. SlotsOf(d) = Entries(disk, d)
  BY DEF SlotsOf, DataOf, Entries
<1>4. Parent(p) \in Paths
  BY ParentFacts
<1>5. d \in Int /\ (~ (d < 0) <=> d \in I)
  BY <1>1, <1>4, PathInode
<1>6. FindError(p) = IF d < 0 THEN -ENOENT ELSE IF ~IsDir(d) THEN -ENOTDIR
                     ELSE IF i = 0 THEN -ENOENT ELSE 0
  BY <1>1, <1>2, <1>3, Zenon DEF FindError, path2inum
<1>7. FindError(p) # 0 => FindError(p) \in {-ENOENT, Tree!PathError(p)}
  <2>1. CASE d \in I /\ ~IsDir(d)
    <3>1. disk[d].type = "file"
      BY <1>1, <1>4, <2>1, Vocabulary DEF IsDir
    <3>2. Tree!PathError(p) = -ENOTDIR
      BY <1>1, <2>1, <3>1, ThroughFile
    <3> QED
      BY <1>5, <1>6, <2>1, <3>2
  <2>2. CASE ~(d \in I /\ ~IsDir(d))
    BY <1>5, <1>6, <2>2
  <2> QED
    BY <2>1, <2>2
<1>8. ASSUME Walk(disk, p) \in I PROVE FindError(p) = 0
  <2>1. d \in I /\ disk[d].type = "dir" /\ i \in Slots
    BY <1>1, <1>2, <1>8, HasEntry
  <2>2. i # 0
    BY <2>1 DEF Slots
  <2> QED
    BY <1>5, <1>6, <2>1, <2>2 DEF IsDir
<1>9. ASSUME FindError(p) = 0 PROVE Walk(disk, p) \in I /\ Child(p) = Walk(disk, p)
  <2>1. PICK c : c = Entries(disk, d)[i].inode
    OBVIOUS
  <2>2. c \in I /\ Walk(disk, p) = c
    BY <1>1, <1>2, <1>9, <2>1, RemoveFacts
  <2>3. Child(p) = c
    BY <1>1, <1>2, <1>3, <2>1, Zenon DEF ChildSlot, Child, path2inum
  <2> QED
    BY <2>2, <2>3
<1> QED
  BY <1>7, <1>8, <1>9

LEMMA UnlinkRefused ==
    ASSUME TreeInv, tree' = TreeOf(disk'), NEW I, Shape(I, disk), NEW p \in Paths, p # <<>>,
           NEW call, Refuse(call, UnlinkError(p)), up, call.op = "unlink", call.path = p
    PROVE  Tree!Unlink(p) \/ HidesNotDir
<1>1. /\ UnlinkError(p) < 0 /\ returned'.call = call
      /\ \A codes : UnlinkError(p) \in codes => Tree!Fails(codes)
  BY Refused
<1>2. tree = TreeOf(disk) /\ Fit(disk)
  BY DEF TreeInv
<1>3. /\ Tree!Exists(p) <=> Walk(disk, p) \in I
      /\ Tree!IsDir(p) <=> Walk(disk, p) \in I /\ disk[Walk(disk, p)].type = "dir"
  BY <1>2, Vocabulary
<1>4. /\ FindError(p) # 0 => /\ Walk(disk, p) \notin I
                            /\ FindError(p) \in {-ENOENT, Tree!PathError(p)}
      /\ FindError(p) = 0 => Walk(disk, p) \in I /\ Child(p) = Walk(disk, p)
  BY <1>2, FindErrorIs
<1>5. CASE FindError(p) # 0
  <2>1. Tree!Fails({-ENOENT}) \/ Tree!Fails({Tree!PathError(p)})
    BY <1>1, <1>4, <1>5 DEF UnlinkError
  <2>2. Tree!Fails({Tree!PathError(p)}) \/ HidesNotDir
    BY <1>1, <1>2, <1>4, <1>5, <2>1, NotFound DEF Hiding
  <2> QED
    BY <1>3, <1>4, <1>5, <2>2 DEF Tree!Unlink
<1>6. CASE FindError(p) = 0
  <2>1. UnlinkError(p) \in {-Tree!EISDIR} /\ disk[Child(p)].type = "dir"
    BY <1>1, <1>6 DEF UnlinkError, IsDir, EISDIR, Tree!EISDIR
  <2> QED
    BY <1>1, <1>3, <1>4, <1>6, <2>1 DEF Tree!Unlink
<1> QED
  BY <1>5, <1>6

LEMMA UnlinkCall ==
    ASSUME TreeInv, tree' = TreeOf(disk'), NEW p \in NonRoot, fs_unlink(p)
    PROVE  Fit(disk') /\ (Tree!Next \/ Departs)
<1>0. up /\ p \in Paths /\ p # <<>>
  BY DEF fs_unlink, Serving, NonRoot
<1>1. PICK call : call = On("unlink", p)
  OBVIOUS
<1>2. PICK writes : writes = UnlinkWrites(p)
  OBVIOUS
<1>3. PICK I \in SUBSET Blocks : Shape(I, disk) /\ Marked(I, InUse, disk)
  BY <1>0, TreeNow
<1>4. call.op = "unlink" /\ call.path = p
  BY <1>1 DEF On
<1>5. CASE Refuse(call, UnlinkError(p))
  <2>1. Fit(disk') /\ returned'.call = call
    BY <1>5, Refused
  <2>2. Tree!Unlink(p) \/ HidesNotDir
    BY <1>0, <1>3, <1>4, <1>5, UnlinkRefused
  <2> QED
    BY <1>0, <1>4, <2>1, <2>2 DEF Tree!Next, Tree!Serve, Departs
<1>6. CASE UnlinkError(p) = 0 /\ Commit(call, 0, writes)
  <2>2. PICK d : d = Walk(disk, Parent(p))
    OBVIOUS
  <2>3. PICK a : a = disk[d].ptrs[0]
    OBVIOUS
  <2>4. PICK i : i = find_dirent(Entries(disk, d), Name(p))
    OBVIOUS
  <2>5. PICK c : c = Entries(disk, d)[i].inode
    OBVIOUS
  <2>6. /\ FindError(p) = 0 /\ disk[c].type = "file"
        /\ \E n \in Nat : Frees(writes, n, p, d, a, i, c)
    BY <1>0, <1>2, <1>3, <1>6, <2>2, <2>3, <2>4, <2>5, UnlinkFrees
  <2>7. PICK n \in Nat : Frees(writes, n, p, d, a, i, c)
    BY <2>6
  <2>8. c \in I /\ Walk(disk, p) = c
    BY <1>0, <1>3, <2>2, <2>4, <2>5, <2>6, RemoveFacts
  <2>9. Tree!IsFile(p)
    <3>1. tree = TreeOf(disk)
      BY DEF TreeInv
    <3> QED
      BY <1>0, <1>3, <2>6, <2>8, <3>1, Vocabulary
  <2>10. /\ Fit(disk')
         /\ \/ up' = TRUE /\ returned' = [call |-> call, code |-> 0] /\ Gone(p)
            \/ up' = FALSE /\ returned' = [call |-> call, code |-> -1] /\ Gone(p)
            \/ up' = FALSE /\ returned' = [call |-> call, code |-> -1] /\ tree' = tree
    BY <1>0, <1>3, <1>6, <2>2, <2>3, <2>4, <2>5, <2>6, <2>7, RemoveCall
  <2>11. CASE up' = TRUE /\ returned' = [call |-> call, code |-> 0] /\ Gone(p)
    <3>1. Tree!Unlink(p)
      BY <1>0, <2>9, <2>11 DEF Tree!Unlink, Tree!Succeeds, Tree!Returns, Gone
    <3> QED
      BY <1>0, <1>4, <2>10, <2>11, <3>1 DEF Tree!Next, Tree!Serve
  <2>12. CASE up' = FALSE /\ returned' = [call |-> call, code |-> -1] /\ Gone(p)
    <3>1. Tree!Die(call)
      BY <1>4, <2>9, <2>12 DEF Tree!Die, Tree!Returns, Gone
    <3> QED
      BY <1>0, <2>10, <2>12, <3>1 DEF Tree!Next, Tree!Serve
  <2>13. CASE up' = FALSE /\ returned' = [call |-> call, code |-> -1] /\ tree' = tree
    BY <1>0, <1>4, <2>10, <2>13, KilledUnchanged
  <2> QED
    BY <2>10, <2>11, <2>12, <2>13
<1> QED
  BY <1>1, <1>2, <1>5, <1>6, Zenon DEF fs_unlink, UnlinkWrites

\* A directory without entries is one without children.
LEMMA EmptyDir ==
    ASSUME NEW I, Shape(I, disk), tree = TreeOf(disk), Fit(disk), NEW p \in Paths,
           NEW c \in I, c = Walk(disk, p), disk[c].type = "dir"
    PROVE  /\ find_full(SlotsOf(c)) # 0 => Tree!Children(p) # {}
           /\ (\A j \in Slots : Entries(disk, c)[j] = NULL) => Tree!Children(p) = {}
<1>1. /\ \A i \in Filled(c) : Append(p, Entries(disk, c)[i].name) \in Tree!Children(p)
      /\ \A q \in Tree!Children(p) : \E i \in Filled(c) : TRUE
  BY ChildrenAre
<1>2. find_full(SlotsOf(c)) = FirstSlot(Filled(c)) /\ Filled(c) \subseteq Slots
  BY DEF find_full, SlotsOf, DataOf, Entries, Filled
<1>3. FirstSlot(Filled(c)) = 0 <=> Filled(c) = {}
  BY <1>2, FirstSlotFacts
<1>4. (\A j \in Slots : Entries(disk, c)[j] = NULL) => Filled(c) = {}
  BY DEF Filled
<1> QED
  BY <1>1, <1>2, <1>3, <1>4

LEMMA RmdirRefused ==
    ASSUME TreeInv, tree' = TreeOf(disk'), NEW I, Shape(I, disk), NEW p \in Paths,
           NEW call, Refuse(call, RmdirError(p)), up, call.op = "rmdir", call.path = p
    PROVE  Tree!Rmdir(p) \/ HidesNotDir
<1>1. /\ RmdirError(p) < 0 /\ returned'.call = call
      /\ \A codes : RmdirError(p) \in codes => Tree!Fails(codes)
  BY Refused
<1>2. tree = TreeOf(disk) /\ Fit(disk)
  BY DEF TreeInv
<1>3. PICK c : c = Walk(disk, p)
  OBVIOUS
<1>4. /\ Tree!Exists(p) <=> c \in I
      /\ Tree!IsDir(p) <=> c \in I /\ disk[c].type = "dir"
      /\ Tree!IsFile(p) <=> c \in I /\ disk[c].type = "file"
      /\ c \in I => disk[c].type \in {"file", "dir"}
  BY <1>2, <1>3, Vocabulary
<1>5. p # <<>> => /\ FindError(p) # 0 => c \notin I /\ FindError(p) \in {-ENOENT, Tree!PathError(p)}
                  /\ FindError(p) = 0 => c \in I /\ Child(p) = c
  BY <1>2, <1>3, FindErrorIs
<1>6. CASE p = <<>>
  BY <1>1, <1>6 DEF RmdirError, Tree!Rmdir, ENOENT, Tree!ENOENT
<1>7. CASE p # <<>> /\ FindError(p) # 0
  <2>1. Tree!Fails({-ENOENT}) \/ Tree!Fails({Tree!PathError(p)})
    BY <1>1, <1>5, <1>7 DEF RmdirError
  <2>2. Tree!Fails({Tree!PathError(p)}) \/ HidesNotDir
    BY <1>1, <1>2, <1>3, <1>5, <1>7, <2>1, NotFound DEF Hiding
  <2> QED
    BY <1>4, <1>5, <1>7, <2>2 DEF Tree!Rmdir
<1>8. CASE p # <<>> /\ FindError(p) = 0 /\ disk[c].type # "dir"
  <2>1. RmdirError(p) \in {-Tree!ENOTDIR}
    BY <1>5, <1>8 DEF RmdirError, IsDir, ENOTDIR, Tree!ENOTDIR
  <2> QED
    BY <1>1, <1>4, <1>5, <1>8, <2>1 DEF Tree!Rmdir
<1>9. CASE p # <<>> /\ FindError(p) = 0 /\ disk[c].type = "dir"
  <2>1. RmdirError(p) \in {-Tree!ENOTEMPTY} /\ find_full(SlotsOf(c)) # 0
    BY <1>1, <1>5, <1>9 DEF RmdirError, IsDir, ENOTEMPTY, Tree!ENOTEMPTY
  <2>2. Tree!Children(p) # {}
    BY <1>2, <1>3, <1>5, <1>9, <2>1, EmptyDir
  <2> QED
    BY <1>1, <1>4, <1>5, <1>9, <2>1, <2>2 DEF Tree!Rmdir
<1> QED
  BY <1>6, <1>7, <1>8, <1>9

LEMMA RmdirCall ==
    ASSUME TreeInv, tree' = TreeOf(disk'), NEW p \in Paths, fs_rmdir(p)
    PROVE  Fit(disk') /\ (Tree!Next \/ Departs)
<1>0. up
  BY DEF fs_rmdir, Serving
<1>1. PICK call : call = On("rmdir", p)
  OBVIOUS
<1>2. PICK writes : writes = RmdirWrites(p)
  OBVIOUS
<1>3. PICK I \in SUBSET Blocks : Shape(I, disk) /\ Marked(I, InUse, disk)
  BY <1>0, TreeNow
<1>4. call.op = "rmdir" /\ call.path = p
  BY <1>1 DEF On
<1>5. CASE Refuse(call, RmdirError(p))
  <2>1. Fit(disk') /\ returned'.call = call
    BY <1>5, Refused
  <2>2. Tree!Rmdir(p) \/ HidesNotDir
    BY <1>0, <1>3, <1>4, <1>5, RmdirRefused
  <2> QED
    BY <1>0, <1>4, <2>1, <2>2 DEF Tree!Next, Tree!Serve, Departs
<1>6. CASE RmdirError(p) = 0 /\ Commit(call, 0, writes)
  <2>2. PICK d : d = Walk(disk, Parent(p))
    OBVIOUS
  <2>3. PICK a : a = disk[d].ptrs[0]
    OBVIOUS
  <2>4. PICK i : i = find_dirent(Entries(disk, d), Name(p))
    OBVIOUS
  <2>5. PICK c : c = Entries(disk, d)[i].inode
    OBVIOUS
  <2>6. /\ p # <<>> /\ FindError(p) = 0 /\ disk[c].type = "dir"
        /\ \A j \in Slots : Entries(disk, c)[j] = NULL
        /\ Frees(writes, 1, p, d, a, i, c)
    BY <1>2, <1>3, <1>6, <2>2, <2>3, <2>4, <2>5, RmdirFrees
  <2>8. c \in I /\ Walk(disk, p) = c
    BY <1>3, <2>2, <2>4, <2>5, <2>6, RemoveFacts
  <2>9. Tree!IsDir(p) /\ Tree!Children(p) = {}
    <3>1. tree = TreeOf(disk) /\ Fit(disk)
      BY DEF TreeInv
    <3> QED
      BY <1>3, <2>6, <2>8, <3>1, Vocabulary, EmptyDir
  <2>7. 1 \in Nat
    OBVIOUS
  <2>10. /\ Fit(disk')
         /\ \/ up' = TRUE /\ returned' = [call |-> call, code |-> 0] /\ Gone(p)
            \/ up' = FALSE /\ returned' = [call |-> call, code |-> -1] /\ Gone(p)
            \/ up' = FALSE /\ returned' = [call |-> call, code |-> -1] /\ tree' = tree
    BY <1>0, <1>3, <1>6, <2>2, <2>3, <2>4, <2>5, <2>6, <2>7, RemoveCall
  <2>11. CASE up' = TRUE /\ returned' = [call |-> call, code |-> 0] /\ Gone(p)
    <3>1. Tree!Rmdir(p)
      BY <1>0, <2>6, <2>9, <2>11 DEF Tree!Rmdir, Tree!Succeeds, Tree!Returns, Gone
    <3> QED
      BY <1>0, <1>4, <2>10, <2>11, <3>1 DEF Tree!Next, Tree!Serve
  <2>12. CASE up' = FALSE /\ returned' = [call |-> call, code |-> -1] /\ Gone(p)
    <3>1. Tree!Die(call)
      BY <1>4, <2>9, <2>12 DEF Tree!Die, Tree!Returns, Gone
    <3> QED
      BY <1>0, <2>10, <2>12, <3>1 DEF Tree!Next, Tree!Serve
  <2>13. CASE up' = FALSE /\ returned' = [call |-> call, code |-> -1] /\ tree' = tree
    BY <1>0, <1>4, <2>10, <2>13, KilledUnchanged
  <2> QED
    BY <2>10, <2>11, <2>12, <2>13
<1> QED
  BY <1>1, <1>2, <1>5, <1>6, Zenon DEF fs_rmdir, RmdirWrites

-----------------------------------------------------------------------------
(* create and mkdir. *)

\* An entry written is a node gained, and nothing else of the tree changes.
Gained(J, I, image, d, i, name, c) ==
    /\ Shape(J, image) /\ Adds(I, disk, image, d, i, name, c)
    /\ \A b \in I : NodeOf(image, b) = NodeOf(disk, b)
LEMMA MakeImage ==
    ASSUME NEW I, I \subseteq Blocks, Shape(I, disk), Marked(I, InUse, disk), InUse \subseteq Blocks,
           NEW p \in Paths, p # <<>>, MakeError(p) = 0, NEW d, d = Walk(disk, Parent(p)),
           NEW i, i = find_empty(Entries(disk, d)), NEW a, a = disk[d].ptrs[0],
           NEW c \in Blocks \ ({0, 1} \cup InUse), NEW in \in Inode, Blank(in, c),
           NEW e, e = [name |-> Name(p), inode |-> c],
           NEW image, EntryMade(image, a, i, e, c, in), NEW J, J = I \cup {c}
    PROVE  Gained(J, I, image, d, i, Name(p), c)
<1>1. /\ d \in I /\ disk[d].type = "dir"
      /\ i \in Slots /\ Entries(disk, d)[i] = NULL /\ Name(p) \in Names
      /\ \A j \in Slots : Entries(disk, d)[j] # NULL => Entries(disk, d)[j].name # Name(p)
  BY MakeFacts
<1>2. PICK map : map = InUse \cup {c} \cup {x \in Blocks : \E k \in Pointers(in) : x = in.ptrs[k]}
  OBVIOUS
<1>3. MarkedNew(map, c, in)
  BY <1>2 DEF MarkedNew
<1>4. Gains(I, image, d, i, Name(p), c)
  BY <1>1, <1>3, MadeShape
<1>5. /\ c \notin I /\ Shape(J, image)
      /\ \A b \in I : image[b] = disk[b]
      /\ \A b \in I \ {d} : disk[b].type = "dir" => image[disk[b].ptrs[0]] = disk[disk[b].ptrs[0]]
      /\ image[disk[d].ptrs[0]].slots[i] # NULL
      /\ image[disk[d].ptrs[0]].slots[i].name = Name(p)
      /\ image[disk[d].ptrs[0]].slots[i].inode = c
      /\ \A j \in Slots \ {i} : image[disk[d].ptrs[0]].slots[j] = Entries(disk, d)[j]
  BY <1>4 DEF Gains
<1>6. \A b \in I : Entries(image, b) = image[disk[b].ptrs[0]].slots
  BY <1>5 DEF Entries
<1>7. ASSUME NEW b \in I \ {d}, disk[b].type = "dir" PROVE Entries(image, b) = Entries(disk, b)
  <2>1. image[disk[b].ptrs[0]] = disk[disk[b].ptrs[0]] /\ image[b] = disk[b]
    BY <1>5, <1>7
  <2> QED
    BY ONLY <2>1 DEF Entries
<1>8. image[c] = in /\ (in.type = "dir" => image[in.ptrs[0]] = NoEntries)
  BY DEF EntryMade
<1>9. image[c].type = "dir" => \A j \in Slots : Entries(image, c)[j] = NULL
  BY <1>8 DEF Entries, NoEntries
<1>10. Adds(I, disk, image, d, i, Name(p), c)
  BY ONLY <1>1, <1>5, <1>6, <1>7, <1>9 DEF Adds
<1>11. ASSUME NEW b \in I PROVE NodeOf(image, b) = NodeOf(disk, b)
  <2>1. disk[b] \in Inode /\ \A k \in Pointers(disk[b]) : disk[b].ptrs[k] \in Blocks \cap InUse
    BY DEF Shape, Inodal, Marked
  <2>2. \A x \in Blocks \cap InUse : x # a => image[x] = disk[x]
    BY DEF EntryMade
  <2>3. disk[b].type = "file" => \A k \in Pointers(disk[b]) : disk[b].ptrs[k] # a
    BY <1>1, DirFacts
  <2>4. disk[b].type = "file" => \A k \in Pointers(disk[b]) : image[disk[b].ptrs[k]] = disk[disk[b].ptrs[k]]
    BY <2>1, <2>2, <2>3
  <2> QED
    BY <1>5, <2>1, <2>4, NodeSame, SMTT(60)
<1> QED
  BY <1>5, <1>10, <1>11 DEF Gained

\* What the checks of create and mkdir say of the tree.
LEMMA MakeRoom ==
    ASSUME NEW I, Shape(I, disk), tree = TreeOf(disk), Fit(disk),
           NEW p \in Paths, p # <<>>, MakeError(p) = 0
    PROVE  /\ ~Tree!Exists(p) /\ Tree!Name(p) \in Names /\ Tree!IsDir(Tree!Parent(p))
           /\ Tree!Cardinality(Tree!Children(Tree!Parent(p))) < NUM_DIRENT_BLOCK
<1>1. PICK d : d = Walk(disk, Parent(p))
  OBVIOUS
<1>2. PICK i : i = find_empty(Entries(disk, d))
  OBVIOUS
<1>3. d \in I /\ disk[d].type = "dir" /\ i \in Slots /\ Entries(disk, d)[i] = NULL /\ Name(p) \in Names
  BY <1>1, <1>2, MakeFacts
<1>4. Parent(p) \in Paths
  BY ParentFacts
<1>5. Tree!Parent(p) = Parent(p) /\ Tree!Name(p) = Name(p) /\ (Tree!Exists(p) <=> Walk(disk, p) > 0)
  BY Vocabulary
<1>6. ~ (Walk(disk, p) > 0)
  BY DEF MakeError, path2inum, EEXIST
<1>7. Tree!IsDir(Parent(p))
  BY <1>1, <1>3, <1>4, Vocabulary
<1>8. IsFiniteSet(Filled(d)) /\ Cardinality(Tree!Children(Parent(p))) = Cardinality(Filled(d))
  BY <1>1, <1>3, <1>4, ChildrenAre
<1>9. Cardinality(Filled(d)) < NUM_DIRENT_BLOCK
  <2>1. NUM_DIRENT_BLOCK \in Nat
    BY SizesAssumption
  <2>2. 1..NUM_DIRENT_BLOCK = Slots /\ IsFiniteSet(Slots) /\ Cardinality(Slots) = NUM_DIRENT_BLOCK
    <3>1. IsFiniteSet(1..NUM_DIRENT_BLOCK) /\ Cardinality(1..NUM_DIRENT_BLOCK) =
             IF 1 =< NUM_DIRENT_BLOCK THEN NUM_DIRENT_BLOCK - 1 + 1 ELSE 0
      BY <2>1, FS_Interval
    <3> QED
      BY <2>1, <3>1 DEF Slots
  <2>3. Filled(d) \subseteq Slots /\ Filled(d) # Slots
    BY <1>3 DEF Filled
  <2>4. /\ Cardinality(Filled(d)) =< Cardinality(Slots)
        /\ Cardinality(Filled(d)) = Cardinality(Slots) => Filled(d) = Slots
    BY <2>2, <2>3, FS_Subset
  <2>5. Cardinality(Filled(d)) \in Nat
    BY <1>8, FS_CardinalityType
  <2> QED
    BY <2>1, <2>2, <2>3, <2>4, <2>5
<1>10. \A S : Tree!Cardinality(S) = Cardinality(S)
  BY DEF Tree!Cardinality, Cardinality
<1> QED
  BY <1>3, <1>5, <1>6, <1>7, <1>8, <1>9, <1>10

LEMMA AllocError == \A map : alloc_blk(map) < 0 => alloc_blk(map) = -ENOSPC
<1> SUFFICES ASSUME NEW map, alloc_blk(map) < 0 PROVE alloc_blk(map) = -ENOSPC
  OBVIOUS
<1> DEFINE free == 3..(BITMAP_BITS - 1) \ map
<1>1. CASE free = {}
  BY <1>1 DEF alloc_blk
<1>2. CASE free # {}
  <2>1. free \subseteq Nat
    BY SizesAssumption
  <2>2. Lowest(free) \in free
    BY <1>2, <2>1, LowestIn
  <2> QED
    BY <1>2, <2>1, <2>2, SizesAssumption DEF alloc_blk
<1> QED
  BY <1>1, <1>2

Born(p, node) == tree' = [q \in DOMAIN tree \cup {p} |-> IF q = p THEN node ELSE tree[q]]

\* A creation that returns has added the node; one that is cut short has only
\* written blocks that nothing refers to.
LEMMA MakeCall ==
    ASSUME TreeInv, up, tree' = TreeOf(disk'), NEW I, I \subseteq Blocks, Shape(I, disk),
           Marked(I, InUse, disk), NEW p \in Paths, p # <<>>, MakeError(p) = 0,
           NEW c \in Blocks \ ({0, 1} \cup InUse), NEW in \in Inode,
           NEW n \in Nat, NEW writes, Makes(writes, n, p, c, in),
           NEW call, Commit(call, 0, writes)
    PROVE  /\ Fit(disk')
           /\ \/ /\ up' = TRUE /\ returned' = [call |-> call, code |-> 0]
                 /\ Born(p, [type |-> in.type, perm |-> in.perm, data |-> <<>>])
              \/ up' = FALSE /\ returned' = [call |-> call, code |-> -1] /\ tree' = tree
<1>1. tree = TreeOf(disk) /\ Fit(disk) /\ disk \in [Blocks -> Block] /\ InUse \subseteq Blocks
  BY TreeNow
<1>2. PICK d : d = Walk(disk, Parent(p))
  OBVIOUS
<1>3. PICK i : i = find_empty(Entries(disk, d))
  OBVIOUS
<1>4. PICK a : a = disk[d].ptrs[0]
  OBVIOUS
<1>5. PICK e : e = [name |-> Name(p), inode |-> c]
  OBVIOUS
<1>6. Blank(in, c) /\ Len(writes) = n + 1
  BY DEF Makes
<1>7. ASSUME disk' = block_write(disk, writes, n + 1)
      PROVE  Fit(disk') /\ Born(p, [type |-> in.type, perm |-> in.perm, data |-> <<>>])
  <2>1. PICK image : image = disk'
    OBVIOUS
  <2>2. EntryMade(image, a, i, e, c, in)
    BY <1>2, <1>3, <1>4, <1>5, <1>7, <2>1, MadeImage
  <2>3. PICK J : J = I \cup {c}
    OBVIOUS
  <2>4. Gained(J, I, image, d, i, Name(p), c)
    BY <1>1, <1>2, <1>3, <1>4, <1>5, <1>6, <2>2, <2>3, MakeImage
  <2>5. /\ Shape(J, image) /\ Adds(I, disk, image, d, i, Name(p), c)
        /\ \A b \in I : NodeOf(image, b) = NodeOf(disk, b)
    BY <2>4 DEF Gained
  <2>6. PICK t : t = TreeOf(image)
    OBVIOUS
  <2>7. t = AddedTree(tree, p, NodeOf(image, c))
    BY <1>1, <1>2, <2>3, <2>5, <2>6, TreeAdded
  <2>8. Fit(image)
    BY <1>1, <1>2, <2>3, <2>5, FitAdded
  <2>9. NodeOf(image, c) = [type |-> in.type, perm |-> in.perm, data |-> <<>>]
    <3>1. image[c] = in
      BY <2>2 DEF EntryMade
    <3>2. in.type \in {"file", "dir"} /\ (in.type = "file" => in.size = 0)
      BY <1>6, PointersFacts DEF Blank
    <3>3. CASE in.type = "file"
      BY <3>1, <3>2, <3>3 DEF NodeOf
    <3>4. CASE in.type = "dir"
      BY <3>1, <3>4 DEF NodeOf
    <3> QED
      BY <3>2, <3>3, <3>4
  <2> QED
    BY <2>1, <2>6, <2>7, <2>8, <2>9 DEF Born, AddedTree
<1>8. ASSUME NEW m \in 1..((n + 1) - 1), disk' = block_write(disk, writes, m)
      PROVE  Fit(disk') /\ tree' = tree
  <2>1. m \in Nat /\ \A k \in 1..m : k \in 1..n
    OBVIOUS
  <2>2. \A k \in 1..m : writes[k].blk \notin InUse
    BY <2>1 DEF Makes
  <2>3. PICK image : image = disk'
    OBVIOUS
  <2>4. \A b \in Blocks \cap InUse : image[b] = disk[b]
    BY <1>8, <2>1, <2>2, <2>3, BlockLeft
  <2>5. \A b \in I : image[b] = disk[b]
    BY <2>4 DEF Marked
  <2>6. \A b \in I : \A k \in Pointers(disk[b]) : disk[b].ptrs[k] \in Blocks \cap InUse
    BY DEF Shape, Inodal, Marked
  <2>7. \A b \in I : \A k \in Pointers(disk[b]) : image[disk[b].ptrs[k]] = disk[disk[b].ptrs[k]]
    BY <2>4, <2>6
  <2>8. TreeOf(image) = TreeOf(disk) /\ Fit(image)
    BY <1>1, <2>5, <2>7, TreeFrame
  <2> QED
    BY <1>1, <2>3, <2>8
<1>9. CASE Done(call, 0, writes, n + 1)
  BY <1>7, <1>9 DEF Done
<1>10. ASSUME NEW m \in 1..((n + 1) - 1), Cut(call, writes, m)
       PROVE  Fit(disk') /\ up' = FALSE /\ returned' = [call |-> call, code |-> -1] /\ tree' = tree
  BY <1>8, <1>10 DEF Cut
<1> QED
  BY <1>6, <1>9, <1>10, Committed

LEMMA MakeRefused ==
    ASSUME TreeInv, tree' = TreeOf(disk'), NEW I, Shape(I, disk), NEW p \in Paths, p # <<>>,
           NEW call, Refuse(call, MakeError(p)), NEW node,
           up, call.op \in {"create", "mkdir"}, call.path = p
    PROVE  Tree!Make(p, node) \/ HidesNotDir
<1>1. /\ MakeError(p) < 0 /\ returned'.call = call
      /\ \A codes : MakeError(p) \in codes => Tree!Fails(codes)
  BY Refused
<1>2. tree = TreeOf(disk) /\ Fit(disk)
  BY DEF TreeInv
<1>3. PICK d : d = Walk(disk, Parent(p))
  OBVIOUS
<1>4. Parent(p) \in Paths
  BY ParentFacts
<1>5. /\ Tree!Parent(p) = Parent(p) /\ Tree!Name(p) = Name(p)
      /\ Tree!Exists(p) <=> Walk(disk, p) > 0
  BY <1>2, Vocabulary
<1>6. /\ d \in Int /\ (~ (d < 0) <=> d \in I)
      /\ Tree!IsDir(Parent(p)) <=> d \in I /\ disk[d].type = "dir"
  BY <1>2, <1>3, <1>4, Vocabulary
<1>7. MakeError(p) = IF Walk(disk, p) > 0 THEN -EEXIST
                     ELSE IF Name(p) \in LongNames THEN -EINVAL
                     ELSE IF d < 0 THEN -ENOENT
                     ELSE IF ~IsDir(d) THEN -ENOTDIR
                     ELSE IF find_empty(SlotsOf(d)) = 0 THEN -ENOSPC
                     ELSE 0
  BY <1>3, Zenon DEF MakeError, path2inum
<1>8. CASE Walk(disk, p) > 0
  <2>1. MakeError(p) \in {-Tree!EEXIST}
    BY <1>7, <1>8 DEF EEXIST, Tree!EEXIST
  <2> QED
    BY <1>1, <1>5, <1>8, <2>1 DEF Tree!Make
<1>9. CASE ~ (Walk(disk, p) > 0) /\ Name(p) \in LongNames
  <2>1. MakeError(p) \in {-Tree!EINVAL}
    BY <1>7, <1>9 DEF EINVAL, Tree!EINVAL
  <2> QED
    BY <1>1, <1>5, <1>9, <2>1 DEF Tree!Make
<1>10. CASE ~ (Walk(disk, p) > 0) /\ Name(p) \notin LongNames /\ (d < 0 \/ ~IsDir(d))
  <2>1. Walk(disk, p) \notin I
    BY <1>10, PathInode
  <2>2. ~Tree!IsDir(Parent(p))
    BY <1>6, <1>10 DEF IsDir
  <2>3. Tree!Fails({Tree!PathError(p)}) \/ HidesNotDir
    <3>1. CASE d < 0
      <4>1. MakeError(p) = -ENOENT
        BY <1>7, <1>10, <3>1
      <4>2. Tree!Fails({-ENOENT})
        BY <1>1, <4>1
      <4> QED
        BY <1>1, <1>2, <2>1, <4>2, NotFound DEF Hiding
    <3>2. CASE ~ (d < 0)
      <4>1. MakeError(p) = -ENOTDIR /\ disk[d].type # "dir"
        BY <1>7, <1>10, <3>2 DEF IsDir
      <4>2. d \in I /\ disk[d].type = "file"
        BY <1>2, <1>3, <1>4, <1>6, <3>2, <4>1, Vocabulary
      <4>3. Tree!PathError(p) = -ENOTDIR
        BY <1>2, <1>3, <4>2, ThroughFile
      <4> QED
        BY <1>1, <4>1, <4>3
    <3> QED
      BY <3>1, <3>2
  <2> QED
    BY <1>5, <1>10, <2>2, <2>3 DEF Tree!Make
<1>11. CASE ~ (Walk(disk, p) > 0) /\ Name(p) \notin LongNames /\ ~ (d < 0) /\ IsDir(d)
  <2>1. MakeError(p) \in {-Tree!ENOSPC}
    BY <1>1, <1>7, <1>11 DEF ENOSPC, Tree!ENOSPC
  <2>2. Tree!IsDir(Parent(p))
    BY <1>6, <1>11 DEF IsDir
  <2> QED
    BY <1>1, <1>5, <1>11, <2>1, <2>2 DEF Tree!Make
<1> QED
  BY <1>8, <1>9, <1>10, <1>11

\* A creation that finds no block is refused for want of space.
LEMMA MakeNoSpace ==
    ASSUME NEW I, Shape(I, disk), tree = TreeOf(disk), Fit(disk),
           NEW p \in Paths, p # <<>>, MakeError(p) = 0, NEW node,
           tree' = tree, up' = up, returned'.code = -ENOSPC
    PROVE  Tree!Make(p, node)
<1>1. ~Tree!Exists(p) /\ Tree!IsDir(Tree!Parent(p))
  BY MakeRoom
<1> QED
  BY <1>1 DEF Tree!Make, Tree!Fails, Tree!Returns, ENOSPC, Tree!ENOSPC

LEMMA MakeDone ==
    ASSUME NEW I, Shape(I, disk), tree = TreeOf(disk), Fit(disk),
           NEW p \in Paths, p # <<>>, MakeError(p) = 0, NEW node,
           up, up' = TRUE, NEW call, returned' = [call |-> call, code |-> 0], Born(p, node)
    PROVE  Tree!Make(p, node)
<1>1. /\ ~Tree!Exists(p) /\ Tree!Name(p) \in Names /\ Tree!IsDir(Tree!Parent(p))
      /\ Tree!Cardinality(Tree!Children(Tree!Parent(p))) < NUM_DIRENT_BLOCK
  BY MakeRoom
<1>2. Tree!Succeeds
  BY DEF Tree!Succeeds, Tree!Returns
<1> QED
  BY <1>1, <1>2 DEF Tree!Make, Born

LEMMA CreateCall ==
    ASSUME TreeInv, tree' = TreeOf(disk'), NEW p \in NonRoot, NEW perm \in Perms, fs_create(p, perm),
           aborted' # "reused"
    PROVE  Fit(disk') /\ (Tree!Next \/ Departs)
<1>0. up /\ p \in Paths /\ p # <<>>
  BY DEF fs_create, Serving, NonRoot
<1>1. PICK call : call = [op |-> "create", path |-> p, perm |-> perm]
  OBVIOUS
<1>2. PICK c : c = alloc_blk(bitmap)
  OBVIOUS
<1>3. PICK in : in = NewFile(perm)
  OBVIOUS
<1>4. PICK writes : writes = CreateWrites(p, c, in)
  OBVIOUS
<1>5. PICK I \in SUBSET Blocks : Shape(I, disk) /\ Marked(I, InUse, disk)
  BY <1>0, TreeNow
<1>6. tree = TreeOf(disk) /\ Fit(disk)
  BY DEF TreeInv
<1>7. call.op = "create" /\ call.path = p /\ call.perm = perm
  BY <1>1
<1>8. CASE Refuse(call, MakeError(p))
  <2>1. Fit(disk') /\ returned'.call = call
    BY <1>8, Refused
  <2>2. Tree!Make(p, Tree!File(perm)) \/ HidesNotDir
    BY <1>0, <1>5, <1>8, <1>7, MakeRefused
  <2> QED
    BY <1>0, <1>7, <2>1, <2>2 DEF Tree!Next, Tree!Serve, Departs
<1>9. CASE MakeError(p) = 0 /\ Refuse(call, c)
  <2>1. Fit(disk') /\ returned'.call = call /\ tree' = tree /\ up' = up /\ returned'.code = c /\ c < 0
    BY <1>9, Refused
  <2>2. c = -ENOSPC
    BY <1>2, <2>1, AllocError
  <2>3. Tree!Make(p, Tree!File(perm))
    BY <1>0, <1>5, <1>6, <1>9, <2>1, <2>2, MakeNoSpace
  <2> QED
    BY <1>0, <1>7, <2>1, <2>3 DEF Tree!Next, Tree!Serve
<1>10. CASE MakeError(p) = 0 /\ c > 0 /\ Commit(call, 0, writes)
  <2>1. c \in Blocks \ ({0, 1} \cup InUse)
    <3>1. c \in Blocks \ ({0, 1} \cup bitmap)
      BY <1>2, <1>10, AllocFacts
    <3>2. 1 \in 1..Len(writes) /\ writes[1].op = "set" /\ writes[1].blk = c
      BY <1>4 DEF CreateWrites, Set
    <3>3. c \notin loose
      BY <1>10, <3>2, NotReused DEF TreeInv
    <3> QED
      BY <3>1, <3>3 DEF InUse
  <2>2. in \in Inode /\ Makes(writes, 2, p, c, in) /\ 2 \in Nat
    BY <1>3, <1>4, <2>1, CreateMakes
  <2>3. /\ Fit(disk')
        /\ \/ /\ up' = TRUE /\ returned' = [call |-> call, code |-> 0]
              /\ Born(p, [type |-> in.type, perm |-> in.perm, data |-> <<>>])
           \/ up' = FALSE /\ returned' = [call |-> call, code |-> -1] /\ tree' = tree
    BY <1>0, <1>5, <1>10, <2>1, <2>2, MakeCall
  <2>4. [type |-> in.type, perm |-> in.perm, data |-> <<>>] = Tree!File(perm)
    BY <1>3 DEF NewFile, Tree!File
  <2>5. CASE up' = TRUE /\ returned' = [call |-> call, code |-> 0] /\ Born(p, Tree!File(perm))
    <3>1. Tree!Make(p, Tree!File(perm))
      BY <1>0, <1>5, <1>6, <1>10, <2>5, MakeDone
    <3> QED
      BY <1>0, <1>7, <2>3, <2>5, <3>1 DEF Tree!Next, Tree!Serve
  <2>6. CASE up' = FALSE /\ returned' = [call |-> call, code |-> -1] /\ tree' = tree
    BY <1>0, <1>7, <2>3, <2>6, KilledUnchanged
  <2> QED
    BY <2>3, <2>4, <2>5, <2>6
<1> QED
  BY <1>1, <1>2, <1>3, <1>4, <1>8, <1>9, <1>10, Zenon DEF fs_create, CreateWrites

LEMMA MkdirCall ==
    ASSUME TreeInv, tree' = TreeOf(disk'), NEW p \in NonRoot, NEW perm \in Perms, fs_mkdir(p, perm),
           aborted' # "reused"
    PROVE  Fit(disk') /\ (Tree!Next \/ Departs)
<1>0. up /\ p \in Paths /\ p # <<>>
  BY DEF fs_mkdir, Serving, NonRoot
<1>1. PICK call : call = [op |-> "mkdir", path |-> p, perm |-> perm]
  OBVIOUS
<1>2. PICK c : c = alloc_blk(bitmap)
  OBVIOUS
<1>3. PICK x : x = alloc_blk(bitmap \cup {c})
  OBVIOUS
<1>4. PICK code : code = IF x < 0 THEN x ELSE 0
  OBVIOUS
<1>5. PICK writes : writes = MkdirWrites(p, perm, c, x)
  OBVIOUS
<1>6. PICK I \in SUBSET Blocks : Shape(I, disk) /\ Marked(I, InUse, disk)
  BY <1>0, TreeNow
<1>7. tree = TreeOf(disk) /\ Fit(disk) /\ disk \in [Blocks -> Block]
  BY <1>0, TreeNow
<1>8. call.op = "mkdir" /\ call.path = p /\ call.perm = perm
  BY <1>1
<1>9. CASE Refuse(call, MakeError(p))
  <2>1. Fit(disk') /\ returned'.call = call
    BY <1>9, Refused
  <2>2. Tree!Make(p, Tree!Dir(perm)) \/ HidesNotDir
    BY <1>0, <1>6, <1>9, <1>8, MakeRefused
  <2> QED
    BY <1>0, <1>8, <2>1, <2>2 DEF Tree!Next, Tree!Serve, Departs
<1>10. CASE MakeError(p) = 0 /\ Refuse(call, c)
  <2>1. Fit(disk') /\ returned'.call = call /\ tree' = tree /\ up' = up /\ returned'.code = c /\ c < 0
    BY <1>10, Refused
  <2>2. c = -ENOSPC
    BY <1>2, <2>1, AllocError
  <2>3. Tree!Make(p, Tree!Dir(perm))
    BY <1>0, <1>6, <1>7, <1>10, <2>1, <2>2, MakeNoSpace
  <2> QED
    BY <1>0, <1>8, <2>1, <2>3 DEF Tree!Next, Tree!Serve
<1>11. CASE MakeError(p) = 0 /\ c > 0 /\ Commit(call, code, writes) /\ x < 0
  <2>1. code = -ENOSPC
    BY <1>3, <1>4, <1>11, AllocError
  <2>2. writes = <<Set(c), Clear(c)>>
    BY <1>5, <1>11 DEF MkdirWrites
  <2>3. Len(writes) = 2 /\ writes[1] = Set(c) /\ writes[2] = Clear(c)
    BY <2>2
  <2>4. writes[1].op # "put" /\ writes[2].op # "put"
    BY <2>3 DEF Set, Clear
  <2>5. ASSUME NEW m \in 1..2, disk' = block_write(disk, writes, m) PROVE tree' = tree /\ Fit(disk')
    <3>1. m \in Nat /\ \A k \in 1..m : k = 1 \/ k = 2
      OBVIOUS
    <3>2. \A k \in 1..m : writes[k].op # "put"
      BY <2>4, <3>1
    <3>3. disk' = disk
      BY <1>7, <2>5, <3>1, <3>2, OnlyBits
    <3> QED
      BY <3>3, ImageKept
  <2>6. CASE Done(call, code, writes, 2)
    <3>1. /\ tree' = tree /\ Fit(disk') /\ up' = up
          /\ returned' = [call |-> call, code |-> code]
      BY <1>0, <2>5, <2>6 DEF Done
    <3>2. Tree!Make(p, Tree!Dir(perm))
      BY <1>0, <1>6, <1>7, <1>11, <2>1, <3>1, MakeNoSpace
    <3> QED
      BY <1>0, <1>8, <3>1, <3>2 DEF Tree!Next, Tree!Serve
  <2>7. ASSUME NEW m \in 1..(2 - 1), Cut(call, writes, m) PROVE Fit(disk') /\ Tree!Next
    <3>1. m \in 1..2
      OBVIOUS
    <3>2. /\ tree' = tree /\ Fit(disk') /\ up' = FALSE
          /\ returned' = [call |-> call, code |-> -1]
      BY <2>5, <2>7, <3>1 DEF Cut
    <3> QED
      BY <1>0, <1>8, <3>2, KilledUnchanged
  <2> QED
    BY <1>11, <2>3, <2>6, <2>7, Committed
<1>12. CASE MakeError(p) = 0 /\ c > 0 /\ Commit(call, code, writes) /\ ~ (x < 0)
  <2>1. c \in Blocks \ ({0, 1} \cup InUse) /\ x \in Blocks \ ({0, 1, c} \cup InUse) /\ code = 0
    <3>1. c \in Blocks \ ({0, 1} \cup bitmap) /\ x \in Blocks \ ({0, 1, c} \cup bitmap) /\ code = 0
      BY <1>2, <1>3, <1>4, <1>12, AllocFacts
    <3>2. /\ 1 \in 1..Len(writes) /\ writes[1].op = "set" /\ writes[1].blk = c
          /\ 2 \in 1..Len(writes) /\ writes[2].op = "set" /\ writes[2].blk = x
      BY <1>5, <1>12 DEF MkdirWrites, Set
    <3>3. c \notin loose /\ x \notin loose
      BY <1>12, <3>2, NotReused DEF TreeInv
    <3> QED
      BY <3>1, <3>3 DEF InUse
  <2>2. PICK in : in = NewDir(perm, x)
    OBVIOUS
  <2>3. in \in Inode /\ Makes(writes, 4, p, c, in) /\ 4 \in Nat
    BY <1>5, <1>12, <2>1, <2>2, MkdirMakes
  <2>4. /\ Fit(disk')
        /\ \/ /\ up' = TRUE /\ returned' = [call |-> call, code |-> 0]
              /\ Born(p, [type |-> in.type, perm |-> in.perm, data |-> <<>>])
           \/ up' = FALSE /\ returned' = [call |-> call, code |-> -1] /\ tree' = tree
    BY <1>0, <1>6, <1>12, <2>1, <2>3, MakeCall
  <2>5. [type |-> in.type, perm |-> in.perm, data |-> <<>>] = Tree!Dir(perm)
    BY <2>2 DEF NewDir, Tree!Dir
  <2>6. CASE up' = TRUE /\ returned' = [call |-> call, code |-> 0] /\ Born(p, Tree!Dir(perm))
    <3>1. Tree!Make(p, Tree!Dir(perm))
      BY <1>0, <1>6, <1>7, <1>12, <2>6, MakeDone
    <3> QED
      BY <1>0, <1>8, <2>4, <2>6, <3>1 DEF Tree!Next, Tree!Serve
  <2>7. CASE up' = FALSE /\ returned' = [call |-> call, code |-> -1] /\ tree' = tree
    BY <1>0, <1>8, <2>4, <2>7, KilledUnchanged
  <2> QED
    BY <2>4, <2>5, <2>6, <2>7
<1> QED
  BY <1>1, <1>2, <1>3, <1>4, <1>5, <1>9, <1>10, <1>11, <1>12, Zenon DEF fs_mkdir

-----------------------------------------------------------------------------
(* write: the order of the writes. *)

\* The first l elements of u are the first e of the parts that u is made of,
\* and perhaps some of the next, but not all of that.
Reach(u, l, parts, n, e) ==
    /\ e \in 0..n
    /\ \A i \in 1..e : \A x \in Elements(parts[i]) : \E j \in 1..l : u[j] = x
    /\ \A j \in 1..l : \/ \E i \in 1..e : u[j] \in Elements(parts[i])
                       \/ e < n /\ \E i \in 1..(Len(parts[e + 1]) - 1) : u[j] = parts[e + 1][i]
    /\ l = Len(u) => e = n
Reaches(u, parts, n) == \A l \in 0..Len(u) : \E e : Reach(u, l, parts, n, e)

LEMMA ReachJoined ==
    ASSUME NEW S, NEW n \in Nat, NEW parts, NEW u \in Seq(S), NEW v \in Seq(S), v = parts[n + 1],
           Len(v) # 0, Reaches(u, parts, n), NEW x, x = u \o v
    PROVE  Reaches(x, parts, n + 1)
<1>1. x \in Seq(S) /\ Joins(x, u, v)
  BY Concat, Zenon
<1>2. /\ Len(u) \in Nat /\ Len(v) \in Nat
      /\ Len(x) = Len(u) + Len(v)
      /\ \A k \in 1..Len(u) : x[k] = u[k]
      /\ \A k \in 1..Len(v) : x[Len(u) + k] = v[k]
  BY <1>1 DEF Joins
<1>3. SUFFICES ASSUME NEW l \in 0..Len(x) PROVE \E e : Reach(x, l, parts, n + 1, e)
  BY DEF Reaches
<1>4. CASE l =< Len(u)
  <2>1. l \in 0..Len(u) /\ l # Len(x) /\ \A j \in 1..l : x[j] = u[j]
    BY <1>2, <1>4
  <2>2. PICK e : Reach(u, l, parts, n, e)
    BY <2>1 DEF Reaches
  <2>3. e \in 0..(n + 1) /\ e < n + 1 /\ (~ (e < n) => e = n)
    BY <2>2 DEF Reach
  <2>4. \A i \in 1..e : \A y \in Elements(parts[i]) : \E j \in 1..l : x[j] = y
    BY <2>1, <2>2 DEF Reach
  <2>5. \A j \in 1..l : \/ \E i \in 1..e : x[j] \in Elements(parts[i])
                        \/ \E i \in 1..(Len(parts[e + 1]) - 1) : x[j] = parts[e + 1][i]
    BY <2>1, <2>2, ZenonT(60) DEF Reach
  <2> QED
    BY <2>1, <2>3, <2>4, <2>5, ZenonT(60) DEF Reach
<1>5. CASE ~ (l =< Len(u))
  <2>1. l \in Nat /\ Len(u) \in 0..Len(u) /\ \A j \in 1..Len(u) : j \in 1..l
    BY <1>2, <1>5
  <2>2. PICK e : Reach(u, Len(u), parts, n, e)
    BY <2>1 DEF Reaches
  <2>3. /\ e = n /\ ~ (e < n)
        /\ \A i \in 1..n : \A y \in Elements(parts[i]) : \E j \in 1..Len(u) : u[j] = y
        /\ \A j \in 1..Len(u) : \E i \in 1..n : u[j] \in Elements(parts[i])
    <3>1. e = n /\ ~ (e < n)
      BY <2>2 DEF Reach
    <3>2. \A i \in 1..e : \A y \in Elements(parts[i]) : \E j \in 1..Len(u) : u[j] = y
      BY ONLY <2>2 DEF Reach
    <3>3. \A j \in 1..Len(u) : \E i \in 1..e : u[j] \in Elements(parts[i])
      BY ONLY <2>2, <3>1 DEF Reach
    <3> QED
      BY <3>1, <3>2, <3>3
  <2>4. \A i \in 1..n : \A y \in Elements(parts[i]) : \E j \in 1..l : x[j] = y
    <3>1. \A j \in 1..Len(u) : j \in 1..l /\ x[j] = u[j]
      BY <1>2, <2>1
    <3> QED
      BY <2>3, <3>1
  <2>5. ASSUME NEW j \in 1..l
        PROVE  \/ \E i \in 1..n : x[j] \in Elements(parts[i])
               \/ j - Len(u) \in 1..(l - Len(u)) /\ j - Len(u) \in 1..Len(v) /\ x[j] = v[j - Len(u)]
    <3>1. CASE j =< Len(u)
      BY <1>2, <2>3, <3>1
    <3>2. CASE ~ (j =< Len(u))
      <4>1. /\ j - Len(u) \in 1..(l - Len(u)) /\ j - Len(u) \in 1..Len(v)
            /\ Len(u) + (j - Len(u)) = j
        BY <1>2, <3>2
      <4> QED
        BY <1>2, <4>1
    <3> QED
      BY <3>1, <3>2
  <2>6. CASE l < Len(x)
    <3>1. \A i \in 1..(l - Len(u)) : i \in 1..(Len(v) - 1)
      BY <1>2, <2>1, <2>6
    <3>2. \A j \in 1..l : \/ \E i \in 1..n : x[j] \in Elements(parts[i])
                          \/ \E i \in 1..(Len(parts[n + 1]) - 1) : x[j] = parts[n + 1][i]
      BY <2>5, <3>1
    <3>3. n \in 0..(n + 1) /\ n < n + 1 /\ l # Len(x)
      BY <1>2, <2>6
    <3>4. Reach(x, l, parts, n + 1, n)
      BY <2>4, <3>2, <3>3 DEF Reach
    <3> QED
      BY <3>4
  <2>7. CASE l = Len(x)
    <3>1. /\ n + 1 \in 0..(n + 1) /\ n + 1 \in 1..(n + 1)
          /\ \A i \in 1..(n + 1) : i \in 1..n \/ i = n + 1
          /\ \A i \in 1..n : i \in 1..(n + 1)
      OBVIOUS
    <3>2. \A j \in 1..l : \E i \in 1..(n + 1) : x[j] \in Elements(parts[i])
      <4>1. \A i \in 1..Len(v) : v[i] \in Elements(parts[n + 1])
        BY DEF Elements
      <4> QED
        BY <2>5, <3>1, <4>1
    <3>3. ASSUME NEW y \in Elements(parts[n + 1]) PROVE \E j \in 1..l : x[j] = y
      <4>1. PICK i \in 1..Len(v) : y = v[i]
        BY DEF Elements
      <4>2. Len(u) + i \in 1..l /\ x[Len(u) + i] = y
        BY <1>2, <2>7, <4>1
      <4> QED
        BY <4>2
    <3>4. \A i \in 1..(n + 1) : \A y \in Elements(parts[i]) : \E j \in 1..l : x[j] = y
      BY <2>4, <3>1, <3>3
    <3>5. PICK k : k = n + 1
      OBVIOUS
    <3>6. /\ k \in 0..k
          /\ \A i \in 1..k : \A y \in Elements(parts[i]) : \E j \in 1..l : x[j] = y
          /\ \A j \in 1..l : \E i \in 1..k : x[j] \in Elements(parts[i])
      BY <3>1, <3>2, <3>4, <3>5
    <3>7. Reach(x, l, parts, k, k)
      BY ONLY <3>6 DEF Reach
    <3> QED
      BY <3>5, <3>7
  <2>8. l < Len(x) \/ l = Len(x)
    <3>1. Len(x) \in Nat
      BY ONLY <1>2
    <3> QED
      BY ONLY <3>1, l \in 0..Len(x)
  <2> QED
    BY <2>6, <2>7, <2>8
<1> QED
  BY <1>2, <1>4, <1>5

LEMMA FlatReaches ==
    ASSUME NEW S, NEW m \in Nat, NEW parts, Parts(parts, m, S), \A i \in 1..m : Len(parts[i]) # 0,
           NEW flat, flat = FlattenSeq(parts)
    PROVE  flat \in Seq(S) /\ Reaches(flat, parts, m)
<1> USE DEF Parts
<1>0. Reaches(<<>>, parts, 0)
  <2>1. \A l \in 0..Len(<<>>) : Reach(<<>>, l, parts, 0, 0)
    BY DEF Reach
  <2> QED
    BY <2>1 DEF Reaches
<1>1. CASE m = 0
  <2>1. flat = <<>>
    BY <1>1, Zenon DEF FlattenSeq
  <2> QED
    BY <1>0, <1>1, <2>1
<1>2. CASE m # 0
  <2>1. PICK w : FlattenSeq(parts) = w[m] /\ Flattens(w, parts, m)
    BY <1>2, FlattenDefined
  <2> DEFINE P(n) == w[n] \in Seq(S) /\ Reaches(w[n], parts, n)
             T == {n \in Nat : n + 1 =< m => P(n + 1)}
  <2>2. 0 \in T
    <3>1. 1 \in 1..m /\ 0 + 1 = 1
      BY <1>2
    <3>2. w[1] = parts[1] /\ parts[1] \in Seq(S) /\ Len(parts[1]) # 0
      BY <2>1, <3>1 DEF Flattens
    <3>3. <<>> \in Seq(S) /\ w[1] = <<>> \o parts[1]
      BY <3>2
    <3>4. Reaches(w[1], parts, 0 + 1)
      <4>1. 0 \in Nat /\ parts[1] = parts[0 + 1]
        BY <3>1
      <4> QED
        BY ONLY <1>0, <3>2, <3>3, <4>1, ReachJoined
    <3> QED
      BY <3>1, <3>2, <3>4
  <2>3. ASSUME NEW n \in Nat, n \in T PROVE n + 1 \in T
    <3>1. SUFFICES ASSUME n + 2 =< m PROVE P(n + 2)
      <4>1. (n + 1) + 1 = n + 2
        OBVIOUS
      <4> HIDE DEF P
      <4> QED
        BY <4>1
    <3>2. P(n + 1)
      <4> HIDE DEF P
      <4> QED
        BY <2>3, <3>1
    <3>3. n + 2 \in 2..m /\ n + 2 \in 1..m /\ (n + 2) - 1 = n + 1 /\ (n + 1) + 1 = n + 2 /\ n + 1 \in Nat
      BY <3>1
    <3>4. /\ w[n + 2] = w[n + 1] \o parts[n + 2] /\ parts[n + 2] \in Seq(S) /\ w[n + 1] \in Seq(S)
          /\ Len(parts[n + 2]) # 0
      BY <2>1, <3>2, <3>3 DEF Flattens
    <3>5. w[n + 2] \in Seq(S)
      BY <3>4
    <3>6. Reaches(w[n + 2], parts, (n + 1) + 1)
      <4>1. parts[n + 2] = parts[(n + 1) + 1] /\ Reaches(w[n + 1], parts, n + 1)
        BY <3>2, <3>3
      <4> QED
        BY ONLY <3>3, <3>4, <4>1, ReachJoined
    <3> QED
      BY <3>3, <3>5, <3>6
  <2> HIDE DEF T, P
  <2>4. m - 1 \in Nat /\ (m - 1) + 1 = m /\ m =< m
    BY <1>2
  <2>5. m - 1 \in T
    BY <2>2, <2>3, <2>4, Induction
  <2>6. P(m)
    BY <2>4, <2>5 DEF T
  <2> QED
    BY <2>1, <2>6 DEF P
<1> QED
  BY <1>1, <1>2

\* A round ends with the data.
LEMMA RoundEnds ==
    ASSUME NEW c, NEW ptrs, NEW k, NEW data, NEW at, NEW have, have = DIV_ROUND_UP(disk[c].size),
           have \in Int, k \in Int, NEW s, s = Set(ptrs[k]),
           NEW w, w = Put(ptrs[k], Overlaid(k, ptrs[k], data, at)),
           NEW r, r = Round(c, ptrs, k, data, at), NEW S, s \in S, w \in S
    PROVE  /\ r \in Seq(S) /\ Len(r) # 0 /\ w \in Elements(r)
           /\ \A x \in Elements(r) : x = w \/ x = s
           /\ \A i \in 1..(Len(r) - 1) : r[i] = s
<1>1. CASE k < have
  <2>1. r = <<>> \o <<w>>
    <3>1. ~ (k >= have)
      BY <1>1
    <3> QED
      BY <3>1, Zenon DEF Round
  <2>2. r \in Seq(S) /\ Len(r) = 1 /\ r[1] = w
    BY <2>1
  <2>3. (\A j \in 1..1 : j = 1) /\ 1 \in 1..1 /\ \A i \in 1..(1 - 1) : FALSE
    OBVIOUS
  <2> QED
    BY <2>2, <2>3 DEF Elements
<1>2. CASE ~ (k < have)
  <2>1. r = <<s>> \o <<w>>
    <3>1. k >= have
      BY <1>2
    <3> QED
      BY <3>1, Zenon DEF Round
  <2>2. r \in Seq(S) /\ Len(r) = 2 /\ r[1] = s /\ r[2] = w
    BY <2>1
  <2>3. (\A j \in 1..2 : j = 1 \/ j = 2) /\ 2 \in 1..2 /\ \A i \in 1..(2 - 1) : i = 1
    OBVIOUS
  <2> QED
    BY <2>2, <2>3 DEF Elements
<1> QED
  BY <1>1, <1>2

\* The first n of the writes lay the data of the blocks in W, a lower part of
\* the blocks to write.
Laying(k, ptrs, data, at) == Put(ptrs[k], Overlaid(k, ptrs[k], data, at))
Paced(s, n, ptrs, W, data, at) ==
    /\ \A j \in 1..n : s[j].op = "put" => \E k \in W : s[j] = Laying(k, ptrs, data, at)
    /\ \A k \in W : \E j \in 1..n : s[j] = Laying(k, ptrs, data, at)
Lower(W, S) == W \subseteq S /\ \A k \in W : \A j \in S : j < k => j \in W

LEMMA RoundsPaced ==
    ASSUME NEW c, NEW have \in Nat, have = DIV_ROUND_UP(disk[c].size),
           NEW ptrs, NEW good, Convex(good), NEW data, NEW at,
           NEW rounds, AllRounds(rounds, c, ptrs, good, data, at), NEW n \in 0..Len(rounds)
    PROVE  \E W : /\ Lower(W, good) /\ Paced(rounds, n, ptrs, W, data, at)
                  /\ n = Len(rounds) => W = good
<1> DEFINE set(k) == Set(ptrs[k])
           put(k) == Laying(k, ptrs, data, at)
           S == {set(k) : k \in good} \cup {put(k) : k \in good}
<1>1. PICK m : m = Cardinality(good)
  OBVIOUS
<1>2. PICK low : low = Lowest(good)
  OBVIOUS
<1>3. PICK parts : parts = [i \in 1..m |-> Round(c, ptrs, low + i - 1, data, at)]
  OBVIOUS
<1>4. /\ m \in Nat
      /\ \A i \in 1..m : low + i - 1 \in good
      /\ \A k \in good : \E i \in 1..m : k = low + i - 1
  BY <1>1, <1>2, Interval
<1>5. rounds = FlattenSeq(parts)
  BY <1>1, <1>2, <1>3, Zenon DEF AllRounds
<1>6. Len(parts) = m /\ (parts = <<>> \/ m # 0)
  BY <1>3, <1>4
<1>7. \A k \in good : k \in Int
  BY DEF Ptrs, Convex
<1>8. ASSUME NEW i \in 1..m
      PROVE  /\ parts[i] \in Seq(S) /\ Len(parts[i]) # 0 /\ put(low + i - 1) \in Elements(parts[i])
             /\ \A x \in Elements(parts[i]) : x = put(low + i - 1) \/ x = set(low + i - 1)
             /\ \A j \in 1..(Len(parts[i]) - 1) : parts[i][j] = set(low + i - 1)
  <2>0. PICK k \in good : k = low + i - 1
    BY <1>4
  <2>1. PICK s : s = set(k)
    OBVIOUS
  <2>2. PICK w : w = put(k)
    OBVIOUS
  <2>3. PICK r : r = Round(c, ptrs, k, data, at)
    OBVIOUS
  <2>4. s \in S /\ w \in S
    BY <2>1, <2>2, Zenon
  <2>5. PICK U : U = S
    OBVIOUS
  <2>6. have \in Int /\ k \in Int
    BY <1>7
  <2>7. /\ r \in Seq(U) /\ Len(r) # 0 /\ w \in Elements(r)
        /\ \A x \in Elements(r) : x = w \/ x = s
        /\ \A j \in 1..(Len(r) - 1) : r[j] = s
    <3>1. s = Set(ptrs[k]) /\ w = Put(ptrs[k], Overlaid(k, ptrs[k], data, at))
      BY <2>1, <2>2, Zenon DEF Laying
    <3>2. s \in U /\ w \in U
      BY <2>4, <2>5, Zenon
    <3>3. have = DIV_ROUND_UP(disk[c].size)
      OBVIOUS
    <3> QED
      BY ONLY <2>3, <2>6, <3>1, <3>2, <3>3, RoundEnds
  <2>8. r = parts[i]
    BY <1>3, <2>0, <2>3
  <2> HIDE DEF S, set, put
  <2> QED
    BY <2>0, <2>1, <2>2, <2>5, <2>7, <2>8
<1>9. \A k : set(k).op = "set" /\ put(k).op = "put"
  BY DEF Set, Put, Laying
<1> HIDE DEF S, set, put
<1>10. Reaches(rounds, parts, m)
  <2>1. PICK U : U = S
    OBVIOUS
  <2>2. m \in Nat /\ \A i \in 1..m : parts[i] \in Seq(U) /\ Len(parts[i]) # 0
    BY <1>4, <1>8, <2>1
  <2>3. Parts(parts, m, U)
    BY <1>6, <2>2 DEF Parts
  <2> QED
    BY ONLY <1>5, <2>2, <2>3, FlatReaches
<1>11. PICK e : Reach(rounds, n, parts, m, e)
  BY <1>10 DEF Reaches
<1>12. /\ e \in 0..m /\ (n = Len(rounds) => e = m)
       /\ \A i \in 1..e : \A x \in Elements(parts[i]) : \E j \in 1..n : rounds[j] = x
       /\ \A j \in 1..n : \/ \E i \in 1..e : rounds[j] \in Elements(parts[i])
                          \/ e < m /\ \E i \in 1..(Len(parts[e + 1]) - 1) : rounds[j] = parts[e + 1][i]
  BY <1>11 DEF Reach
<1>13. (\A i \in 1..e : i \in 1..m) /\ (e < m => e + 1 \in 1..m)
  BY <1>4, <1>12
<1>14. PICK W : W = {low + i - 1 : i \in 1..e}
  OBVIOUS
<1>15. ASSUME NEW j \in 1..n, rounds[j].op = "put" PROVE \E k \in W : rounds[j] = put(k)
  <2>1. ASSUME NEW i \in 1..e, rounds[j] \in Elements(parts[i]) PROVE \E k \in W : rounds[j] = put(k)
    <3>1. rounds[j] = put(low + i - 1)
      BY <1>8, <1>9, <1>13, <1>15, <2>1
    <3> QED
      BY <1>14, <3>1
  <2>2. ASSUME e < m, NEW i \in 1..(Len(parts[e + 1]) - 1), rounds[j] = parts[e + 1][i] PROVE FALSE
    BY <1>8, <1>9, <1>13, <1>15, <2>2
  <2> QED
    BY <1>12, <2>1, <2>2
<1>16. ASSUME NEW k \in W PROVE \E j \in 1..n : rounds[j] = put(k)
  <2>1. PICK i \in 1..e : k = low + i - 1
    BY <1>14
  <2>2. put(k) \in Elements(parts[i])
    BY <1>8, <1>13, <2>1
  <2> QED
    BY <1>12, <2>2
<1>17. W \subseteq good
  BY <1>4, <1>13, <1>14
<1>18. low \in Int \/ good = {}
  <2>1. CASE good # {}
    <3>1. good \subseteq Nat
      BY SizesAssumption DEF Convex, Ptrs
    <3>2. low \in good
      BY <1>2, <2>1, <3>1, LowestIn
    <3> QED
      BY <1>7, <3>2
  <2> QED
    BY <2>1
<1>19. ASSUME NEW k \in W, NEW j \in good, j < k PROVE j \in W
  <2>1. PICK i \in 1..e : k = low + i - 1
    BY <1>14
  <2>2. PICK l \in 1..m : j = low + l - 1
    BY <1>4
  <2>3. low \in Int
    BY <1>18
  <2>4. l \in 1..e
    BY <1>4, <1>12, <1>19, <2>1, <2>2, <2>3
  <2> QED
    BY <1>14, <2>2, <2>4
<1>20. n = Len(rounds) => W = good
  BY <1>4, <1>12, <1>14, <1>17
<1> QED
  <2>1. Lower(W, good)
    BY <1>17, <1>19 DEF Lower
  <2>2. Paced(rounds, n, ptrs, W, data, at)
    BY <1>15, <1>16 DEF Paced, put
  <2> QED
    BY <1>20, <2>1, <2>2

\* The blocks laid down: those of W hold the data over what they held, and no
\* other block but that of the inode has changed.
Lays(s, n, c, ptrs, W, data, at) ==
    /\ \A j \in 1..n : s[j].op = "put" =>
          s[j].blk = c \/ \E k \in W : s[j] = Laying(k, ptrs, data, at)
    /\ \A k \in W : \E j \in 1..n : s[j] = Laying(k, ptrs, data, at)
Laid(image, c, ptrs, W, data, at) ==
    /\ \A k \in W : image[ptrs[k]] = Overlaid(k, ptrs[k], data, at)
    /\ \A b \in Blocks \ {c} : (\A k \in W : ptrs[k] # b) => image[b] = disk[b]
Distinct(ptrs, S) == \A k, l \in S : ptrs[k] = ptrs[l] => k = l
Elsewhere(ptrs, S, c) == \A k \in S : ptrs[k] \in Blocks \ {c}
Separate(ptrs, W, H) == \A k \in W : \A l \in H : ptrs[k] = ptrs[l] => k = l
Keeps(c, ptrs, H) ==
    /\ H = 0..(DIV_ROUND_UP(disk[c].size) - 1)
    /\ Elsewhere(ptrs, H, c) /\ \A k \in H : ptrs[k] = disk[c].ptrs[k]

LEMMA LaidDown ==
    ASSUME NEW s, NEW n \in Nat, NEW c, NEW ptrs, NEW W, NEW data, NEW at,
           Lays(s, n, c, ptrs, W, data, at), Distinct(ptrs, W), Elsewhere(ptrs, W, c),
           NEW image, image = block_write(disk, s, n)
    PROVE  Laid(image, c, ptrs, W, data, at)
<1>0. ASSUME NEW k PROVE LET x == Laying(k, ptrs, data, at) IN
          x.op = "put" /\ x.blk = ptrs[k] /\ x.block = Overlaid(k, ptrs[k], data, at)
  BY DEF Laying, Put
<1>1. ASSUME NEW k \in W PROVE image[ptrs[k]] = Overlaid(k, ptrs[k], data, at)
  <2>1. PICK b \in Blocks \ {c} : b = ptrs[k]
    BY DEF Elsewhere
  <2>2. PICK V : V = WritesTo(b, {"put"}, s, n)
    OBVIOUS
  <2>3. PICK j \in 1..n : s[j] = Laying(k, ptrs, data, at)
    BY DEF Lays
  <2>4. j \in V
    BY <1>0, <2>1, <2>2, <2>3 DEF WritesTo
  <2>5. PICK i : i = Max(V)
    OBVIOUS
  <2>6. i \in V /\ image[b] = s[i].block
    BY <2>2, <2>4, <2>5, BlockWritten
  <2>7. i \in 1..n /\ s[i].op = "put" /\ s[i].blk = b
    BY <2>2, <2>6 DEF WritesTo
  <2>8. PICK l \in W : s[i] = Laying(l, ptrs, data, at)
    BY <2>1, <2>7 DEF Lays
  <2>9. ptrs[l] = ptrs[k]
    BY <1>0, <2>1, <2>7, <2>8
  <2>10. l = k
    BY <2>9 DEF Distinct
  <2> QED
    BY <1>0, <2>1, <2>6, <2>8, <2>10
<1>2. ASSUME NEW b \in Blocks \ {c}, \A k \in W : ptrs[k] # b PROVE image[b] = disk[b]
  <2>1. \A i \in 1..n : s[i].op = "put" => s[i].blk # b
    BY <1>0, <1>2 DEF Lays
  <2> QED
    BY <2>1, BlockLeft
<1> QED
  BY <1>1, <1>2 DEF Laid

\* The blocks a write goes to are different ones, and nobody else's.
Private(I, c, ptrs, good) ==
    \A b \in I \ {c} : \A k \in Pointers(disk[b]) : \A l \in good : disk[b].ptrs[k] # ptrs[l]

LEMMA WriteTargets ==
    ASSUME NEW I, Shape(I, disk), Marked(I, InUse, disk), NEW c \in I, disk[c].type = "file",
           NEW have \in Nat, have = DIV_ROUND_UP(disk[c].size),
           NEW K, K \subseteq Ptrs, NEW ptrs, Allotted(ptrs, c, have, K),
           NEW good, good \subseteq K, Positive(ptrs, good), Unused(ptrs, have, good), NEW H, H = 0..(have - 1)
    PROVE  /\ Distinct(ptrs, good) /\ Separate(ptrs, good, H) /\ Private(I, c, ptrs, good)
           /\ Elsewhere(ptrs, good, c) /\ Keeps(c, ptrs, H)
<1>1. Pointers(disk[c]) = 0..(have - 1)
  BY DEF Pointers
<1>2. disk[c] \in Inode
  BY DEF Shape, Inodal
<1>3. Pointers(disk[c]) \subseteq Ptrs
  BY <1>2, PointersFacts
<1>4. ASSUME NEW k \in 0..(have - 1)
      PROVE  ptrs[k] = disk[c].ptrs[k] /\ ptrs[k] \in Blocks \ I /\ ptrs[k] \in InUse
  <2>1. k \in Ptrs /\ k < have /\ k \in Pointers(disk[c])
    BY <1>1, <1>3
  <2>2. ptrs[k] = disk[c].ptrs[k]
    BY <2>1 DEF Allotted
  <2> QED
    BY <2>1, <2>2 DEF Shape, Inodal, Marked
<1>5. ASSUME NEW k \in good, k \notin 0..(have - 1)
      PROVE  k \in K /\ ~ (k < have) /\ ~ (ptrs[k] < 0) /\ ptrs[k] \in Blocks \ InUse
  <2>1. k \in Nat
    BY SizesAssumption DEF Ptrs
  <2>2. ~ (k < have)
    BY <1>5, <2>1
  <2> QED
    BY <2>2 DEF Unused, Positive
<1>6. c \in InUse /\ \A b \in I : \A k \in Pointers(disk[b]) : disk[b].ptrs[k] \in InUse
  BY DEF Marked
<1>7. ASSUME NEW k \in good \cup 0..(have - 1), NEW l \in good \cup 0..(have - 1), ptrs[k] = ptrs[l]
      PROVE  k = l
  <2>1. CASE k \in 0..(have - 1) /\ l \in 0..(have - 1)
    BY <1>1, <1>4, <1>7, <2>1 DEF Shape, NoSharedData
  <2>2. CASE k \notin 0..(have - 1) /\ l \notin 0..(have - 1)
    BY <1>5, <1>7, <2>2 DEF Allotted
  <2>3. CASE ~ (k \in 0..(have - 1) <=> l \in 0..(have - 1))
    BY <1>4, <1>5, <1>7, <2>3
  <2> QED
    BY <2>1, <2>2, <2>3
<1>8. ASSUME NEW b \in I \ {c}, NEW k \in Pointers(disk[b]), NEW l \in good
      PROVE  disk[b].ptrs[k] # ptrs[l]
  <2>1. CASE l \in 0..(have - 1)
    BY <1>1, <1>4, <2>1 DEF Shape, NoSharedData
  <2>2. CASE l \notin 0..(have - 1)
    BY <1>5, <1>6, <2>2
  <2> QED
    BY <2>1, <2>2
<1>9. \A k \in good \cup 0..(have - 1) : ptrs[k] \in Blocks \ {c}
  BY <1>4, <1>5, <1>6
<1> QED
  BY <1>4, <1>7, <1>8, <1>9 DEF Distinct, Separate, Private, Elsewhere, Keeps

\* Blocks laid down one after the other are a first part of the data.
Stretch(W, n, len, at) ==
    \A pos \in Nat : at =< pos /\ pos < at + len => (pos \div FS_BLOCK_SIZE \in W <=> pos < at + n)

LEMMA TouchedBy ==
    ASSUME NEW len \in Nat, NEW at \in Nat, at + len =< MAX_FILE,
           NEW pos \in Nat, at =< pos, pos < at + len, NEW k, k = pos \div FS_BLOCK_SIZE
    PROVE  k \in Touched(len, at)
<1>0. /\ FS_BLOCK_SIZE \in Nat \ {0} /\ NUM_PTRS_INODE \in Nat \ {0}
      /\ MAX_FILE = FS_BLOCK_SIZE * NUM_PTRS_INODE
  BY SizesAssumption DEF MAX_FILE
<1>1. PICK B \in Nat \ {0} : B = FS_BLOCK_SIZE
  BY <1>0
<1>2. PICK i : i = pos % B
  OBVIOUS
<1>3. k \in Nat /\ i \in 0..(B - 1) /\ pos = B * k + i
  BY <1>1, <1>2
<1>4. B * k = k * B /\ k * B \in Nat /\ (k + 1) * B = k * B + B
  BY <1>1, <1>3
<1>5. at < (k + 1) * B /\ k * B < at + len
  BY <1>3, <1>4
<1>6. MAX_FILE \in Nat
  BY <1>0
<1>7. k * B < B * NUM_PTRS_INODE
  BY <1>0, <1>1, <1>4, <1>5, <1>6
<1>8. k < NUM_PTRS_INODE
  <2>1. SUFFICES ASSUME k >= NUM_PTRS_INODE PROVE FALSE
    BY <1>0, <1>3
  <2>2. k * B >= B * NUM_PTRS_INODE
    BY ONLY <1>0, B \in Nat \ {0}, <1>3, <2>1
  <2>3. B * NUM_PTRS_INODE \in Nat
    BY <1>0
  <2> QED
    BY <1>4, <1>7, <2>2, <2>3
<1>9. k \in Ptrs
  BY <1>0, <1>3, <1>8 DEF Ptrs
<1> QED
  BY <1>1, <1>5, <1>9 DEF Touched

LEMMA Stretches ==
    ASSUME NEW len \in Nat, NEW at \in Nat, at + len =< MAX_FILE,
           NEW K, K = Touched(len, at), NEW W, Lower(W, K)
    PROVE  /\ \E n \in 0..len : Stretch(W, n, len, at)
           /\ W = K => Stretch(W, len, len, at)
<1>0. FS_BLOCK_SIZE \in Nat \ {0} /\ K \subseteq Nat
  BY TouchedFacts, SizesAssumption DEF Ptrs
<1>1. PICK B \in Nat \ {0} : B = FS_BLOCK_SIZE
  BY <1>0
<1>2. ASSUME NEW pos \in Nat, at =< pos, pos < at + len
      PROVE  pos \div B \in K
  BY <1>1, <1>2, TouchedBy
<1>3. W = K => Stretch(W, len, len, at)
  BY <1>1, <1>2 DEF Stretch
<1>4. CASE W = K
  BY <1>3, <1>4
<1>5. CASE W # K
  <2>1. PICK R : R = K \ W
    OBVIOUS
  <2>2. R # {} /\ R \subseteq Nat
    BY <1>0, <1>5, <2>1 DEF Lower
  <2>3. PICK l : l = Lowest(R)
    OBVIOUS
  <2>4. l \in R /\ \A j \in R : l =< j
    BY <2>2, <2>3, LowestIn
  <2>5. l \in Nat /\ l \in K /\ l * B < at + len /\ l * B \in Nat
    BY <1>0, <1>1, <2>1, <2>4, TouchedFacts
  <2>6. PICK n : n = IF l * B > at THEN l * B - at ELSE 0
    OBVIOUS
  <2>7. n \in 0..len
    BY <2>5, <2>6
  <2>8. \A k \in K : k \in W <=> k < l
    <3>1. ASSUME NEW k \in K, k \in W PROVE k < l
      <4>1. l \notin W /\ ~ (l < k) /\ k # l
        BY <2>1, <2>4, <2>5, <3>1 DEF Lower
      <4> QED
        BY <1>0, <2>5, <4>1
    <3>2. ASSUME NEW k \in K, k \notin W PROVE ~ (k < l)
      BY <1>0, <2>1, <2>4, <2>5, <3>2
    <3> QED
      BY <3>1, <3>2
  <2>9. ASSUME NEW pos \in Nat, at =< pos, pos < at + len
        PROVE  pos \div B \in W <=> pos < at + n
    <3>1. PICK k : k = pos \div B
      OBVIOUS
    <3>2. PICK i : i = pos % B
      OBVIOUS
    <3>3. k \in Nat /\ i \in 0..(B - 1) /\ pos = B * k + i
      BY <3>1, <3>2
    <3>4. B * k = k * B /\ k * B \in Nat
      BY <3>3
    <3>5. k \in W <=> k < l
      BY <1>2, <2>8, <2>9, <3>1
    <3>6. k < l <=> pos < l * B
      <4>1. ASSUME k < l PROVE pos < l * B
        <5>1. (k + 1) * B =< l * B
          BY ONLY <2>5, <3>3, <4>1, B \in Nat
        <5>2. (k + 1) * B = k * B + B
          BY <3>3
        <5> QED
          BY <2>5, <3>3, <3>4, <5>1, <5>2
      <4>2. ASSUME ~ (k < l) PROVE ~ (pos < l * B)
        <5>1. l * B =< k * B
          BY ONLY <2>5, <3>3, <4>2, B \in Nat
        <5> QED
          BY <2>5, <3>3, <3>4, <5>1
      <4> QED
        BY <4>1, <4>2
    <3>7. pos < l * B <=> pos < at + n
      BY <2>5, <2>6, <2>9
    <3> QED
      BY <3>1, <3>5, <3>6, <3>7
  <2>10. Stretch(W, n, len, at)
    BY <1>1, <2>9 DEF Stretch
  <2> QED
    BY <1>5, <2>7, <2>10
<1> QED
  BY <1>4, <1>5

\* A byte of the file once the blocks of W are laid down.
LEMMA LaidByte ==
    ASSUME NEW c, NEW ptrs, NEW W, NEW data, NEW len \in Nat, DOMAIN data = 1..len, NEW at \in Nat,
           NEW image, Laid(image, c, ptrs, W, data, at),
           NEW n \in 0..len, Stretch(W, n, len, at), NEW H, Separate(ptrs, W, H), Keeps(c, ptrs, H),
           NEW pos \in Nat, NEW k, k = pos \div FS_BLOCK_SIZE, image[c].ptrs[k] = ptrs[k],
           (at =< pos /\ pos < at + n) \/ k \in H
    PROVE  FileByte(image, c, pos) =
              IF at =< pos /\ pos < at + n THEN data[pos - at + 1] ELSE FileByte(disk, c, pos)
<1>1. PICK B \in Nat \ {0} : B = FS_BLOCK_SIZE
  BY SizesAssumption
<1>2. PICK i : i = pos % FS_BLOCK_SIZE
  OBVIOUS
<1>3. k \in Nat /\ i \in BlockBytes /\ pos = B * k + i /\ i \in Nat
  BY <1>1, <1>2 DEF BlockBytes
<1>4. B * k = k * B /\ k * B \in Nat
  BY <1>3
<1>5. PICK start : start = k * FS_BLOCK_SIZE - at + 1
  OBVIOUS
<1>6. start + i = pos - at + 1
  BY <1>1, <1>3, <1>4, <1>5
<1>7. FileByte(image, c, pos) = BytesOf(image[ptrs[k]])[i]
  BY <1>2 DEF FileByte
<1>8. ASSUME k \in W
      PROVE  FileByte(image, c, pos) =
                IF start + i \in DOMAIN data THEN data[start + i] ELSE BytesOf(disk[ptrs[k]])[i]
  <2>1. image[ptrs[k]] = Overlaid(k, ptrs[k], data, at)
    BY <1>8 DEF Laid
  <2>2. PICK bytes : bytes = [j \in BlockBytes |->
                                IF start + j \in DOMAIN data THEN data[start + j]
                                ELSE BytesOf(disk[ptrs[k]])[j]]
    OBVIOUS
  <2>3. image[ptrs[k]] = [kind |-> "data", bytes |-> bytes]
    BY <1>5, <2>1, <2>2, Zenon DEF Overlaid
  <2>4. BytesOf(image[ptrs[k]]) = bytes
    BY <2>3 DEF BytesOf
  <2>5. bytes[i] = IF start + i \in DOMAIN data THEN data[start + i] ELSE BytesOf(disk[ptrs[k]])[i]
    BY <1>3, <2>2
  <2> QED
    BY <1>7, <2>4, <2>5
<1>9. CASE at =< pos /\ pos < at + n
  <2>1. pos < at + len /\ pos - at + 1 \in 1..len
    BY <1>9
  <2>2. k \in W
    BY <1>9, <2>1 DEF Stretch
  <2> QED
    BY <1>6, <1>8, <1>9, <2>1, <2>2
<1>10. CASE ~ (at =< pos /\ pos < at + n)
  <2>1. k \in H /\ ptrs[k] = disk[c].ptrs[k] /\ ptrs[k] \in Blocks \ {c}
    BY <1>10 DEF Elsewhere, Keeps
  <2>2. FileByte(disk, c, pos) = BytesOf(disk[ptrs[k]])[i]
    BY <1>2, <2>1 DEF FileByte
  <2>3. CASE k \in W
    <3>1. ~ (at =< pos /\ pos < at + len)
      BY <1>10, <2>3 DEF Stretch
    <3>2. start + i \notin DOMAIN data
      BY <1>6, <3>1
    <3> QED
      BY <1>8, <1>10, <2>2, <2>3, <3>2
  <2>4. CASE k \notin W
    <3>1. \A l \in W : ptrs[l] # ptrs[k]
      BY <2>1, <2>4 DEF Separate
    <3>2. image[ptrs[k]] = disk[ptrs[k]]
      BY <2>1, <3>1 DEF Laid
    <3> QED
      BY <1>7, <1>10, <2>2, <3>2
  <2> QED
    BY <2>3, <2>4
<1> QED
  BY <1>9, <1>10

\* The first m bytes of a file over which n bytes of the data were laid.
Blend(old, data, at, n, m) ==
    [i \in 1..m |-> IF i > at /\ i =< at + n THEN data[i - at] ELSE old[i]]
Longer(a, b) == IF a > b THEN a ELSE b

LEMMA SplicedIs ==
    ASSUME NEW old, NEW size \in Nat, Len(old) = size, NEW data, NEW len \in Nat, Len(data) = len,
           NEW at \in Nat, NEW m, m = Longer(at + len, size)
    PROVE  Tree!Spliced(old, data, at) = Blend(old, data, at, len, m)
BY DEF Tree!Spliced, Blend, Longer

LEMMA SplicedCut ==
    ASSUME NEW S, NEW old \in Seq(S), NEW T, NEW data \in Seq(T), NEW at \in Nat,
           NEW n \in 0..Len(data)
    PROVE  SubSeq(Tree!Spliced(old, SubSeq(data, 1, n), at), 1, Len(old)) =
              Blend(old, data, at, n, Len(old))
<1>1. PICK size \in Nat : size = Len(old)
  OBVIOUS
<1>2. n \in Nat /\ n =< Len(data)
  OBVIOUS
<1>3. PICK first : first = SubSeq(data, 1, n)
  OBVIOUS
<1>4. first = [k \in 1..n |-> data[k]]
  <2>1. SubSeq(data, 0 + 1, n) = [k \in 1..(n - 0) |-> data[0 + k]]
    BY ONLY <1>2, data \in Seq(T), 0 \in Nat, PartOf
  <2>2. 0 + 1 = 1 /\ n - 0 = n /\ \A k \in 1..n : 0 + k = k
    BY <1>2
  <2>3. first = [k \in 1..n |-> data[0 + k]]
    BY <1>3, <2>1, <2>2
  <2> QED
    BY <2>2, <2>3
<1>5. Len(first) = n
  BY <1>2, <1>4
<1>6. PICK m \in Nat : m = Longer(at + n, size)
  BY <1>2 DEF Longer
<1>7. PICK t : t = Tree!Spliced(old, first, at)
  OBVIOUS
<1>8. t = Blend(old, first, at, n, m)
  BY <1>1, <1>2, <1>5, <1>6, <1>7, SplicedIs
<1>9. PICK U : U = {t[i] : i \in 1..m}
  OBVIOUS
<1>10. t \in [1..m -> U]
  BY <1>8, <1>9 DEF Blend
<1>11. t \in Seq(U) /\ Len(t) = m
  BY <1>6, <1>10
<1>12. size =< m
  BY <1>2, <1>6 DEF Longer
<1>13. SubSeq(t, 0 + 1, size) = [k \in 1..(size - 0) |-> t[0 + k]]
  BY ONLY <1>11, <1>12, size \in Nat, 0 \in Nat, PartOf
<1>14. SubSeq(t, 1, size) = [k \in 1..size |-> t[k]]
  <2>1. 0 + 1 = 1 /\ size - 0 = size /\ \A k \in 1..size : 0 + k = k
    OBVIOUS
  <2>2. SubSeq(t, 1, size) = [k \in 1..size |-> t[0 + k]]
    BY ONLY <1>13, <2>1
  <2> QED
    BY ONLY <2>1, <2>2
<1>15. ASSUME NEW i \in 1..size PROVE t[i] = IF i > at /\ i =< at + n THEN data[i - at] ELSE old[i]
  <2>1. i \in 1..m
    BY <1>6, <1>12
  <2>2. t[i] = IF i > at /\ i =< at + n THEN first[i - at] ELSE old[i]
    BY ONLY <1>8, <2>1 DEF Blend
  <2>3. i > at /\ i =< at + n => i - at \in 1..n
    BY <1>2
  <2> QED
    BY <1>4, <2>2, <2>3
<1>16. SubSeq(t, 1, size) = Blend(old, data, at, n, size)
  BY <1>14, <1>15 DEF Blend
<1> QED
  BY <1>1, <1>3, <1>7, <1>16

\* The bytes of the file then.
Sized(size, at, n, m) == m =< size \/ m =< at + n
Points(image, c, ptrs, m) == \A k \in 0..(DIV_ROUND_UP(m) - 1) : image[c].ptrs[k] = ptrs[k]
Covers(image, c, ptrs, W, data, len, at, n, H, size, m) ==
    /\ len \in Nat /\ DOMAIN data = 1..len /\ at \in Nat /\ Laid(image, c, ptrs, W, data, at)
    /\ n \in 0..len /\ Stretch(W, n, len, at) /\ Separate(ptrs, W, H) /\ Keeps(c, ptrs, H)
    /\ size \in Nat /\ size = disk[c].size /\ at =< size /\ disk[c].type = "file"
    /\ m \in Nat /\ m = image[c].size /\ Sized(size, at, n, m) /\ image[c].type = "file"
    /\ Points(image, c, ptrs, m)

LEMMA LaidData ==
    ASSUME NEW image, NEW c, NEW ptrs, NEW W, NEW data, NEW len, NEW at, NEW n, NEW H, NEW size, NEW m,
           Covers(image, c, ptrs, W, data, len, at, n, H, size, m),
           NEW old, old = NodeOf(disk, c).data
    PROVE  NodeOf(image, c).data = Blend(old, data, at, n, m)
<1> USE DEF Covers
<1>1. old = [i \in 1..size |-> FileByte(disk, c, i - 1)]
  BY DEF NodeOf
<1>2. NodeOf(image, c).data = [i \in 1..m |-> FileByte(image, c, i - 1)]
  BY DEF NodeOf
<1>3. ASSUME NEW i \in 1..m
      PROVE  FileByte(image, c, i - 1) = IF i > at /\ i =< at + n THEN data[i - at] ELSE old[i]
  <2>1. PICK pos \in Nat : pos = i - 1
    OBVIOUS
  <2>2. PICK k : k = pos \div FS_BLOCK_SIZE
    OBVIOUS
  <2>3. pos < m
    BY <2>1
  <2>4. image[c].ptrs[k] = ptrs[k]
    BY <2>2, <2>3, BytePlace DEF Points
  <2>5. (at =< pos /\ pos < at + n) <=> (i > at /\ i =< at + n)
    BY <2>1
  <2>6. pos < size \/ (at =< pos /\ pos < at + n)
    BY <2>3 DEF Sized
  <2>7. pos < size => k \in H
    BY <2>2, BytePlace DEF Keeps
  <2>8. FileByte(image, c, pos) =
              IF at =< pos /\ pos < at + n THEN data[pos - at + 1] ELSE FileByte(disk, c, pos)
    <3>1. (at =< pos /\ pos < at + n) \/ k \in H
      BY <2>6, <2>7
    <3>2. /\ len \in Nat /\ DOMAIN data = 1..len /\ at \in Nat /\ Laid(image, c, ptrs, W, data, at)
          /\ n \in 0..len /\ Stretch(W, n, len, at) /\ Separate(ptrs, W, H)
          /\ Keeps(c, ptrs, H)
      OBVIOUS
    <3> QED
      BY ONLY <2>2, <2>4, <3>1, <3>2, pos \in Nat, LaidByte
  <2>9. pos - at + 1 = i - at
    BY <2>1
  <2>10. ~ (at =< pos /\ pos < at + n) => i \in 1..size /\ old[i] = FileByte(disk, c, i - 1)
    BY <1>1, <2>1, <2>6
  <2> QED
    BY <2>1, <2>5, <2>8, <2>9, <2>10
<1> QED
  BY <1>2, <1>3 DEF Blend

-----------------------------------------------------------------------------
(* write: the image it leaves. *)

\* What a write has found out before the first block is written.
Begun(I, c, data, len, at, have, K, ptrs, bad, good, rounds) ==
    /\ len \in Nat /\ at \in Nat /\ len = Len(data) /\ DOMAIN data = 1..len /\ data \in Seq(Bytes)
    /\ c \in I /\ disk[c] \in Inode /\ disk[c].type = "file" /\ disk[c].size \in 0..MAX_FILE
    /\ at =< disk[c].size /\ at + len =< MAX_FILE
    /\ have \in Nat /\ have = DIV_ROUND_UP(disk[c].size)
    /\ K = Touched(len, at) /\ K \subseteq Ptrs /\ Allotted(ptrs, c, have, K)
    /\ Good(ptrs, K, bad, good) /\ good \subseteq K /\ (bad = {} => good = K)
    /\ Convex(good) /\ Positive(ptrs, good)
    /\ AllRounds(rounds, c, ptrs, good, data, at) /\ Len(rounds) \in Nat
    /\ (\E S : rounds \in Seq(S)) /\ Rounds(rounds, ptrs, good, have)
\* None of the blocks it goes to is in the tree outside the file.
Ready(I, c, data, len, at, have, K, ptrs, bad, good, rounds) ==
    /\ Begun(I, c, data, len, at, have, K, ptrs, bad, good, rounds)
    /\ Unused(ptrs, have, good) /\ Apart(I, ptrs, good)

LEMMA PayloadFacts ==
    ASSUME NEW data \in Payloads
    PROVE  Len(data) \in Nat /\ DOMAIN data = 1..Len(data) /\ data \in Seq(Bytes)
<1>1. PICK m \in 0..MAX_WRITE : data \in [1..m -> Bytes]
  BY DEF Payloads
<1>2. m \in Nat
  BY SizesAssumption
<1> QED
  BY <1>1, <1>2

LEMMA WriteBegun ==
    ASSUME NEW I, Shape(I, disk), Marked(I, InUse, disk), disk \in [Blocks -> Block],
           NEW p \in Paths, NEW data \in Payloads, NEW at \in Offsets,
           NEW c, c = Walk(disk, p), WriteError(c, Len(data), at) = 0,
           NEW K, NEW ptrs, NEW bad, NEW good, NEW rounds,
           Writing(c, data, at, K, ptrs, bad, good, rounds),
           NEW have, have = DIV_ROUND_UP(disk[c].size), NEW len, len = Len(data)
    PROVE  Begun(I, c, data, len, at, have, K, ptrs, bad, good, rounds)
<1>1. /\ len \in Nat /\ len = Len(data) /\ DOMAIN data = 1..len /\ data \in Seq(Bytes)
      /\ at \in Nat /\ MAX_FILE \in Nat
  <2>1. MAX_FILE \in Nat
    BY SizesAssumption DEF MAX_FILE
  <2> QED
    BY <2>1, PayloadFacts DEF Offsets
<1>2. ~ (c < 0) /\ disk[c].type # "dir" /\ ~ (at > disk[c].size) /\ ~ (at + len > MAX_FILE)
  BY DEF WriteError, EISDIR, EINVAL, ENOSPC, IsDir
<1>3. c \in I
  BY <1>2, PathInode
<1>4. disk[c] \in Inode /\ disk[c].type = "file"
  BY <1>2, <1>3, PointersFacts DEF Shape, Inodal
<1>5. disk[c].size \in 0..MAX_FILE /\ at =< disk[c].size /\ at + len =< MAX_FILE
  <2>1. disk[c].size \in 0..MAX_FILE
    BY <1>4 DEF Inode
  <2> QED
    BY <1>1, <1>2, <2>1
<1>6. /\ K = Touched(len, at) /\ ptrs = WrittenPtrs(c, len, at)
      /\ Good(ptrs, K, bad, good) /\ AllRounds(rounds, c, ptrs, good, data, at)
  BY <1>1 DEF Writing
<1>7. have = DIV_ROUND_UP(disk[c].size) /\ disk \in [Blocks -> Block] /\ data \in Payloads
      /\ Shape(I, disk) /\ Marked(I, InUse, disk)
  OBVIOUS
<1>8. have \in Nat /\ Allotted(ptrs, c, have, K)
  BY ONLY <1>1, <1>4, <1>6, <1>7, WrittenFacts
<1>9. K \subseteq Ptrs
  BY ONLY <1>1, <1>6, TouchedFacts
<1>10. good \subseteq K /\ (bad = {} => good = K) /\ Convex(good) /\ Positive(ptrs, good)
  BY ONLY <1>1, <1>6, GoodFacts
<1>11. \A k \in good : ptrs[k] \in Blocks
  BY ONLY <1>3, <1>4, <1>7, <1>8, <1>9, <1>10, GoodBlocks
<1>12. Len(rounds) \in Nat /\ (\E S : rounds \in Seq(S)) /\ Rounds(rounds, ptrs, good, have)
  BY ONLY <1>6, <1>7, <1>8, <1>10, <1>11, RoundsFacts
<1> QED
  BY ONLY <1>1, <1>3, <1>4, <1>5, <1>6, <1>7, <1>8, <1>9, <1>10, <1>12 DEF Begun

\* Unless the history says so, what it allocates is not in use.
LEMMA WriteReady ==
    ASSUME NEW I, Shape(I, disk), Marked(I, InUse, disk),
           NEW c, NEW data, NEW len, NEW at, NEW have, NEW K, NEW ptrs, NEW bad, NEW good, NEW rounds,
           Begun(I, c, data, len, at, have, K, ptrs, bad, good, rounds),
           \A j \in 1..Len(rounds) : rounds[j].op = "set" => rounds[j].blk \notin loose
    PROVE  Ready(I, c, data, len, at, have, K, ptrs, bad, good, rounds)
<1>1. /\ c \in I /\ disk[c].type = "file" /\ have \in Nat /\ have = DIV_ROUND_UP(disk[c].size)
      /\ K \subseteq Ptrs /\ Allotted(ptrs, c, have, K) /\ good \subseteq K /\ Positive(ptrs, good)
      /\ Rounds(rounds, ptrs, good, have)
  BY DEF Begun
<1>2. Unused(ptrs, have, good)
  BY <1>1, UnusedBlocks
<1>3. Shape(I, disk) /\ Marked(I, InUse, disk)
  OBVIOUS
<1>4. Apart(I, ptrs, good)
  BY ONLY <1>1, <1>2, <1>3, SafeRounds
<1> QED
  BY <1>2, <1>4 DEF Ready

\* When a block could not be allocated, the ones before it have taken the last.
LEMMA NoBlockLeft ==
    ASSUME NEW I, Shape(I, disk), NEW c, NEW data, NEW len, NEW at, NEW have, NEW K, NEW ptrs,
           NEW bad, NEW good, NEW rounds,
           Begun(I, c, data, len, at, have, K, ptrs, bad, good, rounds),
           ptrs = WrittenPtrs(c, len, at), bad # {}
    PROVE  3..(BITMAP_BITS - 1) \subseteq MarkedAfter(bitmap, rounds, Len(rounds))
<1>1. /\ len \in Nat /\ at \in Nat /\ disk[c].size \in 0..MAX_FILE /\ at =< disk[c].size
      /\ at + len =< MAX_FILE /\ have = DIV_ROUND_UP(disk[c].size) /\ have \in Nat
      /\ K = Touched(len, at) /\ K \subseteq Ptrs /\ c \in I /\ disk[c].type = "file"
      /\ bad = {k \in K : ptrs[k] < 0} /\ good = {k \in K : \A j \in bad : k < j}
      /\ Rounds(rounds, ptrs, good, have) /\ Len(rounds) \in Nat
  BY DEF Begun, Good
<1>2. Ptrs \subseteq Nat
  BY SizesAssumption DEF Ptrs
<1>3. PICK f : /\ Allocates(f, c, have)
               /\ ptrs = [k \in Ptrs |-> IF k \in K THEN f[k] ELSE disk[c].ptrs[k]]
  <2>1. DIV_ROUND_UP(disk[c].size) \in Nat
    BY <1>1
  <2>2. \E f : /\ Allocates(f, c, DIV_ROUND_UP(disk[c].size))
               /\ WrittenPtrs(c, len, at) =
                     [k \in Ptrs |-> IF k \in Touched(len, at) THEN f[k] ELSE disk[c].ptrs[k]]
    BY <2>1, FreshDefined
  <2>3. ptrs = WrittenPtrs(c, len, at) /\ have = DIV_ROUND_UP(disk[c].size) /\ K = Touched(len, at)
    BY <1>1
  <2> QED
    BY ONLY <2>2, <2>3, Zenon
<1>4. \A k \in K : ptrs[k] = f[k]
  BY ONLY <1>1, <1>3
<1>5. PICK l : l = Lowest(bad)
  OBVIOUS
<1>6. l \in bad /\ \A j \in bad : l =< j
  BY <1>1, <1>2, <1>5, LowestIn
<1>7. l \in K /\ l \in Nat /\ l \in Ptrs /\ f[l] < 0
  BY <1>1, <1>2, <1>4, <1>6
<1>8. ~ (l < have)
  <2>1. SUFFICES ASSUME l < have PROVE FALSE
    OBVIOUS
  <2>2. l \in Pointers(disk[c])
    BY <1>1, <1>7, <2>1 DEF Pointers
  <2>3. disk[c].ptrs[l] \in Blocks
    BY <1>1, <2>2 DEF Shape, Inodal
  <2>4. f[l] = disk[c].ptrs[l]
    BY <1>3, <1>7, <2>1 DEF Allocates
  <2> QED
    BY <1>7, <2>3, <2>4, SizesAssumption DEF Blocks
<1>9. PICK map : map = bitmap \cup {f[j] : j \in have..(l - 1)}
  OBVIOUS
<1>10. f[l] = alloc_blk(map)
  BY <1>3, <1>7, <1>8, <1>9, Zenon DEF Allocates
<1>11. 3..(BITMAP_BITS - 1) \subseteq map
  <2>1. PICK free : free = 3..(BITMAP_BITS - 1) \ map
    OBVIOUS
  <2>2. SUFFICES ASSUME free # {} PROVE FALSE
    BY <2>1
  <2>3. free \subseteq Nat
    BY <2>1, SizesAssumption
  <2>4. alloc_blk(map) = Lowest(free)
    BY <2>1, <2>2 DEF alloc_blk
  <2>5. Lowest(free) \in free
    BY <2>2, <2>3, LowestIn
  <2>6. f[l] \in Nat
    BY <1>10, <2>3, <2>4, <2>5
  <2> QED
    BY <1>7, <2>6
<1>12. ASSUME NEW j \in have..(l - 1) PROVE j \in good
  <2>1. j \in Nat /\ ~ (j < have) /\ j < l
    BY <1>1, <1>7
  <2>2. PICK size2 : size2 = IF at + len > disk[c].size THEN at + len ELSE disk[c].size
    OBVIOUS
  <2>3. PICK have2 : have2 = DIV_ROUND_UP(size2)
    OBVIOUS
  <2>4. /\ have2 \in Nat /\ K \subseteq 0..(have2 - 1)
        /\ \A k \in 0..(have2 - 1) : ~ (k < have) => k \in K
    <3>1. PICK size \in 0..MAX_FILE : size = disk[c].size
      BY <1>1
    <3>2. /\ len \in Nat /\ at \in Nat /\ at =< size /\ at + len =< MAX_FILE
          /\ size2 = (IF at + len > size THEN at + len ELSE size)
          /\ have = DIV_ROUND_UP(size)
      BY ONLY <1>1, <2>2, <3>1
    <3>3. /\ have2 \in Nat /\ Touched(len, at) \subseteq 0..(have2 - 1)
          /\ \A k \in 0..(have2 - 1) : ~ (k < have) => k \in Touched(len, at)
      BY ONLY <2>3, <3>2, size \in 0..MAX_FILE, GrowFacts
    <3> QED
      BY ONLY <1>1, <3>3
  <2>5. l \in 0..(have2 - 1)
    BY <1>7, <2>4
  <2>6. j \in 0..(have2 - 1)
    BY <1>7, <2>1, <2>4, <2>5
  <2>7. j \in K
    BY <2>1, <2>4, <2>6
  <2>8. ASSUME NEW k \in bad PROVE j < k
    <3>1. k \in Nat /\ l =< k
      BY <1>1, <1>2, <1>6
    <3> QED
      BY <1>7, <2>1, <3>1
  <2> QED
    BY <1>1, <2>7, <2>8
<1>13. ASSUME NEW b \in 3..(BITMAP_BITS - 1) PROVE b \in MarkedAfter(bitmap, rounds, Len(rounds))
  <2>1. b \in Blocks
    BY SizesAssumption DEF Blocks
  <2>2. \A i \in 1..Len(rounds) : rounds[i].op = "clear" => rounds[i].blk # b
    BY <1>1 DEF Rounds
  <2>3. b \in bitmap \/ \E i \in 1..Len(rounds) : rounds[i].op = "set" /\ rounds[i].blk = b
    <3>1. CASE b \in bitmap
      BY <3>1
    <3>2. CASE b \notin bitmap
      <4>1. PICK j \in have..(l - 1) : b = f[j]
        BY <1>9, <1>11, <3>2
      <4>2. j \in good /\ ~ (j < have) /\ b = ptrs[j]
        BY <1>1, <1>4, <1>7, <1>12, <4>1
      <4> QED
        BY <1>1, <4>2, SMTT(30) DEF Rounds
    <3> QED
      BY <3>1, <3>2
  <2> QED
    BY ONLY <1>1, <2>1, <2>2, <2>3, MarkSet
<1> QED
  BY <1>13

\* The tree is as it was but for the bytes of one file.
Rewritten(I, c, image) ==
    /\ Shape(I, image)
    /\ \A b \in I : /\ image[b].type = disk[b].type
                    /\ disk[b].type = "dir" => Entries(image, b) = Entries(disk, b)
    /\ \A b \in I \ {c} : NodeOf(image, b) = NodeOf(disk, b)
    /\ image[c].perm = disk[c].perm

LEMMA OthersLaid ==
    ASSUME NEW I, Shape(I, disk), NEW c \in I, disk[c].type = "file",
           NEW image, Shape(I, image), \A b \in I \ {c} : image[b] = disk[b],
           image[c].type = "file", image[c].perm = disk[c].perm,
           NEW ptrs, NEW good, Private(I, c, ptrs, good), NEW W, W \subseteq good, NEW data, NEW at,
           Laid(image, c, ptrs, W, data, at)
    PROVE  Rewritten(I, c, image)
<1>1. ASSUME NEW b \in I \ {c}, NEW k \in Pointers(disk[b])
      PROVE  image[disk[b].ptrs[k]] = disk[disk[b].ptrs[k]]
  <2>1. disk[b].ptrs[k] \in Blocks \ {c}
    BY DEF Shape, Inodal
  <2>2. \A l \in W : ptrs[l] # disk[b].ptrs[k]
    BY DEF Private
  <2> QED
    BY <2>1, <2>2 DEF Laid
<1>2. \A b \in I \ {c} : /\ NodeOf(image, b) = NodeOf(disk, b) /\ image[b].type = disk[b].type
                         /\ disk[b].type = "dir" => Entries(image, b) = Entries(disk, b)
  BY <1>1, OtherNodes
<1> QED
  BY <1>2 DEF Rewritten

\* The new bytes: n bytes of the data over what there was.
Tears(c, image, data, at, n, m) ==
    NodeOf(image, c).data = Blend(NodeOf(disk, c).data, data, at, n, m)

\* The process dies on the way: a first part of the data is in the file.
LEMMA CutImage ==
    ASSUME NEW I, I \subseteq Blocks, Shape(I, disk), Marked(I, InUse, disk),
           NEW c, NEW data, NEW len, NEW at, NEW have, NEW K, NEW ptrs, NEW bad, NEW good, NEW rounds,
           Ready(I, c, data, len, at, have, K, ptrs, bad, good, rounds),
           NEW m \in 0..Len(rounds), NEW s, Begins(s, m, rounds),
           NEW image, image = block_write(disk, s, m)
    PROVE  Rewritten(I, c, image) /\ \E n \in 0..len : Tears(c, image, data, at, n, disk[c].size)
<1> USE DEF Ready, Begun
<1>1. PICK W : Lower(W, good) /\ Paced(rounds, m, ptrs, W, data, at)
  <2>1. /\ have \in Nat /\ have = DIV_ROUND_UP(disk[c].size) /\ Convex(good)
        /\ AllRounds(rounds, c, ptrs, good, data, at) /\ m \in 0..Len(rounds)
    OBVIOUS
  <2> QED
    BY ONLY <2>1, RoundsPaced
<1>2. m \in Nat /\ \A i \in 1..m : i \in 1..Len(rounds)
  OBVIOUS
<1>3. \A i \in 1..m : s[i] = rounds[i]
  BY DEF Begins
<1>4. Lays(s, m, c, ptrs, W, data, at)
  BY ONLY <1>1, <1>3 DEF Lays, Paced
<1>5. PICK H : H = 0..(have - 1)
  OBVIOUS
<1>6. /\ Distinct(ptrs, good) /\ Separate(ptrs, good, H) /\ Private(I, c, ptrs, good)
      /\ Elsewhere(ptrs, good, c) /\ Keeps(c, ptrs, H)
  <2>1. /\ Shape(I, disk) /\ Marked(I, InUse, disk) /\ c \in I /\ disk[c].type = "file"
        /\ have \in Nat /\ have = DIV_ROUND_UP(disk[c].size) /\ K \subseteq Ptrs
        /\ Allotted(ptrs, c, have, K) /\ good \subseteq K /\ Positive(ptrs, good)
        /\ Unused(ptrs, have, good)
    OBVIOUS
  <2> QED
    BY ONLY <1>5, <2>1, WriteTargets
<1>7. W \subseteq good /\ W \subseteq K
  BY <1>1 DEF Lower
<1>8. Distinct(ptrs, W) /\ Separate(ptrs, W, H) /\ Elsewhere(ptrs, W, c)
  BY <1>6, <1>7 DEF Distinct, Separate, Elsewhere
<1>9. Laid(image, c, ptrs, W, data, at)
  <2>1. image = block_write(disk, s, m)
    OBVIOUS
  <2> QED
    BY ONLY <1>2, <1>4, <1>8, <2>1, LaidDown
<1>10. /\ Shape(I, image) /\ \A b \in I : image[b] = disk[b]
  <2>1. \A i \in 1..m : s[i].op = "put" => \E k \in good : s[i].blk = ptrs[k]
    BY <1>2, <1>3, SMTT(30) DEF Rounds
  <2>2. \A b \in I : image[b] = disk[b]
    <3>1. ASSUME NEW b \in I PROVE \A i \in 1..m : s[i].op = "put" => s[i].blk # b
      BY <2>1 DEF Apart
    <3> QED
      BY <1>2, <3>1, BlockLeft
  <2>3. ASSUME NEW b \in I, disk[b].type = "dir" PROVE image[disk[b].ptrs[0]] = disk[disk[b].ptrs[0]]
    <3>1. disk[b].ptrs[0] \in Blocks
      BY <2>3, DirFacts
    <3>2. \A i \in 1..m : s[i].op = "put" => s[i].blk # disk[b].ptrs[0]
      BY <2>1, <2>3 DEF Apart
    <3> QED
      BY <1>2, <3>1, <3>2, BlockLeft
  <2> QED
    BY <2>2, <2>3, Untouched
<1>11. Rewritten(I, c, image)
  <2>1. /\ Shape(I, disk) /\ c \in I /\ disk[c].type = "file" /\ image[c].type = "file"
        /\ image[c].perm = disk[c].perm /\ \A b \in I \ {c} : image[b] = disk[b]
    BY <1>10
  <2> QED
    BY ONLY <1>6, <1>7, <1>9, <1>10, <2>1, OthersLaid
<1>12. Lower(W, K)
  <2>1. K \subseteq Nat
    BY SizesAssumption DEF Ptrs
  <2>2. ASSUME NEW k \in W, NEW j \in K, j < k PROVE j \in W
    <3>1. k \in good /\ k \in Nat /\ j \in Nat
      BY <1>7, <2>1
    <3>2. \A l \in bad : l \in Nat /\ k < l
      BY <2>1, <3>1 DEF Good
    <3>3. \A l \in bad : j < l
      BY <2>2, <3>1, <3>2
    <3>4. j \in good
      BY <3>3 DEF Good
    <3> QED
      BY <1>1, <2>2, <3>4 DEF Lower
  <2> QED
    BY <1>7, <2>2 DEF Lower
<1>13. PICK n \in 0..len : Stretch(W, n, len, at)
  <2>1. len \in Nat /\ at \in Nat /\ at + len =< MAX_FILE /\ K = Touched(len, at)
    OBVIOUS
  <2> QED
    BY ONLY <1>12, <2>1, Stretches
<1>14. PICK old : old = NodeOf(disk, c).data
  OBVIOUS
<1>15. PICK size : size = disk[c].size
  OBVIOUS
<1>16. size \in Nat
  BY <1>15, SizesAssumption DEF MAX_FILE
<1>17. Points(image, c, ptrs, size) /\ Sized(size, at, n, size)
  BY <1>6, <1>10, <1>15, <1>16 DEF Keeps, Points, Sized
<1>18. NodeOf(image, c).data = Blend(old, data, at, n, size)
  <2>1. /\ len \in Nat /\ DOMAIN data = 1..len /\ at \in Nat /\ disk[c].type = "file"
        /\ image[c].type = "file" /\ size = image[c].size /\ at =< size /\ n \in 0..len
    BY <1>10, <1>15, <1>16
  <2>2. Covers(image, c, ptrs, W, data, len, at, n, H, size, size)
    BY ONLY <1>6, <1>8, <1>9, <1>13, <1>15, <1>16, <1>17, <2>1 DEF Covers
  <2> QED
    BY ONLY <1>14, <2>2, LaidData
<1> QED
  BY <1>11, <1>14, <1>15, <1>18 DEF Tears

\* The write returns: the data is in the file.
LEMMA FullImage ==
    ASSUME NEW I, I \subseteq Blocks, Shape(I, disk), Marked(I, InUse, disk),
           NEW c, NEW data, NEW len, NEW at, NEW have, NEW K, NEW ptrs, NEW bad, NEW good, NEW rounds,
           Ready(I, c, data, len, at, have, K, ptrs, bad, good, rounds), bad = {},
           NEW size2, size2 = Longer(at + len, disk[c].size), NEW new, Updated(new, c, ptrs, size2),
           NEW r, NEW writes, Extends(writes, r, rounds, c, new),
           NEW image, image = block_write(disk, writes, r + 1)
    PROVE  Rewritten(I, c, image) /\ Tears(c, image, data, at, len, size2)
<1> USE DEF Ready, Begun
<1>0. good = K
  OBVIOUS
<1>1. r \in Nat /\ r = Len(rounds)
  BY DEF Extends
<1>2. Lower(K, K) /\ Paced(rounds, r, ptrs, K, data, at)
  <2>1. /\ have \in Nat /\ have = DIV_ROUND_UP(disk[c].size) /\ Convex(K)
        /\ AllRounds(rounds, c, ptrs, K, data, at)
    BY <1>0, Zenon
  <2>2. r \in 0..Len(rounds)
    BY ONLY <1>1
  <2>3. PICK W : /\ Lower(W, K) /\ Paced(rounds, r, ptrs, W, data, at)
                 /\ r = Len(rounds) => W = K
    BY ONLY <2>1, <2>2, RoundsPaced
  <2> QED
    BY <1>1, <2>3
<1>3. /\ r + 1 \in Nat /\ r + 1 \in 1..(r + 1)
      /\ \A i \in 1..(r + 1) : i \in 1..r \/ i = r + 1
      /\ \A i \in 1..r : i \in 1..(r + 1)
  BY <1>1
<1>4. (\A i \in 1..r : writes[i] = rounds[i]) /\ writes[r + 1].blk = c
  BY DEF Extends
<1>5. Lays(writes, r + 1, c, ptrs, K, data, at)
  <2>1. ASSUME NEW j \in 1..(r + 1), writes[j].op = "put"
        PROVE  writes[j].blk = c \/ \E k \in K : writes[j] = Laying(k, ptrs, data, at)
    BY <1>2, <1>3, <1>4, <2>1 DEF Paced
  <2>2. ASSUME NEW k \in K PROVE \E j \in 1..(r + 1) : writes[j] = Laying(k, ptrs, data, at)
    BY <1>2, <1>3, <1>4 DEF Paced
  <2> QED
    BY <2>1, <2>2 DEF Lays
<1>6. PICK H : H = 0..(have - 1)
  OBVIOUS
<1>7. /\ Distinct(ptrs, K) /\ Separate(ptrs, K, H) /\ Private(I, c, ptrs, K)
      /\ Elsewhere(ptrs, K, c) /\ Keeps(c, ptrs, H)
  <2>1. /\ Shape(I, disk) /\ Marked(I, InUse, disk) /\ c \in I /\ disk[c].type = "file"
        /\ have \in Nat /\ have = DIV_ROUND_UP(disk[c].size) /\ K \subseteq Ptrs
        /\ Allotted(ptrs, c, have, K) /\ K \subseteq K /\ Positive(ptrs, K) /\ Unused(ptrs, have, K)
    BY <1>0
  <2> QED
    BY ONLY <1>6, <2>1, WriteTargets
<1>8. Laid(image, c, ptrs, K, data, at)
  <2>1. image = block_write(disk, writes, r + 1)
    OBVIOUS
  <2>2. PICK n : n = r + 1
    OBVIOUS
  <2>3. n \in Nat /\ Lays(writes, n, c, ptrs, K, data, at) /\ image = block_write(disk, writes, n)
    BY <1>3, <1>5, <2>1, <2>2
  <2> QED
    BY ONLY <1>7, <2>3, LaidDown
<1>9. PICK size : size = disk[c].size
  OBVIOUS
<1>10. /\ size \in Nat /\ MAX_FILE \in Nat /\ size2 \in Nat /\ size2 \in 0..MAX_FILE /\ at =< size
       /\ size2 = IF at + len > size THEN at + len ELSE size
  <2>1. MAX_FILE \in Nat
    BY SizesAssumption, SMTT(30) DEF MAX_FILE
  <2> QED
    BY <1>9, <2>1 DEF Longer
<1>11. new \in Inode /\ new.type = "file" /\ new.size = size2 /\ new.ptrs = ptrs
  <2>1. /\ Shape(I, disk) /\ Marked(I, InUse, disk) /\ c \in I /\ disk[c].type = "file"
        /\ have \in Nat /\ have = DIV_ROUND_UP(disk[c].size) /\ K \subseteq Ptrs
        /\ Allotted(ptrs, c, have, K) /\ Positive(ptrs, K) /\ Updated(new, c, ptrs, size2)
    BY <1>0
  <2> QED
    BY ONLY <1>10, <2>1, WrittenInode
<1>12. new.perm = disk[c].perm
  BY DEF Updated, Inode
<1>13. PICK map : map = MarkedAfter(InUse, writes, r + 1)
  OBVIOUS
<1>14. Larger(I, map, image, c, new)
  <2>1. /\ I \subseteq Blocks /\ Shape(I, disk) /\ Marked(I, InUse, disk)
        /\ c \in I /\ disk[c].type = "file" /\ len \in Nat /\ at \in Nat
        /\ at =< disk[c].size /\ at + len =< MAX_FILE
        /\ K = Touched(len, at) /\ have = DIV_ROUND_UP(disk[c].size)
        /\ Written(ptrs, c, have, K) /\ Positive(ptrs, K) /\ Rounds(rounds, ptrs, K, have)
    BY <1>0 DEF Written
  <2>2. /\ new.size = IF at + len > disk[c].size THEN at + len ELSE disk[c].size
        /\ Extends(writes, r, rounds, c, new) /\ image = block_write(disk, writes, r + 1)
    BY <1>9, <1>10, <1>11
  <2> QED
    BY ONLY <1>1, <1>11, <1>13, <2>1, <2>2, WrittenGrows
<1>15. Shape(I, image) /\ image[c] = new /\ \A b \in I \ {c} : image[b] = disk[b]
  BY <1>14 DEF Larger
<1>16. Rewritten(I, c, image)
  <2>1. /\ Shape(I, disk) /\ c \in I /\ disk[c].type = "file" /\ image[c].type = "file"
        /\ image[c].perm = disk[c].perm /\ K \subseteq K
    BY <1>11, <1>12, <1>15
  <2> QED
    BY ONLY <1>7, <1>8, <1>15, <2>1, OthersLaid
<1>17. Stretch(K, len, len, at)
  <2>1. len \in Nat /\ at \in Nat /\ at + len =< MAX_FILE /\ K = Touched(len, at)
    OBVIOUS
  <2> QED
    BY ONLY <1>2, <2>1, Stretches
<1>18. Sized(size, at, len, size2) /\ len \in 0..len
  BY <1>10 DEF Sized
<1>19. Points(image, c, ptrs, size2)
  BY <1>11, <1>15 DEF Points
<1>20. Covers(image, c, ptrs, K, data, len, at, len, H, size, size2)
  <2>1. /\ len \in Nat /\ DOMAIN data = 1..len /\ at \in Nat /\ disk[c].type = "file"
        /\ image[c].type = "file" /\ size2 = image[c].size
    BY <1>11, <1>15
  <2> QED
    BY ONLY <1>7, <1>8, <1>9, <1>10, <1>17, <1>18, <1>19, <2>1 DEF Covers
<1>21. PICK old : old = NodeOf(disk, c).data
  OBVIOUS
<1>22. NodeOf(image, c).data = Blend(old, data, at, len, size2)
  BY ONLY <1>20, <1>21, LaidData
<1> QED
  BY <1>16, <1>21, <1>22 DEF Tears

\* In the tree: one file has other bytes.
LEMMA TreeRewritten ==
    ASSUME NEW I, Shape(I, disk), Fit(disk), tree = TreeOf(disk), NEW p \in Paths,
           NEW c \in I, c = Walk(disk, p), disk[c].type = "file",
           NEW image, Rewritten(I, c, image), NEW data, data = NodeOf(image, c).data
    PROVE  Fit(image) /\ TreeOf(image) = [tree EXCEPT ![p].data = data]
<1> USE DEF Rewritten
<1>1. PICK node : node = NodeOf(image, c)
  OBVIOUS
<1>2. /\ p \in DOMAIN tree /\ tree[p] = NodeOf(disk, c)
      /\ TreeOf(image) = [tree EXCEPT ![p] = node] /\ Fit(image)
  BY <1>1, TreeChanged
<1>3. /\ NodeOf(image, c) = [type |-> "file", perm |-> disk[c].perm, data |-> NodeOf(image, c).data]
      /\ NodeOf(disk, c) = [type |-> "file", perm |-> disk[c].perm, data |-> NodeOf(disk, c).data]
  BY DEF NodeOf
<1>4. node = [tree[p] EXCEPT !.data = data]
  BY <1>1, <1>2, <1>3
<1> QED
  BY <1>2, <1>4

LEMMA FileSize ==
    ASSUME NEW I, Shape(I, disk), tree = TreeOf(disk), NEW p \in Paths, NEW c \in I,
           c = Walk(disk, p), disk[c].type = "file"
    PROVE  /\ Tree!Size(p) = disk[c].size /\ disk[c].size \in Nat
           /\ tree[p].data = NodeOf(disk, c).data
           /\ \E S : NodeOf(disk, c).data \in Seq(S)
           /\ Len(NodeOf(disk, c).data) = disk[c].size
<1>1. tree[p] = NodeOf(disk, c) /\ disk[c].size \in 0..MAX_FILE
  BY Vocabulary
<1>2. PICK size \in Nat : size = disk[c].size
  BY <1>1, SizesAssumption DEF MAX_FILE
<1>3. PICK data : data = NodeOf(disk, c).data
  OBVIOUS
<1>4. data = [i \in 1..size |-> FileByte(disk, c, i - 1)]
  BY <1>2, <1>3 DEF NodeOf
<1>5. PICK S : S = {FileByte(disk, c, i - 1) : i \in 1..size}
  OBVIOUS
<1>6. data \in [1..size -> S]
  BY <1>4, <1>5
<1>7. data \in Seq(S) /\ Len(data) = size
  BY <1>6
<1> QED
  BY <1>1, <1>2, <1>3, <1>7 DEF Tree!Size

LEMMA WriteRefused ==
    ASSUME TreeInv, tree' = TreeOf(disk'), NEW I, Shape(I, disk), NEW p \in Paths,
           NEW data \in Payloads, NEW at \in Nat, NEW call, NEW c, c = Walk(disk, p),
           Refuse(call, WriteError(c, Len(data), at))
    PROVE  Tree!Write(p, data, at)
<1>1. PICK code : code = WriteError(c, Len(data), at)
  OBVIOUS
<1>2. code < 0 /\ \A codes : code \in codes => Tree!Fails(codes)
  BY <1>1, Refused
<1>3. tree = TreeOf(disk)
  BY DEF TreeInv
<1>4. /\ c \in Int /\ (~ (c < 0) <=> c \in I) /\ (Tree!Exists(p) <=> c \in I)
      /\ Tree!IsDir(p) <=> c \in I /\ disk[c].type = "dir"
      /\ Tree!IsFile(p) <=> c \in I /\ disk[c].type = "file"
      /\ c \in I => disk[c].type \in {"file", "dir"}
  BY <1>3, Vocabulary
<1>5. CASE c < 0
  <2>1. code = c
    BY <1>1, <1>5 DEF WriteError
  <2>2. c = Tree!PathError(p)
    BY <1>3, <1>4, <1>5, PathErrorIs
  <2>3. Tree!Fails({Tree!PathError(p)})
    BY <1>2, <2>1, <2>2
  <2> QED
    BY <1>4, <1>5, <2>3 DEF Tree!Write
<1>6. CASE ~ (c < 0) /\ disk[c].type = "dir"
  <2>1. code = -Tree!EISDIR
    BY <1>1, <1>6 DEF WriteError, IsDir, EISDIR, Tree!EISDIR
  <2>2. Tree!Fails({-Tree!EISDIR})
    BY <1>2, <2>1
  <2> QED
    BY <1>4, <1>6, <2>2 DEF Tree!Write
<1>7. CASE ~ (c < 0) /\ disk[c].type # "dir"
  <2>1. c \in I /\ disk[c].type = "file"
    BY <1>4, <1>7
  <2>2. Tree!Size(p) = disk[c].size /\ disk[c].size \in Nat
    BY <1>3, <2>1, FileSize
  <2>3. CASE at > disk[c].size
    <3>1. code = -Tree!EINVAL
      BY <1>1, <1>7, <2>3 DEF WriteError, IsDir, EINVAL, Tree!EINVAL
    <3>2. Tree!Fails({-Tree!EINVAL})
      BY <1>2, <3>1
    <3> QED
      BY <1>4, <2>1, <2>2, <2>3, <3>2 DEF Tree!Write
  <2>4. CASE ~ (at > disk[c].size)
    <3>1. code = -Tree!ENOSPC
      BY <1>1, <1>2, <1>7, <2>4 DEF WriteError, IsDir, ENOSPC, Tree!ENOSPC
    <3>2. Tree!Fails({-Tree!ENOSPC}) /\ at =< Tree!Size(p)
      BY <1>2, <2>2, <2>4, <3>1
    <3> QED
      BY <1>4, <2>1, <3>2 DEF Tree!Write
  <2> QED
    BY <2>3, <2>4
<1> QED
  BY <1>5, <1>6, <1>7

LEMMA WriteDone ==
    ASSUME TreeInv, up, tree' = TreeOf(disk'), NEW I, I \subseteq Blocks, Shape(I, disk),
           Marked(I, InUse, disk), NEW p \in Paths,
           NEW c, c = Walk(disk, p), NEW data, NEW len, NEW at, NEW have, NEW K, NEW ptrs, NEW bad,
           NEW good, NEW rounds, Ready(I, c, data, len, at, have, K, ptrs, bad, good, rounds), bad = {},
           NEW size2, size2 = Longer(at + len, disk[c].size), NEW new, Updated(new, c, ptrs, size2),
           NEW r, NEW writes, Extends(writes, r, rounds, c, new),
           NEW call, Done(call, len, writes, r + 1)
    PROVE  Fit(disk') /\ returned'.call = call /\ Tree!Write(p, data, at)
<1>1. PICK image : image = disk'
  OBVIOUS
<1>2. image = block_write(disk, writes, r + 1) /\ up' = TRUE /\ returned' = [call |-> call, code |-> len]
  BY <1>1 DEF Done
<1>3. Rewritten(I, c, image) /\ Tears(c, image, data, at, len, size2)
  <2>1. /\ I \subseteq Blocks /\ Shape(I, disk) /\ Marked(I, InUse, disk)
        /\ Ready(I, c, data, len, at, have, K, ptrs, bad, good, rounds) /\ bad = {}
        /\ size2 = Longer(at + len, disk[c].size) /\ Updated(new, c, ptrs, size2)
        /\ Extends(writes, r, rounds, c, new)
    OBVIOUS
  <2> QED
    BY ONLY <1>2, <2>1, FullImage
<1>4. tree = TreeOf(disk) /\ Fit(disk)
  BY DEF TreeInv
<1>5. /\ c \in I /\ disk[c].type = "file" /\ len \in Nat /\ len = Len(data) /\ at \in Nat
      /\ at =< disk[c].size /\ at + len =< MAX_FILE
  BY DEF Ready, Begun
<1>6. /\ Tree!Size(p) = disk[c].size /\ disk[c].size \in Nat
      /\ tree[p].data = NodeOf(disk, c).data /\ Len(NodeOf(disk, c).data) = disk[c].size
  BY <1>4, <1>5, FileSize
<1>7. PICK old : old = NodeOf(disk, c).data
  OBVIOUS
<1>8. PICK bytes : bytes = NodeOf(image, c).data
  OBVIOUS
<1>9. bytes = Tree!Spliced(old, data, at)
  <2>1. bytes = Blend(old, data, at, len, size2)
    BY <1>3, <1>7, <1>8 DEF Tears
  <2>2. PICK size \in Nat : size = disk[c].size
    BY <1>6
  <2>3. Len(old) = size /\ size2 = Longer(at + len, size)
    BY <1>6, <1>7, <2>2
  <2>4. Tree!Spliced(old, data, at) = Blend(old, data, at, len, size2)
    BY ONLY <1>5, <2>3, size \in Nat DEF Tree!Spliced, Blend, Longer
  <2> QED
    BY <2>1, <2>4
<1>10. Fit(image) /\ TreeOf(image) = [tree EXCEPT ![p].data = bytes]
  BY <1>3, <1>4, <1>5, <1>8, TreeRewritten
<1>11. Tree!IsFile(p) /\ p \in DOMAIN tree
  BY <1>4, <1>5, Vocabulary DEF Tree!Exists
<1>12. tree' = [tree EXCEPT ![p].data = Tree!Spliced(@, data, at)]
  <2>1. tree' = [tree EXCEPT ![p].data = bytes]
    BY <1>1, <1>10
  <2>2. tree[p].data = old
    BY <1>6, <1>7
  <2>3. bytes = Tree!Spliced(tree[p].data, data, at)
    BY <1>9, <2>2
  <2> QED
    BY <2>1, <2>3
<1>13. Tree!Returns({Len(data)}) /\ up' = up
  BY <1>2, <1>5 DEF Tree!Returns
<1>14. Tree!Write(p, data, at)
  BY <1>5, <1>6, <1>11, <1>12, <1>13 DEF Tree!Write
<1> QED
  BY <1>1, <1>2, <1>10, <1>14

LEMMA WriteDied ==
    ASSUME TreeInv, up, tree' = TreeOf(disk'), NEW I, I \subseteq Blocks, Shape(I, disk),
           Marked(I, InUse, disk), NEW p \in Paths,
           NEW c, c = Walk(disk, p), NEW data, NEW len, NEW at, NEW have, NEW K, NEW ptrs, NEW bad,
           NEW good, NEW rounds, Ready(I, c, data, len, at, have, K, ptrs, bad, good, rounds),
           NEW m \in 0..Len(rounds), NEW s, Begins(s, m, rounds),
           disk' = block_write(disk, s, m), up' = FALSE
    PROVE  Fit(disk') /\ Tree!Tear(p, data, at)
<1>1. PICK image : image = disk'
  OBVIOUS
<1>2. image = block_write(disk, s, m) /\ up' = FALSE
  BY <1>1
<1>3. Rewritten(I, c, image) /\ \E n \in 0..len : Tears(c, image, data, at, n, disk[c].size)
  <2>1. /\ I \subseteq Blocks /\ Shape(I, disk) /\ Marked(I, InUse, disk)
        /\ Ready(I, c, data, len, at, have, K, ptrs, bad, good, rounds)
        /\ m \in 0..Len(rounds) /\ Begins(s, m, rounds)
    OBVIOUS
  <2> QED
    BY ONLY <1>2, <2>1, CutImage
<1>4. PICK n \in 0..len : Tears(c, image, data, at, n, disk[c].size)
  BY <1>3
<1>5. tree = TreeOf(disk) /\ Fit(disk)
  BY DEF TreeInv
<1>6. /\ c \in I /\ disk[c].type = "file" /\ len \in Nat /\ len = Len(data) /\ at \in Nat
      /\ at =< disk[c].size /\ data \in Seq(Bytes)
  BY DEF Ready, Begun
<1>7. /\ Tree!Size(p) = disk[c].size /\ disk[c].size \in Nat
      /\ tree[p].data = NodeOf(disk, c).data /\ Len(NodeOf(disk, c).data) = disk[c].size
  BY <1>5, <1>6, FileSize
<1>8. PICK S : NodeOf(disk, c).data \in Seq(S)
  BY <1>5, <1>6, FileSize
<1>9. PICK old : old = NodeOf(disk, c).data
  OBVIOUS
<1>10. PICK bytes : bytes = NodeOf(image, c).data
  OBVIOUS
<1>11. bytes = SubSeq(Tree!Spliced(old, SubSeq(data, 1, n), at), 1, Tree!Size(p))
  <2>1. bytes = Blend(old, data, at, n, Len(old)) /\ Len(old) = Tree!Size(p)
    BY <1>4, <1>7, <1>9, <1>10 DEF Tears
  <2>2. old \in Seq(S) /\ data \in Seq(Bytes) /\ at \in Nat /\ n \in 0..Len(data)
    BY <1>6, <1>8, <1>9
  <2>3. SubSeq(Tree!Spliced(old, SubSeq(data, 1, n), at), 1, Len(old)) =
              Blend(old, data, at, n, Len(old))
    BY ONLY <2>2, SplicedCut
  <2> QED
    BY <2>1, <2>3
<1>12. Fit(image) /\ TreeOf(image) = [tree EXCEPT ![p].data = bytes]
  BY <1>3, <1>5, <1>6, <1>10, TreeRewritten
<1>13. Tree!IsFile(p) /\ p \in DOMAIN tree
  BY <1>5, <1>6, Vocabulary DEF Tree!Exists
<1>14. tree' = [tree EXCEPT ![p].data =
                    SubSeq(Tree!Spliced(@, SubSeq(data, 1, n), at), 1, Tree!Size(p))]
  <2>1. tree' = [tree EXCEPT ![p].data = bytes]
    BY <1>1, <1>12
  <2>2. tree[p].data = old
    BY <1>7, <1>9
  <2>3. bytes = SubSeq(Tree!Spliced(tree[p].data, SubSeq(data, 1, n), at), 1, Tree!Size(p))
    BY <1>11, <2>2
  <2> QED
    BY <2>1, <2>3
<1>15. n \in 0..Len(data) /\ at =< Tree!Size(p)
  BY <1>6, <1>7
<1>16. Tree!Tear(p, data, at)
  BY <1>2, <1>13, <1>14, <1>15 DEF Tree!Tear
<1> QED
  BY <1>1, <1>12, <1>16

\* How a write ends: as it should, killed, or for want of a block.
Wrote(p, data, at) ==
    \/ Tree!Write(p, data, at)
    \/ Tree!DieInWrite(p, data, at)
    \/ /\ returned'.code = -SIGABRT /\ 3..(BITMAP_BITS - 1) \subseteq bitmap'
       /\ Tree!Tear(p, data, at)

LEMMA WriteServed ==
    ASSUME TreeInv, up, tree' = TreeOf(disk'), NEW p \in Paths, NEW data \in Payloads,
           NEW at \in Offsets, NEW call, NEW c, c = Walk(disk, p), WriteError(c, Len(data), at) = 0,
           NEW K, NEW ptrs, NEW bad, NEW good, NEW rounds,
           Writing(c, data, at, K, ptrs, bad, good, rounds),
           NEW size2, size2 = Longer(at + Len(data), disk[c].size),
           NEW new, Updated(new, c, ptrs, size2), NEW writes, writes = Append(rounds, Put(c, new)),
           \/ bad = {} /\ Commit(call, Len(data), writes)
           \/ bad # {} /\ Dies(call, -SIGABRT, rounds, Len(rounds)),
           aborted' # "reused"
    PROVE  Fit(disk') /\ returned'.call = call /\ Wrote(p, data, at)
<1>1. PICK I \in SUBSET Blocks : Shape(I, disk) /\ Marked(I, InUse, disk)
  BY TreeNow
<1>2. disk \in [Blocks -> Block]
  BY TreeNow
<1>3. PICK len : len = Len(data)
  OBVIOUS
<1>4. PICK have : have = DIV_ROUND_UP(disk[c].size)
  OBVIOUS
<1>5. Begun(I, c, data, len, at, have, K, ptrs, bad, good, rounds)
  <2>1. /\ p \in Paths /\ data \in Payloads /\ at \in Offsets /\ c = Walk(disk, p)
        /\ WriteError(c, Len(data), at) = 0 /\ Writing(c, data, at, K, ptrs, bad, good, rounds)
    OBVIOUS
  <2> QED
    BY ONLY <1>1, <1>2, <1>3, <1>4, <2>1, WriteBegun
<1>6. Len(rounds) \in Nat /\ \E S : rounds \in Seq(S)
  BY <1>5 DEF Begun
<1>7. PICK r : r = Len(rounds)
  OBVIOUS
<1>8. r \in Nat
  BY <1>6, <1>7
<1>9. /\ TreeInv /\ up /\ tree' = TreeOf(disk') /\ I \subseteq Blocks /\ p \in Paths
      /\ c = Walk(disk, p)
  OBVIOUS
<1>9a. ASSUME \A j \in 1..Len(rounds) : rounds[j].op = "set" => rounds[j].blk \notin loose
       PROVE  Ready(I, c, data, len, at, have, K, ptrs, bad, good, rounds)
  BY ONLY <1>1, <1>5, <1>9a, WriteReady
<1>10. CASE bad = {} /\ Commit(call, Len(data), writes)
  <2>1. /\ Len(writes) = r + 1
        /\ \A i \in 1..r : writes[i] = rounds[i]
        /\ writes[r + 1] = Put(c, new)
    <3>1. PICK S : rounds \in Seq(S)
      BY <1>6
    <3>2. PICK x : x = Put(c, new)
      OBVIOUS
    <3>3. writes = Append(rounds, x)
      BY <3>2
    <3>4. rounds \in Seq(S \cup {x})
      BY ONLY <3>1
    <3>5. Len(writes) = r + 1 /\ (\A i \in 1..r : writes[i] = rounds[i]) /\ writes[r + 1] = x
      BY ONLY <1>7, <3>3, <3>4
    <3> QED
      BY <3>2, <3>5
  <2>2. Extends(writes, r, rounds, c, new)
    BY <1>7, <2>1 DEF Extends, Put
  <2>2a. Ready(I, c, data, len, at, have, K, ptrs, bad, good, rounds)
    <3>1. \A i \in 1..Len(writes) : writes[i].op = "set" => writes[i].blk \notin loose
      BY <1>10, NotReused DEF TreeInv
    <3>2. \A i \in 1..Len(rounds) : i \in 1..r /\ i \in 1..(r + 1)
      BY <1>7, <1>8
    <3>3. \A j \in 1..Len(rounds) : rounds[j].op = "set" => rounds[j].blk \notin loose
      BY <2>1, <3>1, <3>2
    <3> QED
      BY <1>9a, <3>3
  <2>3. CASE Done(call, len, writes, r + 1)
    <3>1. /\ bad = {} /\ size2 = Longer(at + len, disk[c].size) /\ Updated(new, c, ptrs, size2)
      BY <1>3, <1>10
    <3>2. Fit(disk') /\ returned'.call = call /\ Tree!Write(p, data, at)
      BY ONLY <1>1, <1>9, <2>2, <2>2a, <2>3, <3>1, WriteDone
    <3> QED
      BY <3>2 DEF Wrote
  <2>4. ASSUME NEW m \in 1..((r + 1) - 1), Cut(call, writes, m)
        PROVE  Fit(disk') /\ returned'.call = call /\ Wrote(p, data, at)
    <3>1. m \in 0..Len(rounds) /\ \A i \in 1..m : i \in 1..r /\ i \in 1..Len(rounds)
      BY <1>7, <1>8
    <3>2. Begins(writes, m, rounds)
      BY <2>1, <3>1 DEF Begins
    <3>3. /\ disk' = block_write(disk, writes, m) /\ up' = FALSE
          /\ returned' = [call |-> call, code |-> -1]
      BY <2>4 DEF Cut
    <3>4. Fit(disk') /\ Tree!Tear(p, data, at)
      BY ONLY <1>1, <1>9, <2>2a, <3>1, <3>2, <3>3, WriteDied
    <3> QED
      BY <3>3, <3>4 DEF Wrote, Tree!DieInWrite, Tree!Returns
  <2>5. Done(call, len, writes, r + 1) \/ \E m \in 1..((r + 1) - 1) : Cut(call, writes, m)
    <3>1. PICK n : n = r + 1
      OBVIOUS
    <3>2. n = Len(writes) /\ Commit(call, len, writes)
      BY <1>3, <1>10, <2>1, <3>1
    <3>3. Done(call, len, writes, n) \/ \E m \in 1..(n - 1) : Cut(call, writes, m)
      BY ONLY <3>2, Committed
    <3> QED
      BY <3>1, <3>3
  <2> QED
    BY <2>3, <2>4, <2>5
<1>11. CASE bad # {} /\ Dies(call, -SIGABRT, rounds, Len(rounds))
  <2>1. /\ bitmap' = MarkedAfter(bitmap, rounds, r) /\ disk' = block_write(disk, rounds, r)
        /\ up' = FALSE /\ returned' = [call |-> call, code |-> -SIGABRT] /\ ~ Reuses(rounds, r)
    BY <1>7, <1>11 DEF Dies, Performed, Reply
  <2>2. r \in 0..Len(rounds) /\ Begins(rounds, r, rounds)
    BY <1>7, <1>8 DEF Begins
  <2>3. Ready(I, c, data, len, at, have, K, ptrs, bad, good, rounds)
    <3>1. \A j \in 1..Len(rounds) : rounds[j].op = "set" => rounds[j].blk \notin loose
      BY <1>7, <2>1 DEF Reuses
    <3> QED
      BY <1>9a, <3>1
  <2>4. Fit(disk') /\ Tree!Tear(p, data, at)
    BY ONLY <1>1, <1>9, <2>1, <2>2, <2>3, WriteDied
  <2>5. 3..(BITMAP_BITS - 1) \subseteq bitmap'
    <3>1. ptrs = WrittenPtrs(c, len, at) /\ bad # {}
      BY <1>3, <1>11 DEF Writing
    <3>2. 3..(BITMAP_BITS - 1) \subseteq MarkedAfter(bitmap, rounds, Len(rounds))
      BY ONLY <1>1, <1>5, <3>1, NoBlockLeft
    <3> QED
      BY <1>7, <2>1, <3>2
  <2> QED
    BY <2>1, <2>4, <2>5 DEF Wrote
<1> QED
  BY <1>10, <1>11

LEMMA WriteCall ==
    ASSUME TreeInv, tree' = TreeOf(disk'), NEW p \in Paths, NEW data \in Payloads, NEW at \in Offsets,
           fs_write(p, data, at), aborted' # "reused"
    PROVE  Fit(disk') /\ (Tree!Next \/ Departs)
<1> DEFINE call == [op |-> "write", path |-> p, data |-> data, at |-> at]
           c == path2inum(p)
           K == Touched(Len(data), at)
           ptrs == WrittenPtrs(c, Len(data), at)
           bad == {k \in K : ptrs[k] < 0}
           good == {k \in K : \A j \in bad : k < j}
           rounds == FlattenSeq([i \in 1..Cardinality(good) |->
                        Round(c, ptrs, Lowest(good) + i - 1, data, at)])
           size2 == IF at + Len(data) > disk[c].size THEN at + Len(data) ELSE disk[c].size
           new == [disk[c] EXCEPT !.ptrs = ptrs, !.size = size2]
           writes == Append(rounds, Put(c, new))
           Body == \/ bad = {} /\ Commit(call, Len(data), writes)
                   \/ bad # {} /\ Dies(call, -SIGABRT, rounds, Len(rounds))
<1>0. up
  BY DEF fs_write, Serving
<1>1. Refuse(call, WriteError(c, Len(data), at)) \/ (WriteError(c, Len(data), at) = 0 /\ Body)
  BY Zenon DEF fs_write
<1>2. call.op = "write" /\ call.path = p /\ call.data = data /\ call.at = at
  OBVIOUS
<1>3. c = Walk(disk, p)
  BY DEF path2inum
<1>4. ASSUME returned'.call = call, Wrote(p, data, at)
      PROVE  Tree!Next \/ Departs
  <2> HIDE DEF call
  <2>1. CASE Tree!Write(p, data, at) \/ Tree!DieInWrite(p, data, at)
    BY <1>0, <1>2, <1>4, <2>1 DEF Tree!Next, Tree!Serve
  <2>2. CASE /\ returned'.code = -SIGABRT /\ 3..(BITMAP_BITS - 1) \subseteq bitmap'
             /\ Tree!Tear(p, data, at)
    BY <1>0, <1>2, <1>4, <2>2 DEF Departs, AbortsWhenFull
  <2> QED
    BY <1>4, <2>1, <2>2 DEF Wrote
<1>5. CASE Refuse(call, WriteError(c, Len(data), at))
  <2>1. PICK call1, c1 : call1 = call /\ c1 = c
    OBVIOUS
  <2>2. c1 = Walk(disk, p) /\ Refuse(call1, WriteError(c1, Len(data), at))
    BY <1>3, <1>5, <2>1, Zenon
  <2> HIDE DEF call, c
  <2>3. Fit(disk') /\ returned'.call = call1
    BY <2>2, Refused
  <2>4. PICK I \in SUBSET Blocks : Shape(I, disk)
    BY <1>0, TreeNow
  <2>5. at \in Nat
    BY SizesAssumption DEF Offsets, MAX_FILE
  <2>6. Wrote(p, data, at)
    BY <2>2, <2>4, <2>5, WriteRefused DEF Wrote
  <2> QED
    BY <1>4, <2>1, <2>3, <2>6
<1>6. CASE WriteError(c, Len(data), at) = 0 /\ Body
  <2>1. Good(ptrs, K, bad, good)
    BY Zenon DEF Good
  <2>2. AllRounds(rounds, c, ptrs, good, data, at)
    BY Zenon DEF AllRounds
  <2>3. Updated(new, c, ptrs, size2)
    BY Zenon DEF Updated
  <2>4. /\ K = Touched(Len(data), at) /\ ptrs = WrittenPtrs(c, Len(data), at)
        /\ writes = Append(rounds, Put(c, new))
    BY Zenon
  <2>5. size2 = Longer(at + Len(data), disk[c].size)
    BY Zenon DEF Longer
  <2>6. \/ bad = {} /\ Commit(call, Len(data), writes)
        \/ bad # {} /\ Dies(call, -SIGABRT, rounds, Len(rounds))
    BY <1>6, Zenon
  <2>7. WriteError(c, Len(data), at) = 0
    BY <1>6, Zenon
  <2> HIDE DEF call, c, K, ptrs, bad, good, rounds, size2, new, writes, Body
  <2>8. Writing(c, data, at, K, ptrs, bad, good, rounds)
    BY <2>1, <2>2, <2>4, Zenon DEF Writing
  <2>9. PICK call1, c1, K1, ptrs1, bad1, good1, rounds1, size21, new1, writes1 :
           /\ call1 = call /\ c1 = c /\ K1 = K /\ ptrs1 = ptrs /\ bad1 = bad /\ good1 = good
           /\ rounds1 = rounds /\ size21 = size2 /\ new1 = new /\ writes1 = writes
    OBVIOUS
  <2>10. /\ c1 = Walk(disk, p) /\ WriteError(c1, Len(data), at) = 0
         /\ Writing(c1, data, at, K1, ptrs1, bad1, good1, rounds1)
         /\ size21 = Longer(at + Len(data), disk[c1].size)
         /\ Updated(new1, c1, ptrs1, size21)
         /\ writes1 = Append(rounds1, Put(c1, new1))
         /\ \/ bad1 = {} /\ Commit(call1, Len(data), writes1)
            \/ bad1 # {} /\ Dies(call1, -SIGABRT, rounds1, Len(rounds1))
    BY <1>3, <2>3, <2>4, <2>5, <2>6, <2>7, <2>8, <2>9, Zenon
  <2>11. TreeInv /\ up /\ tree' = TreeOf(disk') /\ p \in Paths /\ data \in Payloads /\ at \in Offsets
         /\ aborted' # "reused"
    BY <1>0
  <2>12. Fit(disk') /\ returned'.call = call1 /\ Wrote(p, data, at)
    BY ONLY <2>10, <2>11, WriteServed
  <2> QED
    BY <1>4, <2>9, <2>12
<1> QED
  BY <1>1, <1>5, <1>6

-----------------------------------------------------------------------------
(* The specification. *)

LEMMA TreeInitial == TreeInit => TreeInv /\ Tree!Init
<1> SUFFICES ASSUME TreeInit PROVE TreeInv /\ Tree!Init
  OBVIOUS
<1>1. Init /\ tree = TreeOf(disk) /\ up = TRUE /\ returned.code = 0 /\ aborted = "no"
  BY DEF TreeInit, Init
<1>2. PICK I : I = {ROOT}
  OBVIOUS
<1>3. PICK perm : perm = CHOOSE m \in Perms : TRUE
  OBVIOUS
<1>4. /\ Shape(I, disk) /\ disk[ROOT].type = "dir" /\ disk[ROOT].perm = perm
      /\ \A i \in Slots : Entries(disk, ROOT)[i] = NULL
  BY <1>1, <1>2, <1>3, InitImage
<1>5. /\ tree = [p \in DOMAIN tree |-> tree[p]]
      /\ \A p : p \in DOMAIN tree <=> p \in Paths /\ Walk(disk, p) \in I
      /\ \A p \in DOMAIN tree : tree[p] = NodeOf(disk, Walk(disk, p))
  BY <1>1, <1>4, TreeFacts
<1>6. <<>> \in Paths /\ Walk(disk, <<>>) = ROOT
  BY PathFacts, WalkRoot
<1>7. ASSUME NEW p \in Paths, Walk(disk, p) \in I PROVE p = <<>>
  BY <1>2, <1>4, <1>6, <1>7, PathsDiffer
<1>8. DOMAIN tree = {<<>>}
  BY <1>2, <1>5, <1>6, <1>7
<1>9. tree[<<>>] = Tree!Dir(perm)
  BY <1>4, <1>5, <1>6, <1>8 DEF NodeOf, Tree!Dir
<1>10. tree = [p \in {<<>>} |-> Tree!Dir(perm)]
  BY <1>5, <1>8, <1>9
<1>11. Fit(disk)
  <2>1. ASSUME NEW p \in Paths, Walk(disk, p) > 0 PROVE Walk(disk, p) = ROOT
    BY <1>2, <1>4, <2>1, PathInode
  <2> QED
    BY <1>4, <2>1 DEF Fit
<1>12. TreeInv
  BY <1>1, <1>11, InitIInv DEF TreeInv
<1>13. Tree!Init
  BY <1>1, <1>3, <1>10 DEF Tree!Init
<1> QED
  BY <1>12, <1>13

LEMMA TreeStep ==
    ASSUME TreeInv, Next, tree' = TreeOf(disk'), aborted' # "reused"
    PROVE  Fit(disk') /\ (Tree!Next \/ Departs)
<1>1. CASE fs_init
  BY <1>1, MountCall
<1>2. CASE fs_statfs
  BY <1>2, StatfsCall
<1>3. ASSUME NEW p \in Paths, fs_getattr(p) PROVE Fit(disk') /\ (Tree!Next \/ Departs)
  BY <1>3, GetattrCall
<1>4. ASSUME NEW p \in Paths, fs_readdir(p) PROVE Fit(disk') /\ (Tree!Next \/ Departs)
  BY <1>4, ReaddirCall
<1>5. ASSUME NEW p \in Paths, NEW len \in 0..MAX_WRITE, NEW off \in Offsets, fs_read(p, len, off)
      PROVE  Fit(disk') /\ (Tree!Next \/ Departs)
  <2>1. len \in Nat /\ off \in Nat
    BY SizesAssumption DEF Offsets, MAX_FILE
  <2> QED
    BY <1>5, <2>1, ReadCall
<1>6. ASSUME NEW p \in Paths, NEW dst \in Nameable, fs_rename(p, dst) PROVE Fit(disk') /\ (Tree!Next \/ Departs)
  BY <1>6, RenameCall
<1>7. ASSUME NEW p \in Paths, NEW perm \in Perms, fs_chmod(p, perm) PROVE Fit(disk') /\ (Tree!Next \/ Departs)
  BY <1>7, ChmodCall
<1>8. ASSUME NEW p \in Paths, fs_rmdir(p) PROVE Fit(disk') /\ (Tree!Next \/ Departs)
  BY <1>8, RmdirCall
<1>9. ASSUME NEW p \in Paths, NEW data \in Payloads, NEW off \in Offsets, fs_write(p, data, off)
      PROVE  Fit(disk') /\ (Tree!Next \/ Departs)
  BY <1>9, WriteCall
<1>10. ASSUME NEW p \in Paths, NEW len \in {0, 1}, fs_truncate(p, len) PROVE Fit(disk') /\ (Tree!Next \/ Departs)
  BY <1>10, TruncateCall
<1>11. ASSUME NEW p \in Paths, fs_utime(p) PROVE Fit(disk') /\ (Tree!Next \/ Departs)
  BY <1>11, UtimeCall
<1>12. ASSUME NEW p \in NonRoot, NEW perm \in Perms, fs_create(p, perm) PROVE Fit(disk') /\ (Tree!Next \/ Departs)
  BY <1>12, CreateCall
<1>13. ASSUME NEW p \in NonRoot, NEW perm \in Perms, fs_mkdir(p, perm) PROVE Fit(disk') /\ (Tree!Next \/ Departs)
  BY <1>13, MkdirCall
<1>14. ASSUME NEW p \in NonRoot, fs_unlink(p) PROVE Fit(disk') /\ (Tree!Next \/ Departs)
  BY <1>14, UnlinkCall
<1> QED
  BY <1>1, <1>2, <1>3, <1>4, <1>5, <1>6, <1>7, <1>8, <1>9, <1>10, <1>11, <1>12, <1>13, <1>14 DEF Next

\* A block that still has an owner is handed out only after a removal that was
\* cut short.
LEMMA ReuseStep ==
    ASSUME Next, aborted # "reused", aborted' = "reused"
    PROVE  Reallocates
<1>1. ASSUME NEW writes, NEW n, Reuses(writes, n) PROVE loose # {}
  BY <1>1 DEF Reuses
<1>2. ASSUME NEW call, NEW code, NEW writes, NEW n, Dies(call, code, writes, n) PROVE loose # {}
  BY <1>1, <1>2 DEF Dies
<1>3. ASSUME NEW call, NEW code, NEW writes, Commit(call, code, writes) PROVE loose # {}
  BY <1>1, <1>2, <1>3 DEF Commit
<1>4. ASSUME NEW call, NEW code, Refuse(call, code) PROVE FALSE
  BY <1>4 DEF Refuse
<1>5. ~ ReadOnly /\ ~ fs_init
  BY DEF ReadOnly, fs_init
<1>6. ~ fs_statfs
  BY <1>5 DEF fs_statfs
<1>7. ASSUME NEW p \in Paths, fs_getattr(p) \/ fs_readdir(p) \/ fs_utime(p) PROVE FALSE
  BY <1>5, <1>7, Zenon DEF fs_getattr, fs_readdir, fs_utime
<1>8. ASSUME NEW p \in Paths, NEW len, NEW off, fs_read(p, len, off) PROVE FALSE
  BY <1>5, <1>8, Zenon DEF fs_read
<1>9. ASSUME NEW p \in Paths, NEW dst, fs_rename(p, dst) PROVE loose # {}
  BY <1>3, <1>4, <1>9, Zenon DEF fs_rename
<1>10. ASSUME NEW p \in Paths, NEW perm, fs_chmod(p, perm) PROVE loose # {}
  BY <1>3, <1>4, <1>10, Zenon DEF fs_chmod
<1>11. ASSUME NEW p \in Paths, fs_rmdir(p) PROVE loose # {}
  BY <1>3, <1>4, <1>11, Zenon DEF fs_rmdir
<1>12. ASSUME NEW p \in Paths, NEW data, NEW off, fs_write(p, data, off) PROVE loose # {}
  BY <1>2, <1>3, <1>4, <1>12, Zenon DEF fs_write
<1>13. ASSUME NEW p \in Paths, NEW len, fs_truncate(p, len) PROVE loose # {}
  BY <1>3, <1>4, <1>13, Zenon DEF fs_truncate
<1>14. ASSUME NEW p, NEW perm, fs_create(p, perm) PROVE loose # {}
  BY <1>3, <1>4, <1>14, Zenon DEF fs_create
<1>15. ASSUME NEW p, NEW perm, fs_mkdir(p, perm) PROVE loose # {}
  BY <1>3, <1>4, <1>15, Zenon DEF fs_mkdir
<1>16. ASSUME NEW p, fs_unlink(p) PROVE loose # {}
  BY <1>3, <1>4, <1>16, Zenon DEF fs_unlink
<1>17. loose # {}
  BY <1>5, <1>6, <1>7, <1>8, <1>9, <1>10, <1>11, <1>12, <1>13, <1>14, <1>15, <1>16, Zenon DEF Next
<1> QED
  BY <1>17 DEF Reallocates

\* From then on no call is served, and the next process changes nothing.
LEMMA AfterReuse ==
    ASSUME Next, aborted = "reused", tree' = tree \/ disk' # disk
    PROVE  aborted' = "reused" /\ Tree!Next
<1>1. ~ Serving
  BY DEF Serving
<1>2. ~ fs_statfs /\ ~ ReadOnly
  BY <1>1 DEF fs_statfs, ReadOnly
<1>2a. ASSUME NEW p
       PROVE  /\ ~ fs_getattr(p) /\ ~ fs_readdir(p) /\ ~ fs_rmdir(p) /\ ~ fs_utime(p) /\ ~ fs_unlink(p)
              /\ \A len, off : ~ fs_read(p, len, off) /\ ~ fs_write(p, len, off)
              /\ \A x : /\ ~ fs_rename(p, x) /\ ~ fs_chmod(p, x) /\ ~ fs_truncate(p, x)
                        /\ ~ fs_create(p, x) /\ ~ fs_mkdir(p, x)
  <2>1. ~ fs_getattr(p) /\ ~ fs_readdir(p) /\ ~ fs_utime(p)
    BY <1>2, Zenon DEF fs_getattr, fs_readdir, fs_utime
  <2>2. ~ fs_rmdir(p) /\ ~ fs_unlink(p)
    BY <1>1, Zenon DEF fs_rmdir, fs_unlink
  <2>3. ASSUME NEW len, NEW off PROVE ~ fs_read(p, len, off) /\ ~ fs_write(p, len, off)
    BY <1>1, <1>2, Zenon DEF fs_read, fs_write
  <2>4. ASSUME NEW x PROVE ~ fs_rename(p, x) /\ ~ fs_chmod(p, x) /\ ~ fs_truncate(p, x)
    BY <1>1, Zenon DEF fs_rename, fs_chmod, fs_truncate
  <2>5. ASSUME NEW x PROVE ~ fs_create(p, x) /\ ~ fs_mkdir(p, x)
    BY <1>1, Zenon DEF fs_create, fs_mkdir
  <2> QED
    BY <2>1, <2>2, <2>3, <2>4, <2>5
<1>2b. fs_init
  BY <1>2, <1>2a, Zenon DEF Next
<1>3. /\ disk' = disk /\ ~ up /\ up' = TRUE /\ aborted' = aborted
      /\ returned' = [call |-> On("init", <<>>), code |-> 0]
  BY <1>2b DEF fs_init, Reply
<1>4. Tree!Mount
  BY <1>3 DEF Tree!Mount, Tree!Returns, On
<1> QED
  BY <1>3, <1>4 DEF Tree!Next

Following == IInv /\ (aborted # "reused" => TreeInv)

(***************************************************************************)
(* The handlers of fs5600.c serve a tree of files, whatever the sizes of   *)
(* the image, of a block, of an inode and of a directory are: what a call  *)
(* answers is what the tree has, a file keeps exactly the bytes written to *)
(* it, and a process that is killed in a call has changed the tree as the  *)
(* call would or not at all, but for the bytes that a write was            *)
(* overwriting; the next process mounts that image and serves its tree.    *)
(* The only other steps are the departures from the notes of fs5600.c that *)
(* Departs names, and a block is given a second owner by none of them      *)
(* unless a removal was cut short before.                                  *)
(***************************************************************************)
THEOREM FilesImplementTree == TreeSpec => ImplementsTree
<1>1. TreeInit => Following /\ Tree!Init
  BY TreeInitial DEF Following, TreeInv
<1>2. ASSUME Following, [TreeNext]_<<vars, tree>>
      PROVE  Following' /\ [Tree!Next \/ Departs]_(Tree!vars)
  <2>0. IInv /\ (aborted # "reused" => TreeInv)
    BY <1>2 DEF Following
  <2>1. CASE UNCHANGED <<vars, tree>>
    <3>1. IInv'
      BY <2>0, <2>1, StutterStep
    <3>2. disk' = disk /\ tree' = tree /\ up' = up /\ returned' = returned /\ aborted' = aborted
      BY <2>1 DEF vars
    <3>3. aborted' # "reused" => TreeInv'
      <4>1. ASSUME aborted # "reused" PROVE Fit(disk') /\ tree' = TreeOf(disk')
        BY <2>0, <3>2, <4>1 DEF TreeInv
      <4> QED
        BY <3>1, <3>2, <4>1 DEF TreeInv
    <3> QED
      BY <3>1, <3>2, <3>3 DEF Following, Tree!vars
  <2>2. CASE TreeNext
    <3>1. Next
      BY <2>2 DEF TreeNext
    <3>2. IInv'
      BY <2>0, <3>1, NextStep
    <3>3. CASE aborted # "reused" /\ aborted' # "reused"
      <4>1. TreeInv
        BY <2>0, <3>3
      <4>2. tree' = TreeOf(disk')
        BY <2>2, <3>3, <4>1 DEF TreeNext, TreeInv
      <4>3. Fit(disk') /\ (Tree!Next \/ Departs)
        BY <3>1, <3>3, <4>1, <4>2, TreeStep
      <4> QED
        BY <3>2, <3>3, <4>2, <4>3 DEF Following, TreeInv
    <3>4. CASE aborted # "reused" /\ aborted' = "reused"
      <4>1. Departs
        BY <3>1, <3>4, ReuseStep DEF Departs
      <4> QED
        BY <3>2, <3>4, <4>1 DEF Following
    <3>5. CASE aborted = "reused"
      <4>1. tree' = tree \/ disk' # disk
        BY <2>2 DEF TreeNext
      <4>2. aborted' = "reused" /\ Tree!Next
        BY <3>1, <3>5, <4>1, AfterReuse
      <4> QED
        BY <3>2, <4>2 DEF Following
    <3> QED
      BY <3>3, <3>4, <3>5
  <2> QED
    BY <1>2, <2>1, <2>2
<1> QED
  BY <1>1, <1>2, PTL DEF TreeSpec, ImplementsTree

=============================================================================
