---------------------------- MODULE CmdRunProofs ----------------------------
(***************************************************************************)
(* Proofs about the processes of the shell, for any number of processes,   *)
(* descriptors and lines, and any lists the parser may build.              *)
(*                                                                         *)
(* The inductive invariant has one part per concern: which list a process  *)
(* is in and where (PlaceInv), who waits for whom (FamilyInv), the open    *)
(* descriptors (FilesInv), the neighbours of a pipeline (PipeInv), cd      *)
(* (CdInv) and the conditionals (LastInv).                                 *)
(***************************************************************************)
EXTENDS CmdRun, FiniteSetTheorems, WellFoundedInduction, TLAPS

Running == {"exec", "forked", "exit", "switch", "done", "child", "start", "prog"}
Gone == {"none", "zombie"}

\* A process has a list from the moment cmd_line_exec is entered or fork copies
\* it, and is at one of its commands unless it has run them all.  A shell that
\* is about to exit is at an exit.
PlaceAt(p) ==
    /\ pc[p] \in Running => line[p] \in Lists /\ pos[p] >= 1
    /\ pc[p] \in Running \ {"exec", "done"} => pos[p] <= Len(line[p])
    /\ pc[p] = "exit" => Is(Cmd(p), "exit")

\* A shell between fork and wait has the child it forked.  Who has ended has no
\* children, and neither has a program or a child that is about to become one.
FamilyAt(p) ==
    /\ kid[p] # NULL =>
          /\ pc[p] \in {"forked", "switch", "exit"}
          /\ pc[kid[p]] # "none" /\ parent[kid[p]] = p
    /\ pc[p] \in {"forked", "exit"} => kid[p] # NULL
    /\ pc[p] = "switch" /\ ~ stray[p] => kid[p] # NULL
    /\ pc[p] = "none" => parent[p] = NULL
    /\ parent[p] # NULL =>
          /\ pc[parent[p]] \notin Gone \cup {"child", "start", "prog"}
          /\ parent[p] # p
          /\ stray[parent[p]] /\ pc[p] # "zombie" => stray[p]
          /\ stray[p] /\ pc[p] \in {"child", "start", "prog"} => stray[parent[p]]

\* i is a descriptor that a process at its place in cmd_exec may have open,
\* besides standard input, output and error.
Handed(p, i) ==
    \/ pc[p] = "exec" /\ i = pipefd[p] /\ pos[p] > 1 /\ line[p][pos[p] - 1].controlop = "|"
    \/ pc[p] \in {"switch", "exit"} /\ i = pipefd[p] /\ Cmd(p).controlop = "|"
    \/ pc[p] \in {"forked", "child"} /\ i = pipefd[p]
    \/ pc[p] \in {"forked", "child"} /\ ends[p] # NULL /\ i \in {ends[p][1], ends[p][2]}

\* The two ends of the pipe that cmd_exec has just made.
EndsAt(p) ==
    /\ pc[p] \in {"forked", "child"} /\ Cmd(p).controlop = "|"
    /\ ends[p][1] > 2 /\ ends[p][2] > 2 /\ ends[p][1] # ends[p][2]
    /\ IsEnd(p, ends[p][1], "read") /\ IsEnd(p, ends[p][2], "write")

FilesAt(p) ==
    /\ pc[p] \in Gone => fd[p] = NoFiles
    /\ pc[p] \notin Gone => \A i \in 0 .. 2 : fd[p][i] # NULL
    /\ \A i \in Fds : i > 2 /\ fd[p][i] # NULL => Handed(p, i)
    /\ pipefd[p] = STDIN \/ pipefd[p] > 2
    /\ ends[p] # NULL => EndsAt(p)
    /\ pc[p] \in {"forked", "child"} /\ Cmd(p).controlop = "|" => ends[p] # NULL
    /\ ~ stray[p] =>
          /\ pc[p] \in {"exec", "forked", "child", "switch"} /\ pipefd[p] # STDIN
                => IsEnd(p, pipefd[p], "read")
          /\ ends[p] # NULL => pipefd[p] # ends[p][1]
          /\ \A i \in Fds : IsEnd(p, i, "write") =>
                i = STDOUT \/ (ends[p] # NULL /\ i = ends[p][2])

\* Shell and child are at the same cd, until the child has ended with its code.
CdAt(p) ==
    /\ kid[p] # NULL /\ pc[kid[p]] \in {"child", "start"} =>
          line[kid[p]] = line[p] /\ pos[kid[p]] = pos[p]
    /\ kid[p] # NULL /\ Is(Cmd(p), "cd") =>
          /\ pc[kid[p]] \in {"child", "start", "zombie"}
          /\ pc[kid[p]] = "zombie" => code[kid[p]] = Exited(CdCode(Cmd(p)))
    /\ pc[p] = "switch" /\ Is(Cmd(p), "cd") /\ Word(Cmd(p), 1) \in Dirs =>
          cwd[p] = Word(Cmd(p), 1)

\* What is remembered of the command before.
LastAt(p) ==
    pc[p] = "exec" /\ pos[p] > 1 =>
        /\ line[p][pos[p] - 1].controlop = "&&" => last[p] = Exited(0)
        /\ line[p][pos[p] - 1].controlop = "||" => last[p] # Exited(0)

-----------------------------------------------------------------------------
\* One is the write end and the other the read end of a pipe.
Joined(w, r) ==
    /\ w # NULL /\ w.kind = "write"
    /\ r # NULL /\ r.kind = "read"
    /\ w.pipe = r.pipe

\* A child of s that has not ended, nor become a shell.
Started(s, c) ==
    parent[c] = s /\ pc[c] \in {"child", "start", "prog"} /\ ~ stray[c]

\* One that belongs to the list s runs, or has just run.
Member(s, c) == Started(s, c) /\ serial[c] = serial[s] /\ pc[s] # "main"

\* Where the child writes to and reads from, or will when it is set up.
Out(c) == IF pc[c] = "child" THEN fd[c][ends[c][2]] ELSE fd[c][STDOUT]
In(c) == IF pc[c] = "child" THEN fd[c][pipefd[c]] ELSE fd[c][STDIN]

Writer(c) == Cmd(c).controlop = "|" /\ STDOUT \notin Redirected(Cmd(c))
Reader(c) == STDIN \notin Redirected(Cmd(c))

\* The shell goes from command to command, so that its children are at
\* different ones ...
OrderAt(s, c) ==
    Member(s, c) =>
        /\ line[c] = line[s]
        /\ pos[c] < pos[s] \/ (c = kid[s] /\ pos[c] = pos[s])

\* ... carries the read end from each to the next ...
CarryAt(s, c) ==
    Member(s, c) /\ Writer(c) =>
        /\ pc[s] = "forked" /\ pos[s] = pos[c] => Joined(Out(c), fd[s][ends[s][1]])
        /\ \/ pc[s] = "switch" /\ pos[s] = pos[c]
           \/ pc[s] \in {"exec", "forked"} /\ pos[s] = pos[c] + 1
           => pipefd[s] # STDIN /\ Joined(Out(c), fd[s][pipefd[s]])

\* ... and hands it to that one.  That stays so when s has gone on to other lines.
MeetAt(s, c, d) ==
    /\ Started(s, c) /\ Writer(c) /\ Started(s, d) /\ Reader(d)
    /\ serial[d] = serial[c] /\ pos[d] = pos[c] + 1
    =>
        /\ Joined(Out(c), In(d))
        /\ pc[d] = "child" => pipefd[d] # STDIN

PlaceInv == \A p \in Pids : PlaceAt(p)
FamilyInv == \A p \in Pids : FamilyAt(p)
FilesInv == \A p \in Pids : FilesAt(p)
CdInv == \A p \in Pids : CdAt(p)
LastInv == \A p \in Pids : LastAt(p)
PipeInv == \A s, c \in Pids : OrderAt(s, c) /\ CarryAt(s, c) /\ \A d \in Pids : MeetAt(s, c, d)

Inv == TypeOK /\ PlaceInv /\ FamilyInv /\ FilesInv /\ PipeInv /\ CdInv /\ LastInv

-----------------------------------------------------------------------------
(***************************************************************************)
(* The lowest of a set of numbers, and what pipe() makes of it.            *)
(***************************************************************************)
LEMMA LowestIn ==
    ASSUME NEW S, S \subseteq Nat, S # {}
    PROVE  Lowest(S) \in S
<1>1. PICK i \in S : \A j \in S : ~ (<< j, i >> \in OpToRel(<, Nat))
  <2> HIDE DEF OpToRel
  <2> QED
    BY NatLessThanWellFounded, WFMin, Zenon
<1>2. \A j \in S : ~ (j < i)
  BY <1>1 DEF OpToRel
<1>3. \A j \in S : i <= j
  BY <1>2
<1>4. \E k \in S : \A j \in S : k <= j
  BY <1>3
<1> QED
  BY <1>4, Zenon DEF Lowest

LEMMA FdsFacts == Fds \subseteq Nat /\ IsFiniteSet(Fds) /\ {0, 1, 2} \subseteq Fds
<1>1. NFDS \in Int /\ NFDS - 1 \in Int /\ 0 \in Int
  BY ProcessAssumption
<1>2. IsFiniteSet(0 .. NFDS - 1)
  BY <1>1, FS_Interval
<1> QED
  BY <1>1, <1>2, ProcessAssumption DEF Fds

\* The descriptors pipe() opens were free, and are two.
LEMMA PipeEndsFree ==
    ASSUME NEW files, Cardinality(FreeFds(files)) >= 2
    PROVE  /\ PipeEnds(files) \in Fds \X Fds
           /\ PipeEnds(files)[1] # PipeEnds(files)[2]
           /\ files[PipeEnds(files)[1]] = NULL /\ files[PipeEnds(files)[2]] = NULL
<1> DEFINE F == FreeFds(files)
           r == Lowest(F)
           w == Lowest(F \ {r})
<1>1. F \subseteq Fds /\ F \subseteq Nat /\ \A i \in F : files[i] = NULL
  BY FdsFacts DEF FreeFds
<1>2. IsFiniteSet(F)
  BY <1>1, FdsFacts, FS_Subset
<1>3. Cardinality(F) # 0 /\ Cardinality(F) # 1
  <2> HIDE DEF F
  <2>1. Cardinality(F) \in Nat
    BY <1>2, FS_CardinalityType
  <2>2. Cardinality(F) >= 2
    BY DEF F
  <2> QED
    BY <2>1, <2>2
<1>4. F # {} /\ \A x : F # {x}
  <2> HIDE DEF F
  <2> QED
    BY <1>2, <1>3, FS_EmptySet, FS_Singleton, Zenon
<1>5. r \in F
  <2> HIDE DEF F
  <2> QED
    BY <1>1, <1>4, LowestIn
<1>6. w \in F \ {r}
  <2> HIDE DEF F, r
  <2>1. F \ {r} # {}
    BY <1>4, <1>5
  <2>2. F \ {r} \subseteq Nat
    BY <1>1
  <2> QED
    BY <2>1, <2>2, LowestIn
<1>7. PipeEnds(files) = << r, w >>
  BY DEF PipeEnds
<1> HIDE DEF F, r, w
<1> QED
  BY <1>1, <1>5, <1>6, <1>7

\* The pipes that are in use are finitely many, so that one is left.
LEMMA UsedFinite == IsFiniteSet(UNION {PipesOf(fd[p]) : p \in Pids})
<1>1. IsFiniteSet(Pids)
  <2>1. NPROCS \in Int /\ 1 \in Int
    BY ProcessAssumption
  <2> QED
    BY <2>1, FS_Interval DEF Pids
<1>2. \A files : IsFiniteSet(PipesOf(files))
  <2> TAKE files
  <2> DEFINE D == {j \in Fds : files[j] # NULL /\ files[j].kind \in {"read", "write"}}
             f == [i \in D |-> files[i].pipe]
  <2>1. IsFiniteSet(D)
    BY FdsFacts, FS_Subset
  <2>2. f \in Surjection(D, PipesOf(files))
    BY DEF Surjection, PipesOf
  <2> HIDE DEF D, f
  <2> QED
    BY <2>1, <2>2, FS_Surjection
<1> DEFINE S == {PipesOf(fd[p]) : p \in Pids}
           g == [p \in Pids |-> PipesOf(fd[p])]
<1>3. g \in Surjection(Pids, S)
  BY DEF Surjection
<1>4. \A T \in S : IsFiniteSet(T)
  BY <1>2
<1> HIDE DEF S, g
<1>5. IsFiniteSet(S)
  BY <1>1, <1>3, FS_Surjection
<1>6. IsFiniteSet(UNION S)
  BY <1>4, <1>5, FS_UNION
<1> QED
  BY <1>6 DEF S

LEMMA PipedFiles ==
    ASSUME NEW files
    PROVE  \E id \in Nat :
             Piped(files) = [files EXCEPT ![PipeEnds(files)[1]] = [kind |-> "read", pipe |-> id],
                                          ![PipeEnds(files)[2]] = [kind |-> "write", pipe |-> id]]
<1> DEFINE used == UNION {PipesOf(fd[p]) : p \in Pids}
           n == Cardinality(used)
<1>1. IsFiniteSet(used) /\ n \in Nat
  BY UsedFinite, FS_CardinalityType
<1>2. (0 .. n) \ used # {}
  <2> HIDE DEF used, n
  <2>1. SUFFICES ASSUME 0 .. n \subseteq used PROVE FALSE
    OBVIOUS
  <2>2. Cardinality(0 .. n) <= Cardinality(used)
    BY <1>1, <2>1, FS_Subset
  <2>3. Cardinality(0 .. n) = n + 1
    BY <1>1, FS_Interval
  <2>4. n + 1 <= n
    BY <2>2, <2>3 DEF n
  <2> QED
    BY <1>1, <2>4
<1>3. Lowest((0 .. n) \ used) \in Nat
  <2> HIDE DEF used, n
  <2>1. (0 .. n) \ used \subseteq Nat
    BY <1>1
  <2> QED
    BY <1>2, <2>1, LowestIn
<1>4. Piped(files) = [files EXCEPT ![PipeEnds(files)[1]] = [kind |-> "read", pipe |-> Lowest((0 .. n) \ used)],
                                   ![PipeEnds(files)[2]] = [kind |-> "write", pipe |-> Lowest((0 .. n) \ used)]]
  BY Zenon DEF Piped
<1> HIDE DEF used, n
<1> QED
  BY <1>3, <1>4

-----------------------------------------------------------------------------
(***************************************************************************)
(* What the steps do to each process.                                      *)
(***************************************************************************)
\* What a process keeps in its own memory.
Keeps(q) ==
    /\ line'[q] = line[q] /\ pos'[q] = pos[q] /\ pipefd'[q] = pipefd[q]
    /\ ends'[q] = ends[q] /\ kid'[q] = kid[q] /\ fd'[q] = fd[q] /\ cwd'[q] = cwd[q]
    /\ serial'[q] = serial[q] /\ last'[q] = last[q] /\ stray'[q] = stray[q]

\* What others may change of it.
Stays(q) == pc'[q] = pc[q] /\ parent'[q] = parent[q] /\ code'[q] = code[q]

Ended == [exited : BOOLEAN, n : Statuses]

LEMMA EndType ==
    ASSUME TypeOK, NEW p \in Pids, NEW o \in Ended, End(p, o)
    PROVE  TypeOK'
<1> USE DEF TypeOK, End
<1>1. pc' \in [Pids -> {"none", "main", "exec", "forked", "exit", "switch",
                        "done", "child", "start", "prog", "zombie"}]
  OBVIOUS
<1>2. parent' \in [Pids -> Pids \cup {NULL}]
  OBVIOUS
<1>3. line' \in [Pids -> Lists \cup {<< >>}] /\ pos' \in [Pids -> Nat]
  OBVIOUS
<1>4. \A q \in Pids : pos'[q] <= Len(line'[q]) + 1
  OBVIOUS
<1>5. STDIN \in Fds /\ HOME \in Dirs /\ Nothing \in Ended /\ 0 \in Statuses
  BY FdsFacts, ProcessAssumption DEF STDIN, Nothing, Ended, Statuses
<1>6. inner' \in [Pids -> BOOLEAN] /\ status' \in [Pids -> Statuses] /\ pipefd' \in [Pids -> Fds]
  BY <1>5
<1>7. ends' \in [Pids -> (Fds \X Fds) \cup {NULL}] /\ kid' \in [Pids -> Pids \cup {NULL}]
  OBVIOUS
<1>8. fd' \in [Pids -> [Fds -> File \cup {NULL}]]
  BY DEF NoFiles
<1>9. cwd' \in [Pids -> Dirs]
  BY <1>5
<1>10. {code', last'} \subseteq [Pids -> Ended]
  BY <1>5 DEF Ended
<1>11. typed' \in 0 .. MaxLines /\ serial' \in [Pids -> 0 .. typed'] /\ stray' \in [Pids -> BOOLEAN]
  BY ProcessAssumption
<1> QED
  BY <1>1, <1>2, <1>3, <1>4, <1>6, <1>7, <1>8, <1>9, <1>10, <1>11 DEF Ended

\* A process that ends keeps nothing; its zombies go, its other children stay
\* without a parent.
LEMMA EndEffect ==
    ASSUME TypeOK, NEW p \in Pids, NEW o, End(p, o)
    PROVE  /\ \A q \in Pids : q # p => Keeps(q)
           /\ \A q \in Pids : q # p /\ q \notin Children(p) => Stays(q)
           /\ \A q \in Children(p) : parent'[q] = NULL
           /\ \A q \in Children(p) : q # p => pc'[q] = IF pc[q] = "zombie" THEN "none" ELSE pc[q]
           /\ pc'[p] = IF parent[p] = NULL THEN "none" ELSE "zombie"
           /\ parent[p] # NULL => code'[p] = o
           /\ p \notin Children(p) => parent'[p] = parent[p]
           /\ fd'[p] = NoFiles /\ line'[p] = << >> /\ pos'[p] = 0 /\ pipefd'[p] = STDIN
           /\ ends'[p] = NULL /\ kid'[p] = NULL /\ stray'[p] = FALSE /\ typed' = typed
<1> USE DEF TypeOK
<1>1. \A q \in Pids : q # p => Keeps(q)
  BY DEF End, Keeps
<1>2. \A q \in Pids : q # p /\ q \notin Children(p) => Stays(q)
  BY DEF End, Stays, Zombies
<1>3. \A q \in Children(p) : parent'[q] = NULL
  BY DEF End, Children
<1>4. \A q \in Children(p) : q # p => pc'[q] = IF pc[q] = "zombie" THEN "none" ELSE pc[q]
  BY DEF End, Zombies, Children
<1>5. pc'[p] = IF parent[p] = NULL THEN "none" ELSE "zombie"
  BY DEF End
<1>6. (parent[p] # NULL => code'[p] = o) /\ (p \notin Children(p) => parent'[p] = parent[p])
  BY DEF End
<1>7. /\ fd'[p] = NoFiles /\ line'[p] = << >> /\ pos'[p] = 0 /\ pipefd'[p] = STDIN
      /\ ends'[p] = NULL /\ kid'[p] = NULL /\ stray'[p] = FALSE /\ typed' = typed
  BY DEF End
<1> QED
  BY <1>1, <1>2, <1>3, <1>4, <1>5, <1>6, <1>7

\* A process that neither acts nor is acted upon.
LEMMA LocalKept ==
    ASSUME NEW q \in Pids, Keeps(q), pc'[q] = pc[q],
           PlaceAt(q), FilesAt(q), LastAt(q)
    PROVE  PlaceAt(q)' /\ FilesAt(q)' /\ LastAt(q)'
<1> USE DEF Keeps
<1>1. PlaceAt(q)'
  BY DEF PlaceAt, Cmd
<1>2. FilesAt(q)'
  BY DEF FilesAt, EndsAt, Handed, IsEnd, Cmd
<1>3. LastAt(q)'
  BY DEF LastAt
<1> QED
  BY <1>1, <1>2, <1>3

\* A process without descriptors that is not in a list.
LEMMA LocalGone ==
    ASSUME NEW q \in Pids, pc'[q] \in Gone, fd'[q] = NoFiles, ends'[q] = NULL,
           pipefd'[q] = STDIN \/ pipefd'[q] > 2
    PROVE  PlaceAt(q)' /\ FilesAt(q)' /\ LastAt(q)'
<1>1. PlaceAt(q)'
  BY DEF PlaceAt, Gone, Running
<1>2. \A i \in Fds : fd'[q][i] = NULL
  BY DEF NoFiles
<1>3. FilesAt(q)'
  BY <1>2 DEF FilesAt, Gone, IsEnd
<1>4. LastAt(q)'
  BY DEF LastAt, Gone
<1> QED
  BY <1>1, <1>3, <1>4

LEMMA LocalReaped ==
    ASSUME NEW q \in Pids, Keeps(q), pc[q] \in Gone, pc'[q] \in Gone, FilesAt(q)
    PROVE  PlaceAt(q)' /\ FilesAt(q)' /\ LastAt(q)'
<1>1. fd'[q] = NoFiles /\ (pipefd'[q] = STDIN \/ pipefd'[q] > 2)
  BY DEF Keeps, FilesAt
<1>2. ends'[q] = NULL
  BY DEF Keeps, FilesAt, EndsAt, Gone
<1> QED
  BY <1>1, <1>2, LocalGone

LEMMA EndInv ==
    ASSUME Inv, NEW p \in Pids, NEW o \in Ended, End(p, o),
           pc[p] \notin Gone \cup {"child"},
           pc[p] = "start" /\ Is(Cmd(p), "cd") => o = Exited(CdCode(Cmd(p)))
    PROVE  Inv'
<1>t. TypeOK /\ TypeOK'
  BY EndType DEF Inv
<1>p. \A q \in Pids : PlaceAt(q) /\ FilesAt(q) /\ LastAt(q) /\ FamilyAt(q) /\ CdAt(q)
  BY DEF Inv, PlaceInv, FilesInv, LastInv, FamilyInv, CdInv
<1>n. NULL \notin Pids
  BY NullAssumption
<1>y. \A q \in Pids : parent[q] \in Pids \cup {NULL} /\ kid[q] \in Pids \cup {NULL}
  BY <1>t DEF TypeOK
<1>c. p \notin Children(p) /\ \A q \in Children(p) : q \in Pids /\ parent[q] = p /\ pc[q] # "none"
  BY <1>p, <1>n DEF Children, FamilyAt
<1>e. /\ \A q \in Pids : q # p => Keeps(q)
      /\ \A q \in Pids : q # p /\ q \notin Children(p) => Stays(q)
      /\ \A q \in Children(p) : parent'[q] = NULL
      /\ \A q \in Children(p) : q # p => pc'[q] = IF pc[q] = "zombie" THEN "none" ELSE pc[q]
      /\ pc'[p] = IF parent[p] = NULL THEN "none" ELSE "zombie"
      /\ parent[p] # NULL => code'[p] = o
      /\ parent'[p] = parent[p]
      /\ fd'[p] = NoFiles /\ line'[p] = << >> /\ pos'[p] = 0 /\ pipefd'[p] = STDIN
      /\ ends'[p] = NULL /\ kid'[p] = NULL /\ stray'[p] = FALSE
  BY <1>t, <1>c, EndEffect
<1> DEFINE Kid(q) == q \in Children(p)
\* How another process is affected.
<1>o. ASSUME NEW q \in Pids, q # p
      PROVE  /\ Keeps(q)
             /\ pc[q] # "zombie" => pc'[q] = pc[q]
             /\ pc'[q] = pc[q] \/ (pc[q] = "zombie" /\ parent[q] = p /\ pc'[q] = "none" /\ parent'[q] = NULL)
             /\ parent[q] # p => Stays(q)
             /\ parent'[q] = parent[q] \/ parent'[q] = NULL
             /\ parent'[q] # p
  <2>1. CASE q \in Children(p)
    BY <2>1, <1>o, <1>c, <1>e, <1>n
  <2>2. CASE q \notin Children(p)
    <3>1. Stays(q) /\ Keeps(q)
      BY <2>2, <1>o, <1>e
    <3>2. parent[q] # p
      BY <2>2, <1>p, <1>n DEF Children, FamilyAt
    <3> QED
      BY <3>1, <3>2 DEF Stays
  <2> QED
    BY <2>1, <2>2
<1>1. ASSUME NEW q \in Pids
      PROVE  PlaceAt(q)' /\ FilesAt(q)' /\ LastAt(q)'
  <2>1. CASE q = p
    <3>1. pc'[q] \in Gone
      BY <2>1, <1>e DEF Gone
    <3> QED
      BY <2>1, <3>1, <1>e, LocalGone
  <2>2. CASE q # p /\ pc'[q] = pc[q]
    BY <2>2, <1>o, <1>p, LocalKept
  <2>3. CASE q # p /\ pc'[q] # pc[q]
    <3>1. pc[q] \in Gone /\ pc'[q] \in Gone
      BY <2>3, <1>o DEF Gone
    <3> QED
      BY <2>3, <3>1, <1>o, <1>p, LocalReaped
  <2> QED
    BY <2>1, <2>2, <2>3
\* The child of a shell that goes on is still there.
<1>k. ASSUME NEW q \in Pids, q # p, kid[q] # NULL
      PROVE  /\ kid[q] \in Pids /\ parent[kid[q]] = q /\ parent'[kid[q]] = q
             /\ pc'[q] = pc[q] /\ pc'[kid[q]] # "none"
             /\ kid[q] # p => Keeps(kid[q]) /\ Stays(kid[q])
             /\ kid[q] = p => pc'[p] = "zombie" /\ code'[p] = o
  <2>1. kid[q] \in Pids /\ parent[kid[q]] = q /\ pc[kid[q]] # "none" /\ pc[q] # "zombie"
    BY <1>k, <1>p, <1>y DEF FamilyAt
  <2>2. pc'[q] = pc[q]
    BY <2>1, <1>k, <1>o
  <2>3. CASE kid[q] = p
    BY <2>1, <2>2, <2>3, <1>e, <1>n
  <2>4. CASE kid[q] # p
    <3>1. Keeps(kid[q]) /\ Stays(kid[q])
      BY <2>1, <2>4, <1>k, <1>o
    <3> QED
      BY <2>1, <2>2, <2>4, <3>1 DEF Stays
  <2> QED
    BY <2>3, <2>4
<1>2. ASSUME NEW q \in Pids
      PROVE  FamilyAt(q)'
  <2>1. kid'[q] # NULL =>
          /\ pc'[q] \in {"forked", "switch", "exit"}
          /\ pc'[kid'[q]] # "none" /\ parent'[kid'[q]] = q
    <3>1. kid'[q] # NULL => q # p /\ kid'[q] = kid[q]
      BY <1>e, <1>o DEF Keeps
    <3> QED
      BY <3>1, <1>k, <1>p DEF FamilyAt
  <2>2. /\ pc'[q] \in {"forked", "exit"} => kid'[q] # NULL
        /\ pc'[q] = "switch" /\ ~ stray'[q] => kid'[q] # NULL
    BY <1>e, <1>o, <1>p DEF FamilyAt, Keeps
  <2>3. pc'[q] = "none" => parent'[q] = NULL
    BY <1>e, <1>o, <1>p DEF FamilyAt
  <2>4. ASSUME parent'[q] # NULL
        PROVE  /\ pc'[parent'[q]] \notin Gone \cup {"child", "start", "prog"}
               /\ parent'[q] # q
               /\ stray'[parent'[q]] /\ pc'[q] # "zombie" => stray'[q]
               /\ stray'[q] /\ pc'[q] \in {"child", "start", "prog"} => stray'[parent'[q]]
    <3>1. parent'[q] = parent[q] /\ parent[q] # p /\ parent[q] \in Pids /\ parent[q] # q
      BY <2>4, <1>e, <1>o, <1>p, <1>y DEF FamilyAt
    <3>2. pc[parent[q]] \notin Gone \cup {"child", "start", "prog"}
      BY <3>1, <2>4, <1>p DEF FamilyAt
    <3>3. pc'[parent[q]] = pc[parent[q]] /\ stray'[parent[q]] = stray[parent[q]]
      BY <3>1, <3>2, <1>o DEF Keeps, Gone
    <3>4. stray'[parent[q]] /\ pc'[q] # "zombie" => stray'[q]
      <4>1. CASE q = p
        BY <4>1, <3>1, <2>4, <1>e
      <4>2. CASE q # p
        BY <4>2, <3>1, <3>3, <2>4, <1>o, <1>p DEF FamilyAt, Keeps
      <4> QED
        BY <4>1, <4>2
    <3>5. stray'[q] /\ pc'[q] \in {"child", "start", "prog"} => stray'[parent[q]]
      <4>1. CASE q = p
        BY <4>1, <1>e
      <4>2. CASE q # p
        BY <4>2, <3>1, <3>3, <2>4, <1>o, <1>p DEF FamilyAt, Keeps
      <4> QED
        BY <4>1, <4>2
    <3> QED
      BY <3>1, <3>2, <3>3, <3>4, <3>5
  <2> QED
    BY <2>1, <2>2, <2>3, <2>4 DEF FamilyAt
<1>3. ASSUME NEW q \in Pids
      PROVE  CdAt(q)'
  <2>1. CASE q = p
    BY <2>1, <1>e DEF CdAt
  <2>2. CASE q # p /\ kid[q] = NULL
    <3>1. pc'[q] = "switch" => pc[q] = "switch"
      BY <2>2, <1>o
    <3> QED
      BY <2>2, <3>1, <1>o, <1>p DEF CdAt, Keeps, Cmd
  <2>3. CASE q # p /\ kid[q] # NULL /\ kid[q] # p
    <3>1. Keeps(q) /\ pc'[q] = pc[q] /\ Keeps(kid[q]) /\ Stays(kid[q]) /\ kid[q] \in Pids
      BY <2>3, <1>o, <1>k
    <3> QED
      BY <2>3, <3>1, <1>p DEF CdAt, Keeps, Stays, Cmd
  <2>4. CASE q # p /\ kid[q] # NULL /\ kid[q] = p
    <3>1. Keeps(q) /\ pc'[q] = pc[q] /\ pc'[p] = "zombie" /\ code'[p] = o /\ CdAt(q)
      BY <2>4, <1>o, <1>k, <1>p
    <3>2. ASSUME Is(Cmd(q), "cd")
          PROVE  o = Exited(CdCode(Cmd(q)))
      <4>1. pc[p] = "start" /\ line[p] = line[q] /\ pos[p] = pos[q]
        BY <2>4, <3>1, <3>2 DEF CdAt, Gone
      <4>2. Cmd(p) = Cmd(q)
        BY <4>1 DEF Cmd
      <4> QED
        BY <4>1, <4>2, <3>2
    <3>3. Cmd(q)' = Cmd(q)
      BY <3>1 DEF Keeps, Cmd
    <3> HIDE DEF Cmd
    <3> QED
      BY <2>4, <3>1, <3>2, <3>3 DEF CdAt, Keeps
  <2> QED
    BY <2>1, <2>2, <2>3, <2>4
\* The members of a list that goes on.
<1>m. ASSUME NEW s \in Pids, NEW c \in Pids, Started(s, c)'
      PROVE  /\ s # p /\ c # p /\ Started(s, c) /\ Keeps(s) /\ Keeps(c)
             /\ pc'[s] = pc[s] /\ pc'[c] = pc[c]
             /\ Member(s, c)' => Member(s, c)
  <2>1. parent'[c] = s /\ s # p
    BY <1>m, <1>e, <1>o, <1>p, <1>n DEF Started, FamilyAt
  <2>2. c # p
    BY <1>m, <1>e DEF Started
  <2>3. parent[c] = s /\ Keeps(s) /\ Keeps(c)
    BY <2>1, <2>2, <1>o, <1>n
  <2>4. pc'[s] = pc[s] /\ pc'[c] = pc[c]
    <3>1. pc[s] # "zombie"
      BY <2>3, <1>p, <1>n DEF FamilyAt, Gone
    <3>2. pc'[c] # "none"
      BY <1>m DEF Started
    <3> QED
      BY <2>1, <2>2, <3>1, <3>2, <1>o
  <2> QED
    BY <1>m, <2>1, <2>2, <2>3, <2>4 DEF Started, Member, Keeps
<1>4. ASSUME NEW s \in Pids, NEW c \in Pids
      PROVE  OrderAt(s, c)' /\ CarryAt(s, c)' /\ \A d \in Pids : MeetAt(s, c, d)'
  <2>1. SUFFICES ASSUME Started(s, c)'
                 PROVE  OrderAt(s, c)' /\ CarryAt(s, c)' /\ \A d \in Pids : MeetAt(s, c, d)'
    BY DEF OrderAt, CarryAt, MeetAt, Member
  <2>2. (Member(s, c)' => Member(s, c)) /\ Started(s, c) /\ Keeps(s) /\ Keeps(c) /\ pc'[s] = pc[s] /\ pc'[c] = pc[c]
    BY <2>1, <1>m
  <2>3. OrderAt(s, c) /\ CarryAt(s, c) /\ \A d \in Pids : MeetAt(s, c, d)
    BY DEF Inv, PipeInv
  <2>4. OrderAt(s, c)' /\ CarryAt(s, c)'
    BY <2>2, <2>3 DEF OrderAt, CarryAt, Keeps, Writer, Out, Cmd
  <2>5. ASSUME NEW d \in Pids
        PROVE  MeetAt(s, c, d)'
    <3>1. CASE Started(s, d)'
      <4>1. Started(s, d) /\ Keeps(d) /\ pc'[d] = pc[d]
        BY <3>1, <1>m
      <4> QED
        BY <4>1, <2>2, <2>3 DEF MeetAt, Keeps, Writer, Reader, Out, In, Cmd
    <3>2. CASE ~ Started(s, d)'
      BY <3>2 DEF MeetAt
    <3> QED
      BY <3>1, <3>2
  <2> QED
    BY <2>4, <2>5
<1> QED
  BY <1>t, <1>1, <1>2, <1>3, <1>4 DEF Inv, PlaceInv, FilesInv, LastInv, FamilyInv, CdInv, PipeInv

-----------------------------------------------------------------------------
(***************************************************************************)
(* Steps of a process that leave all others alone, but for zombies among   *)
(* its children, which they may reap.                                      *)
(***************************************************************************)
Reaped(p, q) == parent[q] = p /\ pc[q] = "zombie" /\ pc'[q] = "none" /\ parent'[q] = NULL

Alone(p) ==
    /\ \A q \in Pids : q # p => Keeps(q) /\ (Stays(q) \/ Reaped(p, q))
    /\ parent'[p] = parent[p] /\ code'[p] = code[p]

\* Such a step keeps what relates the process to its parent and its child ...
LEMMA AloneFamily ==
    ASSUME TypeOK, FamilyInv, NEW p \in Pids, Alone(p),
           pc[p] \notin Gone, pc'[p] \notin Gone,
           kid'[p] # NULL => /\ kid'[p] = kid[p] /\ Stays(kid[p])
                            /\ pc'[p] \in {"forked", "switch", "exit"},
           pc'[p] \in {"forked", "exit"} => kid'[p] # NULL,
           pc'[p] = "switch" /\ ~ stray'[p] => kid'[p] # NULL,
           stray[p] => stray'[p],
           pc[p] \in {"child", "start", "prog"} \/ stray'[p] = stray[p],
           pc'[p] \in {"child", "start", "prog"} =>
              pc[p] \in {"child", "start", "prog"} /\ stray'[p] = stray[p]
    PROVE  FamilyInv'
<1> SUFFICES ASSUME NEW q \in Pids PROVE FamilyAt(q)'
  BY DEF FamilyInv
<1>p. \A x \in Pids : FamilyAt(x)
  BY DEF FamilyInv
<1>n. NULL \notin Pids
  BY NullAssumption
<1>y. \A x \in Pids : parent[x] \in Pids \cup {NULL} /\ kid[x] \in Pids \cup {NULL}
  BY DEF TypeOK
<1>o. \A x \in Pids : x # p => Keeps(x) /\ (Stays(x) \/ Reaped(p, x))
  BY DEF Alone
<1>r. \A x \in Pids : x # p /\ pc[x] # "zombie" => Stays(x)
  BY <1>o DEF Reaped
<1>1. kid'[q] # NULL =>
        /\ pc'[q] \in {"forked", "switch", "exit"}
        /\ pc'[kid'[q]] # "none" /\ parent'[kid'[q]] = q
  <2>1. kid'[q] # NULL => kid'[q] = kid[q] /\ pc'[q] \in {"forked", "switch", "exit"}
    BY <1>o, <1>r, <1>p DEF Keeps, Stays, FamilyAt
  <2>2. kid'[q] # NULL => parent[kid[q]] = q /\ pc[kid[q]] # "none" /\ kid[q] \in Pids
    BY <2>1, <1>p, <1>y DEF FamilyAt
  <2>3. kid'[q] # NULL /\ kid[q] # p => Stays(kid[q])
    <3>1. CASE q = p
      BY <3>1
    <3>2. CASE q # p
      BY <3>2, <2>2, <1>o DEF Reaped
    <3> QED
      BY <3>1, <3>2
  <2>4. kid'[q] # NULL /\ kid[q] = p => parent'[p] = q /\ pc'[p] # "none"
    BY <2>2 DEF Alone, Gone
  <2> QED
    BY <2>1, <2>2, <2>3, <2>4 DEF Stays
<1>2. /\ pc'[q] \in {"forked", "exit"} => kid'[q] # NULL
      /\ pc'[q] = "switch" /\ ~ stray'[q] => kid'[q] # NULL
  BY <1>o, <1>p DEF Keeps, Stays, Reaped, FamilyAt
<1>3. pc'[q] = "none" => parent'[q] = NULL
  BY <1>o, <1>p DEF Stays, Reaped, FamilyAt, Gone
<1>4. ASSUME parent'[q] # NULL
      PROVE  /\ pc'[parent'[q]] \notin Gone \cup {"child", "start", "prog"}
             /\ parent'[q] # q
             /\ stray'[parent'[q]] /\ pc'[q] # "zombie" => stray'[q]
             /\ stray'[q] /\ pc'[q] \in {"child", "start", "prog"} => stray'[parent'[q]]
  <2>0. parent'[q] = parent[q]
    BY <1>4, <1>o DEF Alone, Stays, Reaped
  <2>1. parent'[q] = parent[q] /\ parent[q] \in Pids /\ parent[q] # q
    BY <2>0, <1>4, <1>p, <1>y DEF FamilyAt
  <2>2. pc[parent[q]] \notin Gone \cup {"child", "start", "prog"}
    BY <2>1, <1>4, <1>p DEF FamilyAt
  <2>3. /\ stray[parent[q]] /\ pc[q] # "zombie" => stray[q]
        /\ stray[q] /\ pc[q] \in {"child", "start", "prog"} => stray[parent[q]]
    BY <2>1, <1>4, <1>p DEF FamilyAt
  <2>4. pc'[parent[q]] \notin Gone \cup {"child", "start", "prog"}
    <3>1. parent[q] # p => Stays(parent[q])
      BY <2>1, <2>2, <1>r DEF Gone
    <3> QED
      BY <2>1, <2>2, <3>1 DEF Stays
  <2>5. stray'[parent[q]] = stray[parent[q]]
    BY <2>1, <2>2, <1>o DEF Keeps
  <2>6. stray'[parent[q]] /\ pc'[q] # "zombie" => stray'[q]
    <3>1. CASE q = p
      <4>1. pc[q] # "zombie"
        BY <3>1 DEF Gone
      <4> QED
        BY <3>1, <4>1, <2>3, <2>5
    <3>2. CASE q # p
      <4>1. pc'[q] # "zombie" /\ parent'[q] # NULL => pc[q] # "zombie"
        BY <3>2, <1>o DEF Stays, Reaped
      <4> QED
        BY <4>1, <3>2, <2>3, <2>5, <1>4, <1>o DEF Keeps
    <3> QED
      BY <3>1, <3>2
  <2>7. stray'[q] /\ pc'[q] \in {"child", "start", "prog"} => stray'[parent[q]]
    <3>1. CASE q = p
      BY <3>1, <2>3, <2>5
    <3>2. CASE q # p
      <4>1. pc'[q] \in {"child", "start", "prog"} => pc[q] = pc'[q]
        BY <3>2, <1>o DEF Stays, Reaped
      <4> QED
        BY <4>1, <3>2, <2>3, <2>5, <1>o DEF Keeps
    <3> QED
      BY <3>1, <3>2
  <2> QED
    BY <2>1, <2>4, <2>6, <2>7
<1> QED
  BY <1>1, <1>2, <1>3, <1>4 DEF FamilyAt

\* ... and what shell and child know of a cd ...
LEMMA AloneCd ==
    ASSUME TypeOK, FamilyInv, CdInv, NEW p \in Pids, Alone(p),
           pc[p] \notin Gone, pc'[p] \notin Gone,
           pc'[p] \in {"child", "start"} => /\ pc[p] \in {"child", "start"}
                                            /\ line'[p] = line[p] /\ pos'[p] = pos[p],
           pc[p] \in {"child", "start"} /\ Is(Cmd(p), "cd") => pc'[p] \in {"child", "start"},
           kid'[p] # NULL => /\ kid'[p] = kid[p] /\ Stays(kid[p])
                            /\ line'[p] = line[p] /\ pos'[p] = pos[p],
           pc'[p] = "switch" /\ Is(Cmd(p)', "cd") /\ Word(Cmd(p)', 1) \in Dirs
              => cwd'[p] = Word(Cmd(p)', 1)
    PROVE  CdInv'
<1> SUFFICES ASSUME NEW q \in Pids PROVE CdAt(q)'
  BY DEF CdInv
<1>p. \A x \in Pids : FamilyAt(x) /\ CdAt(x)
  BY DEF FamilyInv, CdInv
<1>n. NULL \notin Pids
  BY NullAssumption
<1>y. \A x \in Pids : parent[x] \in Pids \cup {NULL} /\ kid[x] \in Pids \cup {NULL}
  BY DEF TypeOK
<1>o. \A x \in Pids : x # p => Keeps(x) /\ (Stays(x) \/ Reaped(p, x))
  BY DEF Alone
<1>1. CASE kid'[q] = NULL
  <2>1. CASE q = p
    BY <1>1, <2>1 DEF CdAt
  <2>2. CASE q # p
    <3>1. Keeps(q) /\ (pc'[q] = "switch" => pc[q] = "switch")
      BY <2>2, <1>o DEF Stays, Reaped
    <3> QED
      BY <1>1, <2>2, <3>1, <1>p DEF CdAt, Keeps, Cmd
  <2> QED
    BY <2>1, <2>2
<1>2. CASE kid'[q] # NULL
  <2>1. kid'[q] = kid[q] /\ kid[q] \in Pids /\ line'[q] = line[q] /\ pos'[q] = pos[q]
    BY <1>2, <1>o, <1>y DEF Keeps
  <2>2. Cmd(q)' = Cmd(q)
    BY <2>1 DEF Cmd
  <2>3. parent[kid[q]] = q /\ kid[q] # q
    BY <2>1, <1>2, <1>p, <1>n DEF FamilyAt
  <2>k. kid[q] # p => Keeps(kid[q]) /\ Stays(kid[q])
    <3>1. CASE q = p
      BY <3>1, <2>1, <1>2, <1>o
    <3>2. CASE q # p
      BY <3>2, <2>1, <2>3, <1>o DEF Reaped
    <3> QED
      BY <3>1, <3>2
  <2>4. pc'[kid[q]] \in {"child", "start"} => line'[kid[q]] = line'[q] /\ pos'[kid[q]] = pos'[q]
    <3>1. CASE kid[q] = p
      BY <3>1, <2>1, <2>3, <1>2, <1>p DEF CdAt
    <3>2. CASE kid[q] # p
      BY <3>2, <2>1, <2>k, <1>2, <1>p DEF CdAt, Keeps, Stays
    <3> QED
      BY <3>1, <3>2
  <2>5. ASSUME Is(Cmd(q), "cd")
        PROVE  /\ pc'[kid[q]] \in {"child", "start", "zombie"}
               /\ pc'[kid[q]] = "zombie" => code'[kid[q]] = Exited(CdCode(Cmd(q)))
    <3>1. /\ pc[kid[q]] \in {"child", "start", "zombie"}
          /\ pc[kid[q]] = "zombie" => code[kid[q]] = Exited(CdCode(Cmd(q)))
      BY <2>1, <2>5, <1>2, <1>p DEF CdAt
    <3>2. CASE kid[q] = p
      <4>1. pc[p] \in {"child", "start"} /\ line[p] = line[q] /\ pos[p] = pos[q]
        BY <3>1, <3>2, <2>1, <1>2, <1>p DEF CdAt, Gone
      <4>2. Is(Cmd(p), "cd")
        BY <4>1, <2>5 DEF Cmd
      <4> QED
        BY <3>2, <4>1, <4>2
    <3>3. CASE kid[q] # p
      BY <3>1, <3>3, <2>k DEF Stays
    <3> QED
      BY <3>2, <3>3
  <2>6. pc'[q] = "switch" /\ Is(Cmd(q)', "cd") /\ Word(Cmd(q)', 1) \in Dirs
           => cwd'[q] = Word(Cmd(q)', 1)
    <3>1. CASE q = p
      BY <3>1
    <3>2. CASE q # p
      BY <3>2, <2>2, <1>o, <1>p DEF CdAt, Keeps, Stays, Reaped
    <3> QED
      BY <3>1, <3>2
  <2> HIDE DEF Cmd
  <2> QED
    BY <2>1, <2>2, <2>4, <2>5, <2>6 DEF CdAt
<1> QED
  BY <1>1, <1>2

\* ... and, if it is a step of a shell, the pipes between its children, ...
LEMMA AlonePipes ==
    ASSUME TypeOK, FamilyInv, PipeInv, NEW p \in Pids, Alone(p),
           pc'[p] \notin {"child", "start", "prog"},
           \A c \in Pids : c # p /\ Member(p, c)' =>
                Member(p, c) /\ OrderAt(p, c)' /\ CarryAt(p, c)'
    PROVE  PipeInv'
<1> SUFFICES ASSUME NEW s \in Pids, NEW c \in Pids
             PROVE  OrderAt(s, c)' /\ CarryAt(s, c)' /\ \A d \in Pids : MeetAt(s, c, d)'
  BY DEF PipeInv
<1>i. OrderAt(s, c) /\ CarryAt(s, c) /\ \A d \in Pids : MeetAt(s, c, d)
  BY DEF PipeInv
<1>o. \A x \in Pids : x # p => Keeps(x) /\ (Stays(x) \/ Reaped(p, x))
  BY DEF Alone
<1>n. NULL \notin Pids
  BY NullAssumption
<1>m. ASSUME NEW x \in Pids, Started(s, x)'
      PROVE  /\ x # p /\ Keeps(x) /\ Stays(x) /\ Started(s, x)
             /\ Member(s, x)' => Member(s, x)
             /\ s # p => Keeps(s) /\ Stays(s)
  <2>1. x # p
    BY <1>m DEF Started
  <2>2. Keeps(x) /\ Stays(x)
    BY <2>1, <1>m, <1>o DEF Started, Reaped
  <2>5. Started(s, x)
    BY <2>2, <1>m DEF Started, Keeps, Stays
  <2>3. CASE s = p
    BY <2>1, <2>2, <2>3, <2>5, <1>m
  <2>4. CASE s # p
    <3>1. parent[x] = s
      BY <2>2, <1>m DEF Started, Stays
    <3>2. pc[s] # "zombie"
      BY <3>1, <1>n DEF FamilyInv, FamilyAt, Gone
    <3>3. Keeps(s) /\ Stays(s)
      BY <2>4, <3>2, <1>o DEF Reaped
    <3> QED
      BY <2>1, <2>2, <2>5, <3>3, <1>m DEF Member, Keeps, Stays
  <2> QED
    BY <2>1, <2>2, <2>3, <2>4
<1>1. SUFFICES ASSUME Started(s, c)'
               PROVE  OrderAt(s, c)' /\ CarryAt(s, c)' /\ \A d \in Pids : MeetAt(s, c, d)'
  BY DEF OrderAt, CarryAt, MeetAt, Member
<1>2. c # p /\ Keeps(c) /\ Stays(c) /\ Started(s, c) /\ (Member(s, c)' => Member(s, c))
  BY <1>1, <1>m
<1>3. OrderAt(s, c)' /\ CarryAt(s, c)'
  <2>1. CASE s = p
    <3>1. Member(s, c)' => OrderAt(s, c)' /\ CarryAt(s, c)'
      BY <2>1, <1>2
    <3> QED
      BY <3>1 DEF OrderAt, CarryAt
  <2>2. CASE s # p
    <3>1. Keeps(s) /\ Stays(s)
      BY <2>2, <1>1, <1>m
    <3> QED
      BY <3>1, <1>2, <1>i DEF OrderAt, CarryAt, Keeps, Stays, Writer, Out, Cmd
  <2> QED
    BY <2>1, <2>2
<1>4. ASSUME NEW d \in Pids
      PROVE  MeetAt(s, c, d)'
  <2>1. CASE Started(s, d)'
    <3>1. Keeps(d) /\ Stays(d) /\ Started(s, d)
      BY <2>1, <1>m
    <3> QED
      BY <3>1, <1>2, <1>i DEF MeetAt, Keeps, Stays, Writer, Reader, Out, In, Cmd
  <2>2. CASE ~ Started(s, d)'
    BY <2>2 DEF MeetAt
  <2> QED
    BY <2>1, <2>2
<1> QED
  BY <1>3, <1>4

\* ... or, if it is one of a child, what the child is connected to.
LEMMA AloneChildPipes ==
    ASSUME TypeOK, FamilyInv, PipeInv, NEW p \in Pids, Alone(p),
           pc[p] \in {"child", "start", "prog"},
           pc'[p] \in {"child", "start", "prog"} =>
              /\ line'[p] = line[p] /\ pos'[p] = pos[p] /\ serial'[p] = serial[p]
              /\ pc'[p] # "child" /\ stray'[p] = stray[p]
              /\ ~ stray[p] /\ Writer(p) => Out(p)' = Out(p)
              /\ ~ stray[p] /\ Reader(p) /\ (pc[p] = "child" => pipefd[p] # STDIN) => In(p)' = In(p)
    PROVE  PipeInv'
<1> SUFFICES ASSUME NEW s \in Pids, NEW c \in Pids
             PROVE  OrderAt(s, c)' /\ CarryAt(s, c)' /\ \A d \in Pids : MeetAt(s, c, d)'
  BY DEF PipeInv
<1>i. OrderAt(s, c) /\ CarryAt(s, c) /\ \A d \in Pids : MeetAt(s, c, d)
  BY DEF PipeInv
<1>n. NULL \notin Pids
  BY NullAssumption
<1>o. \A x \in Pids : x # p => Keeps(x) /\ Stays(x)
  BY <1>n DEF Alone, Reaped, FamilyInv, FamilyAt
<1>m. ASSUME NEW x \in Pids, Started(s, x)'
      PROVE  /\ Started(s, x) /\ (Member(s, x)' => Member(s, x))
             /\ s # p /\ Keeps(s) /\ Stays(s) /\ serial'[x] = serial[x]
             /\ Cmd(x)' = Cmd(x) /\ pos'[x] = pos[x] /\ line'[x] = line[x]
             /\ Writer(x) => Out(x)' = Out(x)
             /\ Reader(x) /\ (pc[x] = "child" => pipefd[x] # STDIN) => In(x)' = In(x)
             /\ pc'[x] = "child" => pc[x] = "child" /\ pipefd'[x] = pipefd[x]
  <2>1. parent[x] = s
    BY <1>m, <1>o DEF Alone, Started, Stays
  <2>2. s # p
    BY <2>1, <1>n DEF FamilyInv, FamilyAt
  <2>3. Keeps(s) /\ Stays(s)
    BY <2>2, <1>o
  <2>4. CASE x = p
    <3>1. pc'[p] \in {"child", "start", "prog"} /\ ~ stray'[p]
      BY <2>4, <1>m DEF Started
    <3>2. /\ line'[p] = line[p] /\ pos'[p] = pos[p] /\ serial'[p] = serial[p]
          /\ pc'[p] # "child" /\ stray'[p] = stray[p]
          /\ ~ stray[p] /\ Writer(p) => Out(p)' = Out(p)
          /\ ~ stray[p] /\ Reader(p) /\ (pc[p] = "child" => pipefd[p] # STDIN) => In(p)' = In(p)
      BY <3>1
    <3>3. Cmd(p)' = Cmd(p)
      BY <3>2 DEF Cmd
    <3>4. Started(s, p) /\ (Member(s, p)' => Member(s, p))
      BY <2>1, <2>3, <2>4, <3>1, <3>2, <1>m DEF Started, Member, Keeps, Stays
    <3> QED
      BY <2>2, <2>3, <2>4, <3>1, <3>2, <3>3, <3>4
  <2>5. CASE x # p
    <3>1. Keeps(x) /\ Stays(x)
      BY <2>5, <1>o
    <3>2. Started(s, x) /\ (Member(s, x)' => Member(s, x))
      BY <2>1, <2>3, <3>1, <1>m DEF Started, Member, Keeps, Stays
    <3> QED
      BY <2>2, <2>3, <3>1, <3>2 DEF Keeps, Stays, Cmd, Out, In
  <2> QED
    BY <2>4, <2>5
<1>1. SUFFICES ASSUME Started(s, c)'
               PROVE  OrderAt(s, c)' /\ CarryAt(s, c)' /\ \A d \in Pids : MeetAt(s, c, d)'
  BY DEF OrderAt, CarryAt, MeetAt, Member
<1>2. OrderAt(s, c)'
  BY <1>1, <1>m, <1>i DEF OrderAt, Keeps
<1>3. Writer(c)' = Writer(c)
  BY <1>1, <1>m DEF Writer
<1>4. CarryAt(s, c)'
  BY <1>1, <1>m, <1>i, <1>3 DEF CarryAt, Keeps, Stays
<1>5. ASSUME NEW d \in Pids, Started(s, d)', Writer(c)', Reader(d)',
             serial'[d] = serial'[c], pos'[d] = pos'[c] + 1
      PROVE  Joined(Out(c)', In(d)') /\ (pc'[d] = "child" => pipefd'[d] # STDIN)
  <2>1. /\ Reader(d) /\ Writer(c) /\ pos[d] = pos[c] + 1 /\ serial[d] = serial[c]
        /\ Started(s, c) /\ Started(s, d)
    BY <1>1, <1>5, <1>m DEF Reader, Writer
  <2>2. Joined(Out(c), In(d)) /\ (pc[d] = "child" => pipefd[d] # STDIN)
    BY <2>1, <1>i DEF MeetAt
  <2>3. Out(c)' = Out(c) /\ In(d)' = In(d)
    BY <2>1, <2>2, <1>1, <1>5, <1>m
  <2> QED
    BY <2>2, <2>3, <1>5, <1>m
<1>6. \A d \in Pids : MeetAt(s, c, d)'
  BY <1>5 DEF MeetAt, Joined
<1> QED
  BY <1>2, <1>4, <1>6

LEMMA AloneInv ==
    ASSUME Inv, TypeOK', NEW p \in Pids, Alone(p),
           PlaceAt(p)', FilesAt(p)', LastAt(p)', FamilyInv', CdInv', PipeInv'
    PROVE  Inv'
<1> SUFFICES ASSUME NEW q \in Pids
             PROVE  PlaceAt(q)' /\ FilesAt(q)' /\ LastAt(q)'
  BY DEF Inv, PlaceInv, FilesInv, LastInv
<1>1. CASE q = p
  BY <1>1
<1>2. CASE q # p
  <2>1. Keeps(q) /\ (Stays(q) \/ Reaped(p, q))
    BY <1>2 DEF Alone
  <2>2. PlaceAt(q) /\ FilesAt(q) /\ LastAt(q)
    BY DEF Inv, PlaceInv, FilesInv, LastInv
  <2>3. CASE Stays(q)
    BY <2>1, <2>2, <2>3, LocalKept DEF Stays
  <2>4. CASE Reaped(p, q)
    BY <2>1, <2>2, <2>4, LocalReaped DEF Reaped, Gone
  <2> QED
    BY <2>1, <2>3, <2>4
<1> QED
  BY <1>1, <1>2

\* What is true of one process in the state before.
LEMMA Before ==
    ASSUME Inv, NEW p \in Pids
    PROVE  /\ TypeOK /\ FamilyInv /\ CdInv /\ PipeInv
           /\ PlaceAt(p) /\ FamilyAt(p) /\ FilesAt(p) /\ CdAt(p) /\ LastAt(p)
BY DEF Inv, PlaceInv, FilesInv, LastInv, FamilyInv, CdInv

-----------------------------------------------------------------------------
(***************************************************************************)
(* The steps of a child                                                    *)
(***************************************************************************)
\* The descriptors after the dup2s and closes of the child.
LEMMA SetupFiles ==
    ASSUME TypeOK, NEW q \in Pids, Setup(q)
    PROVE  \E in \in [Fds -> File \cup {NULL}] :
             /\ \A i \in Fds : in[i] =
                   IF pipefd[q] = STDIN THEN fd[q][i]
                   ELSE IF i = pipefd[q] THEN NULL
                   ELSE IF i = STDIN /\ fd[q][pipefd[q]] # NULL THEN fd[q][pipefd[q]] ELSE fd[q][i]
             /\ fd'[q] \in [Fds -> File \cup {NULL}]
             /\ \A i \in Fds : \/ i \in Redirected(Cmd(q)) /\ fd'[q][i] = OnDisk
                               \/ fd'[q][i] =
                                    IF ends[q] = NULL THEN in[i]
                                    ELSE IF i = ends[q][1] \/ i = ends[q][2] THEN NULL
                                    ELSE IF i = STDOUT /\ in[ends[q][2]] # NULL THEN in[ends[q][2]] ELSE in[i]
             /\ fd' = [fd EXCEPT ![q] = fd'[q]]
<1> DEFINE F == fd[q]
           pass == pipefd[q]
           in == IF pass = STDIN THEN F ELSE Close(Dup2(F, pass, STDIN), pass)
           out == IF ends[q] = NULL THEN in
                  ELSE Close(Close(Dup2(in, ends[q][2], STDOUT), ends[q][1]), ends[q][2])
<1>1. F \in [Fds -> File \cup {NULL}] /\ pass \in Fds /\ STDIN \in Fds /\ STDOUT \in Fds
  BY FdsFacts DEF TypeOK, STDIN, STDOUT
<1>2. ends[q] # NULL => ends[q][1] \in Fds /\ ends[q][2] \in Fds
  BY DEF TypeOK
<1>3. /\ in \in [Fds -> File \cup {NULL}]
      /\ \A i \in Fds : in[i] = IF pass = STDIN THEN F[i]
                                ELSE IF i = pass THEN NULL
                                ELSE IF i = STDIN /\ F[pass] # NULL THEN F[pass] ELSE F[i]
  <2> HIDE DEF F, pass
  <2> QED
    BY <1>1 DEF Close, Dup2
<1>4. /\ out \in [Fds -> File \cup {NULL}]
      /\ \A i \in Fds : out[i] = IF ends[q] = NULL THEN in[i]
                                 ELSE IF i = ends[q][1] \/ i = ends[q][2] THEN NULL
                                 ELSE IF i = STDOUT /\ in[ends[q][2]] # NULL THEN in[ends[q][2]] ELSE in[i]
  <2> HIDE DEF F, pass, in
  <2> QED
    BY <1>1, <1>2, <1>3 DEF Close, Dup2
<1>5. PICK opened \in SUBSET Redirected(Cmd(q)) :
        fd' = [fd EXCEPT ![q] = [i \in Fds |-> IF i \in opened THEN OnDisk ELSE out[i]]]
  BY DEF Setup
<1>6. OnDisk \in File
  BY DEF OnDisk, File
<1>7. fd'[q] = [i \in Fds |-> IF i \in opened THEN OnDisk ELSE out[i]] /\ fd' = [fd EXCEPT ![q] = fd'[q]]
  <2> HIDE DEF out
  <2> QED
    BY <1>5 DEF TypeOK
<1> HIDE DEF F, pass, in, out
<1>8. /\ fd'[q] \in [Fds -> File \cup {NULL}]
      /\ \A i \in Fds : \/ i \in Redirected(Cmd(q)) /\ fd'[q][i] = OnDisk
                        \/ fd'[q][i] = out[i]
  BY <1>4, <1>6, <1>7
<1> QED
  BY <1>3, <1>4, <1>7, <1>8 DEF F, pass

LEMMA SetupInv ==
    ASSUME Inv, NEW q \in Pids, Setup(q)
    PROVE  Inv'
<1>b. /\ TypeOK /\ FamilyInv /\ CdInv /\ PipeInv
      /\ PlaceAt(q) /\ FamilyAt(q) /\ FilesAt(q)
  BY Before
<1>u. /\ pc[q] = "child" /\ pc' = [pc EXCEPT ![q] = "start"] /\ ends' = [ends EXCEPT ![q] = NULL]
      /\ UNCHANGED << parent, line, pos, inner, status, pipefd, kid, cwd, code, typed, serial, last, stray >>
  BY DEF Setup
<1>f. PICK in \in [Fds -> File \cup {NULL}] :
             /\ \A i \in Fds : in[i] =
                   IF pipefd[q] = STDIN THEN fd[q][i]
                   ELSE IF i = pipefd[q] THEN NULL
                   ELSE IF i = STDIN /\ fd[q][pipefd[q]] # NULL THEN fd[q][pipefd[q]] ELSE fd[q][i]
             /\ fd'[q] \in [Fds -> File \cup {NULL}]
             /\ \A i \in Fds : \/ i \in Redirected(Cmd(q)) /\ fd'[q][i] = OnDisk
                               \/ fd'[q][i] =
                                    IF ends[q] = NULL THEN in[i]
                                    ELSE IF i = ends[q][1] \/ i = ends[q][2] THEN NULL
                                    ELSE IF i = STDOUT /\ in[ends[q][2]] # NULL THEN in[ends[q][2]] ELSE in[i]
             /\ fd' = [fd EXCEPT ![q] = fd'[q]]
  BY <1>b, SetupFiles
<1>1. TypeOK'
  <2>1. fd' \in [Pids -> [Fds -> File \cup {NULL}]]
    BY <1>f, <1>b DEF TypeOK
  <2> QED
    BY <1>u, <1>b, <2>1 DEF TypeOK
<1>2. Alone(q)
  BY <1>u, <1>f, <1>b DEF Alone, Keeps, Stays, TypeOK
<1>3. /\ pc'[q] = "start" /\ ends'[q] = NULL /\ line'[q] = line[q] /\ pos'[q] = pos[q]
      /\ pipefd'[q] = pipefd[q] /\ stray'[q] = stray[q] /\ kid'[q] = kid[q] /\ serial'[q] = serial[q]
  BY <1>u, <1>b DEF TypeOK
<1>4. PlaceAt(q)' /\ LastAt(q)'
  BY <1>3, <1>u, <1>b DEF PlaceAt, LastAt, Running
<1>s. /\ STDIN = 0 /\ STDOUT = 1 /\ {0, 1, 2} \subseteq Fds /\ Fds \subseteq Nat
      /\ pipefd[q] \in Fds /\ Redirected(Cmd(q)) \subseteq 0 .. 2
      /\ OnDisk # NULL /\ OnDisk.kind # "write" /\ OnDisk.kind = "file"
  BY FdsFacts, NullAssumption, <1>b DEF STDIN, STDOUT, TypeOK, Redirected, OnDisk, File
<1>h. /\ \A i \in 0 .. 2 : fd[q][i] # NULL
      /\ \A i \in Fds : i > 2 /\ fd[q][i] # NULL =>
            i = pipefd[q] \/ (ends[q] # NULL /\ (i = ends[q][1] \/ i = ends[q][2]))
      /\ pipefd[q] = STDIN \/ pipefd[q] > 2
      /\ ends[q] # NULL => /\ ends[q][1] \in Fds /\ ends[q][2] \in Fds
                           /\ ends[q][1] > 2 /\ ends[q][2] > 2
                           /\ fd[q][ends[q][2]] # NULL /\ fd[q][ends[q][2]].kind = "write"
      /\ Cmd(q).controlop = "|" => ends[q] # NULL
      /\ ~ stray[q] =>
            /\ pipefd[q] # STDIN => fd[q][pipefd[q]] # NULL /\ fd[q][pipefd[q]].kind = "read"
            /\ \A i \in Fds : fd[q][i] # NULL /\ fd[q][i].kind = "write" =>
                  i = STDOUT \/ (ends[q] # NULL /\ i = ends[q][2])
  <2>1. ends[q] # NULL => ends[q][1] \in Fds /\ ends[q][2] \in Fds
    BY <1>b DEF TypeOK
  <2> QED
    BY <2>1, <1>b, <1>u DEF FilesAt, EndsAt, Handed, IsEnd, Gone
<1>5. \A i \in 0 .. 2 : fd'[q][i] # NULL
  <2>1. \A i \in 0 .. 2 : in[i] # NULL
    BY <1>s, <1>h, <1>f
  <2> QED
    BY <2>1, <1>s, <1>h, <1>f
<1>6. \A i \in Fds : i > 2 => fd'[q][i] = NULL
  <2>1. \A i \in Fds : i > 2 /\ in[i] # NULL => ends[q] # NULL /\ (i = ends[q][1] \/ i = ends[q][2])
    BY <1>s, <1>h, <1>f
  <2> QED
    BY <2>1, <1>s, <1>h, <1>f
<1>7. ASSUME ~ stray[q], NEW i \in Fds, fd'[q][i] # NULL, fd'[q][i].kind = "write"
      PROVE  i = STDOUT
  <2>1. i \in {0, 1, 2}
    BY <1>7, <1>6, <1>s
  <2>2. in[0] # NULL /\ in[0].kind # "write" /\ in[2] # NULL /\ in[2].kind # "write"
    BY <1>7, <1>s, <1>h, <1>f
  <2> QED
    BY <2>1, <2>2, <1>7, <1>s, <1>h, <1>f
<1>8. FilesAt(q)'
  BY <1>3, <1>5, <1>6, <1>7, <1>h DEF FilesAt, IsEnd, Gone
<1>9. FamilyInv'
  BY <1>b, <1>2, <1>3, <1>u, AloneFamily DEF FamilyAt, Gone
<1>10. CdInv'
  BY <1>b, <1>2, <1>3, <1>u, AloneCd DEF FamilyAt, Gone
<1>11. ASSUME ~ stray[q], Writer(q)
       PROVE  Out(q)' = Out(q)
  <2>1. ends[q] # NULL /\ ends[q][2] \in Fds
    BY <1>11, <1>h DEF Writer
  <2>w. /\ fd[q][ends[q][2]] # NULL /\ fd[q][ends[q][2]].kind = "write"
        /\ ends[q][2] # STDIN
    BY <2>1, <1>s, <1>h
  <2>p. pipefd[q] # STDIN => pipefd[q] # ends[q][2]
    BY <2>w, <1>11, <1>h
  <2>2. in[ends[q][2]] = fd[q][ends[q][2]] /\ in[ends[q][2]] # NULL
    BY <2>1, <2>w, <2>p, <1>f
  <2>3. fd'[q][STDOUT] = in[ends[q][2]]
    BY <2>1, <2>2, <1>11, <1>s, <1>h, <1>f DEF Writer
  <2> QED
    BY <2>2, <2>3, <1>u, <1>3 DEF Out
<1>12. ASSUME ~ stray[q], Reader(q), pipefd[q] # STDIN
       PROVE  In(q)' = In(q)
  <2>1. in[STDIN] = fd[q][pipefd[q]]
    BY <1>12, <1>s, <1>h, <1>f
  <2>2. fd'[q][STDIN] = in[STDIN]
    BY <1>12, <1>s, <1>h, <1>f DEF Reader
  <2> QED
    BY <2>1, <2>2, <1>u, <1>3 DEF In
<1>13. PipeInv'
  BY <1>b, <1>2, <1>3, <1>u, <1>11, <1>12, AloneChildPipes
<1> QED
  BY <1>1, <1>2, <1>4, <1>8, <1>9, <1>10, <1>13, AloneInv

\* cmd_line_exec is entered for a list of the parser.
LEMMA EnterType ==
    ASSUME TypeOK, NEW p \in Pids, NEW list \in Lists, Len(list) \in Nat,
           line' = [line EXCEPT ![p] = list], pos' = [pos EXCEPT ![p] = 1],
           inner' \in [Pids -> BOOLEAN], status' = [status EXCEPT ![p] = 0],
           pipefd' = [pipefd EXCEPT ![p] = STDIN], pc' = [pc EXCEPT ![p] = "exec"],
           last' = [last EXCEPT ![p] = Nothing],
           UNCHANGED << parent, ends, kid, fd, cwd, code, stray >>,
           typed' \in 0 .. MaxLines, serial' \in [Pids -> 0 .. typed']
    PROVE  TypeOK'
<1> USE DEF TypeOK
<1>1. STDIN \in Fds /\ Nothing \in Ended /\ 0 \in Statuses
  BY FdsFacts DEF STDIN, Nothing, Ended, Statuses
<1>2. line' \in [Pids -> Lists \cup {<< >>}] /\ pos' \in [Pids -> Nat]
  OBVIOUS
<1>3. \A q \in Pids : pos'[q] <= Len(line'[q]) + 1
  OBVIOUS
<1>4. status' \in [Pids -> Statuses] /\ pipefd' \in [Pids -> Fds]
  BY <1>1
<1>5. {code', last'} \subseteq [Pids -> Ended]
  BY <1>1 DEF Ended
<1>6. pc' \in [Pids -> {"none", "main", "exec", "forked", "exit", "switch",
                        "done", "child", "start", "prog", "zombie"}]
  OBVIOUS
<1> QED
  BY <1>2, <1>3, <1>4, <1>5, <1>6 DEF Ended

LEMMA StartSubshellInv ==
    ASSUME Inv, NEW q \in Pids, StartSubshell(q)
    PROVE  Inv'
<1>b. /\ TypeOK /\ FamilyInv /\ CdInv /\ PipeInv
      /\ PlaceAt(q) /\ FamilyAt(q) /\ FilesAt(q)
  BY Before
<1>l. Cmd(q).subshell \in Lists
  <2>1. pc[q] = "start" /\ Cmd(q).subshell # NULL
    BY DEF StartSubshell, IsSubshell
  <2>2. line[q] \in Lists /\ pos[q] \in 1 .. Len(line[q])
    <3>1. line[q] \in Lists /\ pos[q] \in Nat /\ pos[q] >= 1 /\ pos[q] <= Len(line[q])
      BY <2>1, <1>b DEF PlaceAt, Running, TypeOK
    <3>2. Len(line[q]) \in Nat
      BY <3>1, ListsAssumption
    <3> QED
      BY <3>1, <3>2
  <2> QED
    BY <2>1, <2>2, ListsAssumption DEF Cmd
<1> DEFINE list == Cmd(q).subshell
<1>u. /\ pc[q] = "start" /\ IsSubshell(Cmd(q))
      /\ line' = [line EXCEPT ![q] = list] /\ pos' = [pos EXCEPT ![q] = 1]
      /\ inner' = [inner EXCEPT ![q] = TRUE] /\ status' = [status EXCEPT ![q] = 0]
      /\ pipefd' = [pipefd EXCEPT ![q] = STDIN] /\ pc' = [pc EXCEPT ![q] = "exec"]
      /\ last' = [last EXCEPT ![q] = Nothing]
      /\ UNCHANGED << parent, ends, kid, fd, cwd, code, typed, serial, stray >>
  BY DEF StartSubshell, Enter
<1> HIDE DEF list
<1>n. Len(list) \in Nat
  BY <1>l, ListsAssumption DEF list
<1>1. TypeOK'
  <2>1. typed' \in 0 .. MaxLines /\ serial' \in [Pids -> 0 .. typed'] /\ inner' \in [Pids -> BOOLEAN]
    BY <1>u, <1>b DEF TypeOK
  <2>2. list \in Lists
    BY <1>l DEF list
  <2> QED
    BY <2>1, <2>2, <1>u, <1>n, <1>b, EnterType
<1>2. Alone(q)
  BY <1>u, <1>b DEF Alone, Keeps, Stays, TypeOK
<1>3. /\ pc'[q] = "exec" /\ ends'[q] = ends[q] /\ line'[q] = list /\ pos'[q] = 1 /\ fd'[q] = fd[q]
      /\ pipefd'[q] = STDIN /\ stray'[q] = stray[q] /\ kid'[q] = kid[q] /\ serial'[q] = serial[q]
  BY <1>u, <1>b DEF TypeOK
<1>4. PlaceAt(q)' /\ LastAt(q)'
  BY <1>3, <1>l DEF PlaceAt, LastAt, Running, list
<1>5. FilesAt(q)'
  BY <1>3, <1>u, <1>b DEF FilesAt, EndsAt, Handed, IsEnd, Gone
<1>6. FamilyInv'
  BY <1>b, <1>2, <1>3, <1>u, AloneFamily DEF FamilyAt, Gone
<1>7. CdInv'
  <2>1. ~ Is(Cmd(q), "cd")
    BY <1>u DEF Is
  <2> QED
    BY <2>1, <1>b, <1>2, <1>3, <1>u, AloneCd DEF FamilyAt, Gone
<1>8. PipeInv'
  BY <1>b, <1>2, <1>3, <1>u, AloneChildPipes
<1> QED
  BY <1>1, <1>2, <1>4, <1>5, <1>6, <1>7, <1>8, AloneInv

LEMMA ExecInv ==
    ASSUME Inv, NEW q \in Pids, Exec(q)
    PROVE  Inv'
<1>b. /\ TypeOK /\ FamilyInv /\ CdInv /\ PipeInv
      /\ PlaceAt(q) /\ FamilyAt(q) /\ FilesAt(q)
  BY Before
<1> DEFINE missing == Is(Cmd(q), "missing")
<1>u. /\ pc[q] = "start"
      /\ Is(Cmd(q), "run") \/ Is(Cmd(q), "cat") \/ missing
      /\ pc' = [pc EXCEPT ![q] = IF missing THEN "switch" ELSE "prog"]
      /\ stray' = [stray EXCEPT ![q] = stray[q] \/ missing]
      /\ UNCHANGED << parent, line, pos, inner, status, pipefd, ends, kid, fd, cwd, code,
                      typed, serial, last >>
  BY DEF Exec
<1>m. missing \in BOOLEAN
  BY DEF Is
<1>w. ~ Is(Cmd(q), "cd")
  <2>1. << "run" >>[1] # << "cd" >>[1] /\ << "cat" >>[1] # << "cd" >>[1] /\ << "missing" >>[1] # << "cd" >>[1]
    OBVIOUS
  <2> QED
    BY <2>1, <1>u DEF Is
<1>3. /\ pc'[q] = IF missing THEN "switch" ELSE "prog"
      /\ stray'[q] = (stray[q] \/ missing)
      /\ ends'[q] = ends[q] /\ line'[q] = line[q] /\ pos'[q] = pos[q] /\ fd'[q] = fd[q]
      /\ pipefd'[q] = pipefd[q] /\ kid'[q] = kid[q] /\ serial'[q] = serial[q]
  <2> HIDE DEF missing
  <2> QED
    BY <1>u, <1>b DEF TypeOK
<1> HIDE DEF missing
<1>1. TypeOK'
  <2>1. stray' \in [Pids -> BOOLEAN]
    BY <1>u, <1>b, <1>m DEF TypeOK
  <2>2. pc' \in [Pids -> {"none", "main", "exec", "forked", "exit", "switch",
                        "done", "child", "start", "prog", "zombie"}]
    BY <1>u, <1>b DEF TypeOK
  <2> QED
    BY <1>u, <1>b, <2>1, <2>2 DEF TypeOK
<1>2. Alone(q)
  BY <1>u, <1>b DEF Alone, Keeps, Stays, TypeOK
<1>4. PlaceAt(q)' /\ LastAt(q)'
  BY <1>3, <1>u, <1>b DEF PlaceAt, LastAt, Running
<1>s. /\ pc'[q] \in {"switch", "prog"}
      /\ stray'[q] = stray[q] \/ (pc'[q] = "switch" /\ stray'[q] = TRUE)
      /\ pc'[q] = "switch" => stray'[q] = TRUE
  <2>1. CASE missing
    <3>1. (stray[q] \/ missing) = TRUE
      BY <2>1, Zenon
    <3>2. stray'[q] = TRUE
      BY <3>1, <1>3, Zenon
    <3> QED
      BY <3>2, <2>1, <1>3
  <2>2. CASE ~ missing
    <3>1. stray[q] \in BOOLEAN
      BY <1>b DEF TypeOK
    <3>2. (stray[q] \/ missing) = stray[q]
      BY <3>1, <2>2, Zenon
    <3>3. stray'[q] = stray[q]
      BY <3>2, <1>3, Zenon
    <3> QED
      BY <3>3, <2>2, <1>3
  <2> QED
    BY <2>1, <2>2
<1>5. FilesAt(q)'
  <2>1. \A i \in Fds : i > 2 => fd'[q][i] = NULL
    BY <1>3, <1>u, <1>b DEF FilesAt, Handed
  <2>2. ends'[q] = NULL
    BY <1>3, <1>u, <1>b DEF FilesAt, EndsAt
  <2>3. ~ stray'[q] => \A i \in Fds : IsEnd(q, i, "write")' => i = STDOUT
    BY <1>3, <1>s, <1>u, <1>b, <2>2 DEF FilesAt, IsEnd
  <2> QED
    BY <2>1, <2>2, <2>3, <1>3, <1>s, <1>u, <1>b DEF FilesAt, Gone
<1>6. FamilyInv'
  <2>1. kid'[q] = NULL
    BY <1>3, <1>u, <1>b DEF FamilyAt
  <2>2. stray[q] => stray'[q]
    BY <1>s
  <2> QED
    BY <2>1, <2>2, <1>b, <1>2, <1>s, <1>u, AloneFamily DEF Gone
<1>7. CdInv'
  <2>1. Cmd(q)' = Cmd(q)
    BY <1>3 DEF Cmd
  <2> QED
    BY <2>1, <1>w, <1>b, <1>2, <1>3, <1>u, AloneCd DEF FamilyAt, Gone
<1>8. PipeInv'
  <2>1. pc'[q] # "switch" => stray'[q] = stray[q] /\ Out(q)' = Out(q) /\ In(q)' = In(q)
    BY <1>3, <1>u, <1>b DEF Out, In, TypeOK
  <2> QED
    BY <2>1, <1>b, <1>2, <1>3, <1>u, AloneChildPipes
<1> QED
  BY <1>1, <1>2, <1>4, <1>5, <1>6, <1>7, <1>8, AloneInv


-----------------------------------------------------------------------------
(***************************************************************************)
(* The steps of a shell                                                    *)
(***************************************************************************)
\* The list of a process and its place in it.
LEMMA AtCommand ==
    ASSUME TypeOK, NEW p \in Pids, PlaceAt(p), pc[p] \in Running
    PROVE  /\ line[p] \in Lists /\ pos[p] \in Nat /\ pos[p] >= 1
           /\ Len(line[p]) \in Nat \ {0} /\ pos[p] <= Len(line[p]) + 1
           /\ pc[p] \notin {"exec", "done"} => pos[p] \in 1 .. Len(line[p])
<1>1. line[p] \in Lists /\ pos[p] \in Nat /\ pos[p] >= 1 /\ pos[p] <= Len(line[p]) + 1
  BY DEF TypeOK, PlaceAt
<1>2. Len(line[p]) \in Nat \ {0}
  BY <1>1, ListsAssumption
<1>3. pc[p] \notin {"exec", "done"} => pos[p] <= Len(line[p])
  BY DEF PlaceAt
<1> QED
  BY <1>1, <1>2, <1>3

\* A shell that is not at a pipe has no pipe open, and one that was not led
\* astray has none to hand on.
LEMMA NoPipe ==
    ASSUME NEW p \in Pids, FilesAt(p), pc[p] = "switch", Cmd(p).controlop # "|", pipefd[p] \in Fds
    PROVE  /\ \A i \in Fds : i > 2 => fd[p][i] = NULL
           /\ ~ stray[p] => pipefd[p] = STDIN
           /\ ends[p] = NULL
<1>1. \A i \in Fds : i > 2 => fd[p][i] = NULL
  BY DEF FilesAt, Handed
<1>2. ~ stray[p] => pipefd[p] = STDIN
  BY <1>1 DEF FilesAt, IsEnd
<1>3. ends[p] = NULL
  BY DEF FilesAt, EndsAt
<1> QED
  BY <1>1, <1>2, <1>3

LEMMA NoWaitInv ==
    ASSUME Inv, NEW p \in Pids, NoWait(p)
    PROVE  Inv'
<1>b. /\ TypeOK /\ FamilyInv /\ CdInv /\ PipeInv
      /\ PlaceAt(p) /\ FamilyAt(p) /\ FilesAt(p)
  BY Before
<1>u. /\ pc[p] = "switch" /\ ~ Waits(p)
      /\ status' = [status EXCEPT ![p] = 0] /\ pos' = [pos EXCEPT ![p] = pos[p] + 1]
      /\ pc' = [pc EXCEPT ![p] = "exec"] /\ kid' = [kid EXCEPT ![p] = NULL]
      /\ last' = [last EXCEPT ![p] = Nothing]
      /\ UNCHANGED << parent, line, inner, pipefd, ends, fd, cwd, code, typed, serial, stray >>
  BY DEF NoWait
<1>a. line[p] \in Lists /\ pos[p] \in Nat /\ pos[p] >= 1 /\ pos[p] <= Len(line[p]) /\ Len(line[p]) \in Nat
  BY <1>u, <1>b, AtCommand DEF Running
<1>1. TypeOK'
  <2>1. pos' \in [Pids -> Nat] /\ \A q \in Pids : pos'[q] <= Len(line'[q]) + 1
    BY <1>u, <1>a, <1>b DEF TypeOK
  <2>2. 0 \in Statuses /\ Nothing \in Ended
    BY DEF Statuses, Nothing, Ended
  <2>3. status' \in [Pids -> Statuses] /\ {code', last'} \subseteq [Pids -> Ended]
    BY <2>2, <1>u, <1>b DEF TypeOK, Ended
  <2>4. kid' \in [Pids -> Pids \cup {NULL}]
    BY <1>u, <1>b DEF TypeOK
  <2>5. pc' \in [Pids -> {"none", "main", "exec", "forked", "exit", "switch",
                          "done", "child", "start", "prog", "zombie"}]
    BY <1>u, <1>b DEF TypeOK
  <2> QED
    BY <1>u, <1>b, <2>1, <2>3, <2>4, <2>5 DEF TypeOK, Ended
<1>2. Alone(p)
  BY <1>u, <1>b DEF Alone, Keeps, Stays, TypeOK
<1>3. /\ pc'[p] = "exec" /\ line'[p] = line[p] /\ pos'[p] = pos[p] + 1 /\ kid'[p] = NULL
      /\ pipefd'[p] = pipefd[p] /\ ends'[p] = ends[p] /\ fd'[p] = fd[p]
      /\ stray'[p] = stray[p] /\ serial'[p] = serial[p]
  BY <1>u, <1>b DEF TypeOK
<1>4. line'[p][pos'[p] - 1] = Cmd(p)
  BY <1>3, <1>a DEF Cmd
<1>5. PlaceAt(p)' /\ LastAt(p)'
  <2>1. PlaceAt(p)'
    BY <1>3, <1>a DEF PlaceAt, Running
  <2>2. Cmd(p).controlop # "&&" /\ Cmd(p).controlop # "||"
    BY <1>u DEF Waits
  <2>3. LastAt(p)'
    BY <1>4, <2>2 DEF LastAt
  <2> QED
    BY <2>1, <2>3
<1>6. FilesAt(p)'
  <2>1. pos'[p] > 1
    BY <1>3, <1>a
  <2> HIDE DEF Cmd
  <2> QED
    BY <2>1, <1>3, <1>4, <1>u, <1>b DEF FilesAt, EndsAt, Handed, IsEnd, Gone
<1>7. FamilyInv'
  BY <1>b, <1>2, <1>3, <1>u, AloneFamily DEF Gone
<1>8. CdInv'
  BY <1>b, <1>2, <1>3, <1>u, AloneCd DEF Gone
<1>9. ASSUME NEW c \in Pids, c # p, Member(p, c)'
      PROVE  Member(p, c) /\ OrderAt(p, c)' /\ CarryAt(p, c)'
  <2>1. Keeps(c) /\ Stays(c)
    BY <1>9, <1>2 DEF Alone, Reaped, Member, Started
  <2>2. Member(p, c)
    BY <2>1, <1>9, <1>3, <1>u DEF Member, Started, Keeps, Stays
  <2>3. OrderAt(p, c) /\ CarryAt(p, c)
    BY <1>b DEF PipeInv
  <2>p. pos[c] \in Nat /\ pos'[c] = pos[c]
    BY <2>1, <1>b DEF Keeps, TypeOK
  <2>4. line[c] = line[p] /\ pos[c] <= pos[p]
    BY <2>2, <2>3, <2>p, <1>a DEF OrderAt
  <2>5. OrderAt(p, c)'
    BY <2>1, <2>4, <2>p, <1>3, <1>a DEF OrderAt, Keeps
  <2>6. Writer(c)' = Writer(c) /\ Out(c)' = Out(c)
    BY <2>1 DEF Writer, Out, Cmd, Keeps, Stays
  <2>7. pos'[p] = pos'[c] + 1 => pos[p] = pos[c]
    BY <2>p, <1>3, <1>a
  <2> HIDE DEF Out, Writer
  <2>8. CarryAt(p, c)'
    BY <2>2, <2>3, <2>6, <2>7, <1>3, <1>u DEF CarryAt
  <2> QED
    BY <2>2, <2>5, <2>8
<1>10. PipeInv'
  <2>1. pc'[p] \notin {"child", "start", "prog"}
    BY <1>3
  <2> QED
    BY <2>1, <1>b, <1>2, <1>9, AlonePipes
<1> QED
  BY <1>1, <1>2, <1>5, <1>6, <1>7, <1>8, <1>10, AloneInv

\* What the shell does when waitpid has returned, or failed.
LEMMA WaitedInv ==
    ASSUME Inv, NEW p \in Pids, NEW o \in Ended, pc[p] = "switch", Waits(p), Waited(p, o),
           \/ /\ kid[p] # NULL /\ pc[kid[p]] = "zombie"
              /\ code' = [code EXCEPT ![kid[p]] = Nothing]
              /\ parent' = [parent EXCEPT ![kid[p]] = NULL]
           \/ kid[p] = NULL /\ UNCHANGED << code, parent >>,
           UNCHANGED << line, inner, pipefd, ends, fd, cwd, typed, serial, stray >>
    PROVE  Inv'
<1>b. /\ TypeOK /\ FamilyInv /\ CdInv /\ PipeInv
      /\ PlaceAt(p) /\ FamilyAt(p) /\ FilesAt(p)
  BY Before
<1>n. NULL \notin Pids /\ kid[p] \in Pids \cup {NULL}
  BY <1>b, NullAssumption DEF TypeOK
<1>a. line[p] \in Lists /\ pos[p] \in Nat /\ pos[p] >= 1 /\ pos[p] <= Len(line[p]) /\ Len(line[p]) \in Nat
  BY <1>b, AtCommand DEF Running
<1> DEFINE op == Cmd(p).controlop
           st == StatusAfter(op, o, status[p])
           on == Proceeds(op, o, st)
<1>w. /\ status' = [status EXCEPT ![p] = st]
      /\ pos' = [pos EXCEPT ![p] = IF on THEN pos[p] + 1 ELSE pos[p]]
      /\ pc' = [q \in Pids |-> IF q = p THEN IF on THEN "exec" ELSE "done"
                               ELSE IF q = kid[p] THEN "none" ELSE pc[q]]
      /\ kid' = [kid EXCEPT ![p] = NULL]
      /\ last' = [last EXCEPT ![p] = o]
  BY DEF Waited
<1>o. o.n \in Statuses /\ o.exited \in BOOLEAN
  BY DEF Ended
<1>s. st \in Statuses
  BY <1>o, <1>b DEF StatusAfter, TypeOK
<1>l. on => /\ op = "&&" => o = Exited(0)
            /\ op = "||" => o # Exited(0)
  <2>1. Exited(0).exited = TRUE /\ Exited(0).n = 0
    BY DEF Exited
  <2>2. op = "&&" /\ on => o = Exited(0)
    BY DEF Proceeds
  <2>3. op = "||" /\ o = Exited(0) => st = 0
    BY <2>1 DEF StatusAfter
  <2>4. op = "||" /\ on => st # 0
    BY DEF Proceeds
  <2> HIDE DEF on, st, op
  <2> QED
    BY <2>2, <2>3, <2>4
<1>j. op # "|"
  BY DEF Waits
<1> HIDE DEF op, st, on
<1>k. kid[p] # p
  BY <1>n, <1>b DEF FamilyAt, FamilyInv
<1>3. /\ pc'[p] = IF on THEN "exec" ELSE "done"
      /\ pos'[p] = IF on THEN pos[p] + 1 ELSE pos[p]
      /\ line'[p] = line[p] /\ kid'[p] = NULL /\ last'[p] = o
      /\ pipefd'[p] = pipefd[p] /\ ends'[p] = ends[p] /\ fd'[p] = fd[p]
      /\ stray'[p] = stray[p] /\ serial'[p] = serial[p]
  BY <1>w, <1>b DEF TypeOK
<1>1. TypeOK'
  <2>1. pos' \in [Pids -> Nat] /\ \A q \in Pids : pos'[q] <= Len(line'[q]) + 1
    BY <1>w, <1>a, <1>b DEF TypeOK
  <2>2. Nothing \in Ended
    BY DEF Statuses, Nothing, Ended
  <2>3. status' \in [Pids -> Statuses]
    BY <1>w, <1>s, <1>b DEF TypeOK
  <2>4. code' \in [Pids -> Ended] /\ last' \in [Pids -> Ended]
    <3>1. code \in [Pids -> Ended] /\ last \in [Pids -> Ended]
      BY <1>b DEF TypeOK, Ended
    <3> QED
      BY <3>1, <2>2, <1>w
  <2>5. kid' \in [Pids -> Pids \cup {NULL}] /\ parent' \in [Pids -> Pids \cup {NULL}]
    BY <1>w, <1>b DEF TypeOK
  <2>6. pc' \in [Pids -> {"none", "main", "exec", "forked", "exit", "switch",
                          "done", "child", "start", "prog", "zombie"}]
    BY <1>w, <1>b DEF TypeOK
  <2> QED
    BY <1>b, <2>1, <2>3, <2>4, <2>5, <2>6 DEF TypeOK, Ended
<1>2. Alone(p)
  <2>1. ASSUME NEW q \in Pids, q # p
        PROVE  Keeps(q) /\ (Stays(q) \/ Reaped(p, q))
    <3>1. Keeps(q)
      BY <2>1, <1>w, <1>b DEF Keeps, TypeOK
    <3>2. CASE q = kid[p]
      BY <3>1, <3>2, <2>1, <1>n, <1>w, <1>b DEF Reaped, FamilyAt, TypeOK
    <3>3. CASE q # kid[p]
      BY <3>1, <3>3, <2>1, <1>w, <1>b DEF Stays, TypeOK
    <3> QED
      BY <3>2, <3>3
  <2>2. parent'[p] = parent[p] /\ code'[p] = code[p]
    BY <1>k, <1>b DEF TypeOK
  <2> QED
    BY <2>1, <2>2 DEF Alone
<1>4. on => line'[p][pos'[p] - 1].controlop = op
  BY <1>3, <1>a DEF Cmd, op
<1>5. PlaceAt(p)'
  BY <1>3, <1>a DEF PlaceAt, Running
<1>6. LastAt(p)'
  BY <1>3, <1>4, <1>l DEF LastAt
<1>7. FilesAt(p)'
  <2>0. pipefd[p] \in Fds /\ Cmd(p).controlop # "|"
    BY <1>j, <1>b DEF TypeOK, op
  <2>1. /\ \A i \in Fds : i > 2 => fd[p][i] = NULL
        /\ ~ stray[p] => pipefd[p] = STDIN
        /\ ends[p] = NULL
    BY <2>0, <1>b, NoPipe
  <2> QED
    BY <2>1, <1>3, <1>b DEF FilesAt, IsEnd, Gone
<1>8. FamilyInv'
  BY <1>b, <1>2, <1>3, AloneFamily DEF Gone
<1>9. CdInv'
  BY <1>b, <1>2, <1>3, AloneCd DEF Gone
<1>10. ASSUME NEW c \in Pids, c # p, Member(p, c)'
       PROVE  Member(p, c) /\ OrderAt(p, c)' /\ CarryAt(p, c)'
  <2>1. Keeps(c) /\ Stays(c)
    BY <1>10, <1>2 DEF Alone, Reaped, Member, Started
  <2>2. Member(p, c)
    BY <2>1, <1>10, <1>3 DEF Member, Started, Keeps, Stays
  <2>3. OrderAt(p, c)
    BY <1>b DEF PipeInv
  <2>p. pos[c] \in Nat /\ pos'[c] = pos[c]
    BY <2>1, <1>b DEF Keeps, TypeOK
  <2>k. c # kid[p]
    BY <2>2, <1>n DEF Member, Started
  <2>4. line[c] = line[p] /\ pos[c] < pos[p]
    BY <2>2, <2>3, <2>k DEF OrderAt
  <2>5. OrderAt(p, c)'
    BY <2>1, <2>4, <2>p, <1>3, <1>a DEF OrderAt, Keeps
  <2>6. on => pos'[p] # pos'[c] + 1
    BY <2>4, <2>p, <1>3, <1>a
  <2>7. CarryAt(p, c)'
    BY <2>6, <1>3 DEF CarryAt
  <2> QED
    BY <2>2, <2>5, <2>7
<1>11. PipeInv'
  <2>1. pc'[p] \notin {"child", "start", "prog"}
    BY <1>3
  <2> QED
    BY <2>1, <1>b, <1>2, <1>10, AlonePipes
<1> QED
  BY <1>1, <1>2, <1>5, <1>6, <1>7, <1>8, <1>9, <1>11, AloneInv

LEMMA WaitInv ==
    ASSUME Inv, NEW p \in Pids, Wait(p)
    PROVE  Inv'
<1>1. kid[p] \in Pids /\ code[kid[p]] \in Ended
  BY DEF Wait, Inv, TypeOK, Ended
<1> QED
  BY <1>1, WaitedInv DEF Wait

LEMMA WaitFailsInv ==
    ASSUME Inv, NEW p \in Pids, WaitFails(p)
    PROVE  Inv'
<1>1. Outcomes \subseteq Ended
  BY DEF Outcomes, Ended, Exited, Signalled, Statuses
<1> QED
  BY <1>1, WaitedInv DEF WaitFails

LEMMA ReapInv ==
    ASSUME Inv, NEW p \in Pids, Reap(p)
    PROVE  Inv'
<1>b. /\ TypeOK /\ FamilyInv /\ CdInv /\ PipeInv
      /\ PlaceAt(p) /\ FamilyAt(p) /\ FilesAt(p) /\ LastAt(p)
  BY Before
<1>n. NULL \notin Pids
  BY NullAssumption
<1>u. /\ pc[p] = "exec" /\ pos[p] > Len(line[p])
      /\ UNCHANGED << line, pos, inner, status, pipefd, ends, kid, fd, cwd, typed, serial, last, stray >>
  BY DEF Reap
<1>a. line[p] \in Lists /\ pos[p] \in Nat /\ pos[p] = Len(line[p]) + 1 /\ Len(line[p]) \in Nat \ {0}
  BY <1>u, <1>b, AtCommand DEF Running
<1>k. kid[p] = NULL
  BY <1>u, <1>b DEF FamilyAt
\* Either way the step changes only the place of the shell and a zombie.
<1>1. ASSUME TypeOK', Alone(p), pc'[p] \in {"exec", "done"}, FilesAt(p)'
      PROVE  Inv'
  <2>1. PlaceAt(p)' /\ LastAt(p)'
    BY <1>1, <1>u, <1>b DEF PlaceAt, LastAt, Running
  <2>2. FamilyInv' /\ CdInv'
    <3>1. kid'[p] = NULL /\ stray'[p] = stray[p]
      BY <1>u, <1>k
    <3> QED
      BY <3>1, <1>1, <1>b, <1>u, AloneFamily, AloneCd DEF Gone
  <2>3. ASSUME NEW c \in Pids, c # p, Member(p, c)'
        PROVE  Member(p, c) /\ OrderAt(p, c)' /\ CarryAt(p, c)'
    <3>1. Stays(c)
      BY <2>3, <1>1 DEF Alone, Reaped, Member, Started
    <3>2. Member(p, c)
      BY <3>1, <2>3, <1>1, <1>u DEF Member, Started, Stays
    <3>3. OrderAt(p, c) /\ CarryAt(p, c)
      BY <1>b DEF PipeInv
    <3> QED
      BY <3>1, <3>2, <3>3, <1>1, <1>u DEF OrderAt, CarryAt, Writer, Out, Cmd, Stays
  <2>4. PipeInv'
    <3>1. pc'[p] \notin {"child", "start", "prog"}
      BY <1>1
    <3> QED
      BY <3>1, <1>b, <1>1, <2>3, AlonePipes
  <2> QED
    BY <1>1, <2>1, <2>2, <2>4, AloneInv
<1>2. CASE \E q \in Zombies(p) : /\ pc' = [pc EXCEPT ![q] = "none"]
                                 /\ code' = [code EXCEPT ![q] = Nothing]
                                 /\ parent' = [parent EXCEPT ![q] = NULL]
  <2>1. PICK q \in Zombies(p) : /\ pc' = [pc EXCEPT ![q] = "none"]
                                /\ code' = [code EXCEPT ![q] = Nothing]
                                /\ parent' = [parent EXCEPT ![q] = NULL]
    BY <1>2
  <2>2. q \in Pids /\ parent[q] = p /\ pc[q] = "zombie" /\ q # p
    BY <1>u DEF Zombies, Children
  <2>3. Nothing \in Ended
    BY DEF Statuses, Nothing, Ended
  <2>4. code' \in [Pids -> Ended]
    <3>1. code \in [Pids -> Ended]
      BY <1>b DEF TypeOK, Ended
    <3> QED
      BY <3>1, <2>1, <2>3
  <2>5. pc' \in [Pids -> {"none", "main", "exec", "forked", "exit", "switch",
                          "done", "child", "start", "prog", "zombie"}]
    BY <2>1, <1>b DEF TypeOK
  <2>6. parent' \in [Pids -> Pids \cup {NULL}]
    BY <2>1, <1>b DEF TypeOK
  <2>7. TypeOK'
    BY <1>u, <1>b, <2>4, <2>5, <2>6 DEF TypeOK, Ended
  <2>8. Alone(p)
    BY <2>1, <2>2, <1>u, <1>b DEF Alone, Keeps, Stays, Reaped, TypeOK
  <2>9. pc'[p] = "exec"
    BY <2>1, <2>2, <1>u, <1>b DEF TypeOK
  <2>10. FilesAt(p)'
    BY <2>9, <1>u, <1>b DEF FilesAt, EndsAt, Handed, IsEnd, Gone
  <2> QED
    BY <2>7, <2>8, <2>9, <2>10, <1>1
<1>3. CASE pc' = [pc EXCEPT ![p] = "done"] /\ UNCHANGED << code, parent >>
  <2>1. TypeOK'
    BY <1>3, <1>u, <1>b DEF TypeOK
  <2>2. Alone(p) /\ pc'[p] = "done"
    BY <1>3, <1>u, <1>b DEF Alone, Keeps, Stays, TypeOK
  <2>3. \A i \in Fds : i > 2 => fd[p][i] = NULL
    <3>1. line[p][pos[p] - 1].controlop # "|"
      BY <1>a, ListsAssumption DEF Joins
    <3> QED
      BY <3>1, <1>u, <1>b DEF FilesAt, Handed
  <2>4. ends[p] = NULL
    BY <1>u, <1>b DEF FilesAt, EndsAt
  <2>5. FilesAt(p)'
    BY <2>2, <2>3, <2>4, <1>u, <1>b DEF FilesAt, IsEnd, Gone
  <2> QED
    BY <2>1, <2>2, <2>5, <1>1
<1> QED
  BY <1>2, <1>3 DEF Reap

\* main has the next line read, or has ended.
LEMMA DoneInv ==
    ASSUME Inv, NEW p \in Pids, Done(p)
    PROVE  Inv'
<1>b. /\ TypeOK /\ FamilyInv /\ CdInv /\ PipeInv
      /\ PlaceAt(p) /\ FamilyAt(p) /\ FilesAt(p)
  BY Before
<1>d. pc[p] = "done"
  BY DEF Done
<1>1. CASE End(p, Exited(IF status[p] = 0 THEN 0 ELSE 5))
  <2>1. Exited(IF status[p] = 0 THEN 0 ELSE 5) \in Ended
    BY DEF Exited, Ended, Statuses
  <2> QED
    BY <2>1, <1>1, <1>d, EndInv DEF Gone
<1>2. CASE /\ pc' = [pc EXCEPT ![p] = "main"]
           /\ line' = [line EXCEPT ![p] = << >>] /\ pos' = [pos EXCEPT ![p] = 0]
           /\ status' = [status EXCEPT ![p] = 0] /\ pipefd' = [pipefd EXCEPT ![p] = STDIN]
           /\ last' = [last EXCEPT ![p] = Nothing]
           /\ UNCHANGED << parent, inner, ends, kid, fd, cwd, code, typed, serial, stray >>
  <2>1. TypeOK'
    <3>1. STDIN \in Fds /\ 0 \in Statuses /\ Nothing \in Ended
      BY FdsFacts DEF STDIN, Statuses, Nothing, Ended
    <3>2. line' \in [Pids -> Lists \cup {<< >>}] /\ pos' \in [Pids -> Nat]
      BY <1>2, <1>b DEF TypeOK
    <3>3. \A q \in Pids : pos'[q] <= Len(line'[q]) + 1
      BY <1>2, <1>b DEF TypeOK
    <3>4. status' \in [Pids -> Statuses] /\ pipefd' \in [Pids -> Fds]
      BY <3>1, <1>2, <1>b DEF TypeOK
    <3>5. code' \in [Pids -> Ended] /\ last' \in [Pids -> Ended]
      <4>1. code \in [Pids -> Ended] /\ last \in [Pids -> Ended]
        BY <1>b DEF TypeOK, Ended
      <4> QED
        BY <4>1, <3>1, <1>2
    <3>6. pc' \in [Pids -> {"none", "main", "exec", "forked", "exit", "switch",
                            "done", "child", "start", "prog", "zombie"}]
      BY <1>2, <1>b DEF TypeOK
    <3> QED
      BY <1>2, <1>b, <3>2, <3>3, <3>4, <3>5, <3>6 DEF TypeOK, Ended
  <2>2. Alone(p)
    BY <1>2, <1>b DEF Alone, Keeps, Stays, TypeOK
  <2>3. /\ pc'[p] = "main" /\ pipefd'[p] = STDIN /\ ends'[p] = ends[p] /\ kid'[p] = NULL
        /\ fd'[p] = fd[p] /\ stray'[p] = stray[p]
    BY <1>2, <1>d, <1>b DEF TypeOK, FamilyAt
  <2>4. PlaceAt(p)' /\ LastAt(p)'
    BY <2>3 DEF PlaceAt, LastAt, Running
  <2>5. FilesAt(p)'
    <3>1. ends[p] = NULL /\ \A i \in Fds : i > 2 => fd[p][i] = NULL
      BY <1>d, <1>b DEF FilesAt, EndsAt, Handed
    <3> QED
      BY <3>1, <2>3, <1>d, <1>b DEF FilesAt, IsEnd, Gone
  <2>6. FamilyInv' /\ CdInv'
    BY <2>2, <2>3, <1>d, <1>b, AloneFamily, AloneCd DEF Gone
  <2>7. PipeInv'
    <3>1. \A c \in Pids : ~ Member(p, c)'
      BY <2>3 DEF Member, Started
    <3>2. pc'[p] \notin {"child", "start", "prog"}
      BY <2>3
    <3> QED
      BY <3>1, <3>2, <2>2, <1>b, AlonePipes
  <2> QED
    BY <2>1, <2>2, <2>4, <2>5, <2>6, <2>7, AloneInv
<1> QED
  BY <1>1, <1>2 DEF Done

\* A line is run: whatever earlier lines have left behind does not belong to it.
LEMMA RunLineInv ==
    ASSUME Inv, NEW p \in Pids, NEW list \in Lists, pc[p] = "main", typed < MaxLines, RunLine(p, list)
    PROVE  Inv'
<1>b. /\ TypeOK /\ FamilyInv /\ CdInv /\ PipeInv
      /\ PlaceAt(p) /\ FamilyAt(p) /\ FilesAt(p)
  BY Before
<1>u. /\ line' = [line EXCEPT ![p] = list] /\ pos' = [pos EXCEPT ![p] = 1]
      /\ inner' = [inner EXCEPT ![p] = FALSE] /\ status' = [status EXCEPT ![p] = 0]
      /\ pipefd' = [pipefd EXCEPT ![p] = STDIN] /\ pc' = [pc EXCEPT ![p] = "exec"]
      /\ last' = [last EXCEPT ![p] = Nothing]
      /\ typed' = typed + 1 /\ serial' = [serial EXCEPT ![p] = typed + 1]
      /\ UNCHANGED << parent, ends, kid, fd, cwd, code, stray >>
  BY DEF RunLine, Enter
<1>t. typed \in Nat /\ MaxLines \in Nat /\ \A q \in Pids : serial[q] \in 0 .. typed
  BY <1>b, ProcessAssumption DEF TypeOK
<1>n. Len(list) \in Nat
  BY ListsAssumption
<1>1. TypeOK'
  <2>1. typed' \in 0 .. MaxLines
    BY <1>t, <1>u
  <2>2. serial' \in [Pids -> 0 .. typed']
    <3>1. serial \in [Pids -> 0 .. typed]
      BY <1>b DEF TypeOK
    <3>2. 0 .. typed \subseteq 0 .. typed + 1 /\ typed + 1 \in 0 .. typed + 1
      BY <1>t
    <3> QED
      BY <3>1, <3>2, <1>u
  <2>3. inner' \in [Pids -> BOOLEAN]
    BY <1>u, <1>b DEF TypeOK
  <2> QED
    BY <2>1, <2>2, <2>3, <1>u, <1>n, <1>b, EnterType
<1>2. Alone(p)
  BY <1>u, <1>b DEF Alone, Keeps, Stays, TypeOK
<1>3. /\ pc'[p] = "exec" /\ ends'[p] = ends[p] /\ line'[p] = list /\ pos'[p] = 1 /\ fd'[p] = fd[p]
      /\ pipefd'[p] = STDIN /\ stray'[p] = stray[p] /\ kid'[p] = NULL /\ serial'[p] = typed + 1
  BY <1>u, <1>b DEF TypeOK, FamilyAt
<1>4. PlaceAt(p)' /\ LastAt(p)'
  BY <1>3 DEF PlaceAt, LastAt, Running
<1>5. FilesAt(p)'
  <2>1. ends[p] = NULL /\ \A i \in Fds : i > 2 => fd[p][i] = NULL
    BY <1>b DEF FilesAt, EndsAt, Handed
  <2> QED
    BY <2>1, <1>3, <1>b DEF FilesAt, IsEnd, Gone
<1>6. FamilyInv' /\ CdInv'
  BY <1>2, <1>3, <1>b, AloneFamily, AloneCd DEF Gone
<1>7. PipeInv'
  <2>1. ASSUME NEW c \in Pids, c # p
        PROVE  ~ Member(p, c)'
    <3>1. serial'[c] = serial[c] /\ serial[c] # typed + 1
      BY <2>1, <1>2, <1>t DEF Alone, Keeps
    <3> QED
      BY <3>1, <1>3 DEF Member, Started
  <2>2. pc'[p] \notin {"child", "start", "prog"}
    BY <1>3
  <2> QED
    BY <2>1, <2>2, <1>2, <1>b, AlonePipes
<1> QED
  BY <1>1, <1>2, <1>4, <1>5, <1>6, <1>7, AloneInv

\* Nothing but the number of lines typed changes, if anything.
LEMMA SameInv ==
    ASSUME Inv, TypeOK',
           UNCHANGED << pc, parent, line, pos, inner, status, pipefd, ends, kid, fd, cwd,
                        code, serial, last, stray >>
    PROVE  Inv'
<1>1. PlaceInv' /\ LastInv'
  BY DEF Inv, PlaceInv, LastInv, PlaceAt, LastAt, Cmd
<1>2. FamilyInv'
  BY DEF Inv, FamilyInv, FamilyAt
<1>3. CdInv'
  BY DEF Inv, CdInv, CdAt, Cmd
<1>4. FilesInv'
  BY DEF Inv, FilesInv, FilesAt, EndsAt, Handed, IsEnd, Cmd
<1>5. PipeInv'
  BY DEF Inv, PipeInv, OrderAt, CarryAt, MeetAt, Started, Member, Writer, Reader, Out, In, Cmd
<1> QED
  BY <1>1, <1>2, <1>3, <1>4, <1>5 DEF Inv

\* The parent's side of cmd_exec, after fork.
LEMMA ParentInv ==
    ASSUME Inv, NEW p \in Pids, Parent(p)
    PROVE  Inv'
<1>b. /\ TypeOK /\ FamilyInv /\ CdInv /\ PipeInv
      /\ PlaceAt(p) /\ FamilyAt(p) /\ FilesAt(p)
  BY Before
<1>u. /\ pc[p] = "forked"
      /\ fd' = [fd EXCEPT ![p] = ParentFiles(p)]
      /\ pipefd' = [pipefd EXCEPT ![p] = ParentPipefd(p)]
      /\ cwd' = [cwd EXCEPT ![p] = ParentCwd(p)]
      /\ ends' = [ends EXCEPT ![p] = NULL]
      /\ pc' = [pc EXCEPT ![p] =
                  IF Is(Cmd(p), "exit") /\ Word(Cmd(p), 2) = NULL THEN "exit" ELSE "switch"]
      /\ UNCHANGED << parent, line, pos, inner, status, kid, code, typed, serial, last, stray >>
  BY DEF Parent
<1>s. /\ STDIN = 0 /\ STDOUT = 1 /\ {0, 1, 2} \subseteq Fds /\ Fds \subseteq Nat
      /\ pipefd[p] \in Fds /\ fd[p] \in [Fds -> File \cup {NULL}]
      /\ ends[p] # NULL => ends[p][1] \in Fds /\ ends[p][2] \in Fds
  BY FdsFacts, <1>b DEF STDIN, STDOUT, TypeOK
<1>h. /\ \A i \in 0 .. 2 : fd[p][i] # NULL
      /\ \A i \in Fds : i > 2 /\ fd[p][i] # NULL =>
            i = pipefd[p] \/ (ends[p] # NULL /\ (i = ends[p][1] \/ i = ends[p][2]))
      /\ pipefd[p] = STDIN \/ pipefd[p] > 2
      /\ ends[p] # NULL => /\ ends[p][1] > 2 /\ ends[p][2] > 2 /\ ends[p][1] # ends[p][2]
                           /\ fd[p][ends[p][1]] # NULL /\ fd[p][ends[p][1]].kind = "read"
                           /\ Cmd(p).controlop = "|"
      /\ Cmd(p).controlop = "|" => ends[p] # NULL
      /\ ~ stray[p] =>
            /\ ends[p] # NULL => pipefd[p] # ends[p][1]
            /\ \A i \in Fds : fd[p][i] # NULL /\ fd[p][i].kind = "write" =>
                  i = STDOUT \/ (ends[p] # NULL /\ i = ends[p][2])
  BY <1>b, <1>u DEF FilesAt, EndsAt, Handed, IsEnd, Gone
\* What is open afterwards.
<1>f. /\ ParentFiles(p) \in [Fds -> File \cup {NULL}]
      /\ \A i \in Fds : ParentFiles(p)[i] =
            IF (pipefd[p] # STDIN /\ i = pipefd[p]) \/ (ends[p] # NULL /\ i = ends[p][2])
            THEN NULL ELSE fd[p][i]
  BY <1>s DEF ParentFiles, Close
<1>d. ParentCwd(p) \in Dirs /\ ParentPipefd(p) \in Fds
  BY <1>s, <1>b DEF ParentCwd, ParentPipefd, TypeOK
<1>3. /\ pc'[p] = "switch" \/ pc'[p] = "exit"
      /\ line'[p] = line[p] /\ pos'[p] = pos[p] /\ kid'[p] = kid[p] /\ ends'[p] = NULL
      /\ fd'[p] = ParentFiles(p) /\ pipefd'[p] = ParentPipefd(p) /\ cwd'[p] = ParentCwd(p)
      /\ stray'[p] = stray[p] /\ serial'[p] = serial[p]
  BY <1>u, <1>b DEF TypeOK
<1>c. Cmd(p)' = Cmd(p)
  BY <1>3 DEF Cmd
<1>1. TypeOK'
  <2>1. fd' \in [Pids -> [Fds -> File \cup {NULL}]]
    BY <1>u, <1>f, <1>b DEF TypeOK
  <2>2. pipefd' \in [Pids -> Fds] /\ cwd' \in [Pids -> Dirs]
    BY <1>u, <1>d, <1>b DEF TypeOK
  <2>3. ends' \in [Pids -> (Fds \X Fds) \cup {NULL}]
    BY <1>u, <1>b DEF TypeOK
  <2>4. pc' \in [Pids -> {"none", "main", "exec", "forked", "exit", "switch",
                          "done", "child", "start", "prog", "zombie"}]
    BY <1>u, <1>b DEF TypeOK
  <2> QED
    BY <1>u, <1>b, <2>1, <2>2, <2>3, <2>4 DEF TypeOK
<1>2. Alone(p)
  BY <1>u, <1>b DEF Alone, Keeps, Stays, TypeOK
<1>4. PlaceAt(p)' /\ LastAt(p)'
  <2>1. pc'[p] = "exit" => Is(Cmd(p), "exit")
    BY <1>u, <1>b DEF TypeOK
  <2> HIDE DEF Cmd
  <2> QED
    BY <2>1, <1>3, <1>c, <1>u, <1>b DEF PlaceAt, LastAt, Running
<1>5. FilesAt(p)'
  <2>1. \A i \in 0 .. 2 : fd'[p][i] # NULL
    BY <1>3, <1>f, <1>h, <1>s
  <2>2. \A i \in Fds : i > 2 /\ fd'[p][i] # NULL =>
          i = pipefd'[p] /\ Cmd(p).controlop = "|"
    <3>1. \A i \in Fds : i > 2 /\ fd'[p][i] # NULL => ends[p] # NULL /\ i = ends[p][1]
      BY <1>3, <1>f, <1>h, <1>s
    <3> QED
      BY <3>1, <1>3, <1>h DEF ParentPipefd
  <2>3. pipefd'[p] = STDIN \/ pipefd'[p] > 2
    BY <1>3, <1>h DEF ParentPipefd
  <2>4. ~ stray[p] /\ pipefd'[p] # STDIN => IsEnd(p, pipefd[p], "read")'
    <3>1. ASSUME ~ stray[p], pipefd'[p] # STDIN
          PROVE  fd'[p][pipefd'[p]] # NULL /\ fd'[p][pipefd'[p]].kind = "read"
      <4>1. ends[p] # NULL /\ pipefd'[p] = ends[p][1]
        BY <3>1, <1>3 DEF ParentPipefd
      <4>2. fd'[p][ends[p][1]] = fd[p][ends[p][1]]
        BY <4>1, <3>1, <1>3, <1>f, <1>h, <1>s
      <4> QED
        BY <4>1, <4>2, <1>h
    <3> QED
      BY <3>1 DEF IsEnd
  <2>5. ~ stray[p] => \A i \in Fds : IsEnd(p, i, "write")' => i = STDOUT
    BY <1>3, <1>f, <1>h DEF IsEnd
  <2> HIDE DEF Cmd
  <2>6. \A i \in Fds : i > 2 /\ fd'[p][i] # NULL => Handed(p, i)'
    BY <2>2, <1>3, <1>c DEF Handed
  <2> QED
    BY <2>1, <2>3, <2>4, <2>5, <2>6, <1>3 DEF FilesAt, Gone
<1>k. kid[p] # NULL => Stays(kid[p])
  <2>1. kid[p] # NULL => kid[p] \in Pids /\ kid[p] # p
    BY <1>b, NullAssumption DEF FamilyAt, FamilyInv, TypeOK
  <2> QED
    BY <2>1, <1>u, <1>b DEF Stays, TypeOK
<1>6. FamilyInv'
  BY <1>b, <1>2, <1>3, <1>k, <1>u, AloneFamily DEF FamilyAt, Gone
<1>7. CdInv'
  <2>1. Is(Cmd(p), "cd") /\ Word(Cmd(p), 1) \in Dirs => cwd'[p] = Word(Cmd(p), 1)
    BY <1>3 DEF ParentCwd
  <2> HIDE DEF Cmd
  <2> QED
    BY <2>1, <1>b, <1>2, <1>3, <1>c, <1>k, <1>u, AloneCd DEF Gone
<1>8. ASSUME NEW c \in Pids, c # p, Member(p, c)'
      PROVE  Member(p, c) /\ OrderAt(p, c)' /\ CarryAt(p, c)'
  <2>1. Keeps(c) /\ Stays(c)
    BY <1>8, <1>2 DEF Alone, Reaped, Member, Started
  <2>2. Member(p, c)
    BY <2>1, <1>8, <1>3, <1>u DEF Member, Started, Keeps, Stays
  <2>3. OrderAt(p, c) /\ CarryAt(p, c)
    BY <1>b DEF PipeInv
  <2>4. OrderAt(p, c)'
    BY <2>1, <2>2, <2>3, <1>3 DEF OrderAt, Keeps
  <2>5. Writer(c)' = Writer(c) /\ Out(c)' = Out(c) /\ pos'[c] = pos[c]
    BY <2>1 DEF Writer, Out, Cmd, Keeps, Stays
  <2>6. ~ stray[p]
    <3>1. parent[c] = p /\ pc[c] # "zombie" /\ ~ stray[c]
      BY <2>2 DEF Member, Started
    <3>2. FamilyAt(c)
      BY <1>b DEF FamilyInv
    <3> QED
      BY <3>1, <3>2, NullAssumption DEF FamilyAt
  <2>7. ASSUME Writer(c), pos[p] = pos[c]
        PROVE  pipefd'[p] # STDIN /\ Joined(Out(c), fd'[p][pipefd'[p]])
    <3>1. Joined(Out(c), fd[p][ends[p][1]])
      BY <2>2, <2>3, <2>7, <1>u DEF CarryAt
    <3>2. Cmd(p) = Cmd(c)
      BY <2>2, <2>3, <2>7 DEF OrderAt, Cmd
    <3>3. ends[p] # NULL
      BY <3>2, <2>7, <1>h DEF Writer
    <3>4. pipefd'[p] = ends[p][1] /\ ends[p][1] # STDIN
      BY <3>3, <1>3, <1>h, <1>s DEF ParentPipefd
    <3>5. fd'[p][ends[p][1]] = fd[p][ends[p][1]]
      BY <3>3, <2>6, <1>3, <1>f, <1>h, <1>s
    <3> QED
      BY <3>1, <3>4, <3>5
  <2> HIDE DEF Out, Writer, Joined
  <2>8. CarryAt(p, c)'
    <3>1. CarryAt(p, c)' <=>
            (Member(p, c)' /\ Writer(c)' =>
               /\ pc'[p] = "forked" /\ pos'[p] = pos'[c] => Joined(Out(c)', fd'[p][ends'[p][1]])
               /\ \/ pc'[p] = "switch" /\ pos'[p] = pos'[c]
                  \/ pc'[p] \in {"exec", "forked"} /\ pos'[p] = pos'[c] + 1
                  => pipefd'[p] # STDIN /\ Joined(Out(c)', fd'[p][pipefd'[p]]))
      BY DEF CarryAt, Joined
    <3> QED
      BY <3>1, <2>5, <2>7, <1>3
  <2> QED
    BY <2>2, <2>4, <2>8
<1>9. PipeInv'
  <2>1. pc'[p] \notin {"child", "start", "prog"}
    BY <1>3
  <2> QED
    BY <2>1, <1>b, <1>2, <1>8, AlonePipes
<1> QED
  BY <1>1, <1>2, <1>4, <1>5, <1>6, <1>7, <1>9, AloneInv

-----------------------------------------------------------------------------
(***************************************************************************)
(* fork                                                                    *)
(***************************************************************************)
\* The descriptors shell and child share: the old ones and, if the command is
\* the left-hand side of a pipe, the ends of a new one.
Opened(p, files, both) ==
    /\ files \in [Fds -> File \cup {NULL}]
    /\ both \in (Fds \X Fds) \cup {NULL}
    /\ both # NULL <=> Cmd(p).controlop = "|"
    /\ both = NULL => files = fd[p]
    /\ both # NULL =>
          /\ both[1] \in Fds /\ both[2] \in Fds /\ both[1] # both[2]
          /\ fd[p][both[1]] = NULL /\ fd[p][both[2]] = NULL
          /\ Joined(files[both[2]], files[both[1]])
          /\ \A i \in Fds : i # both[1] /\ i # both[2] => files[i] = fd[p][i]

\* The child is a copy of its parent in all but its place.
Forked(p, q, files, both) ==
    /\ pc'[p] = "forked" /\ kid'[p] = q /\ parent'[p] = parent[p] /\ code'[p] = code[p]
    /\ line'[p] = line[p] /\ pos'[p] = pos[p] /\ pipefd'[p] = pipefd[p] /\ cwd'[p] = cwd[p]
    /\ serial'[p] = serial[p] /\ stray'[p] = stray[p] /\ fd'[p] = files /\ ends'[p] = both
    /\ pc'[q] = "child" /\ kid'[q] = NULL /\ parent'[q] = p
    /\ line'[q] = line[p] /\ pos'[q] = pos[p] /\ pipefd'[q] = pipefd[p]
    /\ serial'[q] = serial[p] /\ stray'[q] = stray[p] /\ fd'[q] = files /\ ends'[q] = both
    /\ \A x \in Pids : x # p /\ x # q => Keeps(x) /\ Stays(x)

LEMMA PipedOpened ==
    ASSUME TypeOK, NEW p \in Pids, Cardinality(FreeFds(fd[p])) >= 2, Cmd(p).controlop = "|"
    PROVE  Opened(p, Piped(fd[p]), PipeEnds(fd[p]))
<1>1. fd[p] \in [Fds -> File \cup {NULL}]
  BY DEF TypeOK
<1>2. /\ PipeEnds(fd[p]) \in Fds \X Fds
      /\ PipeEnds(fd[p])[1] # PipeEnds(fd[p])[2]
      /\ fd[p][PipeEnds(fd[p])[1]] = NULL /\ fd[p][PipeEnds(fd[p])[2]] = NULL
  BY PipeEndsFree
<1>3. PICK r \in Fds, w \in Fds : PipeEnds(fd[p]) = << r, w >> /\ r # w /\ fd[p][r] = NULL /\ fd[p][w] = NULL
  BY <1>2
<1>e. PipeEnds(fd[p])[1] = r /\ PipeEnds(fd[p])[2] = w
  BY <1>3
<1>4. PICK id \in Nat :
        Piped(fd[p]) = [fd[p] EXCEPT ![r] = [kind |-> "read", pipe |-> id],
                                     ![w] = [kind |-> "write", pipe |-> id]]
  BY <1>e, PipedFiles, Zenon
<1> DEFINE files == Piped(fd[p])
           R == [kind |-> "read", pipe |-> id]
           W == [kind |-> "write", pipe |-> id]
<1>5. R \in File /\ W \in File /\ R # NULL /\ W # NULL
  BY NullAssumption DEF File
<1>6. /\ files \in [Fds -> File \cup {NULL}] /\ files[r] = R /\ files[w] = W
      /\ \A i \in Fds : i # r /\ i # w => files[i] = fd[p][i]
  <2> HIDE DEF R, W
  <2>1. files = [fd[p] EXCEPT ![r] = R, ![w] = W]
    BY <1>4 DEF R, W
  <2> HIDE DEF files
  <2> QED
    BY <2>1, <1>1, <1>3, <1>5
<1>7. Joined(files[w], files[r])
  <2> HIDE DEF files
  <2> QED
    BY <1>5, <1>6 DEF Joined
<1>8. << r, w >> # NULL
  BY NullAssumption
<1> HIDE DEF files, R, W
<1> QED
  BY <1>3, <1>6, <1>7, <1>8 DEF Opened, files

LEMMA ForkEffect ==
    ASSUME Inv, NEW p \in Pids, Fork(p)
    PROVE  /\ TypeOK'
           /\ \E q \in Unused : \E files, both : Opened(p, files, both) /\ Forked(p, q, files, both)
<1>t. TypeOK
  BY DEF Inv
<1>q. PICK q \in Unused : q = Lowest(Unused)
  <2>1. Unused \subseteq Nat /\ Unused # {}
    BY DEF Unused, Pids, Fork, CanFork
  <2> QED
    BY <2>1, LowestIn
<1>1. PICK files, both :
        /\ files = IF Cmd(p).controlop = "|" THEN Piped(fd[p]) ELSE fd[p]
        /\ both = IF Cmd(p).controlop = "|" THEN PipeEnds(fd[p]) ELSE NULL
  OBVIOUS
<1>2. Opened(p, files, both)
  <2>1. CASE Cmd(p).controlop = "|"
    <3>1. Cardinality(FreeFds(fd[p])) >= 2
      BY <2>1 DEF Fork, CanFork
    <3> QED
      BY <3>1, <2>1, <1>1, <1>t, PipedOpened
  <2>2. CASE Cmd(p).controlop # "|"
    BY <2>2, <1>1, <1>t DEF Opened, TypeOK
  <2> QED
    BY <2>1, <2>2
<1>u. /\ pc' = [pc EXCEPT ![p] = "forked", ![q] = "child"]
      /\ parent' = [parent EXCEPT ![q] = p]
      /\ fd' = [fd EXCEPT ![p] = files, ![q] = files]
      /\ ends' = [ends EXCEPT ![p] = both, ![q] = both]
      /\ kid' = [kid EXCEPT ![p] = q, ![q] = NULL]
      /\ line' = [line EXCEPT ![q] = line[p]]
      /\ pos' = [pos EXCEPT ![q] = pos[p]]
      /\ inner' = [inner EXCEPT ![q] = inner[p]]
      /\ status' = [status EXCEPT ![q] = status[p]]
      /\ pipefd' = [pipefd EXCEPT ![q] = pipefd[p]]
      /\ cwd' = [cwd EXCEPT ![q] = cwd[p]]
      /\ serial' = [serial EXCEPT ![q] = serial[p]]
      /\ stray' = [stray EXCEPT ![q] = stray[p]]
      /\ UNCHANGED << code, typed, last >> /\ pc[p] = "exec"
  BY <1>q, <1>1, Zenon DEF Fork, Copy
<1>p. q \in Pids /\ q # p
  BY <1>u DEF Unused
<1>3. TypeOK'
  <2>1. pc' \in [Pids -> {"none", "main", "exec", "forked", "exit", "switch",
                          "done", "child", "start", "prog", "zombie"}]
    BY <1>u, <1>p, <1>t DEF TypeOK
  <2>2. parent' \in [Pids -> Pids \cup {NULL}] /\ kid' \in [Pids -> Pids \cup {NULL}]
    BY <1>u, <1>p, <1>t DEF TypeOK
  <2>3. line' \in [Pids -> Lists \cup {<< >>}] /\ pos' \in [Pids -> Nat]
    BY <1>u, <1>p, <1>t DEF TypeOK
  <2>4. \A x \in Pids : pos'[x] <= Len(line'[x]) + 1
    BY <1>u, <1>p, <1>t DEF TypeOK
  <2>5. inner' \in [Pids -> BOOLEAN] /\ stray' \in [Pids -> BOOLEAN]
    BY <1>u, <1>p, <1>t DEF TypeOK
  <2>6. status' \in [Pids -> Statuses] /\ pipefd' \in [Pids -> Fds] /\ cwd' \in [Pids -> Dirs]
    BY <1>u, <1>p, <1>t DEF TypeOK
  <2>7. serial' \in [Pids -> 0 .. typed]
    BY <1>u, <1>p, <1>t DEF TypeOK
  <2>8. fd' \in [Pids -> [Fds -> File \cup {NULL}]]
    BY <1>u, <1>p, <1>t, <1>2 DEF TypeOK, Opened
  <2>9. ends' \in [Pids -> (Fds \X Fds) \cup {NULL}]
    BY <1>u, <1>p, <1>t, <1>2 DEF TypeOK, Opened
  <2> QED
    BY <1>u, <1>t, <2>1, <2>2, <2>3, <2>4, <2>5, <2>6, <2>7, <2>8, <2>9 DEF TypeOK
<1>4. Forked(p, q, files, both)
  BY <1>u, <1>p, <1>t DEF Forked, Keeps, Stays, TypeOK
<1> QED
  BY <1>2, <1>3, <1>4

\* Shell and child have the same files open, and know which.
LEMMA ForkFiles ==
    ASSUME TypeOK, NEW p \in Pids, FilesAt(p), pc[p] = "exec",
           NEW files, NEW both, Opened(p, files, both),
           NEW x \in Pids, pc'[x] \in {"forked", "child"},
           line'[x] = line[p], pos'[x] = pos[p], pipefd'[x] = pipefd[p],
           stray'[x] = stray[p], fd'[x] = files, ends'[x] = both
    PROVE  FilesAt(x)'
<1>s. /\ STDIN = 0 /\ STDOUT = 1 /\ {0, 1, 2} \subseteq Fds /\ Fds \subseteq Nat /\ pipefd[p] \in Fds
  BY FdsFacts DEF STDIN, STDOUT, TypeOK
<1>c. Cmd(x)' = Cmd(p)
  BY DEF Cmd
<1>h. /\ \A i \in 0 .. 2 : fd[p][i] # NULL
      /\ \A i \in Fds : i > 2 /\ fd[p][i] # NULL => i = pipefd[p]
      /\ pipefd[p] = STDIN \/ pipefd[p] > 2
      /\ ~ stray[p] =>
            /\ pipefd[p] # STDIN => fd[p][pipefd[p]] # NULL /\ fd[p][pipefd[p]].kind = "read"
            /\ \A i \in Fds : fd[p][i] # NULL /\ fd[p][i].kind = "write" => i = STDOUT
  <2>1. ends[p] = NULL
    BY DEF FilesAt, EndsAt
  <2> QED
    BY <2>1 DEF FilesAt, Handed, IsEnd, Gone
<1>o. both # NULL =>
        /\ both[1] \in Fds /\ both[2] \in Fds /\ both[1] # both[2]
        /\ both[1] > 2 /\ both[2] > 2
        /\ fd[p][both[1]] = NULL /\ fd[p][both[2]] = NULL
        /\ files[both[1]] # NULL /\ files[both[1]].kind = "read"
        /\ files[both[2]] # NULL /\ files[both[2]].kind = "write"
  <2>1. both # NULL =>
          /\ both[1] \in Fds /\ both[2] \in Fds /\ both[1] # both[2]
          /\ fd[p][both[1]] = NULL /\ fd[p][both[2]] = NULL
          /\ files[both[1]] # NULL /\ files[both[1]].kind = "read"
          /\ files[both[2]] # NULL /\ files[both[2]].kind = "write"
    BY DEF Opened, Joined
  <2>2. \A i \in Fds : fd[p][i] = NULL => i > 2
    BY <1>s, <1>h
  <2> QED
    BY <2>1, <2>2
<1>f. \A i \in Fds : \/ files[i] = fd[p][i]
                     \/ both # NULL /\ (i = both[1] \/ i = both[2])
  BY DEF Opened
<1>k. \A i \in Fds : fd[p][i] # NULL => files[i] = fd[p][i]
  BY <1>f, <1>o
<1>1. \A i \in 0 .. 2 : fd'[x][i] # NULL
  BY <1>k, <1>h, <1>s
<1>2. \A i \in Fds : i > 2 /\ fd'[x][i] # NULL => Handed(x, i)'
  BY <1>f, <1>h DEF Handed
<1>3. ends'[x] # NULL => EndsAt(x)'
  <2>1. both # NULL <=> Cmd(p).controlop = "|"
    BY DEF Opened
  <2> HIDE DEF Cmd
  <2> QED
    BY <2>1, <1>c, <1>o DEF EndsAt, IsEnd
<1>4. Cmd(x)'.controlop = "|" => ends'[x] # NULL
  <2>1. both # NULL <=> Cmd(p).controlop = "|"
    BY DEF Opened
  <2> HIDE DEF Cmd
  <2> QED
    BY <2>1, <1>c
<1>5. ASSUME ~ stray'[x]
      PROVE  /\ pipefd'[x] # STDIN => IsEnd(x, pipefd[x], "read")'
             /\ ends'[x] # NULL => pipefd'[x] # ends'[x][1]
             /\ \A i \in Fds : IsEnd(x, i, "write")' =>
                   i = STDOUT \/ (ends'[x] # NULL /\ i = ends'[x][2])
  <2>1. /\ pipefd[p] # STDIN => fd[p][pipefd[p]] # NULL /\ fd[p][pipefd[p]].kind = "read"
        /\ \A i \in Fds : fd[p][i] # NULL /\ fd[p][i].kind = "write" => i = STDOUT
    BY <1>5, <1>h
  <2>2. pipefd[p] # STDIN => files[pipefd[p]] # NULL /\ files[pipefd[p]].kind = "read"
    BY <2>1, <1>k, <1>s
  <2>3. both # NULL => pipefd[p] # both[1]
    BY <2>1, <1>o, <1>s
  <2>4. \A i \in Fds : files[i] # NULL /\ files[i].kind = "write" =>
          i = STDOUT \/ (both # NULL /\ i = both[2])
    BY <2>1, <1>f, <1>o
  <2> QED
    BY <2>2, <2>3, <2>4 DEF IsEnd
<1>6. pc'[x] \notin Gone /\ (pipefd'[x] = STDIN \/ pipefd'[x] > 2)
  BY <1>h DEF Gone
<1> HIDE DEF Cmd
<1> QED
  BY <1>1, <1>2, <1>3, <1>4, <1>5, <1>6 DEF FilesAt

LEMMA ForkInv ==
    ASSUME Inv, NEW p \in Pids, Fork(p)
    PROVE  Inv'
<1>b. /\ TypeOK /\ FamilyInv /\ CdInv /\ PipeInv
      /\ PlaceAt(p) /\ FamilyAt(p) /\ FilesAt(p)
  BY Before
<1>t. TypeOK'
  BY ForkEffect
<1>v. PICK q \in Unused : \E files, both : Opened(p, files, both) /\ Forked(p, q, files, both)
  BY ForkEffect
<1>w. PICK files, both : Opened(p, files, both) /\ Forked(p, q, files, both)
  BY <1>v
<1>g. pc[p] = "exec" /\ pos[p] <= Len(line[p])
  BY DEF Fork
<1>a. line[p] \in Lists /\ pos[p] \in Nat /\ pos[p] >= 1
  BY <1>g, <1>b, AtCommand DEF Running
<1>n. NULL \notin Pids
  BY NullAssumption
<1>y. \A x \in Pids : parent[x] \in Pids \cup {NULL} /\ kid[x] \in Pids \cup {NULL} /\ pos[x] \in Nat
  BY <1>b DEF TypeOK
<1>p. \A x \in Pids : FamilyAt(x) /\ CdAt(x) /\ PlaceAt(x) /\ FilesAt(x) /\ LastAt(x)
  BY DEF Inv, PlaceInv, FilesInv, LastInv, FamilyInv, CdInv
<1>q. /\ q \in Pids /\ q # p /\ pc[q] = "none" /\ parent[q] = NULL /\ kid[p] = NULL
      /\ \A x \in Pids : kid[x] # q /\ parent[x] # q
  <2>1. q \in Pids /\ q # p /\ pc[q] = "none"
    BY <1>g DEF Unused
  <2>2. parent[q] = NULL
    BY <2>1, <1>p DEF FamilyAt
  <2>3. kid[p] = NULL
    BY <1>g, <1>b DEF FamilyAt
  <2>4. ASSUME NEW x \in Pids PROVE kid[x] # q /\ parent[x] # q
    BY <2>1, <1>p, <1>n DEF FamilyAt, Gone
  <2> QED
    BY <2>1, <2>2, <2>3, <2>4
<1>e. /\ pc'[p] = "forked" /\ kid'[p] = q /\ parent'[p] = parent[p] /\ code'[p] = code[p]
      /\ line'[p] = line[p] /\ pos'[p] = pos[p] /\ pipefd'[p] = pipefd[p] /\ cwd'[p] = cwd[p]
      /\ serial'[p] = serial[p] /\ stray'[p] = stray[p] /\ fd'[p] = files /\ ends'[p] = both
      /\ pc'[q] = "child" /\ kid'[q] = NULL /\ parent'[q] = p
      /\ line'[q] = line[p] /\ pos'[q] = pos[p] /\ pipefd'[q] = pipefd[p]
      /\ serial'[q] = serial[p] /\ stray'[q] = stray[p] /\ fd'[q] = files /\ ends'[q] = both
  BY <1>w DEF Forked
<1>o. \A x \in Pids : x # p /\ x # q => Keeps(x) /\ Stays(x)
  BY <1>w DEF Forked
<1>1. ASSUME NEW x \in Pids
      PROVE  PlaceAt(x)' /\ FilesAt(x)' /\ LastAt(x)'
  <2>1. CASE x # p /\ x # q
    <3>1. Keeps(x) /\ pc'[x] = pc[x] /\ PlaceAt(x) /\ FilesAt(x) /\ LastAt(x)
      BY <2>1, <1>o, <1>p DEF Stays
    <3> QED
      BY <3>1, LocalKept
  <2>2. CASE x = p \/ x = q
    <3>1. /\ pc'[x] \in {"forked", "child"}
          /\ line'[x] = line[p] /\ pos'[x] = pos[p] /\ pipefd'[x] = pipefd[p]
          /\ stray'[x] = stray[p] /\ fd'[x] = files /\ ends'[x] = both
      BY <2>2, <1>e
    <3>2. FilesAt(x)'
      BY <3>1, <1>b, <1>g, <1>w, ForkFiles
    <3>3. PlaceAt(x)' /\ LastAt(x)'
      BY <3>1, <1>a, <1>g DEF PlaceAt, LastAt
    <3> QED
      BY <3>2, <3>3
  <2> QED
    BY <2>1, <2>2
<1>2. ASSUME NEW x \in Pids
      PROVE  FamilyAt(x)'
  <2>1. kid'[x] # NULL =>
          /\ pc'[x] \in {"forked", "switch", "exit"}
          /\ pc'[kid'[x]] # "none" /\ parent'[kid'[x]] = x
    <3>1. CASE x = p
      BY <3>1, <1>e
    <3>2. CASE x = q
      BY <3>2, <1>e
    <3>3. CASE x # p /\ x # q /\ kid[x] # NULL
      <4>1. kid'[x] = kid[x] /\ pc'[x] = pc[x] /\ kid[x] \in Pids /\ kid[x] # q
        BY <3>3, <1>o, <1>y, <1>q DEF Keeps, Stays
      <4>2. pc[x] \in {"forked", "switch", "exit"} /\ pc[kid[x]] # "none" /\ parent[kid[x]] = x
        BY <3>3, <1>p DEF FamilyAt
      <4>3. pc'[kid[x]] # "none" /\ parent'[kid[x]] = x
        BY <4>1, <4>2, <1>e, <1>o DEF Stays
      <4> QED
        BY <4>1, <4>2, <4>3
    <3>4. CASE x # p /\ x # q /\ kid[x] = NULL
      BY <3>4, <1>o DEF Keeps
    <3> QED
      BY <3>1, <3>2, <3>3, <3>4
  <2>2. /\ pc'[x] \in {"forked", "exit"} => kid'[x] # NULL
        /\ pc'[x] = "switch" /\ ~ stray'[x] => kid'[x] # NULL
        /\ pc'[x] = "none" => parent'[x] = NULL
    BY <1>e, <1>o, <1>p, <1>q, <1>n DEF FamilyAt, Keeps, Stays
  <2>3. ASSUME parent'[x] # NULL
        PROVE  /\ pc'[parent'[x]] \notin Gone \cup {"child", "start", "prog"}
               /\ parent'[x] # x
               /\ stray'[parent'[x]] /\ pc'[x] # "zombie" => stray'[x]
               /\ stray'[x] /\ pc'[x] \in {"child", "start", "prog"} => stray'[parent'[x]]
    <3>1. CASE x = q
      BY <3>1, <1>e, <1>q DEF Gone
    <3>2. CASE x # q
      <4>1. /\ parent'[x] = parent[x] /\ stray'[x] = stray[x] /\ (pc'[x] # "zombie" => pc[x] # "zombie")
            /\ pc'[x] \in {"child", "start", "prog"} => pc[x] = pc'[x]
        BY <3>2, <1>e, <1>o, <1>g DEF Keeps, Stays
      <4>2. parent[x] \in Pids /\ parent[x] # q /\ parent[x] # x
        BY <4>1, <2>3, <1>y, <1>q, <1>p DEF FamilyAt
      <4>3. /\ pc[parent[x]] \notin Gone \cup {"child", "start", "prog"}
            /\ stray[parent[x]] /\ pc[x] # "zombie" => stray[x]
            /\ stray[x] /\ pc[x] \in {"child", "start", "prog"} => stray[parent[x]]
        BY <4>1, <2>3, <1>p DEF FamilyAt
      <4>4. stray'[parent[x]] = stray[parent[x]]
        BY <4>2, <1>e, <1>o DEF Keeps
      <4>5. pc'[parent[x]] \notin Gone \cup {"child", "start", "prog"}
        BY <4>2, <4>3, <1>e, <1>o DEF Stays, Gone
      <4> QED
        BY <4>1, <4>2, <4>3, <4>4, <4>5
    <3> QED
      BY <3>1, <3>2
  <2> QED
    BY <2>1, <2>2, <2>3 DEF FamilyAt
<1>3. ASSUME NEW x \in Pids
      PROVE  CdAt(x)'
  <2>1. CASE x = p
    <3>1. Cmd(p)' = Cmd(p)
      BY <1>e DEF Cmd
    <3> HIDE DEF Cmd
    <3> QED
      BY <2>1, <1>e DEF CdAt
  <2>2. CASE x = q
    BY <2>2, <1>e DEF CdAt
  <2>3. CASE x # p /\ x # q
    <3>1. Keeps(x) /\ Stays(x) /\ CdAt(x) /\ kid[x] # q
      BY <2>3, <1>o, <1>p, <1>q
    <3>2. Cmd(x)' = Cmd(x) /\ cwd'[x] = cwd[x] /\ kid'[x] = kid[x] /\ pc'[x] = pc[x]
      BY <3>1 DEF Cmd, Keeps, Stays
    <3>3. CASE kid[x] = NULL
      BY <3>1, <3>2, <3>3 DEF CdAt
    <3>4. CASE kid[x] = p
      <4>1. ~ Is(Cmd(x), "cd")
        BY <3>1, <3>4, <1>g, <1>n DEF CdAt
      <4> HIDE DEF Cmd
      <4> QED
        BY <3>2, <3>4, <4>1, <1>e DEF CdAt
    <3>5. CASE kid[x] # NULL /\ kid[x] # p
      <4>1. kid[x] \in Pids /\ Keeps(kid[x]) /\ Stays(kid[x])
        BY <3>1, <3>5, <1>o, <1>y
      <4> QED
        BY <3>1, <3>2, <3>5, <4>1 DEF CdAt, Keeps, Stays
    <3> QED
      BY <3>3, <3>4, <3>5
  <2> QED
    BY <2>1, <2>2, <2>3
\* Who belongs to which list.
<1>m. ASSUME NEW s \in Pids, NEW c \in Pids, Started(s, c)'
      PROVE  \/ c = q /\ s = p
             \/ /\ c # q /\ c # p /\ Keeps(c) /\ Stays(c) /\ Started(s, c)
                /\ Member(s, c)' => Member(s, c)
                /\ s # q /\ (s # p => Keeps(s) /\ Stays(s))
  <2>1. CASE c = q
    BY <2>1, <1>m, <1>e DEF Started
  <2>2. CASE c # q
    <3>1. c # p
      BY <1>m, <1>e DEF Started
    <3>2. Keeps(c) /\ Stays(c)
      BY <2>2, <3>1, <1>o
    <3>3. s # q
      BY <3>2, <1>m, <1>q DEF Started, Stays
    <3>4. s # p => Keeps(s) /\ Stays(s)
      BY <3>3, <1>o
    <3>5. Started(s, c) /\ (Member(s, c)' => Member(s, c))
      <4>1. serial'[s] = serial[s] /\ (pc'[s] # "main" => pc[s] # "main")
        BY <3>4, <1>e, <1>g DEF Keeps, Stays
      <4> QED
        BY <4>1, <3>2, <1>m DEF Started, Member, Keeps, Stays
    <3> QED
      BY <2>2, <3>1, <3>2, <3>3, <3>4, <3>5
  <2> QED
    BY <2>1, <2>2
\* The child writes to the new pipe and reads from the one handed on.
<1>c. ASSUME ~ stray[p]
      PROVE  /\ Writer(q)' => both # NULL /\ Joined(files[both[2]], files[both[1]])
             /\ Out(q)' = files[both[2]] /\ In(q)' = files[pipefd[p]]
             /\ pipefd[p] # STDIN => files[pipefd[p]] = fd[p][pipefd[p]]
  <2>1. Out(q)' = files[both[2]] /\ In(q)' = files[pipefd[p]]
    BY <1>e DEF Out, In
  <2>2. Cmd(q)' = Cmd(p)
    BY <1>e DEF Cmd
  <2>3. Writer(q)' => Cmd(p).controlop = "|"
    <3> HIDE DEF Cmd
    <3> QED
      BY <2>2 DEF Writer
  <2>4. Writer(q)' => both # NULL /\ Joined(files[both[2]], files[both[1]])
    BY <2>3, <1>w DEF Opened
  <2>5. pipefd[p] # STDIN => fd[p][pipefd[p]] # NULL
    BY <1>c, <1>g, <1>b DEF FilesAt, IsEnd
  <2>6. pipefd[p] \in Fds
    BY <1>b DEF TypeOK
  <2>7. pipefd[p] # STDIN => files[pipefd[p]] = fd[p][pipefd[p]]
    BY <2>5, <2>6, <1>w DEF Opened
  <2> QED
    BY <2>1, <2>4, <2>7
\* What was known of an older child.
<1>k. ASSUME NEW c \in Pids, c # q, c # p, Keeps(c), Stays(c), Member(p, c)
      PROVE  /\ line[c] = line[p] /\ pos[c] < pos[p] /\ pos[c] \in Nat /\ ~ stray[p]
             /\ Writer(c) /\ pos[p] = pos[c] + 1 =>
                   pipefd[p] # STDIN /\ Joined(Out(c), fd[p][pipefd[p]])
             /\ Writer(c)' = Writer(c) /\ Out(c)' = Out(c) /\ pos'[c] = pos[c] /\ line'[c] = line[c]
  <2>1. OrderAt(p, c) /\ CarryAt(p, c) /\ FamilyAt(c)
    BY <1>b DEF PipeInv, FamilyInv
  <2>2. line[c] = line[p] /\ pos[c] < pos[p] /\ pos[c] \in Nat
    BY <1>k, <2>1, <1>q, <1>n, <1>y DEF OrderAt
  <2>3. ~ stray[p]
    BY <1>k, <2>1, <1>n DEF Member, Started, FamilyAt
  <2>4. Writer(c) /\ pos[p] = pos[c] + 1 =>
          pipefd[p] # STDIN /\ Joined(Out(c), fd[p][pipefd[p]])
    BY <1>k, <2>1, <1>g DEF CarryAt
  <2>5. Writer(c)' = Writer(c) /\ Out(c)' = Out(c) /\ pos'[c] = pos[c] /\ line'[c] = line[c]
    BY <1>k DEF Writer, Out, Cmd, Keeps, Stays
  <2> QED
    BY <2>2, <2>3, <2>4, <2>5
<1>4. ASSUME NEW s \in Pids, NEW c \in Pids, Started(s, c)'
      PROVE  OrderAt(s, c)' /\ CarryAt(s, c)' /\ \A d \in Pids : MeetAt(s, c, d)'
  <2>i. OrderAt(s, c) /\ CarryAt(s, c) /\ \A d \in Pids : MeetAt(s, c, d)
    BY <1>b DEF PipeInv
  <2>1. CASE c = q /\ s = p
    <3>1. ~ stray[p]
      BY <2>1, <1>4, <1>e DEF Started
    <3>2. OrderAt(s, c)'
      BY <2>1, <1>e DEF OrderAt
    <3>3. CarryAt(s, c)'
      <4>1. pos'[p] = pos'[q] /\ pos[p] # pos[p] + 1
        BY <1>e, <1>a
      <4>2. Writer(q)' => Joined(Out(q)', files[both[1]])
        BY <3>1, <1>c
      <4> HIDE DEF Out, Writer
      <4> QED
        BY <2>1, <4>1, <4>2, <1>e DEF CarryAt, Joined
    <3>4. ASSUME NEW d \in Pids, Started(s, d)', serial'[d] = serial'[c]
          PROVE  pos'[d] # pos'[c] + 1
      <4>1. CASE d = q
        BY <4>1, <2>1, <1>e, <1>a
      <4>2. CASE d # q
        <5>1. d # p /\ Keeps(d) /\ Stays(d) /\ Started(p, d)
          BY <4>2, <3>4, <2>1, <1>m
        <5>2. Member(p, d)
          BY <5>1, <3>4, <2>1, <1>e, <1>g DEF Member, Keeps
        <5>3. pos'[d] = pos[d] /\ pos[d] < pos[p] /\ pos[d] \in Nat
          BY <4>2, <5>1, <5>2, <1>k
        <5> QED
          BY <5>3, <2>1, <1>e, <1>a
      <4> QED
        BY <4>1, <4>2
    <3> QED
      BY <3>2, <3>3, <3>4 DEF MeetAt
  <2>2. CASE c # q /\ s = p
    <3>1. c # p /\ Keeps(c) /\ Stays(c) /\ Started(p, c) /\ (Member(p, c)' => Member(p, c))
      BY <2>2, <1>4, <1>m
    <3>2. Member(p, c) =>
            /\ line[c] = line[p] /\ pos[c] < pos[p] /\ pos[c] \in Nat /\ ~ stray[p]
            /\ Writer(c) /\ pos[p] = pos[c] + 1 =>
                  pipefd[p] # STDIN /\ Joined(Out(c), fd[p][pipefd[p]])
      BY <2>2, <3>1, <1>k
    <3>e. /\ Writer(c)' = Writer(c) /\ Out(c)' = Out(c)
          /\ pos'[c] = pos[c] /\ line'[c] = line[c] /\ serial'[c] = serial[c]
      BY <3>1 DEF Writer, Out, Cmd, Keeps, Stays
    <3>3. OrderAt(s, c)'
      BY <2>2, <3>1, <3>2, <3>e, <1>e DEF OrderAt
    <3>4. Member(p, c) => pos'[p] # pos'[c]
      BY <3>2, <3>e, <1>e, <1>a
    <3>5. Member(p, c) /\ Writer(c)' /\ pos'[p] = pos'[c] + 1 =>
            pipefd'[p] # STDIN /\ Joined(Out(c)', fd'[p][pipefd'[p]])
      <4> HIDE DEF Writer, Out, Joined
      <4> QED
        BY <3>2, <3>e, <1>c, <1>e
    <3>6. CarryAt(s, c)'
      <4> HIDE DEF Writer, Out
      <4> QED
        BY <2>2, <3>1, <3>4, <3>5, <1>e DEF CarryAt, Joined
    <3>7. ASSUME NEW d \in Pids, Started(s, d)', Writer(c)', Reader(d)',
                 serial'[d] = serial'[c], pos'[d] = pos'[c] + 1
          PROVE  Joined(Out(c)', In(d)') /\ (pc'[d] = "child" => pipefd'[d] # STDIN)
      <4>1. CASE d = q
        <5>m. Member(p, c)
          BY <4>1, <3>1, <3>7, <3>e, <1>e, <1>g DEF Member
        <5>1. pos[p] = pos[c] + 1
          BY <4>1, <3>7, <3>e, <1>e
        <5>2. pipefd[p] # STDIN /\ Joined(Out(c), fd[p][pipefd[p]])
          BY <5>m, <5>1, <3>2, <3>e, <3>7
        <5>3. In(d)' = fd[p][pipefd[p]] /\ pipefd'[d] = pipefd[p]
          BY <4>1, <5>m, <5>2, <3>2, <1>c, <1>e
        <5> HIDE DEF Out, In, Joined
        <5> QED
          BY <5>2, <5>3, <3>e
      <4>2. CASE d # q
        <5>1. Keeps(d) /\ Stays(d) /\ Started(s, d)
          BY <4>2, <3>7, <1>m
        <5>2. /\ Reader(d)' = Reader(d) /\ In(d)' = In(d) /\ pos'[d] = pos[d] /\ pc'[d] = pc[d]
              /\ pipefd'[d] = pipefd[d] /\ serial'[d] = serial[d]
          BY <5>1 DEF Reader, In, Cmd, Keeps, Stays
        <5>3. Joined(Out(c), In(d)) /\ (pc[d] = "child" => pipefd[d] # STDIN)
          BY <5>1, <5>2, <3>1, <3>e, <3>7, <2>2, <2>i DEF MeetAt
        <5> HIDE DEF Out, In, Joined
        <5> QED
          BY <5>2, <5>3, <3>e
      <4> QED
        BY <4>1, <4>2
    <3>8. \A d \in Pids : MeetAt(s, c, d)'
      BY <3>7 DEF MeetAt, Joined
    <3> QED
      BY <3>3, <3>6, <3>8
  <2>3. CASE s # p
    <3>1. /\ Keeps(c) /\ Stays(c) /\ Started(s, c) /\ Keeps(s) /\ Stays(s)
          /\ Member(s, c)' => Member(s, c)
      BY <2>3, <1>4, <1>m
    <3>2. OrderAt(s, c)' /\ CarryAt(s, c)'
      BY <3>1, <2>i DEF OrderAt, CarryAt, Keeps, Stays, Writer, Out, Cmd
    <3>3. ASSUME NEW d \in Pids
          PROVE  MeetAt(s, c, d)'
      <4>1. CASE Started(s, d)'
        <5>1. Keeps(d) /\ Stays(d) /\ Started(s, d)
          BY <4>1, <2>3, <1>m
        <5> QED
          BY <5>1, <3>1, <2>i, ZenonT(60) DEF MeetAt, Keeps, Stays, Writer, Reader, Out, In, Cmd
      <4>2. CASE ~ Started(s, d)'
        BY <4>2 DEF MeetAt
      <4> QED
        BY <4>1, <4>2
    <3> QED
      BY <3>2, <3>3
  <2> QED
    BY <2>1, <2>2, <2>3, <1>4, <1>m
<1>5. PipeInv'
  <2>1. ASSUME NEW s \in Pids, NEW c \in Pids
        PROVE  OrderAt(s, c)' /\ CarryAt(s, c)' /\ \A d \in Pids : MeetAt(s, c, d)'
    <3>1. CASE Started(s, c)'
      BY <3>1, <1>4
    <3>2. CASE ~ Started(s, c)'
      BY <3>2 DEF OrderAt, CarryAt, MeetAt, Member
    <3> QED
      BY <3>1, <3>2
  <2> QED
    BY <2>1 DEF PipeInv
<1> QED
  BY <1>t, <1>1, <1>2, <1>3, <1>5 DEF Inv, PlaceInv, FilesInv, LastInv, FamilyInv, CdInv

-----------------------------------------------------------------------------
(***************************************************************************)
(* The steps by which a process ends, and the theorems.                    *)
(***************************************************************************)
LEMMA ExitedEnded == \A n \in Int : Exited(n) \in Ended
<1>1. \A n \in Int : n % 256 \in 0 .. 255
  OBVIOUS
<1> QED
  BY <1>1 DEF Exited, Ended, Statuses

LEMMA ExitCodesInt ==
    ASSUME Inv, NEW p \in Pids, pc[p] \in {"start", "exit"}, Is(Cmd(p), "exit")
    PROVE  ExitCodes(Cmd(p)) \subseteq Int
<1>1. line[p] \in Lists /\ pos[p] \in 1 .. Len(line[p])
  <2>1. TypeOK /\ PlaceAt(p) /\ pc[p] \in Running
    BY DEF Inv, PlaceInv, Running
  <2> QED
    BY <2>1, AtCommand
<1>2. \/ Word(Cmd(p), 1) \in DOMAIN Strtol \cup {NULL}
      \/ Word(Cmd(p), 2) # NULL
  BY <1>1, ListsAssumption DEF Cmd
<1>3. \A word \in DOMAIN Strtol : Strtol[word] \in Int
  BY ProcessAssumption
<1> QED
  BY <1>2, <1>3 DEF ExitCodes

LEMMA StartBuiltinInv ==
    ASSUME Inv, NEW q \in Pids, StartBuiltin(q)
    PROVE  Inv'
<1>0. pc[q] = "start" /\ pc[q] \notin Gone \cup {"child"}
  BY DEF StartBuiltin, Gone
<1>1. CASE Is(Cmd(q), "cd") /\ End(q, Exited(CdCode(Cmd(q))))
  <2>1. Exited(CdCode(Cmd(q))) \in Ended
    <3>1. CdCode(Cmd(q)) \in Int
      BY DEF CdCode
    <3> QED
      BY <3>1, ExitedEnded
  <2> QED
    BY <2>1, <1>0, <1>1, EndInv
<1>2. CASE Is(Cmd(q), "our_pwd") /\ End(q, Exited(PwdCode(Cmd(q))))
  <2>1. Exited(PwdCode(Cmd(q))) \in Ended
    <3>1. PwdCode(Cmd(q)) \in Int
      BY DEF PwdCode
    <3> QED
      BY <3>1, ExitedEnded
  <2>2. ~ Is(Cmd(q), "cd")
    <3>1. << "our_pwd" >>[1] # << "cd" >>[1]
      OBVIOUS
    <3> QED
      BY <3>1, <1>2 DEF Is
  <2> QED
    BY <2>1, <2>2, <1>0, <1>2, EndInv
<1>3. CASE Is(Cmd(q), "exit") /\ \E n \in ExitCodes(Cmd(q)) : End(q, Exited(n))
  <2>1. PICK n \in ExitCodes(Cmd(q)) : End(q, Exited(n))
    BY <1>3
  <2>2. Exited(n) \in Ended
    BY <1>0, <1>3, ExitCodesInt, ExitedEnded
  <2>3. ~ Is(Cmd(q), "cd")
    <3>1. << "exit" >>[1] # << "cd" >>[1]
      OBVIOUS
    <3> QED
      BY <3>1, <1>3 DEF Is
  <2> QED
    BY <2>1, <2>2, <2>3, <1>0, EndInv
<1> QED
  BY <1>1, <1>2, <1>3 DEF StartBuiltin

LEMMA EndStepsInv ==
    ASSUME Inv, NEW p \in Pids,
           ForkFails(p) \/ ProgramEnds(p) \/ ParentExits(p) \/ EndOfInput(p)
    PROVE  Inv'
<1>o. Outcomes \subseteq Ended /\ Signalled \in Ended /\ Exited(0) \in Ended
  BY ExitedEnded DEF Outcomes, Ended, Exited, Signalled, Statuses
<1>1. CASE ForkFails(p)
  BY <1>1, <1>o, EndInv DEF ForkFails, Gone
<1>2. CASE ProgramEnds(p)
  <2>1. PICK o \in Outcomes : End(p, o)
    BY <1>2 DEF ProgramEnds
  <2>2. pc[p] = "prog"
    BY <1>2 DEF ProgramEnds
  <2> QED
    BY <2>1, <2>2, <1>o, EndInv DEF Gone
<1>3. CASE ParentExits(p)
  <2>1. pc[p] = "exit" /\ Is(Cmd(p), "exit")
    BY <1>3 DEF ParentExits, Inv, PlaceInv, PlaceAt
  <2>2. PICK n \in ExitCodes(Cmd(p)) : End(p, Exited(n))
    BY <1>3 DEF ParentExits
  <2>3. Exited(n) \in Ended
    BY <2>1, ExitCodesInt, ExitedEnded
  <2> QED
    BY <2>1, <2>2, <2>3, EndInv DEF Gone
<1>4. CASE EndOfInput(p)
  BY <1>4, <1>o, EndInv DEF EndOfInput, Gone
<1> QED
  BY <1>1, <1>2, <1>3, <1>4

LEMMA ReadListInv ==
    ASSUME Inv, NEW p \in Pids, ReadList(p)
    PROVE  Inv'
<1>0. pc[p] = "main" /\ typed < MaxLines
  BY DEF ReadList
<1>1. CASE End(p, Signalled)
  <2>1. Signalled \in Ended
    BY DEF Ended, Signalled, Statuses
  <2> QED
    BY <2>1, <1>0, <1>1, EndInv DEF Gone
<1>2. CASE SkipLine
  <2>t. TypeOK
    BY DEF Inv
  <2>u. /\ typed' = typed + 1
        /\ UNCHANGED << pc, parent, line, pos, inner, status, pipefd, ends, kid, fd, cwd,
                        code, serial, last, stray >>
    BY <1>2 DEF SkipLine
  <2>1. typed' \in 0 .. MaxLines /\ 0 .. typed \subseteq 0 .. typed'
    BY <2>t, <2>u, <1>0, ProcessAssumption DEF TypeOK
  <2>2. serial' \in [Pids -> 0 .. typed']
    <3>1. serial \in [Pids -> 0 .. typed]
      BY <2>t DEF TypeOK
    <3> QED
      BY <3>1, <2>1, <2>u
  <2>3. TypeOK'
    BY <2>t, <2>u, <2>1, <2>2 DEF TypeOK
  <2> QED
    BY <2>3, <2>u, SameInv
<1>3. CASE \E list \in Lists : RunLine(p, list)
  BY <1>0, <1>3, RunLineInv
<1> QED
  BY <1>1, <1>2, <1>3 DEF ReadList

LEMMA InvInit == Init => Inv
<1> SUFFICES ASSUME Init PROVE Inv
  OBVIOUS
<1> USE DEF Init
<1>n. NULL \notin Pids
  BY NullAssumption
<1>s. STDIN \in Fds /\ HOME \in Dirs /\ Nothing \in Ended /\ 0 \in Statuses /\ Tty \in File
      /\ STDIN = 0 /\ Fds \subseteq Nat /\ Tty # NULL /\ Tty.kind = "tty" /\ MaxLines \in Nat
  BY FdsFacts, ProcessAssumption, NullAssumption DEF STDIN, Nothing, Ended, Statuses, Tty, File
<1>1. TypeOK
  <2>1. {code, last} \subseteq [Pids -> Ended]
    BY <1>s
  <2>2. pc \in [Pids -> {"none", "main", "exec", "forked", "exit", "switch",
                         "done", "child", "start", "prog", "zombie"}]
    OBVIOUS
  <2>3. line \in [Pids -> Lists \cup {<< >>}] /\ pos \in [Pids -> Nat]
    OBVIOUS
  <2>4. \A p \in Pids : pos[p] <= Len(line[p]) + 1
    OBVIOUS
  <2>5. fd \in [Pids -> [Fds -> File \cup {NULL}]]
    BY <1>s
  <2>6. pipefd \in [Pids -> Fds] /\ status \in [Pids -> Statuses] /\ cwd \in [Pids -> Dirs]
    BY <1>s
  <2>7. ends \in [Pids -> (Fds \X Fds) \cup {NULL}] /\ kid \in [Pids -> Pids \cup {NULL}]
        /\ parent \in [Pids -> Pids \cup {NULL}]
    OBVIOUS
  <2>8. inner \in [Pids -> BOOLEAN] /\ stray \in [Pids -> BOOLEAN]
    OBVIOUS
  <2>9. typed \in 0 .. MaxLines /\ serial \in [Pids -> 0 .. typed]
    BY <1>s
  <2> QED
    BY <2>1, <2>2, <2>3, <2>4, <2>5, <2>6, <2>7, <2>8, <2>9 DEF TypeOK, Ended
<1>2. \A p \in Pids : /\ pc[p] = IF p = 1 THEN "main" ELSE "none"
                      /\ parent[p] = NULL /\ kid[p] = NULL /\ ends[p] = NULL /\ pipefd[p] = STDIN
                      /\ \A i \in Fds : fd[p][i] = IF p = 1 /\ i < 3 THEN Tty ELSE NULL
                      /\ p # 1 => fd[p] = NoFiles
  BY DEF NoFiles
<1>3. PlaceInv /\ LastInv /\ FamilyInv /\ CdInv
  BY <1>2 DEF PlaceInv, PlaceAt, LastInv, LastAt, FamilyInv, FamilyAt, CdInv, CdAt, Running
<1>4. FilesInv
  <2>1. 0 .. 2 \subseteq Fds
    BY FdsFacts
  <2> QED
    BY <1>2, <1>s, <2>1 DEF FilesInv, FilesAt, IsEnd, Gone
<1>5. PipeInv
  <2>1. \A s, c \in Pids : ~ Started(s, c)
    BY <1>2, <1>n DEF Started
  <2> QED
    BY <2>1 DEF PipeInv, OrderAt, CarryAt, MeetAt, Member
<1> QED
  BY <1>1, <1>3, <1>4, <1>5 DEF Inv

LEMMA InvNext == Inv /\ [RunNext]_vars => Inv'
<1> SUFFICES ASSUME Inv, [RunNext]_vars PROVE Inv'
  OBVIOUS
<1>1. CASE UNCHANGED vars
  <2>1. TypeOK'
    BY <1>1 DEF Inv, TypeOK, vars
  <2> QED
    BY <1>1, <2>1, SameInv DEF vars
<1>2. ASSUME NEW p \in Pids, Step(p)
      PROVE  Inv'
  BY <1>2, ForkInv, SetupInv, StartSubshellInv, StartBuiltinInv, ExecInv, ParentInv,
     NoWaitInv, WaitInv, WaitFailsInv, ReapInv, DoneInv, EndStepsInv DEF Step
<1>3. ASSUME NEW p \in Pids, ReadList(p) \/ EndOfInput(p)
      PROVE  Inv'
  BY <1>3, ReadListInv, EndStepsInv
<1> QED
  BY <1>1, <1>2, <1>3 DEF RunNext

LEMMA InvAlways == RunSpec => []Inv
BY InvInit, InvNext, PTL DEF RunSpec

\* Every variable keeps its type, whatever lists are run: the exit statuses stay
\* in a byte, no command is looked up beyond the end of its list, and no
\* descriptor beyond the table.
THEOREM RunTypeCorrect == RunSpec => []TypeOK
<1>1. Inv => TypeOK
  BY DEF Inv
<1> QED
  BY <1>1, InvAlways, PTL

\* cmd_exec leaves no copy of a pipe's end behind, in the shell or in a child,
\* for any line, any nesting of subshells and any interleaving: each close that
\* a process owes has happened when it is past cmd_exec.
THEOREM RunLeavesNoEnds == RunSpec => []NoStrayEnds
<1>1. Inv => NoStrayEnds
  <2> SUFFICES ASSUME Inv, NEW p \in Pids, pc[p] \notin {"forked", "child"}, NEW i \in Fds
               PROVE  /\ IsEnd(p, i, "write") /\ ~ stray[p] => i = STDOUT
                      /\ i > 2 /\ fd[p][i] # NULL => pc[p] \in {"switch", "exec", "exit"} /\ i = pipefd[p]
    BY DEF NoStrayEnds
  <2>1. FilesAt(p)
    BY DEF Inv, FilesInv
  <2>2. ends[p] = NULL
    BY <2>1 DEF FilesAt, EndsAt
  <2> QED
    BY <2>1, <2>2 DEF FilesAt, Handed
<1> QED
  BY <1>1, InvAlways, PTL

\* Neighbours of a pipeline share a pipe, however long the pipeline is and
\* whichever of them was set up first.
THEOREM RunConnects == RunSpec => []Connected
<1>1. Inv => Connected
  <2> SUFFICES ASSUME Inv, NEW p \in Pids, NEW q \in Pids,
                      pc[p] = "prog", pc[q] = "prog",
                      parent[p] = parent[q], parent[p] # NULL, ~ stray[p],
                      serial[p] = serial[q], pos[q] = pos[p] + 1, line[p] = line[q],
                      Cmd(p).controlop = "|", STDOUT \notin Redirected(Cmd(p)),
                      STDIN \notin Redirected(Cmd(q))
               PROVE  /\ IsEnd(p, STDOUT, "write") /\ IsEnd(q, STDIN, "read")
                      /\ fd[p][STDOUT].pipe = fd[q][STDIN].pipe
    BY DEF Connected
  <2> DEFINE s == parent[p]
  <2>1. s \in Pids /\ FamilyAt(p) /\ FamilyAt(q)
    BY DEF Inv, FamilyInv, TypeOK
  <2>2. ~ stray[s] /\ ~ stray[q]
    BY <2>1 DEF FamilyAt
  <2>3. Started(s, p) /\ Started(s, q)
    BY <2>2 DEF Started
  <2>4. MeetAt(s, p, q)
    BY <2>1 DEF Inv, PipeInv
  <2>5. Joined(Out(p), In(q))
    BY <2>3, <2>4 DEF MeetAt, Writer, Reader
  <2> QED
    BY <2>5 DEF Out, In, Joined, IsEnd
<1> QED
  BY <1>1, InvAlways, PTL

\* The status of a cd and its effect agree: the shell has moved if and only if
\* the child it is about to wait for says so.
THEOREM RunCdAgrees == RunSpec => []CdAgrees
<1>1. Inv => CdAgrees
  <2> SUFFICES ASSUME Inv, NEW p \in Pids, pc[p] = "switch", kid[p] # NULL, pc[kid[p]] = "zombie",
                      Is(Cmd(p), "cd"), Len(Cmd(p).argv) = 2
               PROVE  code[kid[p]] = Exited(0) <=> cwd[p] = Word(Cmd(p), 1)
    BY DEF CdAgrees
  <2>1. CdAt(p)
    BY DEF Inv, CdInv
  <2>2. code[kid[p]] = Exited(CdCode(Cmd(p)))
    BY <2>1 DEF CdAt
  <2>3. Word(Cmd(p), 1) \in Dirs => cwd[p] = Word(Cmd(p), 1)
    BY <2>1 DEF CdAt
  <2>4. cwd[p] \in Dirs
    BY DEF Inv, TypeOK
  <2>5. Exited(1) # Exited(0)
    <3>1. Exited(1).n = 1 /\ Exited(0).n = 0
      BY DEF Exited
    <3> QED
      BY <3>1
  <2>6. CASE Word(Cmd(p), 1) \in Dirs
    BY <2>2, <2>3, <2>6 DEF CdCode
  <2>7. CASE Word(Cmd(p), 1) \notin Dirs
    BY <2>2, <2>4, <2>5, <2>7 DEF CdCode
  <2> QED
    BY <2>6, <2>7
<1> QED
  BY <1>1, InvAlways, PTL

\* && starts its right-hand side only after a success, || only after something
\* else, also when the status comes from an earlier command of the chain.
THEOREM RunShortCircuits == RunSpec => ShortCircuit
<1>1. Inv /\ [RunNext]_vars =>
        [\A p \in Pids :
           pc[p] = "exec" /\ pc'[p] = "forked" /\ pos[p] > 1 =>
              /\ line[p][pos[p] - 1].controlop = "&&" => last[p] = Exited(0)
              /\ line[p][pos[p] - 1].controlop = "||" => last[p] # Exited(0)]_vars
  BY DEF Inv, LastInv, LastAt
<1> QED
  BY <1>1, InvAlways, PTL DEF RunSpec, ShortCircuit
=============================================================================
