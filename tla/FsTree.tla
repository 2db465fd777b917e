------------------------------- MODULE FsTree -------------------------------
(***************************************************************************)
(* What the notes over the handlers of fs5600.c promise their caller,      *)
(* without blocks: the image is a tree, a function from the paths that     *)
(* exist to their nodes, and a file is the sequence of its bytes.  Space   *)
(* is not modelled: any operation that needs some may be refused with      *)
(* ENOSPC, and none may fail in another way for want of it.                *)
(***************************************************************************)
EXTENDS Integers, Sequences, FiniteSets

CONSTANTS Names, LongNames, MAX_FILE, MAX_ENTRIES, ROOT_PERM

VARIABLES tree, up, returned

vars == <<tree, up, returned>>

ENOENT == 2
EEXIST == 17
ENOTDIR == 20
EISDIR == 21
EINVAL == 22
ENOSPC == 28
ENOTEMPTY == 39

Dir(perm) == [type |-> "dir", perm |-> perm, data |-> <<>>]
File(perm) == [type |-> "file", perm |-> perm, data |-> <<>>]

Parent(p) == SubSeq(p, 1, Len(p) - 1)
Name(p) == p[Len(p)]
Exists(p) == p \in DOMAIN tree
IsDir(p) == Exists(p) /\ tree[p].type = "dir"
IsFile(p) == Exists(p) /\ tree[p].type = "file"
Under(p, q) == Len(p) =< Len(q) /\ SubSeq(q, 1, Len(p)) = p
Children(p) == {q \in DOMAIN tree : q # <<>> /\ Parent(q) = p}

\* ENOTDIR when the path goes through a file, ENOENT when it goes through
\* nothing; a name too long for any entry is never found.
PathError(p) ==
    LET prefixes == {SubSeq(p, 1, n) : n \in 0..(Len(p) - 1)}
    IN  IF \E q \in prefixes : IsFile(q) /\ p[Len(q) + 1] \notin LongNames
        THEN -ENOTDIR ELSE -ENOENT

\* returned' is the call being served, with its arguments, and what it returns.
Returns(codes) == returned'.code \in codes
Fails(codes) == Returns(codes) /\ UNCHANGED <<tree, up>>
Succeeds == Returns({0}) /\ UNCHANGED up

Init ==
    /\ tree = [p \in {<<>>} |-> Dir(ROOT_PERM)]
    /\ up = TRUE
    /\ returned.code = 0

-----------------------------------------------------------------------------
Mount == ~up /\ returned'.call.op = "init" /\ up' = TRUE /\ Returns({0}) /\ UNCHANGED tree

Statfs == Returns({0}) /\ UNCHANGED <<tree, up>>

Size(p) == Len(tree[p].data)
StatMatches(stat, p) ==
    /\ stat.type = tree[p].type
    /\ stat.perm = tree[p].perm
    /\ IsFile(p) => stat.size = Size(p)

Getattr(p) ==
    \/ ~Exists(p) /\ Fails({PathError(p)})
    \/ /\ Exists(p)
       /\ Fails({0})
       /\ StatMatches(returned'.out, p)

Readdir(p) ==
    \/ ~Exists(p) /\ Fails({PathError(p)})
    \/ IsFile(p) /\ Fails({-ENOTDIR})
    \/ /\ IsDir(p)
       /\ Fails({0})
       /\ {e.name : e \in returned'.out} = {Name(q) : q \in Children(p)}
       /\ Cardinality(returned'.out) = Cardinality(Children(p))
       /\ \A e \in returned'.out : StatMatches(e.stat, Append(p, e.name))

Read(p, len, at) ==
    \/ ~Exists(p) /\ Fails({PathError(p)})
    \/ IsDir(p) /\ Fails({-EISDIR})
    \/ /\ IsFile(p)
       /\ LET end == IF at + len > Size(p) THEN Size(p) ELSE at + len
          IN  returned'.out = SubSeq(tree[p].data, at + 1, end)
       /\ Fails({Len(returned'.out)})

\* Everything under src moves with it.
Renamed(src, dst) ==
    LET new(q) == IF Under(src, q) THEN dst \o SubSeq(q, Len(src) + 1, Len(q)) ELSE q
    IN  [r \in {new(q) : q \in DOMAIN tree} |->
            tree[CHOOSE q \in DOMAIN tree : new(q) = r]]
Rename(src, dst) ==
    \/ ~Exists(src) /\ Fails({PathError(src)})
    \/ Exists(src) /\ Exists(dst) /\ Fails({-EEXIST})
    \/ /\ Exists(src) /\ ~Exists(dst)
       /\ src = <<>> \/ Parent(src) # Parent(dst)
       /\ Fails({-EINVAL})
    \/ /\ Exists(src) /\ ~Exists(dst) /\ src # <<>> /\ Parent(src) = Parent(dst)
       /\ Succeeds
       /\ tree' = Renamed(src, dst)

Chmod(p, perm) ==
    \/ ~Exists(p) /\ Fails({PathError(p)})
    \/ /\ Exists(p)
       /\ Succeeds
       /\ tree' = [tree EXCEPT ![p].perm = perm]

Make(p, node) ==
    \/ Exists(p) /\ Fails({-EEXIST})
    \/ ~Exists(p) /\ Name(p) \in LongNames /\ Fails({-EINVAL})
    \/ ~Exists(p) /\ ~IsDir(Parent(p)) /\ Fails({PathError(p)})
    \/ ~Exists(p) /\ IsDir(Parent(p)) /\ Fails({-ENOSPC})
    \/ /\ ~Exists(p) /\ Name(p) \in Names /\ IsDir(Parent(p))
       /\ Cardinality(Children(Parent(p))) < MAX_ENTRIES
       /\ Succeeds
       /\ tree' = [q \in DOMAIN tree \cup {p} |-> IF q = p THEN node ELSE tree[q]]

Without(p) == [q \in DOMAIN tree \ {p} |-> tree[q]]
Unlink(p) ==
    \/ ~Exists(p) /\ Fails({PathError(p)})
    \/ IsDir(p) /\ Fails({-EISDIR})
    \/ IsFile(p) /\ Succeeds /\ tree' = Without(p)
Rmdir(p) ==
    \/ ~Exists(p) /\ Fails({PathError(p)})
    \/ p = <<>> /\ Fails({-ENOENT})
    \/ IsFile(p) /\ Fails({-ENOTDIR})
    \/ IsDir(p) /\ Children(p) # {} /\ Fails({-ENOTEMPTY})
    \/ /\ IsDir(p) /\ p # <<>> /\ Children(p) = {}
       /\ Succeeds
       /\ tree' = Without(p)

\* The bytes of data laid over old from position at on.
Spliced(old, data, at) ==
    LET end == at + Len(data)
    IN  [i \in 1..(IF end > Len(old) THEN end ELSE Len(old)) |->
            IF i > at /\ i =< end THEN data[i - at] ELSE old[i]]
Write(p, data, at) ==
    \/ ~Exists(p) /\ Fails({PathError(p)})
    \/ IsDir(p) /\ Fails({-EISDIR})
    \/ IsFile(p) /\ at > Size(p) /\ Fails({-EINVAL})
    \/ IsFile(p) /\ at =< Size(p) /\ Fails({-ENOSPC})
    \/ /\ IsFile(p) /\ at =< Size(p) /\ at + Len(data) =< MAX_FILE
       /\ Returns({Len(data)}) /\ UNCHANGED up
       /\ tree' = [tree EXCEPT ![p].data = Spliced(@, data, at)]

\* The process may be killed in a write: some of the bytes the file already had
\* are overwritten, its length stays.
Tear(p, data, at) ==
    /\ IsFile(p) /\ at =< Size(p)
    /\ up' = FALSE
    /\ \E n \in 0..Len(data) :
          tree' = [tree EXCEPT ![p].data = SubSeq(Spliced(@, SubSeq(data, 1, n), at), 1, Size(p))]
DieInWrite(p, data, at) == Tear(p, data, at) /\ Returns({-1})

Truncate(p, len) ==
    \/ len # 0 /\ Fails({-EINVAL})
    \/ len = 0 /\ ~Exists(p) /\ Fails({PathError(p)})
    \/ len = 0 /\ IsDir(p) /\ Fails({-EISDIR})
    \/ /\ len = 0 /\ IsFile(p)
       /\ Succeeds
       /\ tree' = [tree EXCEPT ![p].data = <<>>]

Utime(p) ==
    \/ ~Exists(p) /\ Fails({PathError(p)})
    \/ Exists(p) /\ Fails({0})

\* The process may be killed in any other call that changes the tree: the tree
\* has changed as the call should change it, or not at all.
Die(c) ==
    /\ up' = FALSE
    /\ Returns({-1})
    /\ \/ c.op \in {"create", "mkdir", "unlink", "rmdir", "truncate"} /\ UNCHANGED tree
       \/ c.op = "unlink" /\ IsFile(c.path) /\ tree' = Without(c.path)
       \/ /\ c.op = "rmdir" /\ IsDir(c.path) /\ Children(c.path) = {}
          /\ tree' = Without(c.path)

Serve ==
    LET c == returned'.call
    IN  \/ c.op = "statfs" /\ Statfs
        \/ c.op = "getattr" /\ Getattr(c.path)
        \/ c.op = "readdir" /\ Readdir(c.path)
        \/ c.op = "read" /\ Read(c.path, c.len, c.at)
        \/ c.op = "rename" /\ Rename(c.path, c.dst)
        \/ c.op = "chmod" /\ Chmod(c.path, c.perm)
        \/ c.op = "create" /\ Make(c.path, File(c.perm))
        \/ c.op = "mkdir" /\ Make(c.path, Dir(c.perm))
        \/ c.op = "unlink" /\ Unlink(c.path)
        \/ c.op = "rmdir" /\ Rmdir(c.path)
        \/ c.op = "write" /\ Write(c.path, c.data, c.at)
        \/ c.op = "write" /\ DieInWrite(c.path, c.data, c.at)
        \/ c.op = "truncate" /\ Truncate(c.path, c.len)
        \/ c.op = "utime" /\ Utime(c.path)
        \/ Die(c)

Next == Mount \/ (up /\ Serve)

Spec == Init /\ [][Next]_vars
=============================================================================
