------------------------------- MODULE CmdRun -------------------------------
(***************************************************************************)
(* The shell of lab2 running parsed command lines: cmd_line_exec and       *)
(* cmd_exec of cmdrun.c, and every process they fork.  Processes interact  *)
(* through fork, exit, waitpid, the pipes they share and the terminal;     *)
(* each keeps its own descriptors and directory, so that a run of system   *)
(* calls that touches only those is one action.                            *)
(*                                                                         *)
(* Prompts, messages and the contents of pipes and files are left out.     *)
(***************************************************************************)
EXTENDS Command, FiniteSets

CONSTANTS
    NPROCS,    \* processes the system can hold: fork fails beyond
    NFDS,      \* descriptors of a process: pipe fails beyond
    MaxLines,  \* bound: number of lines typed
    Dirs,      \* directories chdir can enter
    HOME,      \* the directory the shell starts in
    Strtol,    \* strtol, on the words that occur as an argument of exit
    Lists      \* the lists the parser can build, those of subshells included

Pids == 1 .. NPROCS
Fds == 0 .. NFDS - 1

STDIN == 0
STDOUT == 1

ASSUME ProcessAssumption ==
    /\ NPROCS \in Nat \ {0} /\ NFDS \in Nat /\ NFDS > 2 /\ MaxLines \in Nat
    /\ HOME \in Dirs
    /\ \A word \in DOMAIN Strtol : Strtol[word] \in Int

\* cmd_line_parse returns no empty list and none that ends in an operator which
\* needs a command behind it.
ASSUME ListsAssumption ==
    \A list \in Lists :
        /\ Len(list) \in Nat \ {0}
        /\ list[Len(list)].controlop \notin Joins
        /\ \A i \in 1 .. Len(list) :
              /\ list[i].subshell \in Lists \cup {NULL}
              /\ Is(list[i], "exit") =>
                    \/ Word(list[i], 1) \in DOMAIN Strtol \cup {NULL}
                    \/ Word(list[i], 2) # NULL

VARIABLES
    pc,       \* where each process is
    parent,   \* who may wait for it, NULL for init
    line,     \* the list cmd_line_exec works on
    pos,      \* the command of it that is being run
    inner,    \* the list is that of a subshell
    status,   \* cmd_status
    pipefd,   \* cmd_line_exec's pipefd: the read end of the last pipe
    ends,     \* cmd_exec's pipefd[2], NULL if it made no pipe
    kid,      \* what fork returned, NULL in the child
    fd,       \* the open descriptors
    cwd,      \* the working directory
    code,     \* of a zombie: how it ended
    typed,    \* number of lines typed
    serial,   \* history: which of them the process belongs to
    last,     \* history: how the command last waited for ended
    stray     \* history: a child whose execvp failed and that went on as a shell,
              \* or a process that comes from one

vars == << pc, parent, line, pos, inner, status, pipefd, ends, kid, fd, cwd, code,
           typed, serial, last, stray >>

Statuses == 0 .. 255
Exited(n) == [exited |-> TRUE, n |-> n % 256]
Signalled == [exited |-> FALSE, n |-> 9]
Nothing == [exited |-> FALSE, n |-> 0]

\* What a program may end with, for the shell that waits for it.
Outcomes == {Exited(0), Exited(1), Signalled}

File == [kind : {"tty", "file"}] \cup [kind : {"read", "write"}, pipe : Nat]
Tty == [kind |-> "tty"]
OnDisk == [kind |-> "file"]

ASSUME NullAssumption == NULL \notin Pids /\ NULL \notin File /\ NULL \notin Fds \X Fds

TypeOK ==
    /\ pc \in [Pids -> {"none", "main", "exec", "forked", "exit", "switch",
                        "done", "child", "start", "prog", "zombie"}]
    /\ parent \in [Pids -> Pids \cup {NULL}]
    /\ line \in [Pids -> Lists \cup {<< >>}]
    /\ pos \in [Pids -> Nat] /\ \A p \in Pids : pos[p] <= Len(line[p]) + 1
    /\ inner \in [Pids -> BOOLEAN]
    /\ status \in [Pids -> Statuses]
    /\ pipefd \in [Pids -> Fds]
    /\ ends \in [Pids -> (Fds \X Fds) \cup {NULL}]
    /\ kid \in [Pids -> Pids \cup {NULL}]
    /\ fd \in [Pids -> [Fds -> File \cup {NULL}]]
    /\ cwd \in [Pids -> Dirs]
    /\ {code, last} \subseteq [Pids -> [exited : BOOLEAN, n : Statuses]]
    /\ typed \in 0 .. MaxLines
    /\ serial \in [Pids -> 0 .. typed]
    /\ stray \in [Pids -> BOOLEAN]

NoFiles == [i \in Fds |-> NULL]

Init ==
    /\ pc = [p \in Pids |-> IF p = 1 THEN "main" ELSE "none"]
    /\ parent = [p \in Pids |-> NULL]
    /\ line = [p \in Pids |-> << >>]
    /\ pos = [p \in Pids |-> 0]
    /\ inner = [p \in Pids |-> FALSE]
    /\ status = [p \in Pids |-> 0]
    /\ pipefd = [p \in Pids |-> STDIN]
    /\ ends = [p \in Pids |-> NULL]
    /\ kid = [p \in Pids |-> NULL]
    /\ fd = [p \in Pids |-> [i \in Fds |-> IF p = 1 /\ i < 3 THEN Tty ELSE NULL]]
    /\ cwd = [p \in Pids |-> HOME]
    /\ code = [p \in Pids |-> Nothing]
    /\ typed = 0
    /\ serial = [p \in Pids |-> 0]
    /\ last = [p \in Pids |-> Nothing]
    /\ stray = [p \in Pids |-> FALSE]

-----------------------------------------------------------------------------
(***************************************************************************)
(* The system calls, on one descriptor table.                              *)
(***************************************************************************)
Lowest(S) == CHOOSE i \in S : \A j \in S : i <= j

Close(files, i) == [files EXCEPT ![i] = NULL]

\* A dup2 of a descriptor that is not open changes nothing.
Dup2(files, from, to) ==
    IF files[from] = NULL THEN files ELSE [files EXCEPT ![to] = files[from]]

FreeFds(files) == {i \in Fds : files[i] = NULL}

PipesOf(files) == {files[i].pipe : i \in {j \in Fds : files[j] # NULL /\ files[j].kind \in {"read", "write"}}}

\* The ends pipe() opens: the two lowest free descriptors.
PipeEnds(files) ==
    LET r == Lowest(FreeFds(files)) IN << r, Lowest(FreeFds(files) \ {r}) >>

Piped(files) ==
    LET used == UNION {PipesOf(fd[p]) : p \in Pids}
        id   == Lowest((0 .. Cardinality(used)) \ used)
    IN  [files EXCEPT ![PipeEnds(files)[1]] = [kind |-> "read", pipe |-> id],
                      ![PipeEnds(files)[2]] = [kind |-> "write", pipe |-> id]]

Holds(p, kind, id) == \E i \in Fds : fd[p][i] = [kind |-> kind, pipe |-> id]

\* A read of standard input finds the end of it.  The user may end his input
\* at any time.
AtEof(p) ==
    fd[p][STDIN].kind = "read"
        => ~ \E q \in Pids : Holds(q, "write", fd[p][STDIN].pipe)

Unused == {p \in Pids : pc[p] = "none"}
Children(p) == {q \in Pids : pc[q] # "none" /\ parent[q] = p}
Zombies(p) == {q \in Children(p) : pc[q] = "zombie"}

Cmd(p) == line[p][pos[p]]

\* p ends, as outcome says.  Its descriptors are closed, its children are
\* left to init, which reaps the zombies among them.
End(p, outcome) ==
    /\ pc' = [q \in Pids |->
                IF q = p /\ parent[p] # NULL THEN "zombie"
                ELSE IF q \in Zombies(p) \cup {p} THEN "none" ELSE pc[q]]
    /\ parent' = [q \in Pids |-> IF q \in Children(p) THEN NULL ELSE parent[q]]
    /\ code' = [q \in Pids |->
                IF q = p /\ parent[p] # NULL THEN outcome
                ELSE IF q \in Zombies(p) \cup {p} THEN Nothing ELSE code[q]]
    /\ fd' = [fd EXCEPT ![p] = NoFiles]
    /\ line' = [line EXCEPT ![p] = << >>]
    /\ pos' = [pos EXCEPT ![p] = 0]
    /\ inner' = [inner EXCEPT ![p] = FALSE]
    /\ status' = [status EXCEPT ![p] = 0]
    /\ pipefd' = [pipefd EXCEPT ![p] = STDIN]
    /\ ends' = [ends EXCEPT ![p] = NULL]
    /\ kid' = [kid EXCEPT ![p] = NULL]
    /\ cwd' = [cwd EXCEPT ![p] = HOME]
    /\ serial' = [serial EXCEPT ![p] = 0]
    /\ last' = [last EXCEPT ![p] = Nothing]
    /\ stray' = [stray EXCEPT ![p] = FALSE]
    /\ UNCHANGED typed

\* cmd_line_exec is entered for a list.
Enter(p, list, isInner) ==
    /\ line' = [line EXCEPT ![p] = list]
    /\ pos' = [pos EXCEPT ![p] = 1]
    /\ inner' = [inner EXCEPT ![p] = isInner]
    /\ status' = [status EXCEPT ![p] = 0]
    /\ pipefd' = [pipefd EXCEPT ![p] = STDIN]
    /\ pc' = [pc EXCEPT ![p] = "exec"]
    /\ last' = [last EXCEPT ![p] = Nothing]

-----------------------------------------------------------------------------
(***************************************************************************)
(* cmd_exec                                                                *)
(***************************************************************************)
Copy(f, p, q) == [f EXCEPT ![q] = f[p]]

CanFork(p) ==
    /\ Unused # {}
    /\ Cmd(p).controlop = "|" => Cardinality(FreeFds(fd[p])) >= 2

\* pipe, if the command is the left-hand side of one, and fork.
Fork(p) ==
    LET q     == Lowest(Unused)
        files == IF Cmd(p).controlop = "|" THEN Piped(fd[p]) ELSE fd[p]
        both  == IF Cmd(p).controlop = "|" THEN PipeEnds(fd[p]) ELSE NULL
    IN
    /\ pc[p] = "exec"
    /\ pos[p] <= Len(line[p])
    /\ CanFork(p)
    /\ pc' = [pc EXCEPT ![p] = "forked", ![q] = "child"]
    /\ parent' = [parent EXCEPT ![q] = p]
    /\ fd' = [fd EXCEPT ![p] = files, ![q] = files]
    /\ ends' = [ends EXCEPT ![p] = both, ![q] = both]
    /\ kid' = [kid EXCEPT ![p] = q, ![q] = NULL]
    /\ line' = Copy(line, p, q)
    /\ pos' = Copy(pos, p, q)
    /\ inner' = Copy(inner, p, q)
    /\ status' = Copy(status, p, q)
    /\ pipefd' = Copy(pipefd, p, q)
    /\ cwd' = Copy(cwd, p, q)
    /\ serial' = Copy(serial, p, q)
    /\ stray' = Copy(stray, p, q)
    /\ UNCHANGED << code, typed, last >>

\* pipe or fork fails, cmd_exec returns -1 and cmd_line_exec calls abort.
ForkFails(p) ==
    /\ pc[p] = "exec"
    /\ pos[p] <= Len(line[p])
    /\ ~ CanFork(p)
    /\ End(p, Signalled)

\* The child sets up standard input from the previous pipe, standard output to
\* its own, and the redirections.  A file that cannot be opened is ignored.
Setup(q) ==
    LET pass == pipefd[q]
        in   == IF pass = STDIN THEN fd[q] ELSE Close(Dup2(fd[q], pass, STDIN), pass)
        out  == IF ends[q] = NULL THEN in
                ELSE Close(Close(Dup2(in, ends[q][2], STDOUT), ends[q][1]), ends[q][2])
    IN
    /\ pc[q] = "child"
    /\ \E opened \in SUBSET Redirected(Cmd(q)) :
          fd' = [fd EXCEPT ![q] = [i \in Fds |-> IF i \in opened THEN OnDisk ELSE out[i]]]
    /\ pc' = [pc EXCEPT ![q] = "start"]
    /\ ends' = [ends EXCEPT ![q] = NULL]
    /\ UNCHANGED << parent, line, pos, inner, status, pipefd, kid, cwd, code, typed,
                    serial, last, stray >>

\* The child is a subshell: it runs the list and will exit with 0 or 5.
StartSubshell(q) ==
    /\ pc[q] = "start"
    /\ IsSubshell(Cmd(q))
    /\ Enter(q, Cmd(q).subshell, TRUE)
    /\ UNCHANGED << parent, ends, kid, fd, cwd, code, typed, serial, stray >>

\* What the child of a builtin exits with.  errno after a strtol that found no
\* number is whatever an earlier call left.
CdCode(c) == IF Len(c.argv) = 2 /\ Word(c, 1) \in Dirs THEN 0 ELSE 1
PwdCode(c) == IF Len(c.argv) = 1 THEN 0 ELSE 1
ExitCodes(c) ==
    IF Word(c, 2) # NULL THEN {1}
    ELSE IF Word(c, 1) = NULL \/ Word(c, 1) = << "0" >> THEN {0}
    ELSE IF Strtol[Word(c, 1)] # 0 THEN {Strtol[Word(c, 1)]} ELSE {0, 1}

StartBuiltin(q) ==
    /\ pc[q] = "start"
    /\ \/ Is(Cmd(q), "cd") /\ End(q, Exited(CdCode(Cmd(q))))
       \/ Is(Cmd(q), "our_pwd") /\ End(q, Exited(PwdCode(Cmd(q))))
       \/ Is(Cmd(q), "exit") /\ \E n \in ExitCodes(Cmd(q)) : End(q, Exited(n))

\* execvp.  Programs are "run", which ends when it likes, "cat", which reads
\* its input to the end, and "missing", which does not exist: execvp returns,
\* and so does cmd_exec, with the 0 that fork gave the child.
Exec(q) ==
    LET missing == Is(Cmd(q), "missing") IN
    /\ pc[q] = "start"
    /\ Is(Cmd(q), "run") \/ Is(Cmd(q), "cat") \/ missing
    /\ pc' = [pc EXCEPT ![q] = IF missing THEN "switch" ELSE "prog"]
    /\ stray' = [stray EXCEPT ![q] = @ \/ missing]
    /\ UNCHANGED << parent, line, pos, inner, status, pipefd, ends, kid, fd, cwd, code,
                    typed, serial, last >>

ProgramEnds(q) ==
    /\ pc[q] = "prog"
    /\ Is(Cmd(q), "cat") => AtEof(q)
    /\ \E o \in Outcomes : End(q, o)

-----------------------------------------------------------------------------
(***************************************************************************)
(* Faulty variants of single steps: none of them is part of Next.          *)
(***************************************************************************)
\* The parent forgets to close its copy of the write end.
ParentFilesKeepsWriteEnd(p) ==
    LET old == IF pipefd[p] = STDIN THEN fd[p] ELSE Close(fd[p], pipefd[p])
    IN  old

\* The parent passes the previous pipe on, not this command's.
ParentKeepsPipefd(p) == pipefd[p]

\* The parent stays where it is: only the child changes directory.
ParentCwdUnchanged(p) == cwd[p]

\* && looks only at whether the command exited, or || goes on regardless.
ProceedsOnAnyExit(op, outcome, st) ==
    IF op = "||" THEN st # 0 ELSE outcome.exited

\* waitpid with an interrupted or failed call leaves cmd_status at -1.
StatusAfterRaw(op, outcome, st) ==
    IF op = "&&" THEN IF outcome = Exited(0) THEN 0 ELSE st
    ELSE IF outcome.exited THEN outcome.n
    ELSE IF op = "||" THEN st ELSE -1

-----------------------------------------------------------------------------
\* The parent closes the pipe it handed on and its copy of the write end.
ParentFiles(p) ==
    LET old == IF pipefd[p] = STDIN THEN fd[p] ELSE Close(fd[p], pipefd[p])
    IN  IF ends[p] = NULL THEN old ELSE Close(old, ends[p][2])

ParentPipefd(p) == IF ends[p] = NULL THEN STDIN ELSE ends[p][1]

\* The parent's chdir, whatever the number of arguments.
ParentCwd(p) ==
    IF Is(Cmd(p), "cd") /\ Word(Cmd(p), 1) \in Dirs THEN Word(Cmd(p), 1) ELSE cwd[p]

\* cmd_exec in the parent; exit with at most one argument does not return.
Parent(p) ==
    /\ pc[p] = "forked"
    /\ fd' = [fd EXCEPT ![p] = ParentFiles(p)]
    /\ pipefd' = [pipefd EXCEPT ![p] = ParentPipefd(p)]
    /\ cwd' = [cwd EXCEPT ![p] = ParentCwd(p)]
    /\ pc' = [pc EXCEPT ![p] =
                IF Is(Cmd(p), "exit") /\ Word(Cmd(p), 2) = NULL THEN "exit" ELSE "switch"]
    /\ ends' = [ends EXCEPT ![p] = NULL]
    /\ UNCHANGED << parent, line, pos, inner, status, kid, code, typed, serial, last, stray >>

\* The parent of exit's child waits for it and exits too.
ParentExits(p) ==
    /\ pc[p] = "exit"
    /\ pc[kid[p]] = "zombie"
    /\ \E n \in ExitCodes(Cmd(p)) : End(p, Exited(n))

-----------------------------------------------------------------------------
(***************************************************************************)
(* cmd_line_exec                                                           *)
(***************************************************************************)
Waits(p) == Cmd(p).controlop \in {"END", ";", "&&", "||"}

\* & and |: the loop goes on at once.
NoWait(p) ==
    /\ pc[p] = "switch"
    /\ ~ Waits(p)
    /\ status' = [status EXCEPT ![p] = 0]
    /\ pos' = [pos EXCEPT ![p] = @ + 1]
    /\ pc' = [pc EXCEPT ![p] = "exec"]
    /\ kid' = [kid EXCEPT ![p] = NULL]
    /\ last' = [last EXCEPT ![p] = Nothing]
    /\ UNCHANGED << parent, line, inner, pipefd, ends, fd, cwd, code, typed, serial, stray >>

\* cmd_status after the wait, and whether the loop goes on to the next command.
StatusAfter(op, outcome, st) ==
    IF \/ op = "&&" /\ outcome # Exited(0)
       \/ op = "||" /\ ~ outcome.exited
    THEN st
    ELSE outcome.n

Proceeds(op, outcome, st) ==
    IF op = "&&" THEN outcome = Exited(0)
    ELSE IF op = "||" THEN st # 0
    ELSE outcome.exited

Waited(p, outcome) ==
    LET op == Cmd(p).controlop
        st == StatusAfter(op, outcome, status[p])
        on == Proceeds(op, outcome, st)
    IN
    /\ status' = [status EXCEPT ![p] = st]
    /\ pos' = [pos EXCEPT ![p] = IF on THEN @ + 1 ELSE @]
    /\ pc' = [q \in Pids |-> IF q = p THEN IF on THEN "exec" ELSE "done"
                             ELSE IF q = kid[p] THEN "none" ELSE pc[q]]
    /\ kid' = [kid EXCEPT ![p] = NULL]
    /\ last' = [last EXCEPT ![p] = outcome]

\* waitpid(pid) returns.
Wait(p) ==
    /\ pc[p] = "switch"
    /\ Waits(p)
    /\ kid[p] # NULL
    /\ pc[kid[p]] = "zombie"
    /\ Waited(p, code[kid[p]])
    /\ code' = [code EXCEPT ![kid[p]] = Nothing]
    /\ parent' = [parent EXCEPT ![kid[p]] = NULL]
    /\ UNCHANGED << line, inner, pipefd, ends, fd, cwd, typed, serial, stray >>

\* waitpid(0) of a child that came back from execvp: it has no children, the
\* call fails, and wp_status is uninitialised.
WaitFails(p) ==
    /\ pc[p] = "switch"
    /\ Waits(p)
    /\ kid[p] = NULL
    /\ \E o \in Outcomes : Waited(p, o)
    /\ UNCHANGED << code, parent, line, inner, pipefd, ends, fd, cwd, typed, serial, stray >>

\* After the last command waitpid(0, 0, WNOHANG) reaps one zombie after the other.
Reap(p) ==
    /\ pc[p] = "exec"
    /\ pos[p] > Len(line[p])
    /\ \/ \E q \in Zombies(p) :
            /\ pc' = [pc EXCEPT ![q] = "none"]
            /\ code' = [code EXCEPT ![q] = Nothing]
            /\ parent' = [parent EXCEPT ![q] = NULL]
       \/ /\ Zombies(p) = {}
          /\ pc' = [pc EXCEPT ![p] = "done"]
          /\ UNCHANGED << code, parent >>
    /\ UNCHANGED << line, pos, inner, status, pipefd, ends, kid, fd, cwd, typed,
                    serial, last, stray >>

\* cmd_line_exec returns: a subshell exits, main goes on to the next line.
Done(p) ==
    /\ pc[p] = "done"
    /\ \/ inner[p] /\ End(p, Exited(IF status[p] = 0 THEN 0 ELSE 5))
       \/ /\ ~ inner[p]
          /\ pc' = [pc EXCEPT ![p] = "main"]
          /\ line' = [line EXCEPT ![p] = << >>]
          /\ pos' = [pos EXCEPT ![p] = 0]
          /\ status' = [status EXCEPT ![p] = 0]
          /\ pipefd' = [pipefd EXCEPT ![p] = STDIN]
          /\ last' = [last EXCEPT ![p] = Nothing]
          /\ UNCHANGED << parent, inner, ends, kid, fd, cwd, code, typed, serial, stray >>

-----------------------------------------------------------------------------
Step(p) ==
    \/ Fork(p) \/ ForkFails(p)
    \/ Setup(p) \/ StartSubshell(p) \/ StartBuiltin(p) \/ Exec(p) \/ ProgramEnds(p)
    \/ Parent(p) \/ ParentExits(p)
    \/ NoWait(p) \/ Wait(p) \/ WaitFails(p) \/ Reap(p) \/ Done(p)

-----------------------------------------------------------------------------
(***************************************************************************)
(* main.c around cmd_line_exec, for a parser that may return any list.     *)
(***************************************************************************)
\* A syntax error, or a line that is only printed.
SkipLine ==
    /\ typed' = typed + 1
    /\ UNCHANGED << pc, parent, line, pos, inner, status, pipefd, ends, kid, fd, cwd,
                    code, serial, last, stray >>

RunLine(p, list) ==
    /\ typed' = typed + 1
    /\ serial' = [serial EXCEPT ![p] = typed + 1]
    /\ Enter(p, list, FALSE)
    /\ UNCHANGED << parent, ends, kid, fd, cwd, code, stray >>

\* A round of the loop; an assertion of the parser ends the process.
ReadList(p) ==
    /\ pc[p] = "main"
    /\ typed < MaxLines
    /\ \/ End(p, Signalled)
       \/ SkipLine
       \/ \E list \in Lists : RunLine(p, list)

EndOfInput(p) ==
    /\ pc[p] = "main"
    /\ AtEof(p)
    /\ End(p, Exited(0))

RunNext == \E p \in Pids : ReadList(p) \/ EndOfInput(p) \/ Step(p)

RunSpec == Init /\ [][RunNext]_vars

-----------------------------------------------------------------------------
(***************************************************************************)
(* Properties                                                              *)
(***************************************************************************)
IsEnd(p, i, kind) == fd[p][i] # NULL /\ fd[p][i].kind = kind

\* cmd_exec closes every copy of a pipe's ends it does not hand on: once parent
\* and child are past their closes, a write end is only somebody's standard
\* output, a read end only somebody's standard input or the pipefd of the shell
\* that is about to start the reader.  A line leaves no descriptor behind.  A
\* stray child keeps the number of a pipefd it has closed, which pipe() may give
\* to a write end: what it starts may then have that for its standard input.
NoStrayEnds ==
    \A p \in Pids : pc[p] \notin {"forked", "child"} =>
        \A i \in Fds :
            /\ IsEnd(p, i, "write") /\ ~ stray[p] => i = STDOUT
            /\ i > 2 /\ fd[p][i] # NULL => pc[p] \in {"switch", "exec", "exit"} /\ i = pipefd[p]

\* Two neighbours of a pipeline that run together share a pipe: the right one
\* reads what the left one writes, whichever of them started first.
Connected ==
    \A p, q \in Pids :
        /\ pc[p] = "prog" /\ pc[q] = "prog"
        /\ parent[p] = parent[q] /\ parent[p] # NULL /\ ~ stray[p]
        /\ serial[p] = serial[q] /\ pos[q] = pos[p] + 1 /\ line[p] = line[q]
        /\ Cmd(p).controlop = "|" /\ STDOUT \notin Redirected(Cmd(p)) /\ STDIN \notin Redirected(Cmd(q))
        => /\ IsEnd(p, STDOUT, "write") /\ IsEnd(q, STDIN, "read")
           /\ fd[p][STDOUT].pipe = fd[q][STDIN].pipe

\* cd runs twice, in the child for its status and in the shell for its effect:
\* given one argument, the status the shell is about to see says whether the
\* shell itself has moved.
CdAgrees ==
    \A p \in Pids :
        /\ pc[p] = "switch" /\ kid[p] # NULL /\ pc[kid[p]] = "zombie"
        /\ Is(Cmd(p), "cd") /\ Len(Cmd(p).argv) = 2
        => (code[kid[p]] = Exited(0) <=> cwd[p] = Word(Cmd(p), 1))

\* The command behind && is started only after a success and the one behind ||
\* only after something else, across the status a shell keeps between them.
ShortCircuit ==
    [][\A p \in Pids :
         pc[p] = "exec" /\ pc'[p] = "forked" /\ pos[p] > 1 =>
            /\ line[p][pos[p] - 1].controlop = "&&" => last[p] = Exited(0)
            /\ line[p][pos[p] - 1].controlop = "||" => last[p] # Exited(0)]_vars

\* Every line comes to an end and every reader of a pipe sees the end of its
\* input: once input has ended no process is left waiting for another.
ShellEnds == <>[](\A p \in Pids : pc[p] = "none")

\* cmd_exec returns only in the shell: "What would happen if we were to return
\* from the current function?" in the child (cmdrun.c, hint a).  One process
\* reads the terminal's lines and runs them.
OneShell ==
    \A p, q \in Pids :
        /\ {pc[p], pc[q]} \subseteq {"main", "exec", "forked", "switch", "exit", "done"}
        /\ ~ inner[p] /\ ~ inner[q]
        => p = q
=============================================================================
