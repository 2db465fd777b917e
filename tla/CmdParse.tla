------------------------------ MODULE CmdParse ------------------------------
(***************************************************************************)
(* The parser of lab2/cmdparse.c: what cmd_line_parse makes of a line of   *)
(* text.  The functions pass a parsestate_t along, here with the number of *)
(* allocations that are live; allocation does not fail.                    *)
(***************************************************************************)
EXTENDS Command, FiniteSets

parse_init == [position |-> 1, last_position |-> NULL, heap |-> 0]

\* The state of a process that an assertion stopped.
ABORTED == [parse_init EXCEPT !.position = NULL]

Allocate(ps, n) == IF ps = ABORTED THEN ps ELSE [ps EXCEPT !.heap = @ + n]

-----------------------------------------------------------------------------
(***************************************************************************)
(* Faulty variants of single definitions: the parser uses none of them.    *)
(***************************************************************************)
\* Backing up goes to the position, not to the one before it.
parse_ungettokenStays(ps) ==
    IF ps.last_position = NULL THEN ABORTED ELSE [ps EXCEPT !.last_position = NULL]

\* A second redirection of a descriptor forgets the first name.
NamesReplacedForgotten(c, fd) == 0

-----------------------------------------------------------------------------
(***************************************************************************)
(* Tokens                                                                  *)
(***************************************************************************)
RECURSIVE SkipBlanks(_, _)
SkipBlanks(text, str) ==
    IF str <= Len(text) /\ text[str] = BLANK THEN SkipBlanks(text, str + 1) ELSE str

Toggle(S, x) == IF x \in S THEN S \ {x} ELSE S \cup {x}

\* The loop that fills the buffer.  open is quote_state, the quotes that are
\* open; a double quote is dropped, a back quote kept; ( ) ; outside quotes end
\* a token that has begun and are one otherwise.
RECURSIVE Scan(_, _, _, _, _)
Scan(text, str, buffer, open, any_quotes) ==
    LET c   == text[str]
        now == IF c \in Quotes THEN Toggle(open, c) ELSE open
        any == any_quotes \/ c \in Quotes
        Stop(ok, buf, next) ==
            [ok |-> ok, buffer |-> buf, str |-> next,
             type |-> IF any_quotes THEN "NORMAL" ELSE TypeOf(buf)]
    IN  IF str > Len(text) THEN Stop(open = {}, buffer, str)
        ELSE IF open = {} /\ c = BLANK THEN Stop(TRUE, buffer, str)
        ELSE IF c = DOUBLE THEN Scan(text, str + 1, buffer, now, any)
        ELSE IF Len(buffer) >= TOKENSIZE - 1 THEN Stop(FALSE, buffer, str)
        ELSE IF c \in Breaks /\ open = {}
             THEN IF buffer # << >> THEN Stop(TRUE, buffer, str) ELSE Stop(TRUE, << c >>, str + 1)
        ELSE Scan(text, str + 1, Append(buffer, c), now, any)

\* Scan made t of the text.  An error moves neither position
\* nor last_position.
Token(ps, t) ==
    IF t.ok
    THEN [type |-> t.type, buffer |-> t.buffer,
          ps   |-> [ps EXCEPT !.position = t.str, !.last_position = ps.position]]
    ELSE [type |-> "ERROR", buffer |-> << >>, ps |-> ps]

parse_gettoken(text, ps) ==
    LET str == SkipBlanks(text, ps.position)
    IN  IF str > Len(text)
        THEN [type |-> "END", buffer |-> << >>, ps |-> [ps EXCEPT !.last_position = ps.position]]
        ELSE Token(ps, Scan(text, str, << >>, {}, FALSE))

\* assert: one cannot back up twice.
parse_ungettoken(ps) ==
    IF ps.last_position = NULL THEN ABORTED
    ELSE [ps EXCEPT !.position = ps.last_position, !.last_position = NULL]

-----------------------------------------------------------------------------
(***************************************************************************)
(* Commands                                                                *)
(***************************************************************************)
\* The file names the loop of cmd_free gets to: it stops at the first NULL.
NamesFreed(c) == {f \in 0 .. 2 : 0 .. f \subseteq Redirected(c)}

\* How many allocations cmd_free gives back, for a list.
RECURSIVE cmd_free(_)
cmd_free(list) ==
    IF list = << >> THEN 0
    ELSE LET c == Head(list)
         IN  1 + Len(c.argv) + Cardinality(NamesFreed(c))
               + (IF IsSubshell(c) THEN cmd_free(c.subshell) ELSE 0)
               + cmd_free(Tail(list))

\* The names a further redirection of fd gives back.
NamesReplaced(c, fd) == IF fd \in Redirected(c) THEN 1 ELSE 0

Empty(cmd) == cmd.argv = << >> /\ ~ IsSubshell(cmd)

CommandError(cmd, ps) == [cmd |-> NULL, ps |-> Allocate(ps, - cmd_free(<< cmd >>))]
ListError(list, ps) == [list |-> NULL, ps |-> Allocate(ps, - cmd_free(list))]

\* The loops of cmd_parse, cmd being the command so far, and of cmd_line_parse,
\* list being the commands so far.
RECURSIVE ParseCommand(_, _, _), ParseList(_, _, _, _)

cmd_parse(text, ps) == ParseCommand(text, cmd_alloc, Allocate(ps, 1))

cmd_line_parse(text, ps, in_parens) == ParseList(text, << >>, ps, in_parens)

\* The token behind a redirection of fd.
TakeFile(text, cmd, fd, t) ==
    IF t.type # "NORMAL" THEN CommandError(cmd, t.ps)
    ELSE ParseCommand(text, [cmd EXCEPT !.redirect_filename[fd] = t.buffer],
                      Allocate(t.ps, 1 - NamesReplaced(cmd, fd)))

TakeSubshell(text, cmd, sub) ==
    IF sub.list = NULL THEN CommandError(cmd, sub.ps)
    ELSE ParseCommand(text, [cmd EXCEPT !.subshell = sub.list], sub.ps)

\* The token that ends the command has been given back.
CommandDone(cmd, ps) ==
    IF ps = ABORTED \/ Empty(cmd) THEN CommandError(cmd, ps) ELSE [cmd |-> cmd, ps |-> ps]

TakeToken(text, cmd, t) ==
    CASE t.type = "NORMAL" ->
            IF Len(cmd.argv) >= MAXTOKENS \/ IsSubshell(cmd) THEN CommandError(cmd, t.ps)
            ELSE ParseCommand(text, [cmd EXCEPT !.argv = Append(@, t.buffer)], Allocate(t.ps, 1))
      [] t.type \in Redirections ->
            IF Empty(cmd) THEN CommandError(cmd, t.ps)
            ELSE TakeFile(text, cmd, FdOf[t.type], parse_gettoken(text, t.ps))
      [] t.type = "(" ->
            IF ~ Empty(cmd) THEN CommandError(cmd, t.ps)
            ELSE TakeSubshell(text, cmd, cmd_line_parse(text, t.ps, TRUE))
      [] OTHER -> CommandDone(cmd, parse_ungettoken(t.ps))

ParseCommand(text, cmd, ps) == TakeToken(text, cmd, parse_gettoken(text, ps))

\* The label ender: the line ends, or the parentheses do.
ListDone(list, t, in_parens) ==
    IF (t.type = "END") = in_parens \/ list[Len(list)].controlop \in Joins
    THEN ListError(list, t.ps)
    ELSE [list |-> list, ps |-> t.ps]

\* The token behind ; or &, which may end the list.
AfterEnder(text, list, t, in_parens) ==
    IF t.type \in {"END", ")"} THEN ListDone(list, t, in_parens)
    ELSE ParseList(text, list, parse_ungettoken(t.ps), in_parens)

\* Faulty variant: the operator is read but not recorded in the command.
TakeControlUnlinked(text, list, t, in_parens) ==
    CASE t.type \in Joins -> ParseList(text, list, t.ps, in_parens)
      [] t.type \in Enders -> AfterEnder(text, list, parse_gettoken(text, t.ps), in_parens)
      [] t.type \in {"END", ")"} -> ListDone(list, t, in_parens)
      [] OTHER -> ListError(list, t.ps)

\* The token behind the last command of list.
TakeControl(text, list, t, in_parens) ==
    LET linked == [list EXCEPT ![Len(list)].controlop = t.type] IN
    CASE t.type \in Joins -> ParseList(text, linked, t.ps, in_parens)
      [] t.type \in Enders -> AfterEnder(text, linked, parse_gettoken(text, t.ps), in_parens)
      [] t.type \in {"END", ")"} -> ListDone(list, t, in_parens)
      [] OTHER -> ListError(list, t.ps)

TakeCommand(text, list, c, in_parens) ==
    IF c.cmd = NULL THEN ListError(list, c.ps)
    ELSE TakeControl(text, Append(list, c.cmd), parse_gettoken(text, c.ps), in_parens)

ParseList(text, list, ps, in_parens) ==
    TakeCommand(text, list, cmd_parse(text, ps), in_parens)

\* cmd_print's assertions, on the list it is given and the lists within.
RECURSIVE Printable(_)
Printable(list) ==
    /\ list[Len(list)].controlop \in Enders \cup {"END"}
    /\ \A i \in 1 .. Len(list) :
          /\ Len(list[i].argv) <= MAXTOKENS
          /\ IsSubshell(list[i]) => Printable(list[i].subshell)
=============================================================================
