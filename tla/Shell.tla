------------------------------- MODULE Shell -------------------------------
(***************************************************************************)
(* The shell of lab2: main.c reads lines, has cmdparse.c parse them, and   *)
(* prints the list (option -p) or has cmdrun.c run it.                     *)
(***************************************************************************)
EXTENDS CmdRun, CmdParse, CmdGrammar

CONSTANTS
    Typed,   \* the lines of text that may be typed to be run
    Shown    \* the lines of text that may be typed to be printed

VARIABLES
    parseonly,  \* option -p
    shown       \* history: the last line of a shell with -p and what came of it

allvars == << vars, parseonly, shown >>

ShellInit ==
    /\ Init
    /\ parseonly \in BOOLEAN
    /\ shown = NULL

\* With -p a line leaves nothing for the next: one is enough.
LinesLeft == typed < IF parseonly THEN 1 ELSE MaxLines

\* The allocations left when the list has been freed, if there is one.
HeapAfter(r) == r.ps.heap - IF r.list = NULL THEN 0 ELSE cmd_free(r.list)

\* An assertion of the parser or of cmd_print.
Asserts(r) == r.ps = ABORTED \/ (r.list # NULL /\ ~ Printable(r.list))

\* An assertion ends the process; a syntax error, or -p, leads to the next
\* round of the loop.
Parsed(p, text, r) ==
    /\ \/ Asserts(r) /\ End(p, Signalled)
       \/ /\ ~ Asserts(r) /\ (parseonly \/ r.list = NULL)
          /\ SkipLine
       \/ /\ ~ Asserts(r) /\ ~ parseonly /\ r.list # NULL
          /\ RunLine(p, r.list)
    /\ shown' = IF ~ parseonly THEN shown
                ELSE [text    |-> text,
                      outcome |-> IF Asserts(r) THEN "abort" ELSE r.list,
                      lost    |-> IF Asserts(r) THEN 0 ELSE HeapAfter(r)]

\* A round of the loop.
ReadLine(p) ==
    /\ pc[p] = "main"
    /\ LinesLeft
    /\ \E text \in IF parseonly THEN Shown ELSE Typed :
          Parsed(p, text, cmd_line_parse(text, parse_init, FALSE))
    /\ UNCHANGED parseonly

Runs(p) == (EndOfInput(p) \/ Step(p)) /\ UNCHANGED << parseonly, shown >>

Next == \E p \in Pids : ReadLine(p) \/ Runs(p)

Spec == ShellInit /\ [][Next]_allvars

\* Every process that can run does; a program ends, cat once its input has,
\* and the user's input ends too.
FairSpec == Spec /\ \A p \in Pids : WF_allvars(Runs(p))

-----------------------------------------------------------------------------
(***************************************************************************)
(* Properties of the parser, on the lines of a shell with -p               *)
(***************************************************************************)
\* The parser refuses the first token of the line: parse_ungettoken has nothing
\* to go back to and its assertion fails (cmdparse.c:167), where main.c:65 would
\* report a syntax error.
FirstTokenRefused(text) ==
    LET ts == Tokens(text) IN ts # << >> /\ ts[1].bad

\* The list that parse_gettoken, cmd_parse and cmd_line_parse build between
\* them, token by token and one token back, is the one the grammar gives the
\* line as a whole, and every other line is a syntax error.  This leaves out
\* the lines whose first token is refused, the only ones that end the shell.
ParseMatchesGrammar ==
    shown # NULL /\ ~ FirstTokenRefused(shown.text) => shown.outcome = Meaning(shown.text)

\* But for the text and what becomes of it the shell is that of CmdRun: what main
\* hands cmd_line_exec is always one of the lists that the lines typed stand for,
\* so that what is proved of RunSpec holds of the shell as a whole.
ImplementsRun == RunSpec

\* Whichever way a line fails, cmd_free and the error paths give back what was
\* allocated, once, but for exactly the file names that stand behind a missing
\* one, where the loop at cmdparse.c:221 does not get (the comment at
\* cmdparse.c:197 says that all memory is freed).
OnlyOutputNamesLost ==
    shown # NULL /\ shown.outcome # "abort" => shown.lost = NamesLost(shown.text)
=============================================================================
