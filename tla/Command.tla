------------------------------ MODULE Command ------------------------------
(***************************************************************************)
(* lab2/cmdparse.h: the tokens of a line and the command_t the parser      *)
(* builds of them.  A line is a sequence of characters; a run of letters   *)
(* that means nothing to the parser may stand as one of them ("run").      *)
(***************************************************************************)
EXTENDS Integers, Sequences

CONSTANTS
    TOKENSIZE,  \* of a token's buffer, with the final null character
    MAXTOKENS,  \* words of a command
    NULL

ASSUME SizesAssumption == TOKENSIZE \in Nat \ {0} /\ MAXTOKENS \in Nat

\* Characters by name: TLA+ strings do not take all of them.
BLANK == "blank"
DOUBLE == "double quote"
Quotes == {DOUBLE, "back quote"}

\* Characters that are a token wherever they stand outside quotes.
Breaks == {"(", ")", ";"}

\* The type of a token without quotes, by its characters.
TypeOf(buffer) ==
    CASE buffer = << "<" >>      -> "<"
      [] buffer = << ">" >>      -> ">"
      [] buffer = << "2", ">" >> -> "2>"
      [] buffer = << "&" >>      -> "&"
      [] buffer = << ";" >>      -> ";"
      [] buffer = << "|" >>      -> "|"
      [] buffer = << "&", "&" >> -> "&&"
      [] buffer = << "|", "|" >> -> "||"
      [] buffer = << "(" >>      -> "("
      [] buffer = << ")" >>      -> ")"
      [] OTHER                   -> "NORMAL"

\* The descriptor a redirection is about.
FdOf == [t \in {"<", ">", "2>"} |-> CASE t = "<" -> 0 [] t = ">" -> 1 [] t = "2>" -> 2]
Redirections == DOMAIN FdOf

\* Operators that need a command behind them, and those that may end a list.
Joins == {"&&", "||", "|"}
Enders == {";", "&"}

\* A blank command.  The commands linked by next are a sequence.
cmd_alloc ==
    [argv |-> << >>, redirect_filename |-> [f \in 0 .. 2 |-> NULL],
     subshell |-> NULL, controlop |-> "END"]

IsSubshell(c) == c.subshell # NULL
Redirected(c) == {f \in 0 .. 2 : c.redirect_filename[f] # NULL}
Word(c, i) == IF i < Len(c.argv) THEN c.argv[i + 1] ELSE NULL
Is(c, word) == ~ IsSubshell(c) /\ c.argv[1] = << word >>
=============================================================================
