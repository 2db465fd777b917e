----------------------------- MODULE CmdGrammar -----------------------------
(***************************************************************************)
(* What the parser of lab2 promises, stated without a position that moves  *)
(* along the line: where tokens begin, by counting quotes, and how a       *)
(* sequence of tokens divides into commands, by counting parentheses.      *)
(*                                                                         *)
(*   list    ::= command { (&& | || | "|" | ; | &) command } [ ; | & ]     *)
(*   command ::= word { word | redir } | "(" list ")" { redir }            *)
(*   redir   ::= ( < | > | 2> ) word                                       *)
(***************************************************************************)
EXTENDS Command, SequencesExt

\* The positions of S, all up to n, in order.
InOrder(S, n) == SelectSeq([i \in 1 .. n |-> i], LAMBDA i : i \in S)

\* The quotes before position i are balanced.
Plain(text, i) ==
    \A q \in Quotes : Cardinality({k \in 1 .. i - 1 : text[k] = q}) % 2 = 0

BlankAt(text, i) == text[i] = BLANK /\ Plain(text, i)
BreakAt(text, i) == text[i] \in Breaks /\ Plain(text, i)

\* A word that consists of double quotes stands right before i; a parenthesis
\* or semicolon behind it becomes part of the word.
AfterEmpty(text, i) ==
    \E k \in 1 .. i - 1 :
        /\ k = 1 \/ BlankAt(text, k - 1) \/ BreakAt(text, k - 1)
        /\ \A j \in k .. i - 1 : text[j] = DOUBLE

Starts(text) ==
    {i \in 1 .. Len(text) :
        /\ Plain(text, i) /\ text[i] # BLANK
        /\ \/ i = 1
           \/ BlankAt(text, i - 1) \/ BreakAt(text, i - 1)
           \/ BreakAt(text, i) /\ ~ AfterEmpty(text, i)}

\* The token that begins at i, starts being where tokens begin.  It is bad if it
\* ends inside quotes or is too long, a parenthesis or semicolon right behind it
\* included.
TokenAt(text, starts, i) ==
    LET last    == CHOOSE j \in i .. Len(text) :
                      /\ \A k \in i + 1 .. j : k \notin starts /\ ~ BlankAt(text, k)
                      /\ j < Len(text) => j + 1 \in starts \/ BlankAt(text, j + 1)
        chars   == SubSeq(text, i, last)
        content == SelectSeq(chars, LAMBDA c : c # DOUBLE)
        behind  == IF last < Len(text) /\ BreakAt(text, last + 1) /\ ~ BreakAt(text, last)
                   THEN 1 ELSE 0
    IN  [buffer |-> content,
         type   |-> IF Quotes \cap Range(chars) # {} THEN "NORMAL" ELSE TypeOf(content),
         bad    |-> ~ Plain(text, last + 1) \/ Len(content) + behind > TOKENSIZE - 1]

Tokens(text) ==
    LET starts == Starts(text)
        order  == InOrder(starts, Len(text))
    IN  [k \in 1 .. Len(order) |-> TokenAt(text, starts, order[k])]

-----------------------------------------------------------------------------
\* The parentheses open behind the i-th token.
Depth(ts, i) ==
    Cardinality({k \in 1 .. i : ts[k].type = "("}) - Cardinality({k \in 1 .. i : ts[k].type = ")"})

\* The tokens that are words of their own, not the names of redirections.
Words(ts) ==
    {i \in 1 .. Len(ts) : ts[i].type = "NORMAL" /\ (i > 1 => ts[i - 1].type \notin Redirections)}

\* The last of several redirections counts.
NameFor(ts, fd) ==
    LET S == {i \in 1 .. Len(ts) : ts[i].type \in Redirections /\ FdOf[ts[i].type] = fd}
    IN  IF S = {} THEN NULL ELSE ts[Max(S) + 1].buffer

WordsAndRedirections(ts) ==
    \A i \in 1 .. Len(ts) :
        /\ ts[i].type \in Redirections \cup {"NORMAL"}
        /\ ts[i].type \in Redirections => i < Len(ts) /\ ts[i + 1].type = "NORMAL"

\* The commands of a list, NULL if the tokens are none.
RECURSIVE ListOf(_)

CommandOf(ts, op) ==
    LET paren == ts # << >> /\ ts[1].type = "("
        close == Max({1} \cup {i \in 1 .. Len(ts) : ts[i].type = ")"})
        rest  == IF paren THEN SubSeq(ts, close + 1, Len(ts)) ELSE ts
        sub   == IF paren THEN ListOf(SubSeq(ts, 2, close - 1)) ELSE NULL
        words == InOrder(Words(rest), Len(rest))
    IN  IF /\ WordsAndRedirections(rest)
           /\ IF paren THEN close > 1 /\ sub # NULL /\ words = << >>
              ELSE 1 \in Words(rest) /\ Len(words) <= MAXTOKENS
        THEN [argv |-> [k \in 1 .. Len(words) |-> rest[words[k]].buffer],
              redirect_filename |-> [f \in 0 .. 2 |-> NameFor(rest, f)],
              subshell |-> sub, controlop |-> op]
        ELSE NULL

ListOf(ts) ==
    LET cuts == {i \in 1 .. Len(ts) : ts[i].type \in Joins \cup Enders /\ Depth(ts, i) = 0}
        ends == InOrder(IF Len(ts) \in cuts THEN cuts ELSE cuts \cup {Len(ts) + 1}, Len(ts) + 1)
        list == [k \in 1 .. Len(ends) |->
                    CommandOf(SubSeq(ts, IF k = 1 THEN 1 ELSE ends[k - 1] + 1, ends[k] - 1),
                              IF ends[k] > Len(ts) THEN "END" ELSE ts[ends[k]].type)]
    IN  IF NULL \in Range(list) \/ Last(list).controlop \in Joins THEN NULL ELSE list

\* What becomes of a line: the commands it stands for, NULL for a syntax error.
Meaning(text) ==
    LET ts == Tokens(text)
    IN  IF ts = << >> \/ \E k \in 1 .. Len(ts) : ts[k].bad THEN NULL ELSE ListOf(ts)

-----------------------------------------------------------------------------
(***************************************************************************)
(* What is allocated of a line that fails: the commands up to the first    *)
(* token that no list can go on with.                                      *)
(***************************************************************************)
Token1(type) == [buffer |-> << type >>, type |-> type, bad |-> FALSE]

\* The lists that begin with ts: nothing is missing, or a word, and the
\* parentheses are closed.
Completions(ts) ==
    LET closed == [k \in 1 .. Depth(ts, Len(ts)) |-> Token1(")")]
    IN  {ListOf(ts \o word \o closed) : word \in {<< >>, << Token1("NORMAL") >>}} \ {NULL}

\* The tokens taken, without a redirection that still waits for its name.
Taken(ts) ==
    LET n == Max({0} \cup {k \in 1 .. Len(ts) :
                             /\ \A j \in 1 .. k : ~ ts[j].bad
                             /\ Completions(SubSeq(ts, 1, k)) # {}})
    IN  SubSeq(ts, 1, IF n > 0 /\ ts[n].type \in Redirections THEN n - 1 ELSE n)

\* The file names of a list that stand behind a missing one: an output file
\* without an input file, an error file without both.
RECURSIVE NamesHidden(_)
NamesHidden(list) ==
    IF list = << >> THEN 0
    ELSE LET c == Head(list)
         IN  Cardinality({f \in Redirected(c) : \E g \in 0 .. f : g \notin Redirected(c)})
               + (IF IsSubshell(c) THEN NamesHidden(c.subshell) ELSE 0)
               + NamesHidden(Tail(list))

NamesLost(text) ==
    LET ts == Taken(Tokens(text))
    IN  IF ts = << >> THEN 0 ELSE NamesHidden(CHOOSE list \in Completions(ts) : TRUE)
=============================================================================
