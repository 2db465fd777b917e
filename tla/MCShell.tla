------------------------------ MODULE MCShell ------------------------------
(***************************************************************************)
(* Lines of text for TLC.                                                  *)
(***************************************************************************)
EXTENDS Shell

\* The characters of a token; a word is one character.
Chars(t) ==
    CASE t = "&&" -> << "&", "&" >>
      [] t = "||" -> << "|", "|" >>
      [] t = "2>" -> << "2", ">" >>
      [] OTHER    -> << t >>

\* Tokens with blanks between them.
Text(ts) ==
    FlattenSeq([k \in 1 .. 2 * Len(ts) |->
                   IF k % 2 = 1 THEN Chars(ts[(k + 1) \div 2]) ELSE << BLANK >>])

\* Every operator, builtin, redirection and nesting of cmdrun.c occurs in one
\* of these lines; the last two are not parsed.
Commands ==
    {<< "run", "|", "cat", "|", "cat" >>,
     << "run", ">", "f", "2>", "f", "|", "cat", "<", "g" >>,
     << "(", "run", "|", "cat", ")", "&", "run" >>,
     << "run", "&&", "run", "||", "run" >>,
     << "(", "run", "&&", "run", ")", "||", "run", ";" >>,
     << "cd", "a", "&&", "our_pwd" >>,
     << "cd", "nowhere", "||", "cd", "a", "b" >>,
     << "our_pwd", "x", ";", "exit", "x", "y" >>,
     << "exit", "|", "cat" >>,
     << "exit", "3" >>,
     << "exit", "z" >>,
     << "missing", ";", "run" >>,
     << "missing", "|", "cat" >>,
     << "run", "&&" >>,
     << DOUBLE, "run" >>}

AllTyped == {Text(l) : l \in Commands}

\* The lists they stand for, and those of their subshells.
Do(words, op) ==
    [cmd_alloc EXCEPT !.argv = [k \in 1 .. Len(words) |-> << words[k] >>], !.controlop = op]

Group(list, op) == [cmd_alloc EXCEPT !.subshell = list, !.controlop = op]

Piped2 == << Do(<< "run" >>, "|"), Do(<< "cat" >>, "END") >>
Both == << Do(<< "run" >>, "&&"), Do(<< "run" >>, "END") >>

AllLists ==
    {<< Do(<< "run" >>, "|"), Do(<< "cat" >>, "|"), Do(<< "cat" >>, "END") >>,
     << [Do(<< "run" >>, "|") EXCEPT !.redirect_filename[1] = << "f" >>,
                                     !.redirect_filename[2] = << "f" >>],
        [Do(<< "cat" >>, "END") EXCEPT !.redirect_filename[0] = << "g" >>] >>,
     Piped2, << Group(Piped2, "&"), Do(<< "run" >>, "END") >>,
     << Do(<< "run" >>, "&&"), Do(<< "run" >>, "||"), Do(<< "run" >>, "END") >>,
     Both, << Group(Both, "||"), Do(<< "run" >>, ";") >>,
     << Do(<< "cd", "a" >>, "&&"), Do(<< "our_pwd" >>, "END") >>,
     << Do(<< "cd", "nowhere" >>, "||"), Do(<< "cd", "a", "b" >>, "END") >>,
     << Do(<< "our_pwd", "x" >>, ";"), Do(<< "exit", "x", "y" >>, "END") >>,
     << Do(<< "exit" >>, "|"), Do(<< "cat" >>, "END") >>,
     << Do(<< "exit", "3" >>, "END") >>,
     << Do(<< "exit", "z" >>, "END") >>,
     << Do(<< "missing" >>, ";"), Do(<< "run" >>, "END") >>,
     << Do(<< "missing" >>, "|"), Do(<< "cat" >>, "END") >>}

UpTo(S, n) == UNION {[1 .. m -> S] : m \in 0 .. n}

\* A command or a subshell with up to three redirections, in every order, and
\* what may go wrong behind them.
Redirecting ==
    {c \o FlattenSeq(files) \o e :
        c \in {<< "run" >>, << "(", "run", ")" >>},
        files \in UpTo({<< f, "x" >> : f \in Redirections}, 3),
        e \in {<< >>, << "2>" >>, << "(" >>, << "&&" >>}}

\* Lines for the grammar, of tokens, and for the tokens, of characters.
AllShown ==
    {Text(l) : l \in UpTo({"run", "&&", ";", "(", ")", ">", "<"}, 5) \cup Redirecting}
        \cup UpTo({"a", "2", ">", "(", ";", "back quote", BLANK, DOUBLE}, 4)

Directories == {<< "home" >>, << "a" >>}
Home == << "home" >>
Numbers == [w \in {<< "0" >>, << "3" >>, << "z" >>} |-> IF w = << "3" >> THEN 3 ELSE 0]
=============================================================================
