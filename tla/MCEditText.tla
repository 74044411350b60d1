------------------------------ MODULE MCEditText ------------------------------
(***************************************************************************)
(* Letters, a slash and the newline; // starts a comment to the end of the *)
(* line, a pair of letters is a keyword, slashes and letters delimit text. *)
(***************************************************************************)
EXTENDS EditText, TLC

Letter == 97
Slash == 47

MCChars == {Letter, Slash, Newline}
MCTexts == {<<>>, <<Letter, Newline, Letter>>, <<Slash, Slash, Newline, Letter>>,
            <<Newline, Newline, Letter>>}

Word == [word |-> <<Letter, Letter>>, notLeft |-> {Letter}, notRight |-> {Letter}]

MCContexts ==
  0 :> [left |-> <<>>, right |-> <<>>, line |-> FALSE, between |-> FALSE, words |-> <<Word>>]
  @@ 1 :> [left |-> <<Slash, Slash>>, right |-> <<Newline>>, line |-> FALSE,
           between |-> FALSE, words |-> <<>>]
  @@ 2 :> [left |-> <<Slash, Letter>>, right |-> <<Letter, Slash>>, line |-> FALSE,
           between |-> TRUE, words |-> <<Word>>]

Session(syntax, marks, find, chars, n) ==
  [syntax |-> syntax, marks |-> marks, find |-> find, chars |-> chars, steps |-> n]

MCSettings ==
  {Session(TRUE, FALSE, FALSE, MCChars, 4), Session(FALSE, TRUE, FALSE, {Newline}, 5),
   Session(FALSE, FALSE, TRUE, {Letter, Newline}, 4)}
===============================================================================
