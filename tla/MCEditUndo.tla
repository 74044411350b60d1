------------------------------ MODULE MCEditUndo ------------------------------
(***************************************************************************)
(* Short sessions on a letter and a newline, with rings of 8 and 16 cells. *)
(***************************************************************************)
EXTENDS EditUndo

\* a letter and a newline: one of each class edit_insert tells apart
MCChars == {97, Newline}
MCTexts == {<<>>, <<97, 97, Newline>>}

\* every key with a ring that wraps soon and with one that grows first; longer
\* sessions of typing and moving, and of selecting and deleting, in which both
\* rings wrap; undoing by groups
MCSettings ==
  {[group |-> FALSE, overwrite |-> FALSE, max |-> 8, keys |-> Keys, presses |-> 4],
   [group |-> FALSE, overwrite |-> TRUE, max |-> 16,
    keys |-> Keys \ {"right", "mark"}, presses |-> 4],
   [group |-> FALSE, overwrite |-> FALSE, max |-> 8,
    keys |-> {"type", "left", "undo", "redo"}, presses |-> 7],
   [group |-> FALSE, overwrite |-> FALSE, max |-> 16,
    keys |-> {"shift", "kill", "undo", "redo"}, presses |-> 8],
   [group |-> TRUE, overwrite |-> FALSE, max |-> 16,
    keys |-> {"type", "backspace", "left", "undo"}, presses |-> 6]}
=============================================================================
