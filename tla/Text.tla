--------------------------------- MODULE Text ---------------------------------
(***************************************************************************)
(* What the buffer of the editor promises: a text and a cursor in it.      *)
(* The five ways of src/editor/edit.c to change either are edit_insert,    *)
(* edit_insert_ahead, edit_delete, edit_backspace and edit_cursor_move.    *)
(***************************************************************************)
EXTENDS Integers, Sequences

CONSTANTS
  Chars,       \* the bytes that may be inserted
  Texts,       \* the texts that may be loaded
  SIZE_LIMIT   \* the longest text

VARIABLES
  text,     \* the bytes
  cursor    \* how many of them lie before the cursor

vars == <<text, cursor>>

Before == SubSeq(text, 1, cursor)
After == SubSeq(text, cursor + 1, Len(text))

Init == text \in Texts /\ cursor = 0

Insert(c) ==
  /\ Len(text) < SIZE_LIMIT
  /\ text' = Before \o <<c>> \o After
  /\ cursor' = cursor + 1

InsertAhead(c) ==
  /\ Len(text) < SIZE_LIMIT
  /\ text' = Before \o <<c>> \o After
  /\ UNCHANGED cursor

Delete ==
  /\ cursor < Len(text)
  /\ text' = Before \o SubSeq(text, cursor + 2, Len(text))
  /\ UNCHANGED cursor

Backspace ==
  /\ cursor > 0
  /\ text' = SubSeq(text, 1, cursor - 1) \o After
  /\ cursor' = cursor - 1

Move ==
  /\ cursor' \in 0 .. Len(text)
  /\ UNCHANGED text

Next ==
  \/ \E c \in Chars : Insert(c) \/ InsertAhead(c)
  \/ Delete \/ Backspace \/ Move

Spec == Init /\ [][Next]_vars
===============================================================================
