------------------------------- MODULE UndoRing -------------------------------
(***************************************************************************)
(* The compressed ring buffer in which the editor keeps its undo and its   *)
(* redo actions (src/editor/edit.c, "Recording stack for undo").           *)
(*                                                                         *)
(* A ring is a record: ptr is where the next action goes, bottom is the    *)
(* oldest one kept, and the ring is empty when they meet.  A cell holds an *)
(* action (a number >= 0) or, if negative, says that the action below it   *)
(* was pushed -cell times.  KEY_PRESS and what is above it mark where the  *)
(* actions of a key press begin.  The size is a power of two in the code;  *)
(* "& size_mask" is the successor and the predecessor on a circle here.    *)
(***************************************************************************)
EXTENDS Integers

CONSTANTS
  StartSize,  \* START_STACK_SIZE
  Slack,      \* a ring grows when fewer cells than this are left (10)
  LastCell    \* bound: the highest cell any ring can have

ASSUME RingAssumption ==
  /\ StartSize \in Nat /\ Slack \in Nat /\ LastCell \in Nat
  /\ StartSize > 3 /\ StartSize - 1 <= LastCell

STACK_BOTTOM == 605
KEY_PRESS == 1500000000
FullCount == -1000000000   \* a counter that has reached this is not decremented

Cells == 0 .. LastCell

Ring ==
  [cells : [Cells -> Int], ptr : Nat, bottom : Nat, size : Nat]

EmptyRing ==
  [cells |-> [i \in Cells |-> 0], ptr |-> 0, bottom |-> 0, size |-> StartSize]

Emptied(r) == [r EXCEPT !.ptr = 0, !.bottom = 0]

IsEmpty(r) == r.ptr = r.bottom

Succ(r, i) == IF i + 1 = r.size THEN 0 ELSE i + 1
Pred(r, i) == IF i = 0 THEN r.size - 1 ELSE i - 1

\* the cells below ptr: the first and the second
Top(r) == Pred(r, r.ptr)
Under(r) == Pred(r, Top(r))

-----------------------------------------------------------------------------
(* Pushing: edit_push_undo_action and edit_push_redo_action                 *)

\* enlarge the stack; max is option_max_undo, raised to 256 if it is lower
Grow(r, max) ==
  IF r.ptr > r.size - Slack /\ r.size < max /\ 2 * r.size - 1 <= LastCell
  THEN [r EXCEPT !.size = 2 * r.size]
  ELSE r

\* compression looks at two cells, both above the one at the bottom
MayCompress(r) == r.bottom \notin {r.ptr, Top(r), Under(r)}

\* the action is the one on top already, counted or not
IsRepeat(r, c) ==
  /\ MayCompress(r)
  /\ IF r.cells[Top(r)] < 0
     THEN r.cells[Under(r)] = c /\ r.cells[Top(r)] > FullCount
     ELSE r.cells[Top(r)] = c

Count(r) == [r EXCEPT !.cells[Top(r)] = @ - 1]

Store(r, x) == [r EXCEPT !.cells[r.ptr] = x, !.ptr = Succ(r, r.ptr)]

\* ptr is about to catch bottom
Crowded(r) ==
  LET two == Succ(r, Succ(r, r.ptr)) IN r.bottom \in {two, Succ(r, two)}

\* how far i lies above bottom, once round the ring for bottom itself
Above(r, i) == IF i > r.bottom THEN i - r.bottom ELSE i - r.bottom + r.size

\* the next key press above bottom, or ptr if there is none
NextPress(r) ==
  LET stops == {i \in 0 .. r.size - 1 : r.cells[i] >= KEY_PRESS \/ i = r.ptr}
  IN CHOOSE i \in stops : \A j \in stops : Above(r, i) <= Above(r, j)

\* erase the oldest key press to make space
Trim(r) == IF Crowded(r) THEN [r EXCEPT !.bottom = NextPress(r)] ELSE r

\* Mutant: nothing notices that one key press filled the ring
ReinitNever(r) == r

\* a key press that wrapped all the way round leaves no beginning to undo to
Reinit(r) ==
  IF ~IsEmpty(r) /\ r.cells[r.bottom] < KEY_PRESS THEN Emptied(r) ELSE r

Push(ring, c, max) ==
  LET r == Grow(ring, max)
  IN IF IsRepeat(r, c)
     THEN IF c >= KEY_PRESS THEN r              \* no need to push do-nothings
          ELSE IF r.cells[Top(r)] < 0 THEN Count(r)
          ELSE Reinit(Trim(Store(r, -2)))
     ELSE Reinit(Trim(Store(r, c)))

-----------------------------------------------------------------------------
(* Popping: edit_pop_undo_action, edit_pop_redo_action and                  *)
(* get_prev_undo_action                                                     *)

Readable(r) == ~IsEmpty(r) /\ ~(r.cells[Top(r)] < 0 /\ Top(r) = r.bottom)

\* the action on top, left where it is
Peek(r) ==
  IF ~Readable(r) THEN STACK_BOTTOM
  ELSE IF r.cells[Top(r)] >= 0 THEN r.cells[Top(r)] ELSE r.cells[Under(r)]

\* Mutant: a counter is dropped at the first pop
PopCounter(r) ==
  IF ~Readable(r) THEN r ELSE [r EXCEPT !.ptr = Top(r)]

\* the ring without one copy of the action on top
Pop(r) ==
  IF ~Readable(r) THEN r
  ELSE IF r.cells[Top(r)] >= 0 \/ r.cells[Top(r)] = -2
  THEN [r EXCEPT !.ptr = Top(r)]
  ELSE [r EXCEPT !.cells[Top(r)] = @ + 1]

-----------------------------------------------------------------------------

\* What every user of the ring relies on: the oldest action kept is the start
\* of a key press, so that undoing ends where a key was pressed, and both ends
\* lie inside the ring.
WellFormed(r) ==
  /\ r \in Ring /\ r.size > 3 /\ r.size - 1 <= LastCell
  /\ r.ptr < r.size /\ r.bottom < r.size
  /\ ~IsEmpty(r) => r.cells[r.bottom] >= KEY_PRESS
=============================================================================
