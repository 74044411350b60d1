------------------------------- MODULE EditUndo -------------------------------
(***************************************************************************)
(* Undo and redo in the editor (src/editor/edit.c).  Every low-level       *)
(* change of the text, and every move of the cursor, pushes its reverse on *)
(* the undo ring; undoing pops and executes, with pushes diverted to the   *)
(* redo ring; redoing pops and executes that one.                          *)
(*                                                                         *)
(* The text is what lies before and after the cursor.  A character is its  *)
(* code, for edit_insert treats those up to the space apart.  What is      *)
(* shown of the text (start_display, columns, bookmarks) is left out: a    *)
(* key press is pushed as KEY_PRESS + 0.  Persistent selections, one byte  *)
(* per character, no cursor beyond the end of a line, no word wrap.        *)
(***************************************************************************)
EXTENDS UndoRing, Sequences

CONSTANTS
  Chars,       \* the characters typed
  Texts,       \* the texts a session may start with
  Settings,    \* the settings to look at, a set of Setting records
  SIZE_LIMIT   \* the longest text

Keys ==
  {"type", "backspace", "delete", "kill", "left", "right", "shift", "mark",
   "undo", "redo"}

\* group: option_group_undo; overwrite: edit->overwrite; max: option_max_undo;
\* keys: those this user presses; presses: bound, how many of them
Setting ==
  [group : BOOLEAN, overwrite : BOOLEAN, max : Nat,
   keys : SUBSET Keys, presses : Nat]

Newline == 10

ASSUME EditAssumption ==
  /\ Chars \subseteq 0 .. 255
  /\ \A t \in Texts : t \in Seq(0 .. 255) /\ Len(t) <= SIZE_LIMIT
  /\ Settings \subseteq Setting /\ SIZE_LIMIT \in Nat

CURS_LEFT == 601
CURS_RIGHT == 602
DELCHAR == 603
BACKSPACE == 604
DELCHAR_BR == 610
BACKSPACE_BR == 611
MARK_1 == 1000
MARK_2 == 500000000
MARK_CURS == 1000000000

VARIABLES
  opt,      \* the settings of this session; never changes
  edit,     \* the WEdit, see Edit
  presses,  \* keys pressed so far
  opened,   \* the text as loaded (history)
  past,     \* what the user saw when keys were pressed, as far as it was not
            \* undone (history)
  last      \* what redoing everything leads back to (history)

vars == <<opt, edit, presses, opened, past, last>>

\* left, right: the text before and after the cursor; m1, m2, mcurs: mark1,
\* mark2 (-1 while it follows the cursor) and end_mark_curs; disable:
\* undo_stack_disable; reset: redo_stack_reset; forgot: the undo ring has
\* dropped a key press; inexact: the redo ring has, or holds an action that
\* edit_do_redo does not know (both history)
Edit ==
  [left : Seq(0 .. 255), right : Seq(0 .. 255),
   m1 : Int, m2 : Int, mcurs : Int, highlight : BOOLEAN,
   disable : BOOLEAN, reset : BOOLEAN, undo : Ring, redo : Ring,
   forgot : BOOLEAN, inexact : BOOLEAN]

Curs1(e) == Len(e.left)
Text(e) == e.left \o e.right
Seen(e) == <<e.left, e.right>>
One(b) == IF b THEN 1 ELSE 0

\* edit_get_byte at the cursor: a newline beyond the end
ByteHere(e) == IF e.right = <<>> THEN Newline ELSE Head(e.right)

-----------------------------------------------------------------------------
(* Low-level changes                                                        *)

\* a push made the ring forget its oldest key press, or everything
Forgets(r, s) == r.bottom # s.bottom

PushRedo(e, c) ==
  LET pushed == Push(Push(e.redo, KEY_PRESS, opt.max), c, opt.max)
  IN [e EXCEPT !.undo = Grow(@, opt.max), !.redo = pushed,
               !.inexact = @ \/ Forgets(e.redo, pushed)
                             \/ c \in {BACKSPACE_BR, DELCHAR_BR}]

\* Mutant: an ordinary change leaves what could be redone
PushUndoKeepingRedo(e, c) ==
  LET pushed == Push(e.undo, c, opt.max)
  IN IF e.disable THEN PushRedo(e, c)
     ELSE [e EXCEPT !.undo = pushed, !.forgot = @ \/ Forgets(e.undo, pushed)]

\* edit_push_undo_action: while undoing, the action goes to the redo ring
\* behind a key press of its own; otherwise to the undo ring, and what could be
\* redone is forgotten if an ordinary command is at work
PushUndo(e, c) ==
  LET pushed == Push(e.undo, c, opt.max)
      known == [e EXCEPT !.undo = pushed, !.forgot = @ \/ Forgets(e.undo, pushed)]
  IN IF e.disable THEN PushRedo(e, c)
     ELSE IF e.reset
     THEN [known EXCEPT !.redo = Emptied(@), !.inexact = FALSE]
     ELSE known

PushMarkers(e) ==
  PushUndo(PushUndo(PushUndo(e, MARK_1 + e.m1), MARK_2 + e.m2),
           MARK_CURS + e.mcurs)

\* edit_insert: a full text takes no more
Insert(e, c) ==
  LET p == PushUndo(e, IF c > 32 THEN BACKSPACE ELSE BACKSPACE_BR)
  IN IF Len(Text(e)) >= SIZE_LIMIT THEN e
     ELSE [p EXCEPT !.m1 = @ + One(@ > Curs1(e)), !.m2 = @ + One(@ > Curs1(e)),
                    !.left = Append(@, c)]

\* edit_insert_ahead
InsertAhead(e, c) ==
  LET p == PushUndo(e, IF c > 32 THEN DELCHAR ELSE DELCHAR_BR)
  IN IF Len(Text(e)) >= SIZE_LIMIT THEN e
     ELSE [p EXCEPT !.m1 = @ + One(@ >= Curs1(e)),
                    !.m2 = @ + One(@ >= Curs1(e)),
                    !.right = <<c>> \o @]

\* edit_delete of one byte: a selection is recorded before it shrinks
Delete(e) ==
  LET p == IF e.m2 # e.m1 THEN PushMarkers(e) ELSE e
      d == [p EXCEPT !.m1 = @ - One(@ > Curs1(e)),
                     !.mcurs = @ - One(e.m1 > Curs1(e)),
                     !.m2 = @ - One(@ > Curs1(e)),
                     !.right = Tail(@)]
  IN IF e.right = <<>> THEN e ELSE PushUndo(d, Head(e.right) + 256)

\* edit_backspace of one byte
Backspace(e) ==
  LET p == IF e.m2 # e.m1 THEN PushMarkers(e) ELSE e
      n == Curs1(e)
      d == [p EXCEPT !.m1 = @ - One(@ >= n),
                     !.mcurs = @ - One(e.m1 >= n),
                     !.m2 = @ - One(@ >= n),
                     !.left = SubSeq(@, 1, n - 1)]
  IN IF n = 0 THEN e ELSE PushUndo(d, e.left[n])

\* edit_cursor_move by one
CursorLeft(e) ==
  LET n == Curs1(e)
  IN IF n = 0 THEN e
     ELSE [PushUndo(e, CURS_RIGHT)
             EXCEPT !.left = SubSeq(@, 1, n - 1), !.right = <<e.left[n]>> \o @]

CursorRight(e) ==
  IF e.right = <<>> THEN e
  ELSE [PushUndo(e, CURS_LEFT)
          EXCEPT !.left = Append(@, Head(e.right)), !.right = Tail(@)]

-----------------------------------------------------------------------------
(* Undo and redo                                                            *)

\* one popped action executed, in edit_do_undo
Reverse(e, ac) ==
  CASE ac = CURS_RIGHT -> CursorRight(e)
    [] ac = CURS_LEFT -> CursorLeft(e)
    [] ac \in {BACKSPACE, BACKSPACE_BR} -> Backspace(e)
    [] ac \in {DELCHAR, DELCHAR_BR} -> Delete(e)
    [] ac \in 256 .. 511 -> InsertAhead(e, ac - 256)
    [] ac \in 0 .. 255 -> Insert(e, ac)
    [] ac \in (MARK_1 - 2) .. (MARK_2 - 3) -> [e EXCEPT !.m1 = ac - MARK_1]
    [] ac \in (MARK_2 - 2) .. (MARK_CURS - 3) -> [e EXCEPT !.m2 = ac - MARK_2]
    [] ac \in (MARK_CURS - 2) .. (KEY_PRESS - 1) ->
         [e EXCEPT !.mcurs = ac - MARK_CURS]
    [] OTHER -> e

\* in edit_do_redo: no case for the _BR actions, and every number from MARK_2 on
\* is taken for mark2
Repeat(e, ac) ==
  CASE ac \in {BACKSPACE_BR, DELCHAR_BR} -> e
    [] ac \in (MARK_2 - 2) .. (KEY_PRESS - 1) -> [e EXCEPT !.m2 = ac - MARK_2]
    [] OTHER -> Reverse(e, ac)

\* the loop of edit_do_undo: up to and with the key press, or to the bottom
PopUndo[e \in Edit] ==
  LET ac == Peek(e.undo)
      p == [e EXCEPT !.undo = Pop(@)]
  IN IF ac >= KEY_PRESS \/ ac = STACK_BOTTOM THEN p
     ELSE PopUndo[Reverse(p, ac)]

PopRedo[e \in Edit] ==
  LET ac == Peek(e.redo)
      p == [e EXCEPT !.redo = Pop(@)]
  IN IF ac >= KEY_PRESS \/ ac = STACK_BOTTOM THEN p
     ELSE PopRedo[Repeat(p, ac)]

\* edit_do_undo
DoUndo(e) == [PopUndo[[e EXCEPT !.disable = TRUE]] EXCEPT !.disable = FALSE]

\* edit_do_redo; its test of redo_stack_reset is never true, for
\* edit_execute_cmd has just cleared it
DoRedo(e) == IF e.reset THEN e ELSE PopRedo[e]

\* edit_group_undo: with option_group_undo, while the actions are of one type
GroupUndo[e \in Edit] ==
  LET u == DoUndo(e)
      ac == Peek(u.undo)
  IN IF opt.group /\ ac # STACK_BOTTOM /\ ac = Peek(e.undo)
     THEN GroupUndo[u] ELSE u

-----------------------------------------------------------------------------
(* Commands                                                                 *)

\* edit_push_key_press
PushKeyPress(e) ==
  LET p == PushUndo(e, KEY_PRESS)
  IN IF e.m2 = -1
     THEN PushUndo(PushUndo(p, MARK_1 + e.m1), MARK_CURS + e.mcurs)
     ELSE p

\* edit_mark_cmd
Unmark(e) == [PushMarkers(e) EXCEPT !.m1 = 0, !.m2 = 0]
Mark(e) ==
  IF e.m2 >= 0
  THEN [PushMarkers(e) EXCEPT !.mcurs = -1, !.m1 = Curs1(e), !.m2 = -1]
  ELSE [PushMarkers(e) EXCEPT !.mcurs = Curs1(e), !.m2 = Curs1(e)]

\* the beginning of edit_execute_cmd: a key with shift starts a selection or
\* goes on with it, any other key ends the one shift has started
Highlight(e) ==
  [IF ~e.highlight \/ (e.m2 # -1 /\ e.m1 # e.m2) THEN Mark(Unmark(e)) ELSE e
     EXCEPT !.highlight = TRUE]
NoHighlight(e) ==
  [IF e.highlight THEN Mark(e) ELSE e EXCEPT !.highlight = FALSE]

\* an ordinary character
TypeChar(e, c) ==
  Insert(IF opt.overwrite /\ ByteHere(e) # Newline THEN Delete(e) ELSE e, c)

DeleteToLineEnd[e \in Edit] ==
  IF ByteHere(e) = Newline THEN e ELSE DeleteToLineEnd[Delete(e)]

Init ==
  /\ opt \in Settings
  /\ opened \in Texts
  /\ edit =
       [left |-> <<>>, right |-> opened, m1 |-> 0, m2 |-> 0, mcurs |-> 0,
        highlight |-> FALSE, disable |-> FALSE, reset |-> FALSE,
        undo |-> EmptyRing, redo |-> EmptyRing,
        forgot |-> FALSE, inexact |-> FALSE]
  /\ presses = 0 /\ past = <<>> /\ last = Seen(edit)

\* a key is pressed; every key but that of undo is recorded first
Press(key, e, shown, back) ==
  /\ key \in opt.keys
  /\ presses < opt.presses
  /\ presses' = presses + 1
  /\ edit' = e
  /\ past' = shown /\ last' = back
  /\ UNCHANGED <<opt, opened>>

\* an ordinary command
Ordinary(key, e) ==
  Press(key, e, Append(past, Seen(edit)),
        IF IsEmpty(e.redo) THEN Seen(e) ELSE last)

\* edit_execute_key_command and edit_execute_cmd up to the command itself
Started == [NoHighlight(PushKeyPress(edit)) EXCEPT !.reset = TRUE]
Shifted == [Highlight(PushKeyPress(edit)) EXCEPT !.reset = TRUE]

Type == \E c \in Chars : Ordinary("type", TypeChar(Started, c))
BackspaceKey == Ordinary("backspace", Backspace(Started))
DeleteKey == Ordinary("delete", Delete(Started))
KillKey == Ordinary("kill", DeleteToLineEnd[Started])
LeftKey == Ordinary("left", CursorLeft(Started))
RightKey == Ordinary("right", CursorRight(Started))
ShiftRightKey == Ordinary("shift", CursorRight(Shifted))
MarkKey == Ordinary("mark", Mark(Started))

\* what redoing leads back to once e has lost what could be redone
BackFrom(e) == IF IsEmpty(e.redo) THEN Seen(edit) ELSE last

\* the recording and the end of a selection, then the command
RedoKey ==
  \E e \in {NoHighlight(PushKeyPress(edit))} :
    Press("redo", DoRedo([e EXCEPT !.reset = FALSE]), Append(past, Seen(edit)),
          BackFrom(e))

UndoKey ==
  \E e \in {NoHighlight(edit)} :
  \E u \in {GroupUndo[[e EXCEPT !.reset = FALSE]]} :
    LET there == {i \in DOMAIN past : past[i] = Seen(u)}
    IN Press("undo", u,
             IF Seen(u) = Seen(edit) \/ there = {} THEN past
             ELSE SubSeq(past, 1, (CHOOSE i \in there : \A j \in there : j <= i) - 1),
             BackFrom(e))

Next ==
  \/ Type \/ BackspaceKey \/ DeleteKey \/ KillKey
  \/ LeftKey \/ RightKey \/ ShiftRightKey \/ MarkKey
  \/ UndoKey \/ RedoKey

Spec == Init /\ [][Next]_vars

-----------------------------------------------------------------------------
(* Properties                                                               *)

\* Each ring begins with a key press however much was pushed, counted, popped
\* and trimmed, so an undo that reaches the bottom has undone whole commands
\* (edit_push_undo_action and edit_push_redo_action).
RingsWellFormed == WellFormed(edit.undo) /\ WellFormed(edit.redo)

\* The editor keeps its shape, its rings are well formed, and recording is never
\* left switched off.
TypeOK ==
  /\ opt \in Settings /\ opened \in Texts
  /\ presses \in 0 .. opt.presses
  /\ edit.left \in Seq(0 .. 255) /\ edit.right \in Seq(0 .. 255)
  /\ {edit.m1, edit.m2, edit.mcurs} \subseteq Int
  /\ {edit.highlight, edit.reset, edit.forgot, edit.inexact} \subseteq BOOLEAN
  /\ edit.disable = FALSE
  /\ edit.undo \in Ring /\ edit.redo \in Ring /\ RingsWellFormed
  /\ Len(Text(edit)) <= SIZE_LIMIT

\* Undo takes the user back to the text and the cursor seen when the last key
\* was pressed that changed either, not to anything in between: with
\* option_group_undo to one of those seen before (edit_do_undo,
\* edit_group_undo, and the ring that may have wrapped).
UndoWhole ==
  [][UndoKey =>
       \/ Seen(edit') = Seen(edit)
       \/ \E i \in DOMAIN past :
            /\ past[i] = Seen(edit')
            /\ opt.group \/ \A j \in (i + 1) .. Len(past) : past[j] = Seen(edit)]_vars

\* If the user undoes until the bottom and the ring has not wrapped, the text
\* is as it was loaded, whatever was undone, redone and typed in between (the
\* TODO above edit_pop_undo_action relies on it).
LoadedAtBottom ==
  IsEmpty(edit.undo) /\ ~edit.forgot => Text(edit) = opened

\* When everything undone is redone the user sees what the last ordinary
\* command left, as long as the redo ring has held only actions edit_do_redo
\* knows (edit_do_redo, redo_stack_reset).
RedoWhole ==
  IsEmpty(edit.redo) /\ ~edit.inexact => Seen(edit) = last

\* Both ends of the history are exact: undone to the bottom, redone to the top.
EndsExact == LoadedAtBottom /\ RedoWhole

=============================================================================
