------------------------------- MODULE EditText -------------------------------
(***************************************************************************)
(* The text of the editor and what is remembered about it                  *)
(* (src/editor/edit.c, bookmark.c, syntax.c, editdraw.c).  The bytes lie   *)
(* in blocks: those before the cursor in buffers1, counted from the front, *)
(* those after it in buffers2, counted from the end.  Beside them the      *)
(* editor keeps numbers of lines, offsets of lines, bookmarks and          *)
(* highlighting, each corrected by every routine that changes the text.    *)
(*                                                                         *)
(* A command is a sequence of those routines; the screen is updated after  *)
(* it, or, when keys are waiting, not at all.  One byte is one character;  *)
(* what is off screen to the side is left out, and so are words with       *)
(* wildcards in the rules for highlighting.                                *)
(***************************************************************************)
EXTENDS Integers, Sequences, FiniteSets, SequencesExt

CONSTANTS
  Chars,           \* the bytes inserted
  Texts,           \* the texts loaded
  EDIT_BUF_SIZE,   \* bytes in a block
  MAXBUFF,         \* the last block
  N_LINE_CACHES,   \* lines whose offset is remembered
  SYNTAX_MARKER_DENSITY,
  ByteSize,        \* values of an unsigned char
  Contexts,        \* contexts for highlighting, from 0, see Context
  Height,          \* lines of the screen
  Settings         \* what a session does, a set of Setting records

Newline == 10
SIZE_LIMIT == EDIT_BUF_SIZE * (MAXBUFF - 2)

Bytes == 0 .. 255
Colors == {"book", "found"}

\* syntax: there are rules for this file; marks, find: bookmarks are set,
\* lines are looked up; chars: what is inserted; steps: bound
Setting == [syntax : BOOLEAN, marks : BOOLEAN, find : BOOLEAN,
            chars : SUBSET Chars, steps : Nat]

\* left, right: what starts and ends the context; line: only at the start of a
\* line; between: the delimiters are not in the context; words: keywords
Context ==
  [left : Seq(Bytes), right : Seq(Bytes), line : BOOLEAN, between : BOOLEAN,
   words : Seq([word : Seq(Bytes), notLeft : SUBSET Bytes, notRight : SUBSET Bytes])]

ASSUME TextAssumption ==
  /\ Chars \subseteq Bytes
  /\ EDIT_BUF_SIZE \in Nat \ {0, 1} /\ MAXBUFF \in Nat /\ MAXBUFF > 2
  /\ \A t \in Texts : t \in Seq(Bytes) /\ Len(t) <= SIZE_LIMIT
  /\ N_LINE_CACHES \in Nat /\ N_LINE_CACHES > 3
  /\ SYNTAX_MARKER_DENSITY \in Nat /\ ByteSize \in Nat \ {0} /\ Height \in Nat \ {0}
  /\ IsFiniteSet(DOMAIN Contexts) /\ DOMAIN Contexts # {}
  /\ DOMAIN Contexts = 0 .. Cardinality(DOMAIN Contexts) - 1
  /\ \A c \in DOMAIN Contexts : Contexts[c] \in Context
  /\ Settings \subseteq Setting

VARIABLES
  opt,     \* the setting of this session; never changes
  edit,    \* the WEdit, see Edit
  undrawn, \* the lowest offset changed since lines were drawn from there (history)
  steps    \* taken so far

vars == <<opt, edit, undrawn, steps>>

Block == [0 .. EDIT_BUF_SIZE - 1 -> Bytes]
NULL == <<>>

\* a rule names a context and, as translate_rule_to_color relies on, a keyword of it, from 1
Rule ==
  {r \in [keyword : Nat, end : 0 .. ByteSize - 1, context : DOMAIN Contexts,
          was : DOMAIN Contexts, border : {"none", "left", "right"}] :
     r.keyword <= Len(Contexts[r.context].words)}
ZeroRule == [keyword |-> 0, end |-> 0, context |-> 0, was |-> 0, border |-> "none"]

\* valid, numbers, offsets: the remembered offsets of lines; marks: bookmarks
\* behind one at line -1; at: where book_mark points in that list; rule, last,
\* markers: the highlighting at offset last_get_rule, and at some before it
Edit ==
  [buffers1 : [0 .. MAXBUFF -> Block \cup {NULL}], curs1 : Nat,
   buffers2 : [0 .. MAXBUFF -> Block \cup {NULL}], curs2 : Nat,
   last_byte : Nat, curs_line : Int, total_lines : Int,
   start_display : Int, start_line : Int,
   valid : BOOLEAN, numbers : [0 .. N_LINE_CACHES - 1 -> Int],
   offsets : [0 .. N_LINE_CACHES - 1 -> Int],
   marks : Seq([line : Int, c : Colors \cup {"none"}]), at : Nat,
   rule : Rule, last : Int, markers : Seq([offset : Int, rule : Rule])]

One(b) == IF b THEN 1 ELSE 0
Least(S) == CHOOSE x \in S : \A y \in S : x <= y
Greatest(S) == CHOOSE x \in S : \A y \in S : x >= y

-----------------------------------------------------------------------------
(* Bytes and lines                                                          *)

Size(e) == e.curs1 + e.curs2

\* the byte p places before the end
FromEnd(e, p) ==
  e.buffers2[p \div EDIT_BUF_SIZE][EDIT_BUF_SIZE - (p % EDIT_BUF_SIZE) - 1]

FromStart(e, i) == e.buffers1[i \div EDIT_BUF_SIZE][i % EDIT_BUF_SIZE]

GetByte(e, i) ==
  IF i < 0 \/ i >= Size(e) THEN Newline
  ELSE IF i >= e.curs1 THEN FromEnd(e, Size(e) - i - 1) ELSE FromStart(e, i)

Eol(e, i) ==
  IF i >= e.last_byte THEN e.last_byte
  ELSE Least({j \in i .. Size(e) : GetByte(e, j) = Newline})

Bol(e, i) ==
  IF i <= 0 THEN 0 ELSE Greatest({j \in 0 .. i : GetByte(e, j - 1) = Newline})

CountLines(e, from, upto) ==
  Cardinality({i \in from .. upto - 1 : i \in 0 .. e.last_byte - 1 /\ GetByte(e, i) = Newline})

MoveForward(e, i, lines) ==
  LET go[n \in 0 .. lines] ==
        IF n = 0 THEN i
        ELSE IF Eol(e, go[n - 1]) + 1 > e.last_byte THEN go[n - 1]
        ELSE Eol(e, go[n - 1]) + 1
  IN IF lines < 0 THEN i ELSE go[lines]

MoveBackward(e, i, lines) ==
  LET go[n \in 0 .. lines] ==
        IF n = 0 THEN Bol(e, i)
        ELSE IF go[n - 1] = 0 THEN 0 ELSE Bol(e, go[n - 1] - 1)
  IN IF lines < 0 THEN Bol(e, i) ELSE go[lines]

\* the remembered lines, with the first line, the cursor's and the last filled in
Filled(e) ==
  LET Value(x) == CASE x = 1 -> <<e.curs_line, Bol(e, e.curs1)>>
                    [] x = 2 -> <<e.total_lines, Bol(e, e.last_byte)>>
                    [] OTHER -> <<0, 0>>
  IN IF e.valid THEN e
     ELSE [e EXCEPT !.valid = TRUE,
                    !.numbers = [x \in DOMAIN @ |-> Value(x)[1]],
                    !.offsets = [x \in DOMAIN @ |-> Value(x)[2]]]

\* the count starts at the remembered line next to the one sought, the first such
LinesTo(k, x, line) == IF k.numbers[x] > line THEN k.numbers[x] - line ELSE line - k.numbers[x]
Nearest(k, line) ==
  Least({x \in DOMAIN k.numbers : \A y \in DOMAIN k.numbers : LinesTo(k, x, line) <= LinesTo(k, y, line)})
Reached(k, line, j) ==
  IF line > k.numbers[j] THEN MoveForward(k, k.offsets[j], LinesTo(k, j, line))
  ELSE MoveBackward(k, k.offsets[j], LinesTo(k, j, line))

\* edit_find_line with slot as the place chosen at random
FindLine(e, line, slot) ==
  LET k == Filled(e)
      j == Nearest(k, line)
      i == IF LinesTo(k, j, line) = 1 /\ j >= 3 THEN j ELSE slot
  IN IF line >= e.total_lines \/ line <= 0 \/ LinesTo(k, j, line) = 0 THEN k
     ELSE [k EXCEPT !.offsets[i] = Reached(k, line, j), !.numbers[i] = line]

-----------------------------------------------------------------------------
(* Bookmarks                                                                *)

\* the last mark on or before this line, looked for from book_mark downwards
\* and then upwards; an empty list gets a mark at line -1
WithMarks(e) ==
  IF e.marks # <<>> THEN e
  ELSE [e EXCEPT !.marks = <<[line |-> -1, c |-> "none"]>>, !.at = 1]

MarkFound(e, line) ==
  LET n == Len(e.marks)
      Beyond(p) == p = n \/ e.marks[p + 1].line > line
      down == {p \in e.at .. n : Beyond(p) /\ \A q \in e.at .. p : e.marks[q].line <= line}
      up == {p \in 1 .. e.at : e.marks[p].line <= line /\ \A q \in p .. e.at : Beyond(q)}
  IN IF down # {} THEN Least(down) ELSE Greatest(up)

MarkFind(e, line) ==
  LET m == WithMarks(e) IN [m EXCEPT !.at = MarkFound(m, line)]

\* what book_mark_query_color answers: it walks up while the line is the same
MarkQuery(e, line, c) ==
  /\ e.marks # <<>>
  /\ \E p \in 1 .. MarkFound(e, line) :
       /\ e.marks[p].c = c
       /\ \A q \in p .. MarkFound(e, line) : e.marks[q].line = line

MarkInsert(e, line, c) ==
  LET m == MarkFind(e, line)
  IN [m EXCEPT !.marks = InsertAt(@, m.at + 1, [line |-> line, c |-> c])]

NoDummy(e) ==
  IF Len(e.marks) = 1 /\ e.marks[1].line = -1 THEN [e EXCEPT !.marks = <<>>, !.at = 0] ELSE e

MarkClear(e, line, c) ==
  LET m == MarkFind(e, line)
      on == {p \in 1 .. m.at : m.marks[p].line = line /\ m.marks[p].c = c}
      p == Greatest(on)
  IN IF e.marks = <<>> THEN e
     ELSE IF on = {} THEN NoDummy(m)
     ELSE NoDummy([m EXCEPT !.marks = RemoveAt(@, p), !.at = p - 1])

\* the marks of other colours
Spared(marks, c) ==
  LET to[n \in 0 .. Len(marks)] ==
        IF n = 0 THEN <<>>
        ELSE IF marks[n].c = c THEN to[n - 1] ELSE Append(to[n - 1], marks[n])
  IN to[Len(marks)]

MarkFlush(e, c) ==
  IF e.marks = <<>> THEN e
  ELSE NoDummy([e EXCEPT !.marks = Spared(@, c), !.at = 1])

Moved(mark, by) == [mark EXCEPT !.line = @ + by]

\* Mutant: the marks on the line itself move too
MarksMoveAll(e, line, by) ==
  LET m == MarkFind(e, line)
  IN IF e.marks = <<>> THEN e
     ELSE [m EXCEPT !.marks =
             [p \in DOMAIN @ |-> IF p >= m.at THEN Moved(@[p], by) ELSE @[p]]]

\* book_mark_inc, book_mark_dec: the marks after this line move by one
MarksMove(e, line, by) ==
  LET m == MarkFind(e, line)
  IN IF e.marks = <<>> THEN e
     ELSE [m EXCEPT !.marks =
             [p \in DOMAIN @ |-> IF p > m.at THEN Moved(@[p], by) ELSE @[p]]]

-----------------------------------------------------------------------------
(* Highlighting                                                             *)

\* compare_word_to_right without wildcards: where the word that starts at i
\* ends, or -1
Compare(e, i, word, notLeft, notRight, line) ==
  IF /\ word # <<>>
     /\ line => GetByte(e, i - 1) = Newline
     /\ GetByte(e, i - 1) \notin notLeft
     /\ \A k \in 1 .. Len(word) : GetByte(e, i + k - 1) = word[k]
     /\ GetByte(e, i + Len(word)) \notin notRight
  THEN i + Len(word) ELSE -1

\* the first keyword of the context that stands at i, 0 if none does
WordAt(e, i, context) ==
  LET words == Contexts[context].words
      Ends(k) == Compare(e, i, words[k].word, words[k].notLeft, words[k].notRight, FALSE)
      here == {k \in DOMAIN words : Ends(k) > 0}
  IN IF here = {} THEN [word |-> 0, end |-> 0]
     ELSE [word |-> Least(here), end |-> Ends(Least(here))]

RightEnd(e, i, context) == Compare(e, i, Contexts[context].right, {}, {}, FALSE)
LeftEnd(e, i, context) ==
  Compare(e, i, Contexts[context].left, {}, {}, Contexts[context].line)

Ended(r, x) == [r EXCEPT !.end = x % ByteSize]

(* apply_rules_going_right, in the order of the code.  A byte on its way      *)
(* through it: rule, the rule so far; old, that of the byte before; closes    *)
(* and closed, the context ended here or with the byte before; found, the     *)
(* word that starts; entered, the context between two delimiters that is      *)
(* entered and left again at once; changed, a new context.                    *)
NoWord == [word |-> 0, end |-> 0]
AtEnd(w, i) == w.old.end = i % ByteSize

\* a keyword ends
KeywordOff(e, i, rule) ==
  [old |-> rule, closes |-> FALSE, closed |-> FALSE, found |-> NoWord,
   atOnce |-> FALSE, changed |-> FALSE,
   rule |-> IF rule.end = i % ByteSize \/ GetByte(e, i - 1) = Newline
            THEN [rule EXCEPT !.keyword = 0] ELSE rule]

\* the context ends, its right delimiter ending at end, or -1
ContextOff(w, i, end) ==
  LET in == w.rule.context # 0 /\ w.rule.keyword = 0
      wordEnded == w.old.keyword # 0 /\ AtEnd(w, i)
  IN IF in /\ w.old.border # "right" /\ end > 0
     THEN [w EXCEPT !.closes = TRUE,
                    !.rule = [Ended(@, end) EXCEPT
                                !.border = "right",
                                !.context = IF Contexts[w.rule.context].between THEN 0
                                            ELSE w.rule.context]]
     ELSE IF in /\ AtEnd(w, i) /\ w.old.border # "none"
     THEN [w EXCEPT !.closed = TRUE, !.rule.border = "none",
                    !.rule.context = IF w.old.border = "right" /\ ~wordEnded THEN 0 ELSE @]
     ELSE w

\* a keyword starts
KeywordOn(w, found) ==
  IF w.rule.keyword # 0 \/ found.word = 0 THEN w
  ELSE [w EXCEPT !.found = found, !.rule = [Ended(@, found.end) EXCEPT !.keyword = found.word]]

\* what is behind the right delimiter, or between the delimiters, begins; end is
\* where the right one of the context ends if it follows at once
ContextEntered(w, i, end) ==
  LET between == Contexts[w.rule.was].between
  IN IF w.rule.context # 0 \/ w.closed \/ ~AtEnd(w, i) \/ w.old.border = "none" THEN w
     ELSE IF w.old.border = "right"
     THEN [w EXCEPT !.changed = TRUE, !.rule.border = "none", !.rule.keyword = 0]
     ELSE IF ~between THEN [w EXCEPT !.rule.border = "none"]
     ELSE IF end >= w.found.end
     THEN [w EXCEPT !.changed = TRUE, !.atOnce = TRUE,
                    !.rule = [Ended(@, end) EXCEPT !.border = "right", !.keyword = 0]]
     ELSE [w EXCEPT !.changed = TRUE,
                    !.rule = [w.rule EXCEPT !.border = "none", !.context = w.rule.was, !.keyword = 0]]

\* a context starts
ContextOn(e, i, w, none) ==
  LET opens == IF none /\ ~w.closes /\ ~w.atOnce /\ (w.rule.keyword = 0 \/ w.found.word # 0)
               THEN {c \in DOMAIN Contexts \ {0} : LeftEnd(e, i, c) >= w.found.end}
               ELSE {}
      c == Least(opens)
      inside == ~Contexts[c].between /\ w.rule.keyword = 0
  IN IF opens = {} THEN w
     ELSE [w EXCEPT !.changed = @ \/ inside,
                    !.rule = [Ended(@, LeftEnd(e, i, c)) EXCEPT
                                !.border = "left", !.was = c,
                                !.context = IF inside THEN c ELSE w.rule.context]]

\* a keyword starts in the new context
KeywordInContext(w, found) ==
  IF w.changed /\ w.rule.keyword = 0 /\ found.word # 0
  THEN [Ended(w.rule, found.end) EXCEPT !.keyword = found.word] ELSE w.rule

\* the rule at i from the one at i - 1
Apply(e, i, rule) ==
  LET Off(w) == ContextOff(w, i, RightEnd(e, i, w.rule.context))
      On(w) == KeywordOn(w, WordAt(e, i, w.rule.context))
      Opened(w) == ContextOn(e, i, ContextEntered(w, i, RightEnd(e, i, w.rule.was)),
                             w.rule.context = 0)
      Again(w) == KeywordInContext(w, WordAt(e, i, w.rule.context))
  IN IF GetByte(e, i) = 0 THEN rule ELSE Again(Opened(On(Off(KeywordOff(e, i, rule)))))

\* the rule at upto from the one at from
Rules(e, from, rule, upto) ==
  LET at[i \in from .. upto] == IF i = from THEN rule ELSE Apply(e, i, at[i - 1])
  IN at

\* the rule at upto as if nothing were remembered
RuleFromStart(e, upto) == Rules(e, -2, ZeroRule, upto)[upto]

\* edit_get_rule going right: a marker is left wherever the last one is far away
GoRight(e, upto) ==
  LET at == Rules(e, e.last, e.rule, upto)
      Far(m, i) == i > (IF m = <<>> THEN 0 ELSE m[Len(m)].offset) + SYNTAX_MARKER_DENSITY
      mark[i \in e.last .. upto] ==
        IF i = e.last THEN e.markers
        ELSE IF Far(mark[i - 1], i)
        THEN Append(mark[i - 1], [offset |-> i, rule |-> at[i]]) ELSE mark[i - 1]
  IN [e EXCEPT !.rule = at[upto], !.markers = mark[upto]]

\* Mutant: markers behind the offset are skipped, and kept
GoLeftKeeping(e, upto) ==
  LET before == SelectSeq(e.markers, LAMBDA m : m.offset <= upto)
      m == before[Len(before)]
  IN [e EXCEPT !.rule = IF before = <<>> THEN RuleFromStart(e, upto)
                        ELSE Rules(e, m.offset, m.rule, upto)[upto]]

\* edit_get_rule going left: from the last marker at or before the offset; the
\* ones behind it are dropped
GoLeft(e, upto) ==
  LET near == {k \in DOMAIN e.markers : e.markers[k].offset <= upto}
      kept == IF near = {} THEN <<>> ELSE SubSeq(e.markers, 1, Greatest(near))
      m == kept[Len(kept)]
      from == IF kept = <<>> THEN RuleFromStart(e, upto)
              ELSE Rules(e, m.offset, m.rule, upto)[upto]
  IN [e EXCEPT !.rule = from, !.markers = kept]

GetRule(e, i) ==
  IF ~opt.syntax \/ i >= e.last_byte THEN e
  ELSE IF i = e.last THEN e
  ELSE [(IF i > e.last THEN GoRight(e, i) ELSE GoLeft(e, i)) EXCEPT !.last = i]

-----------------------------------------------------------------------------
(* The routines that change the text or move the cursor                     *)

NewBlock == [k \in 0 .. EDIT_BUF_SIZE - 1 |-> 0]

\* the byte c put at place p of a list of blocks, with a new block when the
\* place fresh is the first of one
Put(blocks, fresh, p, k, c) ==
  LET with == IF fresh % EDIT_BUF_SIZE = 0
              THEN [blocks EXCEPT ![fresh \div EDIT_BUF_SIZE] = NewBlock] ELSE blocks
  IN [with EXCEPT ![p \div EDIT_BUF_SIZE][k] = c]

PutBefore(e, c) ==
  [e EXCEPT !.buffers1 = Put(@, e.curs1, e.curs1, e.curs1 % EDIT_BUF_SIZE, c),
            !.curs1 = @ + 1]

\* Mutant: the place in the block is that of the next byte
PutAfterNext(e, c) ==
  [e EXCEPT !.buffers2 = Put(@, e.curs2 + 1, e.curs2,
                             EDIT_BUF_SIZE - ((e.curs2 + 1) % EDIT_BUF_SIZE) - 1, c),
            !.curs2 = @ + 1]

PutAfter(e, c) ==
  [e EXCEPT !.buffers2 = Put(@, e.curs2 + 1, e.curs2,
                             EDIT_BUF_SIZE - (e.curs2 % EDIT_BUF_SIZE) - 1, c),
            !.curs2 = @ + 1]

\* a block without bytes is freed, in buffers2 the one behind the last byte too
TakeBefore(e) ==
  [e EXCEPT !.buffers1 = IF (e.curs1 - 1) % EDIT_BUF_SIZE = 0
                         THEN [@ EXCEPT ![e.curs1 \div EDIT_BUF_SIZE] = NULL] ELSE @,
            !.curs1 = @ - 1]

\* Mutant: the block of the byte that goes is freed
TakeAfterLast(e) ==
  [e EXCEPT !.buffers2 = IF e.curs2 % EDIT_BUF_SIZE = 1
                         THEN [@ EXCEPT ![(e.curs2 - 1) \div EDIT_BUF_SIZE] = NULL] ELSE @,
            !.curs2 = @ - 1]

TakeAfter(e) ==
  [e EXCEPT !.buffers2 = IF e.curs2 % EDIT_BUF_SIZE = 0
                         THEN [@ EXCEPT ![e.curs2 \div EDIT_BUF_SIZE] = NULL] ELSE @,
            !.curs2 = @ - 1]

\* edit_modification, and a byte more or less above the screen
Modified(e) == [e EXCEPT !.valid = FALSE]

Shown(e, c, by) ==
  IF e.curs1 < e.start_display
  THEN [e EXCEPT !.start_display = @ + by, !.start_line = @ + by * One(c = Newline)] ELSE e

NewLine(e, c) ==
  IF c = Newline THEN [MarksMove(e, e.curs_line, 1) EXCEPT !.total_lines = @ + 1] ELSE e

Insert(e, c) ==
  LET m == NewLine(Modified(Shown(e, c, 1)), c)
  IN IF e.last_byte >= SIZE_LIMIT THEN e
     ELSE PutBefore([m EXCEPT !.curs_line = @ + One(c = Newline),
                              !.last = @ + One(@ > e.curs1),
                              !.last_byte = @ + 1], c)

InsertAhead(e, c) ==
  LET m == NewLine(Modified(Shown(e, c, 1)), c)
  IN IF e.last_byte >= SIZE_LIMIT THEN e
     ELSE PutAfter([m EXCEPT !.last = @ + One(@ >= e.curs1), !.last_byte = @ + 1], c)

LineGone(e, c) ==
  IF c = Newline THEN [MarksMove(e, e.curs_line, -1) EXCEPT !.total_lines = @ - 1] ELSE e

Delete(e) ==
  LET c == FromEnd(e, e.curs2 - 1)
      gone == TakeAfter([e EXCEPT !.last = @ - One(@ > e.curs1), !.last_byte = @ - 1])
  IN IF e.curs2 = 0 THEN e ELSE Shown(LineGone(Modified(gone), c), c, -1)

\* Mutant: what is remembered of lines is not given up
BackspaceCached(e) ==
  LET c == FromStart(e, e.curs1 - 1)
      gone == TakeBefore([e EXCEPT !.last = @ - One(@ >= e.curs1), !.last_byte = @ - 1])
      joined == [LineGone(gone, c) EXCEPT !.curs_line = @ - One(c = Newline)]
  IN IF e.curs1 = 0 THEN e ELSE Shown(joined, c, -1)

Backspace(e) ==
  LET c == FromStart(e, e.curs1 - 1)
      gone == TakeBefore([e EXCEPT !.last = @ - One(@ >= e.curs1), !.last_byte = @ - 1])
      joined == [LineGone(Modified(gone), c) EXCEPT !.curs_line = @ - One(c = Newline)]
  IN IF e.curs1 = 0 THEN e ELSE Shown(joined, c, -1)

MoveLeft(e) ==
  LET c == FromStart(e, e.curs1 - 1)
  IN IF e.curs1 = 0 THEN e
     ELSE [TakeBefore(PutAfter(e, GetByte(e, e.curs1 - 1))) EXCEPT
             !.curs_line = @ - One(c = Newline)]

MoveRight(e) ==
  LET c == FromEnd(e, e.curs2 - 1)
  IN IF e.curs2 = 0 THEN e
     ELSE [TakeAfter(PutBefore(e, GetByte(e, e.curs1))) EXCEPT
             !.curs_line = @ + One(c = Newline)]

\* edit_cursor_move
CursorMove(e, n) ==
  LET left[k \in 0 .. -n] == IF k = 0 THEN e ELSE MoveLeft(left[k - 1])
      right[k \in 0 .. n] == IF k = 0 THEN e ELSE MoveRight(right[k - 1])
  IN IF n < 0 THEN left[-n] ELSE right[n]

-----------------------------------------------------------------------------
(* The screen                                                               *)

ScrollUp(e, lines) ==
  LET i == IF lines > e.start_line THEN e.start_line ELSE lines
  IN IF i <= 0 THEN e
     ELSE [e EXCEPT !.start_line = @ - i, !.start_display = MoveBackward(e, @, i)]

ScrollDown(e, lines) ==
  LET below == e.total_lines - e.start_line - (Height - 1)
      i == IF lines > below THEN below ELSE lines
  IN IF i <= 0 THEN e
     ELSE [e EXCEPT !.start_line = @ + i, !.start_display = MoveForward(e, @, i)]

\* edit_scroll_screen_over_cursor
ScrollOver(e) ==
  LET row == e.curs_line - e.start_line
  IN IF row >= Height THEN ScrollDown(e, row - Height + 1)
     ELSE IF row < 0 THEN ScrollUp(e, -row) ELSE e

\* edit_draw_this_line for n lines from the one that starts at b, row rows down
\* the screen; the byte before each line is asked for first
Draw(e, b, row, n) ==
  LET end == Eol(e, MoveForward(e, b, n - 1))
      upto == IF end >= e.last_byte THEN e.last_byte - 1 ELSE end
      drawn == GetRule(GetRule(e, b - 1), IF e.last_byte = 0 THEN b - 1 ELSE upto)
  IN IF n = 0 THEN e
     ELSE IF e.marks = <<>> THEN drawn
     ELSE MarkFind(drawn, e.start_line + row + n - 1)

-----------------------------------------------------------------------------
(* A session                                                                *)

Nowhere == SIZE_LIMIT + 1

\* edit_load_file_fast: the text lies in buffers2, its first bytes in the last block
TextBlocks(t) ==
  LET n == Len(t)
      first == n % EDIT_BUF_SIZE
      top == n \div EDIT_BUF_SIZE
      At(b, k) == IF b = top THEN k - (EDIT_BUF_SIZE - first) + 1
                  ELSE first + (top - 1 - b) * EDIT_BUF_SIZE + k + 1
      Cell(b, k) == IF At(b, k) \in 1 .. n THEN t[At(b, k)] ELSE 0
  IN [b \in 0 .. MAXBUFF |->
        IF b <= top THEN [k \in 0 .. EDIT_BUF_SIZE - 1 |-> Cell(b, k)] ELSE NULL]

\* edit_init; the rule before the text is asked for
Loaded(t) ==
  LET n == Len(t)
      e == [buffers1 |-> [b \in 0 .. MAXBUFF |-> NULL], curs1 |-> 0,
            buffers2 |-> TextBlocks(t), curs2 |-> n,
            last_byte |-> n, curs_line |-> 0, total_lines |-> 0,
            start_display |-> 0, start_line |-> 0, valid |-> FALSE,
            numbers |-> [x \in 0 .. N_LINE_CACHES - 1 |-> 0],
            offsets |-> [x \in 0 .. N_LINE_CACHES - 1 |-> 0],
            marks |-> <<>>, at |-> 0, rule |-> ZeroRule, last |-> 0, markers |-> <<>>]
  IN GetRule([e EXCEPT !.total_lines = CountLines(e, 0, n)], -1)

Init ==
  /\ opt \in Settings
  /\ \E t \in Texts : edit = Loaded(t)
  /\ undrawn = Nowhere
  /\ steps = 0

Step ==
  /\ steps < opt.steps
  /\ steps' = steps + 1
  /\ UNCHANGED opt

Change(e, at) ==
  /\ Step
  /\ edit' = e
  /\ undrawn' = IF at < undrawn THEN at ELSE undrawn

Look(e) ==
  /\ Step
  /\ edit' = e
  /\ UNCHANGED undrawn

InsertByte == \E c \in opt.chars : Change(Insert(edit, c), edit.curs1)
InsertByteAhead == \E c \in opt.chars : Change(InsertAhead(edit, c), edit.curs1)
DeleteByte == edit.curs2 > 0 /\ Change(Delete(edit), edit.curs1)
BackspaceByte == edit.curs1 > 0 /\ Change(Backspace(edit), edit.curs1 - 1)

\* every move of the cursor in the text
MoveCursor ==
  \E i \in (0 .. Size(edit)) \ {edit.curs1} : Look(CursorMove(edit, i - edit.curs1))

\* edit_move_to_bottom; the last line is where edit_move_down ends
MoveToBottom ==
  LET there == CursorMove(edit, Bol(edit, edit.last_byte) - edit.curs1)
  IN /\ edit.curs_line < edit.total_lines
     /\ Look(ScrollUp([there EXCEPT !.start_line = there.total_lines,
                                    !.start_display = there.last_byte], Height - 1))

\* edit_move_display
ScrollTo ==
  \E line \in 0 .. edit.total_lines :
    Look(IF line < edit.start_line THEN ScrollUp(edit, edit.start_line - line)
         ELSE ScrollDown(edit, line - edit.start_line))

\* is_blank and the paragraph commands look lines up
LookUp ==
  /\ opt.find
  /\ \E line \in 0 .. edit.total_lines + 1, slot \in 3 .. N_LINE_CACHES - 1 :
       Look(FindLine(edit, line, slot))

ToggleBookmark ==
  LET e == MarkClear(edit, edit.curs_line, "found")
  IN /\ opt.marks
     /\ Look(IF MarkQuery(e, edit.curs_line, "book")
             THEN MarkClear(MarkFind(e, edit.curs_line), edit.curs_line, "book")
             ELSE MarkInsert(e, edit.curs_line, "book"))

\* edit_search_cmd marks every line found, from the first to the last
MarkAll(bare, lines) ==
  LET upto[l \in 0 .. bare.total_lines + 1] ==
        IF l = 0 THEN bare
        ELSE IF l - 1 \in lines THEN MarkInsert(upto[l - 1], l - 1, "found") ELSE upto[l - 1]
  IN upto[bare.total_lines + 1]

FindAll ==
  /\ opt.marks
  /\ \E lines \in SUBSET (0 .. edit.total_lines) :
       lines # {} /\ Look(MarkAll([edit EXCEPT !.marks = <<>>, !.at = 0], lines))

FlushBookmarks == opt.marks /\ Look(MarkFlush(MarkFlush(edit, "book"), "found"))

\* the cursor goes to the line of the next or the previous mark
ToMark(e, p) ==
  LET line == e.marks[p].line
      target == IF line > e.total_lines THEN e.total_lines ELSE line
      start == Bol(e, Least({i \in 0 .. Size(e) : CountLines(e, 0, i) = target}))
      seen == IF line >= e.start_line /\ line < e.start_line + Height THEN e
              ELSE IF line - (Height \div 2) < e.start_line
              THEN ScrollUp(e, e.start_line - (line - (Height \div 2)))
              ELSE ScrollDown(e, line - (Height \div 2) - e.start_line)
  IN IF target = e.curs_line THEN seen ELSE ScrollOver(CursorMove(seen, start - e.curs1))

NextBookmark ==
  LET m == MarkFind(edit, edit.curs_line)
  IN /\ edit.marks # <<>>
     /\ Look(IF m.at = Len(m.marks) THEN m ELSE ToMark(m, m.at + 1))

PrevBookmark ==
  LET m == MarkFind(edit, edit.curs_line)
      p == Greatest({q \in 1 .. m.at : m.marks[q].line # edit.curs_line})
  IN /\ edit.marks # <<>>
     /\ Look(IF m.marks[p].line < 0 THEN m ELSE ToMark(m, p))

\* edit_update_screen: the page, or the lines from the cursor line or from the
\* one above it, until a key is pressed
Update ==
  LET e == ScrollOver(edit)
      line == Bol(e, e.curs1)
      row == e.curs_line - e.start_line
  IN \E n \in 0 .. Height,
        from \in {<<e.start_display, 0>>, <<line, row>>}
                 \cup (IF row > 0 THEN {<<MoveBackward(e, line, 1), row - 1>>} ELSE {}) :
       /\ Step
       /\ edit' = Draw(e, from[1], from[2], n)
       /\ undrawn' = IF n > 0 /\ from[1] <= undrawn THEN Nowhere ELSE undrawn

Next ==
  \/ InsertByte \/ InsertByteAhead \/ DeleteByte \/ BackspaceByte
  \/ MoveCursor \/ MoveToBottom \/ ScrollTo \/ LookUp
  \/ ToggleBookmark \/ FindAll \/ FlushBookmarks \/ NextBookmark \/ PrevBookmark
  \/ Update

Spec == Init /\ [][Next]_vars

-----------------------------------------------------------------------------
(* Properties                                                               *)

\* Type invariant: blocks, cursors and remembered numbers are what edit.c
\* declares, and a block is there exactly when it holds a byte, or is the next
\* one of buffers2.
TypeOK ==
  /\ opt \in Settings
  /\ edit \in Edit
  /\ edit.last_byte = Size(edit) /\ edit.last_byte <= SIZE_LIMIT
  /\ \A b \in 0 .. MAXBUFF :
       /\ (edit.buffers1[b] # NULL) = (b * EDIT_BUF_SIZE < edit.curs1)
       /\ (edit.buffers2[b] # NULL) = (b * EDIT_BUF_SIZE <= edit.curs2)
  /\ undrawn \in 0 .. Nowhere

\* The blocks are the text: the bytes that edit_get_byte returns and the place
\* of the cursor change as a text and a cursor do.
Buffer == INSTANCE Text WITH
  text <- [i \in 1 .. Size(edit) |-> GetByte(edit, i - 1)], cursor <- edit.curs1

ImplementsText == Buffer!Spec

\* What is counted along with every change is what a count would find: the line
\* of the cursor, the number of lines, the line at the top of the screen, and
\* the offset of every line remembered by edit_find_line.
LinesTrue ==
  /\ edit.curs_line = CountLines(edit, 0, edit.curs1)
  /\ edit.total_lines = CountLines(edit, 0, edit.last_byte)
  /\ edit.start_line = CountLines(edit, 0, edit.start_display)
  /\ edit.valid =>
       \A x \in DOMAIN edit.numbers :
         /\ edit.offsets[x] = Bol(edit, edit.offsets[x])
         /\ edit.numbers[x] = CountLines(edit, 0, edit.offsets[x])

\* Bookmarks are found: however the text has changed, the list behind the mark
\* at line -1 is in the order of lines, and book_mark_query_color, which looks
\* from wherever book_mark points, finds the marks there are.
MarksFound ==
  edit.marks # <<>> =>
    /\ edit.at \in DOMAIN edit.marks
    /\ \A p, q \in DOMAIN edit.marks : p < q => edit.marks[p].line <= edit.marks[q].line
    /\ \A p \in DOMAIN edit.marks : (edit.marks[p].line = -1) = (p = 1)
    /\ \A p \in DOMAIN edit.marks \ {1} :
         MarkQuery(edit, edit.marks[p].line, edit.marks[p].c)

\* The highlighting remembered for the lines before the first one that was
\* changed and not drawn since is what going through the whole text finds.
RulesTrue ==
  LET known == IF undrawn = Nowhere THEN SIZE_LIMIT + 1 ELSE Bol(edit, undrawn)
      True(offset, rule) == offset < known => rule = RuleFromStart(edit, offset)
  IN opt.syntax => /\ True(edit.last, edit.rule)
                   /\ \A m \in ToSet(edit.markers) : True(m.offset, m.rule)
===============================================================================
