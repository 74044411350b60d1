--------------------------- MODULE FileOpsProofs ---------------------------
(***************************************************************************)
(* Theorems about copying, moving and deleting, for any tree, any settings *)
(* and any number of failures.                                             *)
(*                                                                         *)
(* The actions are first put as Goes, Enters and Returns: what they do to  *)
(* the frames of the call stack, counted from its bottom.  Core is the     *)
(* invariant about that stack: which function can wait for which, in which *)
(* operation, and whom erase_list belongs to.  With it no file is visited  *)
(* twice (Disjoint, Pending), and a file not yet visited is untouched      *)
(* (CarryInv).  On these rest the invariants of the properties: AbortInv,  *)
(* Kept, DoneInv and DeleteInv, AnswerInv and KeepInv.                     *)
(***************************************************************************)
EXTENDS FileOps, TLAPS

\* how many functions are running
Depth == Len(stack)
\* the k-th function called, panel_operate being the first
Level(k) == stack[Len(stack) + 1 - k]

\* where copy_file_file can be
CopyFileFns == {"copy_file", "link", "open", "fill", "short"}
\* where copy_dir_dir can be
CopyDirFns == {"copy_dir", "entry", "copied_entry"}
CopyFns == CopyFileFns \cup CopyDirFns
\* where move_file_file can be
MoveFileFns == {"move_file", "rename", "copied", "remove"}
\* where move_dir_dir can be
MoveDirFns == {"move_dir", "dir_copied", "erasing", "erased", "moved"}
MoveFns == MoveFileFns \cup MoveDirFns
\* where erase_dir and recursive_erase can be
EraseDirFns == {"erase_dir", "recursive_erase", "erase_entry", "erased_entry"}
\* where panel_operate can be
Ends == {"operate", "operated"}
\* functions called for a file
FileFns == CopyFileFns \cup MoveFileFns \cup {"erase_file"}
\* functions called for a directory
DirFns == CopyDirFns \cup MoveDirFns \cup EraseDirFns \cup {"erase_if_empty"}
\* points where the entry at the head of rest is being worked on
InList == {"operated", "copied_entry", "erased_entry"}

\* The types alone, without the last conjunct of TypeOK.
Typed ==
  /\ opt \in Settings /\ src \subseteq Nodes
  /\ tgt \in [Nodes -> Target] /\ data \in [Files -> Seq(Piece)]
  /\ stack \in Seq(Frame) /\ ret \in Status
  /\ links \in [Files -> Files \cup {"none"}]
  /\ erase \in Seq(Nodes) /\ append \in BOOLEAN
  /\ replace \in {"ask", "all", "none", "some", "abort"}
  /\ recurse \in {"ask", "all", "none", "abort"}
  /\ tagged \subseteq Nodes /\ said \in [Nodes -> {"nothing", "replace", "append", "keep"}]
  /\ aborted \in Nodes \cup {"none"} /\ trouble \in 0..MaxTrouble

\* The head of a sequence that is not empty is its first element.
LEMMA SeqHead == ASSUME NEW S, NEW q \in Seq(S), q # <<>>
  PROVE Head(q) = q[1] /\ Head(q) \in S /\ Len(q) \in Nat /\ Len(q) >= 1 /\ \A i \in 1..Len(q) : q[i] \in S
  OBVIOUS

\* The tail of a sequence is the rest of it, moved up by one.
LEMMA SeqTail == ASSUME NEW S, NEW q \in Seq(S), q # <<>>
  PROVE /\ Tail(q) \in Seq(S) /\ Len(Tail(q)) = Len(q) - 1
        /\ \A i \in 1..Len(q) - 1 : Tail(q)[i] = q[i + 1]
  OBVIOUS

\* One element before a sequence.
LEMMA SeqCons == ASSUME NEW S, NEW q \in Seq(S), NEW f \in S
  PROVE /\ <<f>> \o q \in Seq(S) /\ Len(<<f>> \o q) = Len(q) + 1
        /\ (<<f>> \o q)[1] = f /\ Head(<<f>> \o q) = f
        /\ \A i \in 1..Len(q) : (<<f>> \o q)[i + 1] = q[i]
        /\ <<f>> \o q # <<>>
  OBVIOUS

\* Two elements before a sequence.
LEMMA SeqCons2 == ASSUME NEW S, NEW q \in Seq(S), NEW f \in S, NEW g \in S
  PROVE /\ <<f, g>> \o q \in Seq(S) /\ Len(<<f, g>> \o q) = Len(q) + 2
        /\ (<<f, g>> \o q)[1] = f /\ (<<f, g>> \o q)[2] = g /\ Head(<<f, g>> \o q) = f
        /\ \A i \in 1..Len(q) : (<<f, g>> \o q)[i + 2] = q[i]
        /\ <<f, g>> \o q # <<>>
  OBVIOUS

\* The empty sequence is the one of length zero.
LEMMA SeqEmpty == ASSUME NEW S, NEW q \in Seq(S) PROVE q = <<>> <=> Len(q) = 0
  OBVIOUS

\* The running function is the last one called.
LEMMA TopIs ==
  ASSUME stack \in Seq(Frame), stack # <<>>
  PROVE  /\ Depth \in Nat /\ Depth >= 1 /\ Cur = Level(Depth) /\ Cur \in Frame
         /\ \A k \in 1..Depth : Level(k) \in Frame
  BY SeqHead DEF Depth, Level, Cur

\* Become exchanges the frame of the running function and no other.
LEMMA BecomeIs ==
  ASSUME stack \in Seq(Frame), stack # <<>>, NEW f \in Frame, Become(f)
  PROVE  /\ stack' \in Seq(Frame) /\ stack' # <<>> /\ Depth' = Depth /\ ret' = ret
         /\ Cur' = f
         /\ \A k \in 1..Depth : Level(k)' = IF k = Depth THEN f ELSE Level(k)
<1> DEFINE q == Tail(stack)
<1>1. /\ q \in Seq(Frame) /\ Len(q) = Len(stack) - 1 /\ Len(stack) \in Nat
      /\ \A i \in 1..Len(stack) - 1 : q[i] = stack[i + 1]
  BY SeqHead, SeqTail
<1>0. Len(stack) \in Nat /\ Len(stack) >= 1
  BY SeqHead
<1>2. stack' = <<f>> \o q
  BY DEF Become
<1>3. /\ stack' \in Seq(Frame) /\ Len(stack') = Len(stack) /\ stack'[1] = f /\ Head(stack') = f
      /\ \A i \in 1..Len(stack) - 1 : stack'[i + 1] = stack[i + 1]
      /\ stack' # <<>>
  <2> HIDE DEF q
  <2> QED  BY <1>1, <1>2, SeqCons
<1>4. \A k \in 1..Depth - 1 : Level(k)' = Level(k)
  <2> TAKE k \in 1..Depth - 1
  <2>1. Len(stack) - k \in 1..Len(stack) - 1 /\ (Len(stack) - k) + 1 = Len(stack) + 1 - k
    BY <1>1 DEF Depth
  <2> QED  BY <2>1, <1>3 DEF Level
<1>5. \A k \in 1..Depth : Level(k)' = IF k = Depth THEN f ELSE Level(k)
  <2> TAKE k \in 1..Depth
  <2>1. CASE k = Depth
    BY <1>1, <1>3, <2>1 DEF Depth, Level
  <2>2. CASE k # Depth
    <3>1. k \in 1..Depth - 1
      BY <1>0, <2>2 DEF Depth
    <3> QED  BY <1>4, <2>2, <3>1
  <2> QED  BY <2>1, <2>2
<1> QED  BY <1>1, <1>3, <1>5 DEF Depth, Cur, Become

\* A call adds a frame and changes the one below.
LEMMA PushIs ==
  ASSUME stack \in Seq(Frame), stack # <<>>, NEW f \in Frame, NEW g \in Frame,
         stack' = <<f, g>> \o Tail(stack)
  PROVE  /\ stack' \in Seq(Frame) /\ stack' # <<>> /\ Depth' = Depth + 1 /\ Cur' = f
         /\ \A k \in 1..Depth + 1 : Level(k)' = IF k = Depth + 1 THEN f ELSE IF k = Depth THEN g ELSE Level(k)
<1> DEFINE q == Tail(stack)
<1>1. /\ q \in Seq(Frame) /\ Len(q) = Len(stack) - 1 /\ Len(stack) \in Nat /\ Len(stack) >= 1
      /\ \A i \in 1..Len(stack) - 1 : q[i] = stack[i + 1]
  BY SeqHead, SeqTail
<1>4. /\ stack' \in Seq(Frame) /\ Len(stack') = Len(stack) + 1 /\ Head(stack') = f
      /\ stack'[1] = f /\ stack'[2] = g
      /\ \A i \in 1..Len(stack) - 1 : stack'[i + 2] = stack[i + 1]
      /\ stack' # <<>>
  <2> HIDE DEF q
  <2> QED  BY <1>1, SeqCons2
<1>5. \A k \in 1..Depth - 1 : Level(k)' = Level(k)
  <2> TAKE k \in 1..Depth - 1
  <2>1. /\ Len(stack) - k \in 1..Len(stack) - 1 /\ (Len(stack) - k) + 1 = Len(stack) + 1 - k
        /\ (Len(stack) - k) + 2 = Len(stack') + 1 - k
    BY <1>1, <1>4 DEF Depth
  <2> QED  BY <2>1, <1>4 DEF Level
<1>0. Len(stack) \in Nat /\ Len(stack) >= 1 /\ Len(stack') = Len(stack) + 1
  BY <1>1, <1>4
<1>6. \A k \in 1..Depth + 1 : Level(k)' = IF k = Depth + 1 THEN f ELSE IF k = Depth THEN g ELSE Level(k)
  <2> TAKE k \in 1..Depth + 1
  <2>1. CASE k = Depth + 1
    <3>1. Len(stack') + 1 - k = 1 /\ k # Depth
      BY <1>0, <2>1 DEF Depth
    <3> QED  BY <1>4, <2>1, <3>1 DEF Level
  <2>2. CASE k = Depth
    <3>1. Len(stack') + 1 - k = 2 /\ k # Depth + 1
      BY <1>0, <2>2 DEF Depth
    <3> QED  BY <1>4, <2>2, <3>1 DEF Level
  <2>3. CASE k # Depth + 1 /\ k # Depth
    <3>1. k \in 1..Depth - 1
      BY <1>0, <2>3 DEF Depth
    <3> QED  BY <1>5, <2>3, <3>1
  <2> QED  BY <2>1, <2>2, <2>3
<1> QED  BY <1>1, <1>4, <1>6 DEF Depth, Cur

\* Leave takes the top frame away and no other.
LEMMA LeaveIs ==
  ASSUME stack \in Seq(Frame), stack # <<>>, NEW s, Leave(s)
  PROVE  /\ stack' \in Seq(Frame) /\ Depth' = Depth - 1 /\ ret' = s
         /\ \A k \in 1..Depth - 1 : Level(k)' = Level(k)
         /\ stack' = <<>> <=> Depth = 1
         /\ stack' # <<>> => Cur' = Level(Depth - 1)
<1>1. /\ stack' \in Seq(Frame) /\ Len(stack') = Len(stack) - 1 /\ Len(stack) \in Nat
      /\ Len(stack) >= 1
      /\ \A i \in 1..Len(stack) - 1 : stack'[i] = stack[i + 1]
  BY SeqHead, SeqTail DEF Leave
<1>2. \A k \in 1..Depth - 1 : Level(k)' = Level(k)
  <2> TAKE k \in 1..Depth - 1
  <2>1. /\ Len(stack) - k \in 1..Len(stack) - 1 /\ (Len(stack) - k) + 1 = Len(stack) + 1 - k
        /\ Len(stack) - k = Len(stack') + 1 - k
    BY <1>1 DEF Depth
  <2> QED  BY <2>1, <1>1 DEF Level
<1>3. stack' = <<>> <=> Depth = 1
  BY <1>1, SeqEmpty DEF Depth
<1>4. stack' # <<>> => Head(stack') = stack'[1] /\ Len(stack) - 1 >= 1
  BY <1>1, <1>3, SeqHead DEF Depth
<1> QED  BY <1>1, <1>2, <1>3, <1>4 DEF Depth, Level, Cur, Leave

\* What the assumption on the tree says of nodes, entries and settings.
LEMMA Assumed ==
  /\ Dirs \subseteq Nodes /\ "none" \notin Nodes /\ MaxTrouble \in Nat
  /\ \A d \in Dirs : Kids[d] \in Seq(Nodes) /\ Separate(Kids[d])
  /\ \A o \in Settings : o \in Setting /\ o.tops \in Seq(Nodes) /\ o.tops # <<>> /\ Separate(o.tops)
  /\ \A o \in Settings : o.op \in {"copy", "move", "delete"} /\ o.ino \in [Files -> Files]
  /\ \A o \in Settings : o.there \subseteq Nodes /\ o.across \in BOOLEAN
  BY TreeAssumption DEF Setting

\* The record of a frame, field by field.
Made(g, l, n, q, r, a) == g \in Frame /\ g.at = l /\ g.n = n /\ g.rest = q /\ g.rs = r /\ (g.ask <=> a)

\* The points functions go on at.
LEMMA AllPoints ==
  /\ "operate" \in Points /\ "operated" \in Points /\ "copy_file" \in Points /\ "link" \in Points
  /\ "open" \in Points /\ "fill" \in Points /\ "short" \in Points /\ "copy_dir" \in Points
  /\ "entry" \in Points /\ "copied_entry" \in Points /\ "rename" \in Points
  /\ "copied" \in Points /\ "remove" \in Points /\ "dir_copied" \in Points
  /\ "erasing" \in Points /\ "erased" \in Points /\ "moved" \in Points
  /\ "erase_file" \in Points /\ "erase_if_empty" \in Points /\ "recursive_erase" \in Points
  /\ "erase_entry" \in Points /\ "erased_entry" \in Points
  BY DEF Points

\* A frame with another point.
LEMMA SetAt ==
  ASSUME NEW f \in Frame, NEW l \in Points
  PROVE  Made([f EXCEPT !.at = l], l, f.n, f.rest, f.rs, f.ask)
  BY DEF Frame, Made

\* A frame with another point, list and status.
LEMMA SetAll ==
  ASSUME NEW f \in Frame, NEW l \in Points, NEW q \in Seq(Nodes), NEW r \in Status
  PROVE  Made([f EXCEPT !.at = l, !.rest = q, !.rs = r], l, f.n, q, r, f.ask)
  BY DEF Frame, Made

\* The frame of a function that begins.
LEMMA NewIs ==
  ASSUME NEW l \in Points, NEW n \in Nodes
  PROVE  /\ Made(New(l, n), l, n, <<>>, "cont", TRUE)
         /\ Made([New(l, n) EXCEPT !.ask = FALSE], l, n, <<>>, "cont", FALSE)
<1>1. <<>> \in Seq(Nodes) /\ "cont" \in Status
  BY DEF Status
<1>2. New(l, n) = [at |-> l, n |-> n, rest |-> <<>>, rs |-> "cont", ask |-> TRUE]
  BY DEF New
<1> DEFINE f == New(l, n)  g == [f EXCEPT !.ask = FALSE]
<1>3. Made(f, l, n, <<>>, "cont", TRUE)
  BY <1>1, <1>2 DEF Frame, Made
<1>4. Made(g, l, n, <<>>, "cont", FALSE)
  <2> HIDE DEF f
  <2> QED  BY <1>3 DEF Frame, Made
<1> QED  BY <1>3, <1>4

(***************************************************************************)
(* What the actions do, without EXCEPT.                                    *)
(***************************************************************************)
\* The running function goes on at l.
Goes(l, q, r) ==
  /\ stack' \in Seq(Frame) /\ stack' # <<>> /\ Depth' = Depth /\ ret' = ret
  /\ Made(Cur', l, Cur.n, q, r, Cur'.ask)
  /\ \A k \in 1..Depth : Level(k)' = IF k = Depth THEN Cur' ELSE Level(k)

\* It calls f for n and will go on at l.
Enters(l, f, n, a) ==
  /\ stack' \in Seq(Frame) /\ stack' # <<>> /\ Depth' = Depth + 1 /\ ret' = ret
  /\ Made(Cur', f, n, <<>>, "cont", a)
  /\ \E g \in Frame :
       /\ Made(g, l, Cur.n, Cur.rest, Cur.rs, Cur.ask)
       /\ \A k \in 1..Depth + 1 :
            Level(k)' = IF k = Depth + 1 THEN Cur' ELSE IF k = Depth THEN g ELSE Level(k)

\* It returns s.
Returns(s) ==
  /\ stack' \in Seq(Frame) /\ Depth' = Depth - 1 /\ ret' = s
  /\ \A k \in 1..Depth - 1 : Level(k)' = Level(k)
  /\ stack' = <<>> <=> Depth = 1
  /\ stack' # <<>> => Cur' = Level(Depth - 1)

\* The frames have their type.
LEMMA TopType ==
  ASSUME Typed, stack # <<>>
  PROVE  /\ Depth \in Nat /\ Depth >= 1 /\ Cur = Level(Depth) /\ Cur \in Frame
         /\ Cur.at \in Points /\ Cur.n \in Nodes /\ Cur.rest \in Seq(Nodes) /\ Cur.rs \in Status
         /\ Cur.ask \in BOOLEAN
         /\ \A k \in 1..Depth : Level(k) \in Frame
<1>1. /\ Depth \in Nat /\ Depth >= 1 /\ Cur = Level(Depth) /\ Cur \in Frame
      /\ \A k \in 1..Depth : Level(k) \in Frame
  BY TopIs DEF Typed
<1> QED  BY <1>1 DEF Frame

\* Becoming a frame with these fields.
LEMMA MadeGoes ==
  ASSUME Typed, stack # <<>>, NEW g, NEW l, NEW q, NEW r, NEW a, Made(g, l, Cur.n, q, r, a),
         Become(g)
  PROVE  Goes(l, q, r)
<1>1. g \in Frame
  BY DEF Made
<1>2. /\ stack' \in Seq(Frame) /\ stack' # <<>> /\ Depth' = Depth /\ ret' = ret /\ Cur' = g
      /\ \A k \in 1..Depth : Level(k)' = IF k = Depth THEN g ELSE Level(k)
  BY <1>1, BecomeIs DEF Typed
<1> QED  BY <1>2 DEF Goes, Made

\* GoOn is a Goes step.
LEMMA GoOnIs ==
  ASSUME Typed, stack # <<>>, NEW l \in Points, NEW q \in Seq(Nodes), NEW r \in Status,
         GoOn(l, q, r)
  PROVE  Goes(l, q, r)
  BY MadeGoes, SetAll, TopType DEF GoOn

\* Goto is a Goes step that keeps list and status.
LEMMA GotoIs ==
  ASSUME Typed, stack # <<>>, NEW l \in Points, Goto(l)
  PROVE  Goes(l, Cur.rest, Cur.rs)
  BY GoOnIs, TopType DEF Goto

\* A retry is a Goes step to the same point.
LEMMA RetriedIs ==
  ASSUME Typed, stack # <<>>, Retried
  PROVE  Goes(Cur.at, Cur.rest, "retry") /\ FileError("retry")
<1>1. "retry" \in Status
  BY DEF Status
<1> QED  BY <1>1, GoOnIs, TopType DEF Retried

\* Going on with the next entry is a Goes step with the tail of the list.
LEMMA GoOnNext ==
  ASSUME Typed, stack # <<>>, NEW l \in Points, NEW r \in Status, Cur.rest # <<>>,
         GoOn(l, Tail(Cur.rest), r)
  PROVE  Goes(l, Tail(Cur.rest), r)
<1>1. Tail(Cur.rest) \in Seq(Nodes)
  BY TopType, SeqTail
<1> QED  BY <1>1, GoOnIs

\* Leave is a Returns step.
LEMMA LeaveReturns == ASSUME Typed, stack # <<>>, NEW s, Leave(s) PROVE Returns(s)
  BY LeaveIs DEF Typed, Returns

\* A new frame on one for the same node as before is an Enters step.
LEMMA MadeEnters ==
  ASSUME Typed, stack # <<>>, NEW l, NEW f, NEW n, NEW a, NEW h, NEW g,
         Made(h, f, n, <<>>, "cont", a), Made(g, l, Cur.n, Cur.rest, Cur.rs, Cur.ask),
         stack' = <<h, g>> \o Tail(stack), ret' = ret
  PROVE  Enters(l, f, n, a)
<1>1. g \in Frame /\ h \in Frame
  BY DEF Made
<1>2. /\ stack' \in Seq(Frame) /\ stack' # <<>> /\ Depth' = Depth + 1 /\ Cur' = h
      /\ \A k \in 1..Depth + 1 :
           Level(k)' = IF k = Depth + 1 THEN h ELSE IF k = Depth THEN g ELSE Level(k)
  BY <1>1, PushIs DEF Typed
<1> QED  BY <1>1, <1>2 DEF Enters

\* Call is an Enters step.
LEMMA CallEnters ==
  ASSUME Typed, stack # <<>>, NEW l \in Points, NEW f \in Points, NEW n \in Nodes
  PROVE  /\ Call(New(f, n), l) => Enters(l, f, n, TRUE)
         /\ (f = "copy_file" /\ Call(CopyUnasked(n), l)) => Enters(l, f, n, FALSE)
  BY MadeEnters, NewIs, SetAt, TopType DEF Call, CopyUnasked

\* Prefixes of the list of a directory.
Listing(q, d) == q \in Seq(Nodes) /\ Separate(q) /\ \A i \in DOMAIN q : q[i] \in Entries(d)

\* A list of entries, or the beginning of it, is a listing of the directory.
LEMMA KidsListed ==
  ASSUME NEW d \in Dirs, NEW k \in 0..Len(Kids[d])
  PROVE  Listing(Kids[d], d) /\ Listing(SubSeq(Kids[d], 1, k), d)
<1> DEFINE q == Kids[d]
<1>1. q \in Seq(Nodes) /\ Separate(q) /\ Len(q) \in Nat /\ DOMAIN q = 1..Len(q)
  BY Assumed
<1>2. Listing(q, d)
  BY <1>1 DEF Listing, Entries
<1> DEFINE p == SubSeq(Kids[d], 1, k)
<1>3. /\ p \in Seq(Nodes) /\ DOMAIN p = 1..k
      /\ \A i \in 1..k : p[i] = q[i] /\ i \in DOMAIN q
  <2> HIDE DEF q
  <2>1. k \in Nat /\ k <= Len(q)
    BY <1>1 DEF q
  <2>2. SubSeq(q, 1, k) \in Seq(Nodes) /\ Len(SubSeq(q, 1, k)) = k
    BY <1>1, <2>1
  <2>3. \A i \in 1..k : SubSeq(q, 1, k)[i] = q[i] /\ i \in DOMAIN q
    BY <1>1, <2>1
  <2> QED  BY <2>2, <2>3 DEF q
<1>4. Listing(p, d)
  <2> HIDE DEF p, q
  <2>1. Separate(p)
    BY <1>1, <1>3 DEF Separate
  <2> QED  BY <1>2, <1>3, <2>1 DEF Listing
<1> QED  BY <1>2, <1>4

\* Listed goes on with a listing of the directory.
LEMMA ListedIs ==
  ASSUME Typed, stack # <<>>, NEW l \in Points, Cur.n \in Dirs, Listed(Cur.n, l)
  PROVE  \E q : Listing(q, Cur.n) /\ Goes(l, q, Cur.rs) /\ (Smooth \/ Quietly)
<1>1. ASSUME NEW q, Listing(q, Cur.n), GoOn(l, q, Cur.rs)
      PROVE  Goes(l, q, Cur.rs)
  BY <1>1, GoOnIs, TopType DEF Listing
<1>2. Len(Kids[Cur.n]) \in Nat
  BY Assumed
<1>3. CASE GoOn(l, Kids[Cur.n], Cur.rs) /\ Smooth
  <2>1. 0 \in 0..Len(Kids[Cur.n])
    BY <1>2
  <2> QED  BY <1>1, <1>3, <2>1, KidsListed
<1>4. ASSUME NEW k \in 0..Len(Kids[Cur.n]) - 1,
             GoOn(l, SubSeq(Kids[Cur.n], 1, k), Cur.rs), Quietly
      PROVE  \E q : Listing(q, Cur.n) /\ Goes(l, q, Cur.rs) /\ Quietly
  <2>1. k \in 0..Len(Kids[Cur.n])
    BY <1>2
  <2> QED  BY <1>1, <1>4, <2>1, KidsListed
<1> QED  BY <1>3, <1>4 DEF Listed

(***************************************************************************)
(* Frames and failures.                                                    *)
(***************************************************************************)
FrameOK(f) ==
  /\ f.at \in FileFns \cup DirFns \cup Ends
  /\ f.at \in FileFns => f.n \in Files
  /\ f.at \in DirFns => f.n \in Dirs
  /\ f.at \in InList => f.rest # <<>>
  /\ f.at = "short" => f.rs \in {"skip", "abort"}
  /\ Separate(f.rest)

\* a call fails and the function returns
FailsNow == \E s \in {"skip", "abort"} : FileError(s) /\ Returns(s)
\* Abort is pressed in the progress dialog
AbortNow == FileError("abort") /\ Returns("abort")
\* no question is asked
Unasked == UNCHANGED <<append, answers>>

\* Fails and AbortPressed in terms of Returns.
LEMMA FailsIs ==
  ASSUME Typed, stack # <<>>
  PROVE  (Fails => FailsNow) /\ (AbortPressed => AbortNow)
  BY LeaveReturns DEF Fails, AbortPressed, FailsNow, AbortNow

\* The action Operate in terms of Goes, Enters and Returns.
LEMMA OperateIs ==
  ASSUME Typed, Operate
  PROVE  /\ stack # <<>> /\ Cur.at = "operate" /\ Cur.rest # <<>>
         /\ LET n == Head(Cur.rest)
                f == CASE opt.op = "delete" -> IF n \in Dirs THEN "erase_dir" ELSE "erase_file"
                       [] opt.op = "copy" -> IF n \in Dirs THEN "copy_dir" ELSE "copy_file"
                       [] opt.op = "move" -> IF n \in Dirs THEN "move_dir" ELSE "move_file"
            IN n \in Nodes /\ Enters("operated", f, n, TRUE)
         /\ UNCHANGED <<opt, disk, links, erase, tagged, aborted, trouble>> /\ Unasked
<1> DEFINE n == Head(Cur.rest)
           f == CASE opt.op = "delete" -> IF n \in Dirs THEN "erase_dir" ELSE "erase_file"
                  [] opt.op = "copy" -> IF n \in Dirs THEN "copy_dir" ELSE "copy_file"
                  [] opt.op = "move" -> IF n \in Dirs THEN "move_dir" ELSE "move_file"
<1>1. stack # <<>> /\ Cur.at = "operate" /\ Cur.rest # <<>>
  BY DEF Operate, At
<1>2. n \in Nodes
  BY <1>1, TopType, SeqHead
<1>3. opt.op \in {"copy", "move", "delete"}
  BY Assumed DEF Typed
<1>4. f \in Points
  <2>1. {"erase_dir", "erase_file", "copy_dir", "copy_file", "move_dir", "move_file"} \subseteq Points
    BY DEF Points
  <2> QED  BY <1>3, <2>1
<1>5. Call(New(f, n), "operated")
  BY DEF Operate
<1>6. Enters("operated", f, n, TRUE)
  <2> HIDE DEF f, n
  <2>1. "operated" \in Points
    BY DEF Points
  <2> QED  BY <1>1, <1>2, <1>4, <1>5, <2>1, CallEnters
<1> QED  BY <1>1, <1>2, <1>6 DEF Operate, Smooth, Unasked, disk, answers

\* The action Operated in terms of Goes, Enters and Returns.
LEMMA OperatedIs ==
  ASSUME Typed, FrameOK(Cur), Operated
  PROVE  /\ stack # <<>> /\ Cur.at = "operated" /\ Cur.rest # <<>>
         /\ tagged' = IF ret = "cont" THEN tagged \ {Head(Cur.rest)} ELSE tagged
         /\ \/ ret = "abort" /\ Returns("abort") /\ Smooth
            \/ ret # "abort" /\ Goes("operate", Tail(Cur.rest), Cur.rs) /\ Smooth
            \/ ret # "abort" /\ AbortNow
         /\ UNCHANGED <<opt, disk, links, erase>> /\ Unasked
<1>1. stack # <<>> /\ Cur.at = "operated" /\ Cur.rest # <<>>
  BY DEF Operated, At, FrameOK, InList
<1>2. Cur.rs \in Status
  BY <1>1, TopType
<1> QED  BY <1>1, <1>2, GoOnNext, AllPoints, LeaveReturns, FailsIs DEF Operated,
            Unasked, disk, answers

\* The action Finish in terms of Goes, Enters and Returns.
LEMMA FinishIs ==
  ASSUME Typed, Finish
  PROVE  /\ stack # <<>> /\ Cur.at = "operate" /\ Cur.rest = <<>>
         /\ Returns("cont")
         /\ UNCHANGED <<opt, disk, links, erase, tagged, aborted, trouble>> /\ Unasked
<1>1. stack # <<>> /\ Cur.at = "operate" /\ Cur.rest = <<>>
  BY DEF Finish, At
<1> QED  BY <1>1, LeaveReturns DEF Finish, Smooth, Unasked, disk, answers

\* The answers of query_replace.
Replaces(l) ==
  /\ UNCHANGED <<opt, disk, links, erase, recurse, tagged, trouble>>
  /\ replace' \in {"ask", "all", "none", "some", "abort"}
  /\ \/ \E a \in {"append", "replace"} :
          /\ Goes(l, Cur.rest, Cur.rs) /\ said' = [said EXCEPT ![Cur.n] = a]
          /\ append' = (append \/ a = "append") /\ UserSays(FALSE)
     \/ Returns("skip") /\ UNCHANGED <<said, append>> /\ UserSays(FALSE)
     \/ Returns("abort") /\ UNCHANGED <<said, append>> /\ UserSays(TRUE)

\* What query_replace leaves behind, whatever is answered.
LEMMA ReplaceIs ==
  ASSUME Typed, stack # <<>>, NEW l \in Points, QueryReplace(Cur.n, l)
  PROVE  Replaces(l)
<1>1. PICK a \in IF replace = "ask" THEN {"yes", "no", "append", "all", "none", "some", "abort"}
                 ELSE {replace} :
        /\ replace' = IF a \in {"yes", "no", "append"} THEN "ask" ELSE a
        /\ append' = (append \/ a = "append")
        /\ UserSays(a = "abort")
        /\ \/ /\ a \in {"yes", "all", "some", "append"} /\ Goto(l)
              /\ said' = [said EXCEPT ![Cur.n] = IF a = "append" THEN a ELSE "replace"]
           \/ a \in {"no", "none", "some"} /\ Leave("skip") /\ UNCHANGED said
           \/ a = "abort" /\ Leave("abort") /\ UNCHANGED said
        /\ UNCHANGED <<opt, disk, links, erase, recurse, tagged, trouble>>
  BY DEF QueryReplace
<1>2. append \in BOOLEAN /\ replace \in {"ask", "all", "none", "some", "abort"}
  BY DEF Typed
<1>3. a \in {"yes", "no", "append", "all", "none", "some", "abort"}
  BY <1>1, <1>2
<1>4. replace' \in {"ask", "all", "none", "some", "abort"}
  BY <1>1, <1>2, <1>3
<1>5. CASE a \in {"yes", "all", "some", "append"} /\ Goto(l)
           /\ said' = [said EXCEPT ![Cur.n] = IF a = "append" THEN a ELSE "replace"]
  <2>1. Goes(l, Cur.rest, Cur.rs)
    BY <1>5, GotoIs
  <2>2. UserSays(FALSE)
    BY <1>1, <1>5
  <2>3. CASE a = "append"
    BY <1>1, <1>4, <1>5, <2>1, <2>2, <2>3 DEF Replaces
  <2>4. CASE a # "append"
    BY <1>1, <1>2, <1>4, <1>5, <2>1, <2>2, <2>4 DEF Replaces
  <2> QED  BY <2>3, <2>4
<1>6. CASE a \in {"no", "none", "some"} /\ Leave("skip") /\ UNCHANGED said
  <2>1. UserSays(FALSE) /\ append' = append
    BY <1>1, <1>2, <1>6
  <2> QED  BY <1>1, <1>4, <1>6, <2>1, LeaveReturns DEF Replaces
<1>7. CASE a = "abort" /\ Leave("abort") /\ UNCHANGED said
  <2>1. UserSays(TRUE) /\ append' = append
    BY <1>1, <1>2, <1>7
  <2> QED  BY <1>1, <1>4, <1>7, <2>1, LeaveReturns DEF Replaces
<1> QED  BY <1>1, <1>5, <1>6, <1>7

\* The action CopyFile in terms of Goes, Enters and Returns.
LEMMA CopyFileIs ==
  ASSUME Typed, CopyFile
  PROVE  /\ stack # <<>> /\ Cur.at = "copy_file"
         /\ \/ FailsNow /\ UNCHANGED <<opt, disk, links, erase, tagged>> /\ Unasked
            \/ tgt[Cur.n] # Nothing /\ Cur.ask /\ Replaces("link")
            \/ /\ tgt[Cur.n] = Nothing \/ ~Cur.ask
               /\ Goes("link", Cur.rest, Cur.rs)
               /\ UNCHANGED <<opt, disk, links, erase, tagged, aborted, trouble>> /\ Unasked
<1>1. stack # <<>> /\ Cur.at = "copy_file"
  BY DEF CopyFile, At
<1> QED  BY <1>1, FailsIs, ReplaceIs, GotoIs, AllPoints DEF CopyFile, Smooth, Unasked,
            disk, answers

\* The action Link in terms of Goes, Enters and Returns.
LEMMA LinkIs ==
  ASSUME Typed, Link
  PROVE  /\ stack # <<>> /\ Cur.at = "link"
         /\ LET n == Cur.n
                first == links[Inode(n)]
            IN \/ Goes("open", Cur.rest, Cur.rs) /\ UNCHANGED <<tgt, links>>
               \/ /\ ~append /\ Goes("open", Cur.rest, Cur.rs) /\ UNCHANGED tgt
                  /\ links' = [links EXCEPT ![Inode(n)] = n]
               \/ /\ ~append /\ Returns("cont") /\ UNCHANGED links
                  /\ first # "none" /\ first \in src /\ tgt[first] # Nothing /\ tgt[n] = Nothing
                  /\ tgt' = [tgt EXCEPT ![n] = tgt[first]]
         /\ UNCHANGED <<opt, src, data, erase, tagged, aborted, trouble>> /\ Unasked
<1>1. stack # <<>> /\ Cur.at = "link"
  BY DEF Link, At
<1> QED  BY <1>1, GotoIs, AllPoints, LeaveReturns DEF Link, Smooth, Unasked, answers

\* The action Open in terms of Goes, Enters and Returns.
LEMMA OpenIs ==
  ASSUME Typed, Open
  PROVE  /\ stack # <<>> /\ Cur.at = "open"
         /\ \/ FailsNow /\ UNCHANGED <<tgt, data>>
            \/ /\ Goes("fill", Cur.rest, Cur.rs) /\ UNCHANGED <<aborted, trouble>>
               /\ LET t == IF tgt[Cur.n] = Nothing THEN OwnFile(Cur.n) ELSE tgt[Cur.n]
                  IN /\ tgt' = [tgt EXCEPT ![Cur.n] = t]
                     /\ data' = IF append /\ tgt[Cur.n] # Nothing THEN data
                                ELSE [data EXCEPT ![t.file] = <<>>]
         /\ append' = FALSE
         /\ UNCHANGED <<opt, src, links, erase, tagged>> /\ UNCHANGED answers
<1>1. stack # <<>> /\ Cur.at = "open"
  BY DEF Open, At
<1> QED  BY <1>1, GotoIs, AllPoints, FailsIs DEF Open, Smooth, answers

\* The action Fill in terms of Goes, Enters and Returns.
LEMMA FillIs ==
  ASSUME Typed, Fill
  PROVE  /\ stack # <<>> /\ Cur.at = "fill"
         /\ \/ /\ Written(Cur.n, <<<<"whole", Inode(Cur.n)>>>>)
               /\ (Returns("cont") /\ UNCHANGED <<aborted, trouble>>) \/ FailsNow
            \/ \E s \in {"skip", "abort"}, pieces \in {<<>>, <<<<"part", Inode(Cur.n)>>>>} :
                 FileError(s) /\ Written(Cur.n, pieces) /\ Goes("short", Cur.rest, s)
         /\ UNCHANGED <<opt, src, tgt, links, erase, tagged>> /\ Unasked
<1>1. stack # <<>> /\ Cur.at = "fill" /\ {"skip", "abort"} \subseteq Status
  BY DEF Fill, At, Status
<1>2. ASSUME NEW s \in {"skip", "abort"}, GoOn("short", Cur.rest, s)
      PROVE  Goes("short", Cur.rest, s)
  BY <1>1, <1>2, GoOnIs, TopType, AllPoints
<1> QED  BY <1>1, <1>2, LeaveReturns, FailsIs DEF Fill, Smooth, Unasked, answers

\* The action Short in terms of Goes, Enters and Returns.
LEMMA ShortIs ==
  ASSUME Typed, Short
  PROVE  /\ stack # <<>> /\ Cur.at = "short"
         /\ tgt' \in {tgt, [tgt EXCEPT ![Cur.n] = Nothing]}
         /\ (Returns(Cur.rs) /\ UNCHANGED <<aborted, trouble>>) \/ FailsNow
         /\ UNCHANGED <<opt, src, data, links, erase, tagged>> /\ Unasked
<1>1. stack # <<>> /\ Cur.at = "short"
  BY DEF Short, At
<1> QED  BY <1>1, LeaveReturns, FailsIs DEF Short, Smooth, Unasked, answers

\* The action CopyDir in terms of Goes, Enters and Returns.
LEMMA CopyDirIs ==
  ASSUME Typed, FrameOK(Cur), CopyDir
  PROVE  /\ stack # <<>> /\ Cur.at = "copy_dir"
         /\ \/ FailsNow /\ UNCHANGED tgt
            \/ FileError("retry") /\ Goes("copy_dir", Cur.rest, "retry") /\ UNCHANGED tgt
            \/ /\ \E q : Listing(q, Cur.n) /\ Goes("entry", q, Cur.rs) /\ (Smooth \/ Quietly)
               /\ \/ tgt[Cur.n] # Nothing /\ UNCHANGED tgt
                  \/ tgt[Cur.n] = Nothing /\ tgt' = [tgt EXCEPT ![Cur.n] = Directory]
            \/ FailsNow /\ tgt[Cur.n] = Nothing /\ tgt' = [tgt EXCEPT ![Cur.n] = Directory]
         /\ UNCHANGED <<opt, src, data, links, erase, tagged>> /\ Unasked
<1>1. stack # <<>> /\ Cur.at = "copy_dir" /\ Cur.n \in Dirs
  BY DEF CopyDir, At, FrameOK, DirFns, CopyDirFns
<1> QED  BY <1>1, ListedIs, AllPoints, RetriedIs, FailsIs DEF CopyDir, Unasked, answers

\* The action Entry in terms of Goes, Enters and Returns.
LEMMA EntryIs ==
  ASSUME Typed, Entry
  PROVE  /\ stack # <<>> /\ Cur.at = "entry"
         /\ \/ /\ Cur.rest # <<>> /\ Cur.rs # "abort" /\ Head(Cur.rest) \in Nodes
               /\ Enters("copied_entry", IF Head(Cur.rest) \in Dirs THEN "copy_dir" ELSE "copy_file",
                         Head(Cur.rest), TRUE)
            \/ (Cur.rest = <<>> \/ Cur.rs = "abort") /\ Returns(Cur.rs)
         /\ UNCHANGED <<opt, disk, links, erase, tagged, aborted, trouble>> /\ Unasked
<1>1. stack # <<>> /\ Cur.at = "entry"
  BY DEF Entry, At
<1>2. Cur.rest # <<>> => Head(Cur.rest) \in Nodes
  BY <1>1, TopType, SeqHead
<1> QED  BY <1>1, <1>2, CallEnters, AllPoints, LeaveReturns DEF Entry, Smooth,
            Unasked, disk, answers

\* The action CopiedEntry in terms of Goes, Enters and Returns.
LEMMA CopiedEntryIs ==
  ASSUME Typed, FrameOK(Cur), CopiedEntry
  PROVE  /\ stack # <<>> /\ Cur.at = "copied_entry" /\ Cur.rest # <<>>
         /\ Goes("entry", Tail(Cur.rest), ret)
         /\ erase' = IF opt.op = "move" /\ ret = "cont"
                     THEN Append(erase, Head(Cur.rest)) ELSE erase
         /\ UNCHANGED <<opt, disk, links, tagged, aborted, trouble>> /\ Unasked
<1>1. stack # <<>> /\ Cur.at = "copied_entry" /\ Cur.rest # <<>> /\ ret \in Status
  BY DEF CopiedEntry, At, FrameOK, InList, Typed
<1> QED  BY <1>1, GoOnNext, AllPoints DEF CopiedEntry, Smooth, Unasked, disk, answers

\* The action MoveFile in terms of Goes, Enters and Returns.
LEMMA MoveFileIs ==
  ASSUME Typed, MoveFile
  PROVE  /\ stack # <<>> /\ Cur.at = "move_file"
         /\ \/ FailsNow /\ UNCHANGED <<opt, disk, links, erase, tagged>> /\ Unasked
            \/ tgt[Cur.n] # Nothing /\ Replaces("rename")
            \/ /\ tgt[Cur.n] = Nothing
               /\ Goes("rename", Cur.rest, Cur.rs)
               /\ UNCHANGED <<opt, disk, links, erase, tagged, aborted, trouble>> /\ Unasked
<1>1. stack # <<>> /\ Cur.at = "move_file"
  BY DEF MoveFile, At
<1> QED  BY <1>1, FailsIs, ReplaceIs, GotoIs, AllPoints DEF MoveFile, Smooth, Unasked,
            disk, answers

\* The action Rename in terms of Goes, Enters and Returns.
LEMMA RenameIs ==
  ASSUME Typed, Rename
  PROVE  /\ stack # <<>> /\ Cur.at = "rename"
         /\ \/ /\ ~append
               /\ src' = src \ {Cur.n}
               /\ tgt' = [tgt EXCEPT ![Cur.n] = OwnFile(Cur.n)]
               /\ data' = [data EXCEPT ![Cur.n] = <<<<"moved", Inode(Cur.n)>>>>]
               /\ (Returns("cont") /\ UNCHANGED <<aborted, trouble>>) \/ FailsNow
            \/ /\ Enters("copied", "copy_file", Cur.n, FALSE)
               /\ ((append \/ opt.across) /\ trouble' = trouble) \/ Quietly
               /\ UNCHANGED <<disk, aborted>>
         /\ UNCHANGED <<opt, links, erase, tagged>> /\ Unasked
<1>1. stack # <<>> /\ Cur.at = "rename" /\ Cur.n \in Nodes
  BY TopType DEF Rename, At
<1>2. Call(CopyUnasked(Cur.n), "copied") => Enters("copied", "copy_file", Cur.n, FALSE)
  BY <1>1, CallEnters, AllPoints
<1> QED  BY <1>1, <1>2, FailsIs, LeaveReturns DEF Rename, Smooth, Quietly, Unasked,
            disk, answers

\* The action Copied in terms of Goes, Enters and Returns.
LEMMA CopiedIs ==
  ASSUME Typed, Copied
  PROVE  /\ stack # <<>> /\ Cur.at = "copied"
         /\ \/ ret # "cont" /\ Returns(ret) /\ Smooth
            \/ ret = "cont" /\ Goes("remove", Cur.rest, Cur.rs) /\ Smooth
            \/ ret = "cont" /\ FailsNow
         /\ UNCHANGED <<opt, disk, links, erase, tagged>> /\ Unasked
<1>1. stack # <<>> /\ Cur.at = "copied"
  BY DEF Copied, At
<1> QED  BY <1>1, FailsIs, LeaveReturns, GotoIs, AllPoints DEF Copied, Unasked, disk, answers

\* The action Remove in terms of Goes, Enters and Returns.
LEMMA RemoveIs ==
  ASSUME Typed, Remove
  PROVE  /\ stack # <<>> /\ Cur.at = "remove"
         /\ \/ src' = src \ {Cur.n} /\ Returns(Cur.rs) /\ Smooth
            \/ FailsNow /\ UNCHANGED src
            \/ FileError("retry") /\ Goes("remove", Cur.rest, "retry") /\ UNCHANGED src
         /\ UNCHANGED <<opt, tgt, data, links, erase, tagged>> /\ Unasked
<1>1. stack # <<>> /\ Cur.at = "remove"
  BY DEF Remove, At
<1> QED  BY <1>1, FailsIs, LeaveReturns, RetriedIs DEF Remove, Unasked, answers

\* The action MoveDir in terms of Goes, Enters and Returns.
LEMMA MoveDirIs ==
  ASSUME Typed, MoveDir
  PROVE  /\ stack # <<>> /\ Cur.at = "move_dir"
         /\ \/ (AbortNow \/ FailsNow) /\ UNCHANGED disk
            \/ /\ tgt[Cur.n] = Nothing
               /\ src' = src \ Sub[Cur.n]
               /\ tgt' = [m \in Nodes |-> IF m \notin Sub[Cur.n] THEN tgt[m]
                           ELSE IF m \in Dirs THEN Directory ELSE OwnFile(m)]
               /\ data' = [f \in Files |->
                    IF f \in Sub[Cur.n] THEN <<<<"moved", Inode(f)>>>> ELSE data[f]]
               /\ Returns("cont") /\ Smooth
            \/ Enters("dir_copied", "copy_dir", Cur.n, TRUE) /\ UNCHANGED disk /\ Smooth
         /\ UNCHANGED <<opt, links, erase, tagged>> /\ Unasked
<1>1. stack # <<>> /\ Cur.at = "move_dir" /\ Cur.n \in Nodes
  BY TopType DEF MoveDir, At
<1>2. Call(New("copy_dir", Cur.n), "dir_copied") => Enters("dir_copied", "copy_dir", Cur.n, TRUE)
  BY <1>1, CallEnters, AllPoints
<1> QED  BY <1>1, <1>2, FailsIs, LeaveReturns DEF MoveDir, Unasked, answers

\* The action DirCopied in terms of Goes, Enters and Returns.
LEMMA DirCopiedIs ==
  ASSUME Typed, DirCopied
  PROVE  /\ stack # <<>> /\ Cur.at = "dir_copied"
         /\ \/ ret # "cont" /\ erase' = <<>> /\ Returns(ret) /\ Smooth
            \/ ret = "cont" /\ erase' = <<>> /\ FailsNow
            \/ ret = "cont" /\ Goes("erasing", Cur.rest, Cur.rs) /\ Smooth /\ UNCHANGED erase
         /\ UNCHANGED <<opt, disk, links, tagged>> /\ Unasked
<1>1. stack # <<>> /\ Cur.at = "dir_copied"
  BY DEF DirCopied, At
<1> QED  BY <1>1, FailsIs, LeaveReturns, GotoIs, AllPoints DEF DirCopied, Unasked, disk, answers

\* The action Erasing in terms of Goes, Enters and Returns.
LEMMA ErasingIs ==
  ASSUME Typed, Erasing
  PROVE  /\ stack # <<>> /\ Cur.at = "erasing"
         /\ \/ /\ erase # <<>> /\ Cur.rs # "abort" /\ Head(erase) \in Nodes
               /\ Enters("erased", IF Head(erase) \in Dirs THEN "erase_if_empty" ELSE "erase_file",
                         Head(erase), TRUE)
            \/ Enters("moved", "erase_if_empty", Cur.n, TRUE)
         /\ UNCHANGED <<opt, disk, links, erase, tagged, aborted, trouble>> /\ Unasked
<1>1. stack # <<>> /\ Cur.at = "erasing" /\ Cur.n \in Nodes
  BY TopType DEF Erasing, At
<1>2. erase # <<>> => Head(erase) \in Nodes
  BY SeqHead DEF Typed
<1> QED  BY <1>1, <1>2, CallEnters, AllPoints DEF Erasing, Smooth, Unasked, disk, answers

\* The action Erased in terms of Goes, Enters and Returns.
LEMMA ErasedIs ==
  ASSUME Typed, Erased
  PROVE  /\ stack # <<>> /\ Cur.at = "erased"
         /\ erase' = Tail(erase) /\ Goes("erasing", Cur.rest, ret)
         /\ UNCHANGED <<opt, disk, links, tagged, aborted, trouble>> /\ Unasked
<1>1. stack # <<>> /\ Cur.at = "erased" /\ Cur.rest \in Seq(Nodes) /\ ret \in Status
  BY TopType DEF Erased, At, Typed
<1> QED  BY <1>1, GoOnIs, AllPoints DEF Erased, Smooth, Unasked, disk, answers

\* The action Moved in terms of Goes, Enters and Returns.
LEMMA MovedIs ==
  ASSUME Typed, Moved
  PROVE  /\ stack # <<>> /\ Cur.at = "moved" /\ erase' = <<>> /\ Returns(Cur.rs)
         /\ UNCHANGED <<opt, disk, links, tagged, aborted, trouble>> /\ Unasked
<1>1. stack # <<>> /\ Cur.at = "moved"
  BY DEF Moved, At
<1> QED  BY <1>1, LeaveReturns DEF Moved, Smooth, Unasked, disk, answers

\* The action EraseFile in terms of Goes, Enters and Returns.
LEMMA EraseFileIs ==
  ASSUME Typed, EraseFile
  PROVE  /\ stack # <<>> /\ Cur.at = "erase_file"
         /\ \/ src' = src \ {Cur.n} /\ Returns("cont") /\ Smooth
            \/ src' = src \ {Cur.n} /\ opt.op = "move" /\ FailsNow
            \/ FailsNow /\ UNCHANGED src
         /\ UNCHANGED <<opt, tgt, data, links, erase, tagged>> /\ Unasked
<1>1. stack # <<>> /\ Cur.at = "erase_file"
  BY DEF EraseFile, At
<1> QED  BY <1>1, FailsIs, LeaveReturns DEF EraseFile, Unasked, answers

\* The action EraseIfEmpty in terms of Goes, Enters and Returns.
LEMMA EraseIfEmptyIs ==
  ASSUME Typed, EraseIfEmpty
  PROVE  /\ stack # <<>> /\ Cur.at = "erase_if_empty"
         /\ \/ AbortNow /\ UNCHANGED src
            \/ Returns("cont") /\ UNCHANGED src /\ (Smooth \/ Quietly)
            \/ FailsNow /\ UNCHANGED src
            \/ IsEmpty(Cur.n) /\ src' = src \ {Cur.n} /\ Returns("cont") /\ Smooth
         /\ UNCHANGED <<opt, tgt, data, links, erase, tagged>> /\ Unasked
<1>1. stack # <<>> /\ Cur.at = "erase_if_empty"
  BY DEF EraseIfEmpty, At
<1> QED  BY <1>1, FailsIs, LeaveReturns DEF EraseIfEmpty, Unasked, answers

\* The action EraseDir in terms of Goes, Enters and Returns.
LEMMA EraseDirIs ==
  ASSUME Typed, EraseDir
  PROVE  /\ stack # <<>> /\ Cur.at = "erase_dir"
         /\ \/ /\ UNCHANGED <<src, trouble>> /\ recurse' \in {"ask", "all", "none", "abort"}
               /\ \/ Goes("recursive_erase", <<>>, "cont") /\ UNCHANGED said /\ UserSays(FALSE)
                  \/ /\ Returns("skip") /\ said' = [said EXCEPT ![Cur.n] = "keep"]
                     /\ UserSays(FALSE)
                  \/ Returns("abort") /\ UNCHANGED said /\ UserSays(TRUE)
            \/ FailsNow /\ UNCHANGED <<src, recurse, said>>
            \/ /\ IsEmpty(Cur.n) /\ src' = src \ {Cur.n} /\ Returns("cont") /\ Smooth
               /\ UNCHANGED <<recurse, said>>
         /\ UNCHANGED <<opt, tgt, data, links, erase, tagged, append, replace>>
<1>1. stack # <<>> /\ Cur.at = "erase_dir" /\ Cur.n \in Nodes
  BY TopType DEF EraseDir, At
<1>2. Become(New("recursive_erase", Cur.n)) => Goes("recursive_erase", <<>>, "cont")
  BY <1>1, NewIs, MadeGoes, AllPoints
<1>3. ASSUME QueryRecursive(Cur.n)
      PROVE  /\ UNCHANGED <<src, trouble>> /\ recurse' \in {"ask", "all", "none", "abort"}
             /\ \/ Goes("recursive_erase", <<>>, "cont") /\ UNCHANGED said /\ UserSays(FALSE)
                \/ /\ Returns("skip") /\ said' = [said EXCEPT ![Cur.n] = "keep"]
                   /\ UserSays(FALSE)
                \/ Returns("abort") /\ UNCHANGED said /\ UserSays(TRUE)
             /\ UNCHANGED <<opt, tgt, data, links, erase, tagged, append, replace>>
  <2>1. PICK a \in IF recurse = "ask" THEN {"yes", "no", "all", "none", "abort"} ELSE {recurse} :
          /\ recurse' = IF a \in {"yes", "no"} THEN "ask" ELSE a
          /\ UserSays(a = "abort")
          /\ \/ a \in {"yes", "all"} /\ Become(New("recursive_erase", Cur.n)) /\ UNCHANGED said
             \/ a \in {"no", "none"} /\ Leave("skip") /\ said' = [said EXCEPT ![Cur.n] = "keep"]
             \/ a = "abort" /\ Leave("abort") /\ UNCHANGED said
          /\ UNCHANGED <<opt, disk, links, erase, append, replace, tagged, trouble>>
    BY <1>3 DEF QueryRecursive
  <2>2. recurse \in {"ask", "all", "none", "abort"}
    BY DEF Typed
  <2>3. a \in {"yes", "no", "all", "none", "abort"}
    BY <2>1, <2>2
  <2>4. recurse' \in {"ask", "all", "none", "abort"}
    BY <2>1, <2>3
  <2>5. CASE a = "abort"
    BY <1>1, <2>1, <2>4, <2>5, LeaveReturns DEF disk
  <2>6. CASE a # "abort"
    <3>1. UserSays(FALSE)
      BY <2>1, <2>6
    <3> QED  BY <1>1, <1>2, <2>1, <2>4, <2>6, <3>1, LeaveReturns DEF disk
  <2> QED  BY <2>5, <2>6
<1> QED  BY <1>1, <1>3, FailsIs, LeaveReturns DEF EraseDir, answers

\* The action RecursiveErase in terms of Goes, Enters and Returns.
LEMMA RecursiveEraseIs ==
  ASSUME Typed, FrameOK(Cur), RecursiveErase
  PROVE  /\ stack # <<>> /\ Cur.at = "recursive_erase"
         /\ \/ Returns("retry") /\ Quietly
            \/ \E q : Listing(q, Cur.n) /\ Goes("erase_entry", q, Cur.rs) /\ (Smooth \/ Quietly)
         /\ UNCHANGED <<opt, disk, links, erase, tagged>> /\ Unasked
<1>1. stack # <<>> /\ Cur.at = "recursive_erase" /\ Cur.n \in Dirs
  BY DEF RecursiveErase, At, FrameOK, DirFns, EraseDirFns
<1> QED  BY <1>1, ListedIs, LeaveReturns, AllPoints DEF RecursiveErase, Unasked, disk, answers

\* The action EraseEntry in terms of Goes, Enters and Returns.
LEMMA EraseEntryIs ==
  ASSUME Typed, EraseEntry
  PROVE  /\ stack # <<>> /\ Cur.at = "erase_entry"
         /\ \/ Cur.rs # "cont" /\ Returns(Cur.rs) /\ Smooth /\ UNCHANGED src
            \/ Cur.rs = "cont" /\ UNCHANGED src /\ Returns("retry") /\ Quietly
            \/ /\ Cur.rs = "cont" /\ UNCHANGED src /\ Smooth
               /\ Cur.rest # <<>> /\ Head(Cur.rest) \in Nodes
               /\ Enters("erased_entry",
                         IF Head(Cur.rest) \in Dirs THEN "recursive_erase" ELSE "erase_file",
                         Head(Cur.rest), TRUE)
            \/ Cur.rs = "cont" /\ FailsNow /\ UNCHANGED src
            \/ /\ Cur.rs = "cont" /\ Cur.rest = <<>> /\ IsEmpty(Cur.n) /\ src' = src \ {Cur.n}
               /\ Returns("cont") /\ Smooth
         /\ UNCHANGED <<opt, tgt, data, links, erase, tagged>> /\ Unasked
<1>1. stack # <<>> /\ Cur.at = "erase_entry"
  BY DEF EraseEntry, At
<1>2. Cur.rest # <<>> => Head(Cur.rest) \in Nodes
  BY <1>1, TopType, SeqHead
<1> QED  BY <1>1, <1>2, FailsIs, LeaveReturns, CallEnters, AllPoints DEF EraseEntry,
            Unasked, answers

\* The action ErasedEntry in terms of Goes, Enters and Returns.
LEMMA ErasedEntryIs ==
  ASSUME Typed, FrameOK(Cur), ErasedEntry
  PROVE  /\ stack # <<>> /\ Cur.at = "erased_entry" /\ Cur.rest # <<>>
         /\ Goes("erase_entry", Tail(Cur.rest),
                 IF Head(Cur.rest) \in Dirs /\ ret # "cont" THEN "retry" ELSE ret)
         /\ UNCHANGED <<opt, disk, links, erase, tagged, aborted, trouble>> /\ Unasked
<1>1. stack # <<>> /\ Cur.at = "erased_entry" /\ Cur.rest # <<>> /\ {ret, "retry"} \subseteq Status
  BY DEF ErasedEntry, At, FrameOK, InList, Typed, Status
<1> QED  BY <1>1, GoOnNext, AllPoints DEF ErasedEntry, Smooth, Unasked, disk, answers

(***************************************************************************)
(* Types.                                                                  *)
(***************************************************************************)
\* the call stack and what was returned have their types
Stack == stack \in Seq(Frame) /\ ret \in Status
\* the two trees have their types
Disk == /\ src \subseteq Nodes /\ tgt \in [Nodes -> Target] /\ data \in [Files -> Seq(Piece)]
        /\ links \in [Files -> Files \cup {"none"}]
\* the answers have their types
Answers ==
  /\ append \in BOOLEAN /\ replace \in {"ask", "all", "none", "some", "abort"}
  /\ recurse \in {"ask", "all", "none", "abort"}
  /\ said \in [Nodes -> {"nothing", "replace", "append", "keep"}]
\* the lists and tags have their types
Lists == erase \in Seq(Nodes) /\ tagged \subseteq Nodes
\* the last word of the user and the count of troubles have their types
Counts == aborted \in Nodes \cup {"none"} /\ trouble \in 0..MaxTrouble

\* The types fall into five groups of variables.
LEMMA TypedParts == Typed <=> opt \in Settings /\ Disk /\ Stack /\ Answers /\ Lists /\ Counts
  BY DEF Typed, Disk, Stack, Answers, Lists, Counts

\* The same after a step.
LEMMA TypedPartsNext ==
  Typed' <=> opt' \in Settings /\ Disk' /\ Stack' /\ Answers' /\ Lists' /\ Counts'
  BY DEF Typed, Disk, Stack, Answers, Lists, Counts

\* What is operated on is a node, or nothing.
LEMMA TopNode == ASSUME Typed, stack # <<>> PROVE Top \in Nodes \cup {"none"}
<1>1. stack[Len(stack)] \in Frame
  BY SeqHead DEF Typed
<1>2. stack[Len(stack)].rest \in Seq(Nodes)
  BY <1>1 DEF Frame
<1> QED  BY <1>2, SeqHead DEF Top

\* What may happen to aborted and trouble keeps their types.
LEMMA CountsStep ==
  ASSUME Typed, stack # <<>>,
         \/ UNCHANGED <<aborted, trouble>> \/ Smooth \/ Quietly
         \/ \E s : FileError(s)
         \/ UNCHANGED trouble /\ \E b \in BOOLEAN : UserSays(b)
         \/ Trouble /\ aborted' = aborted
  PROVE  Counts'
<1>1. Top \in Nodes \cup {"none"} /\ "none" \in Nodes \cup {"none"}
  BY TopNode
<1>2. Counts /\ MaxTrouble \in Nat
  BY TypedParts, Assumed
<1>3. CASE UNCHANGED <<aborted, trouble>> \/ Smooth
  BY <1>2, <1>3 DEF Counts, Smooth
<1>4. CASE Quietly \/ (Trouble /\ aborted' = aborted)
  BY <1>2, <1>4 DEF Counts, Quietly, Trouble
<1>5. CASE \E s : FileError(s)
  <2>1. aborted' \in {Top, "none"} /\ Trouble
    BY <1>5 DEF FileError, UserSays
  <2> QED  BY <1>1, <1>2, <2>1 DEF Counts, Trouble
<1>6. CASE UNCHANGED trouble /\ \E b \in BOOLEAN : UserSays(b)
  <2>1. aborted' \in {Top, "none"}
    BY <1>6 DEF UserSays
  <2> QED  BY <1>1, <1>2, <1>6, <2>1 DEF Counts
<1> QED  BY <1>3, <1>4, <1>5, <1>6

\* what may happen to the stack
StackStep ==
  \/ \E l \in Points, q \in Seq(Nodes), r \in Status : Goes(l, q, r)
  \/ \E l \in Points, f \in Points, n \in Nodes, a \in BOOLEAN : Enters(l, f, n, a)
  \/ \E s \in Status : Returns(s)

\* What may happen to the stack keeps its type.
LEMMA StackTyped == ASSUME Typed, StackStep PROVE Stack'
  BY DEF Typed, Stack, StackStep, Goes, Enters, Returns

\* The kinds of change a step makes to the rest.
Others ==
  /\ opt' = opt
  /\ Answers' /\ Lists' /\ Counts' /\ Disk' /\ StackStep

\* A failure returns Skip or Abort.
LEMMA FailsReturns ==
  FailsNow \/ AbortNow => \E s \in {"skip", "abort"} : FileError(s) /\ Returns(s)
  BY DEF FailsNow, AbortNow

\* The four statuses.
LEMMA Statuses == {"cont", "retry", "skip", "abort"} = Status
  BY DEF Status

\* A step is one of a function that runs.
LEMMA NextRuns == Next => stack # <<>>
  BY DEF Next, At, Operate, Operated, Finish, CopyFile, Link, Open, Fill, Short, CopyDir, Entry,
     CopiedEntry, MoveFile, Rename, Copied, Remove, MoveDir, DirCopied, Erasing, Erased, Moved,
     EraseFile, EraseIfEmpty, EraseDir, RecursiveErase, EraseEntry, ErasedEntry

\* Every step keeps the type of the stack.
LEMMA NextStack ==
  ASSUME Typed, stack # <<>>, FrameOK(Cur), Next
  PROVE  StackStep
<1> USE AllPoints, Statuses
<1>1. CASE Operate
  <2>1. \E n \in Nodes, f \in Points : Enters("operated", f, n, TRUE) /\ stack # <<>>
    <3>1. {"erase_dir", "erase_file", "copy_dir", "copy_file", "move_dir", "move_file"} \subseteq Points
      BY DEF Points
    <3>2. opt.op \in {"copy", "move", "delete"}
      BY Assumed DEF Typed
    <3> QED  BY <1>1, <3>1, <3>2, OperateIs
  <2> QED  BY <2>1 DEF StackStep
<1>2. CASE Operated
  <2>1. Tail(Cur.rest) \in Seq(Nodes) /\ Cur.rs \in Status
    BY <1>2, OperatedIs, TopType, SeqTail
  <2> QED  BY <1>2, <2>1, OperatedIs, FailsReturns DEF StackStep
<1>3. CASE Finish
  BY <1>3, FinishIs, TopType, FailsReturns DEF StackStep
<1>4. CASE CopyFile
  BY <1>4, CopyFileIs, TopType, FailsReturns DEF StackStep, Replaces
<1>5. CASE Link
  BY <1>5, LinkIs, TopType, FailsReturns DEF StackStep
<1>6. CASE Open
  BY <1>6, OpenIs, TopType, FailsReturns DEF StackStep
<1>7. CASE Fill
  BY <1>7, FillIs, TopType, FailsReturns DEF StackStep
<1>8. CASE Short
  BY <1>8, ShortIs, TopType, FailsReturns DEF StackStep
<1>9. CASE CopyDir
  BY <1>9, CopyDirIs, TopType, FailsReturns DEF StackStep, Listing
<1>10. CASE Entry
  BY <1>10, EntryIs, TopType, FailsReturns DEF StackStep
<1>11. CASE CopiedEntry
  <2>1. stack # <<>> /\ Tail(Cur.rest) \in Seq(Nodes) /\ ret \in Status
    BY <1>11, CopiedEntryIs, TopType, SeqTail DEF Typed
  <2> QED  BY <1>11, <2>1, CopiedEntryIs DEF StackStep
<1>12. CASE MoveFile
  BY <1>12, MoveFileIs, TopType, FailsReturns DEF StackStep, Replaces
<1>13. CASE Rename
  BY <1>13, RenameIs, TopType, FailsReturns DEF StackStep
<1>14. CASE Copied
  BY <1>14, CopiedIs, TopType, FailsReturns DEF StackStep, Typed
<1>15. CASE Remove
  BY <1>15, RemoveIs, TopType, FailsReturns DEF StackStep
<1>16. CASE MoveDir
  BY <1>16, MoveDirIs, TopType, FailsReturns DEF StackStep
<1>17. CASE DirCopied
  BY <1>17, DirCopiedIs, TopType, FailsReturns DEF StackStep, Typed
<1>18. CASE Erasing
  BY <1>18, ErasingIs, TopType, FailsReturns DEF StackStep
<1>19. CASE Erased
  BY <1>19, ErasedIs, TopType, FailsReturns DEF StackStep, Typed
<1>20. CASE Moved
  BY <1>20, MovedIs, TopType, FailsReturns DEF StackStep
<1>21. CASE EraseFile
  BY <1>21, EraseFileIs, TopType, FailsReturns DEF StackStep
<1>22. CASE EraseIfEmpty
  BY <1>22, EraseIfEmptyIs, TopType, FailsReturns DEF StackStep
<1>23. CASE EraseDir
  <2>1. <<>> \in Seq(Nodes)
    OBVIOUS
  <2> QED  BY <1>23, <2>1, EraseDirIs, FailsReturns DEF StackStep
<1>24. CASE RecursiveErase
  BY <1>24, RecursiveEraseIs, TopType, FailsReturns DEF StackStep, Listing
<1>25. CASE EraseEntry
  BY <1>25, EraseEntryIs, TopType, FailsReturns DEF StackStep
<1>26. CASE ErasedEntry
  <2>1. stack # <<>> /\ Tail(Cur.rest) \in Seq(Nodes) /\ ret \in Status
    BY <1>26, ErasedEntryIs, TopType, SeqTail DEF Typed
  <2> QED  BY <1>26, <2>1, ErasedEntryIs DEF StackStep
<1> QED
  BY <1>1, <1>2, <1>3, <1>4, <1>5, <1>6, <1>7, <1>8, <1>9, <1>10, <1>11, <1>12, <1>13,
     <1>14, <1>15, <1>16, <1>17, <1>18, <1>19, <1>20, <1>21, <1>22, <1>23, <1>24, <1>25,
     <1>26 DEF Next

\* Every step keeps the types of aborted and trouble.
LEMMA NextCounts ==
  ASSUME Typed, stack # <<>>, FrameOK(Cur), Next
  PROVE  Counts'
<1>1. CASE Operate
  BY <1>1, OperateIs, CountsStep, FailsReturns
<1>2. CASE Operated
  BY <1>2, OperatedIs, CountsStep, FailsReturns
<1>3. CASE Finish
  BY <1>3, FinishIs, CountsStep, FailsReturns
<1>4. CASE CopyFile
  BY <1>4, CopyFileIs, CountsStep, FailsReturns DEF Replaces
<1>5. CASE Link
  BY <1>5, LinkIs, CountsStep, FailsReturns
<1>6. CASE Open
  BY <1>6, OpenIs, CountsStep, FailsReturns
<1>7. CASE Fill
  BY <1>7, FillIs, CountsStep, FailsReturns
<1>8. CASE Short
  BY <1>8, ShortIs, CountsStep, FailsReturns
<1>9. CASE CopyDir
  BY <1>9, CopyDirIs, CountsStep, FailsReturns
<1>10. CASE Entry
  BY <1>10, EntryIs, CountsStep, FailsReturns
<1>11. CASE CopiedEntry
  BY <1>11, CopiedEntryIs, CountsStep, FailsReturns
<1>12. CASE MoveFile
  BY <1>12, MoveFileIs, CountsStep, FailsReturns DEF Replaces
<1>13. CASE Rename
  BY <1>13, RenameIs, CountsStep, FailsReturns DEF Quietly
<1>14. CASE Copied
  BY <1>14, CopiedIs, CountsStep, FailsReturns
<1>15. CASE Remove
  BY <1>15, RemoveIs, CountsStep, FailsReturns
<1>16. CASE MoveDir
  BY <1>16, MoveDirIs, CountsStep, FailsReturns
<1>17. CASE DirCopied
  BY <1>17, DirCopiedIs, CountsStep, FailsReturns
<1>18. CASE Erasing
  BY <1>18, ErasingIs, CountsStep, FailsReturns
<1>19. CASE Erased
  BY <1>19, ErasedIs, CountsStep, FailsReturns
<1>20. CASE Moved
  BY <1>20, MovedIs, CountsStep, FailsReturns
<1>21. CASE EraseFile
  BY <1>21, EraseFileIs, CountsStep, FailsReturns
<1>22. CASE EraseIfEmpty
  BY <1>22, EraseIfEmptyIs, CountsStep, FailsReturns
<1>23. CASE EraseDir
  BY <1>23, EraseDirIs, CountsStep, FailsReturns
<1>24. CASE RecursiveErase
  BY <1>24, RecursiveEraseIs, CountsStep, FailsReturns
<1>25. CASE EraseEntry
  BY <1>25, EraseEntryIs, CountsStep, FailsReturns
<1>26. CASE ErasedEntry
  BY <1>26, ErasedEntryIs, CountsStep, FailsReturns
<1> QED
  BY <1>1, <1>2, <1>3, <1>4, <1>5, <1>6, <1>7, <1>8, <1>9, <1>10, <1>11, <1>12, <1>13,
     <1>14, <1>15, <1>16, <1>17, <1>18, <1>19, <1>20, <1>21, <1>22, <1>23, <1>24, <1>25,
     <1>26 DEF Next

\* What can be at a target.
LEMMA TargetIs ==
  /\ Nothing \in Target /\ Directory \in Target
  /\ \A n \in Files : OwnFile(n) \in Target
  /\ \A n \in Files : Inode(n) = Inode(n)
  BY DEF Nothing, Directory, OwnFile, Target

\* What is written is content.
LEMMA PiecesAre ==
  ASSUME Typed, NEW n \in Files
  PROVE  /\ Inode(n) \in Files
         /\ <<>> \in Seq(Piece) /\ <<<<"whole", Inode(n)>>>> \in Seq(Piece)
         /\ <<<<"part", Inode(n)>>>> \in Seq(Piece) /\ <<<<"moved", Inode(n)>>>> \in Seq(Piece)
<1>1. Inode(n) \in Files
  BY Assumed DEF Typed, Inode
<1> DEFINE i == Inode(n)
<1> HIDE DEF i
<1>2. i \in Files
  BY <1>1 DEF i
<1>3. <<"whole", i>> \in Piece /\ <<"part", i>> \in Piece /\ <<"moved", i>> \in Piece
  BY <1>2 DEF Piece
<1>4. \A p \in Piece : <<p>> \in Seq(Piece)
  OBVIOUS
<1> QED  BY <1>1, <1>3, <1>4 DEF i

\* Which functions are called for files and which for directories.
LEMMA FileFrames ==
  ASSUME FrameOK(Cur)
  PROVE  /\ Cur.at \in {"copy_file", "link", "open", "fill", "short", "move_file", "rename",
                        "copied", "remove", "erase_file"} => Cur.n \in Files
         /\ Cur.at \in {"copy_dir", "entry", "copied_entry", "move_dir", "dir_copied", "erasing",
                        "erased", "moved", "erase_if_empty", "erase_dir", "recursive_erase",
                        "erase_entry", "erased_entry"} => Cur.n \in Dirs
  BY DEF FrameOK, FileFns, DirFns, CopyFileFns, MoveFileFns, CopyDirFns, MoveDirFns, EraseDirFns

\* The nodes are the files and the directories.
LEMMA FilesAreNodes == Files \subseteq Nodes /\ Files \cap Dirs = {} /\ Nodes = Files \cup Dirs
  BY Assumed DEF Files

\* Every step keeps the types of the two trees.
LEMMA NextDisk ==
  ASSUME Typed, stack # <<>>, FrameOK(Cur), Next
  PROVE  Disk'
<1>d. Disk
  BY TypedParts
<1>n. Cur.n \in Nodes
  BY TopType
<1>s. UNCHANGED <<disk, links>> => Disk'
  BY <1>d DEF Disk, disk
<1>1. CASE Operate
  BY <1>1, <1>s, OperateIs
<1>2. CASE Operated
  BY <1>2, <1>s, OperatedIs
<1>3. CASE Finish
  BY <1>3, <1>s, FinishIs
<1>4. CASE CopyFile
  BY <1>4, <1>s, CopyFileIs DEF Replaces
<1>5. CASE Link
  <2>1. Cur.n \in Files
    BY <1>5, LinkIs, FileFrames
  <2>2. links' = links \/ links' = [links EXCEPT ![Inode(Cur.n)] = Cur.n]
    BY <1>5, LinkIs
  <2>3. links' \in [Files -> Files \cup {"none"}]
    BY <1>d, <2>1, <2>2 DEF Disk
  <2>4. tgt' = tgt \/ \E m \in Files : tgt' = [tgt EXCEPT ![Cur.n] = tgt[m]]
    BY <1>5, <1>d, <2>1, PiecesAre, LinkIs DEF Disk
  <2>5. tgt' \in [Nodes -> Target]
    BY <1>d, <1>n, <2>4, FilesAreNodes DEF Disk
  <2> QED  BY <1>5, <1>d, <2>3, <2>5, LinkIs DEF Disk
<1>6. CASE Open
  <2>1. Cur.n \in Files
    BY <1>6, OpenIs, FileFrames
  <2>2. tgt' = tgt \/ \E t \in Target : tgt' = [tgt EXCEPT ![Cur.n] = t]
    BY <1>6, <1>d, <1>n, <2>1, OpenIs, TargetIs DEF Disk
  <2>3. tgt' \in [Nodes -> Target]
    BY <1>d, <1>n, <2>2 DEF Disk
  <2> DEFINE t == IF tgt[Cur.n] = Nothing THEN OwnFile(Cur.n) ELSE tgt[Cur.n]
  <2>4. data' = data \/ data' = [data EXCEPT ![t.file] = <<>>]
    BY <1>6, OpenIs
  <2>e. <<>> \in Seq(Piece)
    OBVIOUS
  <2>5. data' \in [Files -> Seq(Piece)]
    <3> DEFINE f == t.file
    <3>1. data' = data \/ data' = [data EXCEPT ![f] = <<>>]
      BY <2>4
    <3> HIDE DEF f
    <3> QED  BY <1>d, <2>e, <3>1 DEF Disk
  <2> QED  BY <1>6, <1>d, <2>3, <2>5, OpenIs DEF Disk
<1>7. CASE Fill
  <2>1. Cur.n \in Files
    BY <1>7, FillIs, FileFrames
  <2>2. \E p \in Seq(Piece) : Written(Cur.n, p)
    BY <1>7, <2>1, FillIs, PiecesAre
  <2>3. PICK p \in Seq(Piece) : Written(Cur.n, p)
    BY <2>2
  <2> DEFINE f == tgt[Cur.n].file
  <2>4. data' = [data EXCEPT ![f] = data[f] \o p]
    BY <2>3 DEF Written
  <2>5. data' \in [Files -> Seq(Piece)]
    <3> HIDE DEF f
    <3>1. data \in [Files -> Seq(Piece)]
      BY <1>d DEF Disk
    <3>2. f \in Files => data[f] \o p \in Seq(Piece)
      BY <3>1
    <3> QED  BY <2>4, <3>1, <3>2
  <2> QED  BY <1>7, <1>d, <2>5, FillIs DEF Disk
<1>8. CASE Short
  BY <1>8, <1>d, <1>n, ShortIs, TargetIs DEF Disk
<1>9. CASE CopyDir
  BY <1>9, <1>d, <1>n, CopyDirIs, TargetIs DEF Disk
<1>10. CASE Entry
  BY <1>10, <1>s, EntryIs
<1>11. CASE CopiedEntry
  BY <1>11, <1>s, CopiedEntryIs
<1>12. CASE MoveFile
  BY <1>12, <1>s, MoveFileIs DEF Replaces
<1>13. CASE Rename
  <2>1. Cur.n \in Files
    BY <1>13, RenameIs, FileFrames
  <2>2. CASE /\ src' = src \ {Cur.n}
             /\ tgt' = [tgt EXCEPT ![Cur.n] = OwnFile(Cur.n)]
             /\ data' = [data EXCEPT ![Cur.n] = <<<<"moved", Inode(Cur.n)>>>>]
             /\ links' = links
    BY <1>d, <2>1, <2>2, TargetIs, PiecesAre DEF Disk
  <2> QED  BY <1>13, <1>s, <2>2, RenameIs
<1>14. CASE Copied
  BY <1>14, <1>s, CopiedIs
<1>15. CASE Remove
  BY <1>15, <1>d, RemoveIs DEF Disk
<1>16. CASE MoveDir
  <2>1. CASE /\ src' = src \ Sub[Cur.n]
             /\ tgt' = [m \in Nodes |-> IF m \notin Sub[Cur.n] THEN tgt[m]
                         ELSE IF m \in Dirs THEN Directory ELSE OwnFile(m)]
             /\ data' = [f \in Files |->
                  IF f \in Sub[Cur.n] THEN <<<<"moved", Inode(f)>>>> ELSE data[f]]
             /\ links' = links
    <3>1. tgt' \in [Nodes -> Target]
      BY <1>d, <2>1, TargetIs, FilesAreNodes DEF Disk
    <3>2. data' \in [Files -> Seq(Piece)]
      BY <1>d, <2>1, PiecesAre DEF Disk
    <3> QED  BY <1>d, <2>1, <3>1, <3>2 DEF Disk
  <2> QED  BY <1>16, <1>s, <2>1, MoveDirIs
<1>17. CASE DirCopied
  BY <1>17, <1>s, DirCopiedIs
<1>18. CASE Erasing
  BY <1>18, <1>s, ErasingIs
<1>19. CASE Erased
  BY <1>19, <1>s, ErasedIs
<1>20. CASE Moved
  BY <1>20, <1>s, MovedIs
<1>21. CASE EraseFile
  BY <1>21, <1>d, EraseFileIs DEF Disk
<1>22. CASE EraseIfEmpty
  BY <1>22, <1>d, EraseIfEmptyIs DEF Disk
<1>23. CASE EraseDir
  BY <1>23, <1>d, EraseDirIs DEF Disk
<1>24. CASE RecursiveErase
  BY <1>24, <1>s, RecursiveEraseIs
<1>25. CASE EraseEntry
  BY <1>25, <1>d, EraseEntryIs DEF Disk
<1>26. CASE ErasedEntry
  BY <1>26, <1>s, ErasedEntryIs
<1> QED
  BY <1>1, <1>2, <1>3, <1>4, <1>5, <1>6, <1>7, <1>8, <1>9, <1>10, <1>11, <1>12, <1>13,
     <1>14, <1>15, <1>16, <1>17, <1>18, <1>19, <1>20, <1>21, <1>22, <1>23, <1>24, <1>25,
     <1>26 DEF Next

\* Every step keeps the types of the answers.
LEMMA NextAnswers ==
  ASSUME Typed, stack # <<>>, FrameOK(Cur), Next
  PROVE  Answers'
<1>a. Answers
  BY TypedParts
<1>n. Cur.n \in Nodes
  BY TopType
<1>u. Unasked => Answers'
  BY <1>a DEF Answers, Unasked, answers
<1>r. \A l : Replaces(l) => Answers'
  BY <1>a, <1>n DEF Answers, Replaces
<1>1. CASE Operate
  BY <1>1, <1>u, OperateIs
<1>2. CASE Operated
  BY <1>2, <1>u, OperatedIs
<1>3. CASE Finish
  BY <1>3, <1>u, FinishIs
<1>4. CASE CopyFile
  BY <1>4, <1>u, <1>r, CopyFileIs
<1>5. CASE Link
  BY <1>5, <1>u, LinkIs
<1>6. CASE Open
  BY <1>6, <1>a, OpenIs DEF Answers, answers
<1>7. CASE Fill
  BY <1>7, <1>u, FillIs
<1>8. CASE Short
  BY <1>8, <1>u, ShortIs
<1>9. CASE CopyDir
  BY <1>9, <1>u, CopyDirIs
<1>10. CASE Entry
  BY <1>10, <1>u, EntryIs
<1>11. CASE CopiedEntry
  BY <1>11, <1>u, CopiedEntryIs
<1>12. CASE MoveFile
  BY <1>12, <1>u, <1>r, MoveFileIs
<1>13. CASE Rename
  BY <1>13, <1>u, RenameIs
<1>14. CASE Copied
  BY <1>14, <1>u, CopiedIs
<1>15. CASE Remove
  BY <1>15, <1>u, RemoveIs
<1>16. CASE MoveDir
  BY <1>16, <1>u, MoveDirIs
<1>17. CASE DirCopied
  BY <1>17, <1>u, DirCopiedIs
<1>18. CASE Erasing
  BY <1>18, <1>u, ErasingIs
<1>19. CASE Erased
  BY <1>19, <1>u, ErasedIs
<1>20. CASE Moved
  BY <1>20, <1>u, MovedIs
<1>21. CASE EraseFile
  BY <1>21, <1>u, EraseFileIs
<1>22. CASE EraseIfEmpty
  BY <1>22, <1>u, EraseIfEmptyIs
<1>23. CASE EraseDir
  BY <1>23, <1>a, <1>n, EraseDirIs DEF Answers
<1>24. CASE RecursiveErase
  BY <1>24, <1>u, RecursiveEraseIs
<1>25. CASE EraseEntry
  BY <1>25, <1>u, EraseEntryIs
<1>26. CASE ErasedEntry
  BY <1>26, <1>u, ErasedEntryIs
<1> QED
  BY <1>1, <1>2, <1>3, <1>4, <1>5, <1>6, <1>7, <1>8, <1>9, <1>10, <1>11, <1>12, <1>13,
     <1>14, <1>15, <1>16, <1>17, <1>18, <1>19, <1>20, <1>21, <1>22, <1>23, <1>24, <1>25,
     <1>26 DEF Next

\* Every step keeps the types of the lists and tags.
LEMMA NextLists ==
  ASSUME Typed, stack # <<>>, FrameOK(Cur), Cur.at = "erased" => erase # <<>>, Next
  PROVE  Lists'
<1>l. Lists
  BY TypedParts
<1>u. UNCHANGED <<erase, tagged>> => Lists'
  BY <1>l DEF Lists
<1>1. CASE Operate
  BY <1>1, <1>u, OperateIs
<1>2. CASE Operated
  BY <1>2, <1>l, OperatedIs DEF Lists
<1>3. CASE Finish
  BY <1>3, <1>u, FinishIs
<1>4. CASE CopyFile
  BY <1>4, <1>u, CopyFileIs DEF Replaces
<1>5. CASE Link
  BY <1>5, <1>u, LinkIs
<1>6. CASE Open
  BY <1>6, <1>u, OpenIs
<1>7. CASE Fill
  BY <1>7, <1>u, FillIs
<1>8. CASE Short
  BY <1>8, <1>u, ShortIs
<1>9. CASE CopyDir
  BY <1>9, <1>u, CopyDirIs
<1>10. CASE Entry
  BY <1>10, <1>u, EntryIs
<1>11. CASE CopiedEntry
  <2>1. Head(Cur.rest) \in Nodes
    BY <1>11, CopiedEntryIs, TopType, SeqHead
  <2>2. Append(erase, Head(Cur.rest)) \in Seq(Nodes)
    BY <1>l, <2>1 DEF Lists
  <2> QED  BY <1>11, <1>l, <2>2, CopiedEntryIs DEF Lists
<1>12. CASE MoveFile
  BY <1>12, <1>u, MoveFileIs DEF Replaces
<1>13. CASE Rename
  BY <1>13, <1>u, RenameIs
<1>14. CASE Copied
  BY <1>14, <1>u, CopiedIs
<1>15. CASE Remove
  BY <1>15, <1>u, RemoveIs
<1>16. CASE MoveDir
  BY <1>16, <1>u, MoveDirIs
<1>17. CASE DirCopied
  <2>1. <<>> \in Seq(Nodes)
    OBVIOUS
  <2> QED  BY <1>17, <1>l, <2>1, DirCopiedIs DEF Lists
<1>18. CASE Erasing
  BY <1>18, <1>u, ErasingIs
<1>19. CASE Erased
  <2>1. Tail(erase) \in Seq(Nodes)
    BY <1>19, <1>l, ErasedIs, SeqTail DEF Lists
  <2> QED  BY <1>19, <1>l, <2>1, ErasedIs DEF Lists
<1>20. CASE Moved
  <2>1. <<>> \in Seq(Nodes)
    OBVIOUS
  <2> QED  BY <1>20, <1>l, <2>1, MovedIs DEF Lists
<1>21. CASE EraseFile
  BY <1>21, <1>u, EraseFileIs
<1>22. CASE EraseIfEmpty
  BY <1>22, <1>u, EraseIfEmptyIs
<1>23. CASE EraseDir
  BY <1>23, <1>u, EraseDirIs
<1>24. CASE RecursiveErase
  BY <1>24, <1>u, RecursiveEraseIs
<1>25. CASE EraseEntry
  BY <1>25, <1>u, EraseEntryIs
<1>26. CASE ErasedEntry
  BY <1>26, <1>u, ErasedEntryIs
<1> QED
  BY <1>1, <1>2, <1>3, <1>4, <1>5, <1>6, <1>7, <1>8, <1>9, <1>10, <1>11, <1>12, <1>13,
     <1>14, <1>15, <1>16, <1>17, <1>18, <1>19, <1>20, <1>21, <1>22, <1>23, <1>24, <1>25,
     <1>26 DEF Next

\* Every step keeps all types.
LEMMA NextTyped ==
  ASSUME Typed, stack # <<>>, FrameOK(Cur), Cur.at = "erased" => erase # <<>>, Next
  PROVE  Typed' /\ opt' = opt
<1>1. opt' = opt
  <2>1. CASE Operate
    BY <2>1, OperateIs
  <2>2. CASE Operated
    BY <2>2, OperatedIs
  <2>3. CASE Finish
    BY <2>3, FinishIs
  <2>4. CASE CopyFile
    BY <2>4, CopyFileIs DEF Replaces
  <2>5. CASE Link
    BY <2>5, LinkIs
  <2>6. CASE Open
    BY <2>6, OpenIs
  <2>7. CASE Fill
    BY <2>7, FillIs
  <2>8. CASE Short
    BY <2>8, ShortIs
  <2>9. CASE CopyDir
    BY <2>9, CopyDirIs
  <2>10. CASE Entry
    BY <2>10, EntryIs
  <2>11. CASE CopiedEntry
    BY <2>11, CopiedEntryIs
  <2>12. CASE MoveFile
    BY <2>12, MoveFileIs DEF Replaces
  <2>13. CASE Rename
    BY <2>13, RenameIs
  <2>14. CASE Copied
    BY <2>14, CopiedIs
  <2>15. CASE Remove
    BY <2>15, RemoveIs
  <2>16. CASE MoveDir
    BY <2>16, MoveDirIs
  <2>17. CASE DirCopied
    BY <2>17, DirCopiedIs
  <2>18. CASE Erasing
    BY <2>18, ErasingIs
  <2>19. CASE Erased
    BY <2>19, ErasedIs
  <2>20. CASE Moved
    BY <2>20, MovedIs
  <2>21. CASE EraseFile
    BY <2>21, EraseFileIs
  <2>22. CASE EraseIfEmpty
    BY <2>22, EraseIfEmptyIs
  <2>23. CASE EraseDir
    BY <2>23, EraseDirIs
  <2>24. CASE RecursiveErase
    BY <2>24, RecursiveEraseIs
  <2>25. CASE EraseEntry
    BY <2>25, EraseEntryIs
  <2>26. CASE ErasedEntry
    BY <2>26, ErasedEntryIs
  <2> QED
    BY <2>1, <2>2, <2>3, <2>4, <2>5, <2>6, <2>7, <2>8, <2>9, <2>10, <2>11, <2>12,
       <2>13, <2>14, <2>15, <2>16, <2>17, <2>18, <2>19, <2>20, <2>21, <2>22, <2>23,
       <2>24, <2>25, <2>26 DEF Next
<1> QED
  BY <1>1, NextStack, StackTyped, NextCounts, NextDisk, NextAnswers, NextLists, TypedParts,
     TypedPartsNext
(***************************************************************************)
(* The shape of the call stack.                                            *)
(***************************************************************************)
\* points where a function waits for one it called
Waits == InList \cup {"copied", "dir_copied", "erased", "moved"}
\* f is a frame that waits for g
Calls(f, g) ==
  /\ f.at \in Waits
  /\ f.at \in InList => g.n = Head(f.rest)
  /\ f.at \in {"copied", "dir_copied", "moved"} => g.n = f.n
\* op, at depth k and with h the point of the function panel_operate has called, can be at a
Fits(op, k, h, a) ==
  /\ op = "copy" => a \in CopyFns
  /\ op = "delete" => a \in EraseDirFns \cup {"erase_file"}
  /\ op = "move" /\ k = 2 => a \in MoveFns
  /\ op = "move" /\ k # 2 =>
       \/ h = "dir_copied" /\ a \in CopyFns
       \/ h = "copied" /\ a \in CopyFileFns
       \/ h = "erased" /\ a \in {"erase_file", "erase_if_empty"}
       \/ h = "moved" /\ a = "erase_if_empty"

\* every frame is for a node of its kind
FramesOK == \A k \in 1..Depth : FrameOK(Level(k))
\* every function but the running one waits for the next
Linked == \A k \in 1..Depth - 1 : Calls(Level(k), Level(k + 1))
\* the functions that run are those of the operation
Fitting == \A k \in 2..Depth : Fits(opt.op, k, Level(2).at, Level(k).at)
\* The call stack is one the operation can produce.
Shape == FramesOK /\ (Depth >= 1 => Level(1).at \in Ends) /\ Linked /\ Fitting

\* two points of one function
SameFn(l, m) ==
  \E S \in {CopyFileFns, CopyDirFns, MoveFileFns, MoveDirFns, EraseDirFns, Ends} :
    l \in S /\ m \in S

\* Where one point of a function fits another one does.
LEMMA FitsSame ==
  ASSUME NEW op, NEW k, NEW h, NEW l, NEW m, SameFn(l, m), Fits(op, k, h, l)
  PROVE  Fits(op, k, h, m)
  BY DEF SameFn, Fits, CopyFns, MoveFns, CopyFileFns, CopyDirFns, MoveFileFns, MoveDirFns,
     EraseDirFns, Ends

\* A step within a function keeps the shape.
LEMMA ShapeGoes ==
  ASSUME Typed, Shape, stack # <<>>, NEW l, NEW q, NEW r, Goes(l, q, r), opt' = opt,
         SameFn(Cur.at, l), FrameOK(Cur')
  PROVE  Shape'
<1>1. Depth \in Nat /\ Depth >= 1 /\ Cur = Level(Depth)
  BY TopType
<1>2. /\ Depth' = Depth /\ Cur'.at = l /\ Cur'.n = Cur.n
      /\ \A k \in 1..Depth : Level(k)' = IF k = Depth THEN Cur' ELSE Level(k)
  BY DEF Goes, Made
<1>3. \A k \in 1..Depth : FrameOK(Level(k)')
  BY <1>2 DEF Shape, FramesOK
<1>4. Level(1)'.at \in Ends
  <2>1. Level(1).at \in Ends
    BY <1>1 DEF Shape
  <2>2. Depth = 1 => l \in Ends
    BY <1>1, <2>1 DEF SameFn, CopyFileFns, CopyDirFns, MoveFileFns, MoveDirFns,
       EraseDirFns, Ends
  <2>3. 1 \in 1..Depth
    BY <1>1
  <2> QED  BY <1>2, <2>1, <2>2, <2>3
<1>5. ASSUME NEW k \in 1..Depth - 1 PROVE Calls(Level(k)', Level(k + 1)')
  <2>1. Calls(Level(k), Level(k + 1))
    BY DEF Shape, Linked
  <2>2. k \in 1..Depth /\ k # Depth /\ k + 1 \in 1..Depth
    BY <1>1
  <2>3. Level(k)' = Level(k) /\ Level(k + 1)'.n = Level(k + 1).n
    BY <1>1, <1>2, <2>2
  <2> QED  BY <2>1, <2>3 DEF Calls
<1>6. ASSUME NEW k \in 2..Depth PROVE Fits(opt.op, k, Level(2)'.at, Level(k)'.at)
  <2>1. Fits(opt.op, k, Level(2).at, Level(k).at) /\ k \in 1..Depth /\ 2 \in 1..Depth
    BY <1>1 DEF Shape, Fitting
  <2>2. Fits(opt.op, k, Level(2).at, Level(k)'.at)
    BY <1>1, <1>2, <2>1, FitsSame
  <2>3. CASE Depth = 2
    <3>1. k = 2
      BY <2>3
    <3> QED  BY <2>2, <3>1 DEF Fits
  <2>4. CASE Depth # 2
    <3>1. Level(2)' = Level(2)
      BY <1>2, <2>1, <2>4
    <3> QED  BY <2>2, <3>1
  <2> QED  BY <2>3, <2>4
<1> QED  BY <1>2, <1>3, <1>4, <1>5, <1>6 DEF Shape, FramesOK, Linked, Fitting

\* A return keeps the shape.
LEMMA ShapeReturns ==
  ASSUME Typed, Shape, stack # <<>>, NEW s, Returns(s), opt' = opt
  PROVE  Shape'
<1>1. Depth \in Nat /\ Depth >= 1 /\ Cur = Level(Depth)
  BY TopType
<1>2. Depth' = Depth - 1 /\ \A k \in 1..Depth - 1 : Level(k)' = Level(k)
  BY DEF Returns
<1>3. \A k \in 1..Depth - 1 : FrameOK(Level(k)')
  BY <1>1, <1>2 DEF Shape, FramesOK
<1>4. Depth - 1 >= 1 => Level(1)'.at \in Ends
  BY <1>1, <1>2 DEF Shape
<1>5. ASSUME NEW k \in 1..Depth - 1 - 1 PROVE Calls(Level(k)', Level(k + 1)')
  <2>1. k \in 1..Depth - 1 /\ k + 1 \in 1..Depth - 1
    BY <1>1
  <2> QED  BY <1>2, <2>1 DEF Shape, Linked
<1>6. ASSUME NEW k \in 2..Depth - 1 PROVE Fits(opt.op, k, Level(2)'.at, Level(k)'.at)
  <2>1. k \in 1..Depth - 1 /\ 2 \in 1..Depth - 1 /\ k \in 2..Depth
    BY <1>1
  <2> QED  BY <1>2, <2>1 DEF Shape, Fitting
<1> QED  BY <1>2, <1>3, <1>4, <1>5, <1>6 DEF Shape, FramesOK, Linked, Fitting

\* A call that fits keeps the shape.
LEMMA ShapeEnters ==
  ASSUME Typed, Shape, stack # <<>>, NEW l, NEW f, NEW n, NEW a, Enters(l, f, n, a), opt' = opt,
         SameFn(Cur.at, l), l \in Waits, FrameOK(Cur'),
         l \in InList => Cur.rest # <<>> /\ n = Head(Cur.rest),
         l \in {"copied", "dir_copied", "moved"} => n = Cur.n,
         \A h : (Depth = 1 => h = f) /\ (Depth = 2 => h = l) /\ (Depth > 2 => h = Level(2).at)
                 => Fits(opt.op, Depth + 1, h, f)
  PROVE  Shape'
<1>1. Depth \in Nat /\ Depth >= 1 /\ Cur = Level(Depth)
  BY TopType
<1>2. PICK g \in Frame :
        /\ Made(g, l, Cur.n, Cur.rest, Cur.rs, Cur.ask)
        /\ \A k \in 1..Depth + 1 :
             Level(k)' = IF k = Depth + 1 THEN Cur' ELSE IF k = Depth THEN g ELSE Level(k)
  BY DEF Enters
<1>3. /\ Depth' = Depth + 1 /\ Cur'.at = f /\ Cur'.n = n
      /\ g.at = l /\ g.n = Cur.n /\ g.rest = Cur.rest /\ g.rs = Cur.rs
  BY <1>2 DEF Enters, Made
<1>4. FrameOK(g)
  <2>1. FrameOK(Cur)
    BY <1>1 DEF Shape, FramesOK
  <2>2. l # "short"
    BY DEF Waits, InList
  <2> QED  BY <1>3, <2>1, <2>2 DEF FrameOK, SameFn, FileFns, DirFns, CopyFileFns, CopyDirFns,
           MoveFileFns, MoveDirFns, EraseDirFns, Ends
<1>6. ASSUME NEW k \in 1..Depth + 1 PROVE FrameOK(Level(k)')
  BY <1>1, <1>2, <1>4 DEF Shape, FramesOK
<1>7. Level(1)'.at \in Ends
  <2>1. Level(1).at \in Ends /\ 1 \in 1..Depth + 1
    BY <1>1 DEF Shape
  <2>2. Depth = 1 => l \in Ends
    BY <1>1, <2>1 DEF SameFn, CopyFileFns, CopyDirFns, MoveFileFns, MoveDirFns,
       EraseDirFns, Ends
  <2> QED  BY <1>1, <1>2, <1>3, <2>1, <2>2
<1>8. ASSUME NEW k \in 1..Depth PROVE Calls(Level(k)', Level(k + 1)')
  <2>0. k \in 1..Depth + 1 /\ k + 1 \in 1..Depth + 1 /\ k # Depth + 1
    BY <1>1
  <2>1. CASE k = Depth
    <3>1. Level(k)' = g /\ Level(k + 1)' = Cur'
      BY <1>2, <2>0, <2>1
    <3> QED  BY <1>3, <3>1 DEF Calls
  <2>2. CASE k # Depth
    <3>1. Level(k)' = Level(k) /\ Calls(Level(k), Level(k + 1)) /\ k + 1 # Depth + 1
      BY <1>1, <1>2, <2>0, <2>2 DEF Shape, Linked
    <3>2. Level(k + 1)'.n = Level(k + 1).n
      BY <1>1, <1>2, <1>3, <2>0, <3>1
    <3> QED  BY <3>1, <3>2 DEF Calls
  <2> QED  BY <2>1, <2>2
<1>9. ASSUME NEW k \in 2..Depth + 1 PROVE Fits(opt.op, k, Level(2)'.at, Level(k)'.at)
  <2>0. k \in 1..Depth + 1 /\ 2 \in 1..Depth + 1
    BY <1>1
  <2>1. CASE k = Depth + 1
    <3>1. /\ Level(k)' = Cur'
          /\ Level(2)' = IF Depth = 1 THEN Cur' ELSE IF Depth = 2 THEN g ELSE Level(2)
      BY <1>1, <1>2, <2>0, <2>1
    <3> QED  BY <1>1, <1>3, <2>1, <3>1
  <2>2. CASE k # Depth + 1
    <3>1. k \in 2..Depth /\ Depth >= 2
      BY <1>1, <2>2
    <3>2. Fits(opt.op, k, Level(2).at, Level(k).at)
      BY <3>1 DEF Shape, Fitting
    <3>3. Fits(opt.op, k, Level(2).at, Level(k)'.at)
      BY <1>1, <1>2, <1>3, <2>0, <2>2, <3>2, FitsSame
    <3>4. CASE Depth = 2
      <4>1. k = 2
        BY <3>1, <3>4
      <4> QED  BY <3>3, <4>1 DEF Fits
    <3>5. CASE Depth # 2
      <4>1. Level(2)' = Level(2)
        BY <1>1, <1>2, <2>0, <3>1, <3>5
      <4> QED  BY <3>3, <4>1
    <3> QED  BY <3>4, <3>5
  <2> QED  BY <2>1, <2>2
<1>10. 1..Depth' = 1..Depth + 1 /\ 1..Depth' - 1 = 1..Depth /\ 2..Depth' = 2..Depth + 1
  BY <1>1, <1>3
<1>11. FramesOK'
  BY <1>6, <1>10 DEF FramesOK
<1>12. Linked'
  BY <1>8, <1>10 DEF Linked
<1>13. Fitting'
  BY <1>9, <1>10 DEF Fitting
<1> QED  BY <1>7, <1>11, <1>12, <1>13 DEF Shape

\* Which points follow each other in a function.
LEMMA Families ==
  /\ SameFn("operate", "operated") /\ SameFn("operated", "operate")
  /\ SameFn("copy_file", "link") /\ SameFn("link", "open") /\ SameFn("open", "fill")
  /\ SameFn("fill", "short") /\ SameFn("copy_dir", "copy_dir") /\ SameFn("copy_dir", "entry")
  /\ SameFn("entry", "copied_entry") /\ SameFn("copied_entry", "entry")
  /\ SameFn("move_file", "rename") /\ SameFn("rename", "copied") /\ SameFn("copied", "remove")
  /\ SameFn("remove", "remove") /\ SameFn("move_dir", "dir_copied")
  /\ SameFn("dir_copied", "erasing") /\ SameFn("erasing", "erased") /\ SameFn("erasing", "moved")
  /\ SameFn("erased", "erasing") /\ SameFn("erase_dir", "recursive_erase")
  /\ SameFn("recursive_erase", "erase_entry") /\ SameFn("erase_entry", "erased_entry")
  /\ SameFn("erased_entry", "erase_entry")
  BY DEF SameFn, CopyFileFns, CopyDirFns, MoveFileFns, MoveDirFns, EraseDirFns, Ends

\* What is left of separate entries is separate.
LEMMA SeparateParts ==
  /\ Separate(<<>>)
  /\ \A q \in Seq(Nodes) : Separate(q) /\ q # <<>> => Separate(Tail(q))
<1>1. Separate(<<>>)
  BY DEF Separate
<1>2. ASSUME NEW q \in Seq(Nodes), Separate(q), q # <<>> PROVE Separate(Tail(q))
  <2> DEFINE p == Tail(q)
  <2>1. /\ p \in Seq(Nodes) /\ Len(p) = Len(q) - 1 /\ Len(q) \in Nat
        /\ \A i \in 1..Len(q) - 1 : p[i] = q[i + 1]
    BY <1>2, SeqTail, SeqHead
  <2>2. DOMAIN p = 1..Len(q) - 1 /\ DOMAIN q = 1..Len(q)
    BY <2>1
  <2> HIDE DEF p
  <2>3. ASSUME NEW i \in DOMAIN p, NEW j \in DOMAIN p, i # j
        PROVE  Sub[p[i]] \cap Sub[p[j]] = {}
    <3>1. i + 1 \in DOMAIN q /\ j + 1 \in DOMAIN q /\ i + 1 # j + 1
      BY <2>1, <2>2, <2>3
    <3>2. p[i] = q[i + 1] /\ p[j] = q[j + 1]
      BY <2>1, <2>2
    <3> QED  BY <1>2, <3>1, <3>2 DEF Separate
  <2>4. Separate(p)
    BY <2>3 DEF Separate
  <2> QED  BY <2>4 DEF p
<1> QED  BY <1>1, <1>2

\* The steps within a function that the actions take keep the shape.
LEMMA GoesKeepsShape ==
  ASSUME Typed, Shape, stack # <<>>, NEW l, NEW q, NEW r, Goes(l, q, r), opt' = opt,
         SameFn(Cur.at, l), Separate(q), l \notin InList, l = "short" => r \in {"skip", "abort"}
  PROVE  Shape'
<1>1. FrameOK(Cur)
  BY TopType DEF Shape, FramesOK
<1>2. Cur'.at = l /\ Cur'.n = Cur.n /\ Cur'.rest = q /\ Cur'.rs = r
  BY DEF Goes, Made
<1>3. FrameOK(Cur')
  BY <1>1, <1>2 DEF FrameOK, SameFn, FileFns, DirFns, CopyFileFns, CopyDirFns,
     MoveFileFns, MoveDirFns, EraseDirFns, Ends
<1> QED  BY <1>3, ShapeGoes

\* The calls that the actions make keep the shape.
LEMMA EntersKeepsShape ==
  ASSUME Typed, Shape, stack # <<>>, NEW l, NEW f, NEW n, NEW a, Enters(l, f, n, a), opt' = opt,
         SameFn(Cur.at, l), l \in Waits,
         l \in InList => Cur.rest # <<>> /\ n = Head(Cur.rest),
         l \in {"copied", "dir_copied", "moved"} => n = Cur.n,
         \/ f \in {"copy_file", "move_file", "erase_file"} /\ n \in Files
         \/ /\ f \in {"copy_dir", "move_dir", "erase_dir", "erase_if_empty", "recursive_erase"}
            /\ n \in Dirs,
         \A h : (Depth = 1 => h = f) /\ (Depth = 2 => h = l) /\ (Depth > 2 => h = Level(2).at)
                 => Fits(opt.op, Depth + 1, h, f)
  PROVE  Shape'
<1>1. Cur'.at = f /\ Cur'.n = n /\ Cur'.rest = <<>> /\ Cur'.rs = "cont"
  BY DEF Enters, Made
<1>2. Separate(<<>>)
  BY SeparateParts
<1>3. FrameOK(Cur')
  BY <1>1, <1>2 DEF FrameOK, FileFns, DirFns, CopyFileFns, CopyDirFns,
     MoveFileFns, MoveDirFns, EraseDirFns, Ends, InList
<1> QED  BY <1>3, ShapeEnters

\* What the shape says of the running function: which operation it belongs to, and how deep.
LEMMA Places ==
  ASSUME Typed, Shape, stack # <<>>
  PROVE  /\ FrameOK(Cur)
         /\ Cur.at \in Ends <=> Depth = 1
         /\ Depth >= 2 => Calls(Level(Depth - 1), Cur)
         /\ Cur.at \in MoveFns => Depth = 2 /\ opt.op = "move"
         /\ Cur.at \in CopyFns =>
              \/ opt.op = "copy"
              \/ /\ opt.op = "move" /\ Depth > 2
                 /\ Level(2).at = "dir_copied" \/ (Level(2).at = "copied" /\ Cur.at \in CopyFileFns)
         /\ Cur.at \in EraseDirFns => opt.op = "delete"
         /\ Cur.at = "erase_file" =>
              \/ opt.op = "delete"
              \/ opt.op = "move" /\ Depth > 2 /\ Level(2).at = "erased"
         /\ Cur.at = "erase_if_empty" =>
              opt.op = "move" /\ Depth > 2 /\ Level(2).at \in {"erased", "moved"}
         /\ opt.op \in {"copy", "move", "delete"}
<1>1. Depth \in Nat /\ Depth >= 1 /\ Cur = Level(Depth)
  BY TopType
<1>2. Depth \in 1..Depth /\ FrameOK(Cur)
  BY <1>1 DEF Shape, FramesOK
<1>3. Depth >= 2 => Calls(Level(Depth - 1), Cur)
  <2>1. Depth >= 2 => Depth - 1 \in 1..Depth - 1 /\ (Depth - 1) + 1 = Depth
    BY <1>1
  <2>2. Depth >= 2 => Calls(Level(Depth - 1), Level(Depth - 1 + 1))
    BY <2>1 DEF Shape, Linked
  <2> QED  BY <1>1, <2>1, <2>2
<1>4. Depth >= 2 => Fits(opt.op, Depth, Level(2).at, Cur.at)
  BY <1>1 DEF Shape, Fitting
<1>5. Depth = 1 => Cur.at \in Ends
  BY <1>1 DEF Shape
<1>6. opt.op \in {"copy", "move", "delete"}
  BY Assumed DEF Typed
<1>7. Depth = 1 \/ Depth = 2 \/ Depth > 2
  BY <1>1
<1>8. Cur.at \in Ends <=> Depth = 1
  BY <1>1, <1>4, <1>5, <1>6 DEF Fits, CopyFns, MoveFns, CopyFileFns, CopyDirFns, MoveFileFns,
     MoveDirFns, EraseDirFns, Ends
<1>9. Depth = 2 /\ opt.op = "move" => Cur.at \in MoveFns
  BY <1>1, <1>4 DEF Fits
<1>10. /\ Depth # 1 /\ opt.op = "copy" => Cur.at \in CopyFns
       /\ Depth # 1 /\ opt.op = "delete" => Cur.at \in EraseDirFns \cup {"erase_file"}
       /\ Depth > 2 /\ opt.op = "move" =>
            \/ Level(2).at = "dir_copied" /\ Cur.at \in CopyFns
            \/ Level(2).at = "copied" /\ Cur.at \in CopyFileFns
            \/ Level(2).at = "erased" /\ Cur.at \in {"erase_file", "erase_if_empty"}
            \/ Level(2).at = "moved" /\ Cur.at = "erase_if_empty"
  BY <1>1, <1>4 DEF Fits
<1>11. Depth = 1 => Cur.at \notin CopyFns \cup MoveFns \cup EraseDirFns \cup {"erase_file", "erase_if_empty"}
  BY <1>5 DEF CopyFns, MoveFns, CopyFileFns, CopyDirFns, MoveFileFns, MoveDirFns,
     EraseDirFns, Ends
<1>12. /\ CopyFns \cap MoveFns = {} /\ CopyFns \cap EraseDirFns = {} /\ MoveFns \cap EraseDirFns = {}
       /\ {"erase_file", "erase_if_empty"} \cap (CopyFns \cup MoveFns \cup EraseDirFns) = {}
       /\ CopyFileFns \subseteq CopyFns
  BY DEF CopyFns, MoveFns, CopyFileFns, CopyDirFns, MoveFileFns, MoveDirFns, EraseDirFns
<1>13. Cur.at \in MoveFns => Depth = 2 /\ opt.op = "move"
  BY <1>1, <1>6, <1>7, <1>10, <1>11, <1>12
<1>14. Cur.at \in CopyFns =>
              \/ opt.op = "copy"
              \/ /\ opt.op = "move" /\ Depth > 2
                 /\ Level(2).at = "dir_copied" \/ (Level(2).at = "copied" /\ Cur.at \in CopyFileFns)
  BY <1>1, <1>6, <1>7, <1>9, <1>10, <1>11, <1>12
<1>15. Cur.at \in EraseDirFns => opt.op = "delete"
  BY <1>1, <1>6, <1>7, <1>9, <1>10, <1>11, <1>12
<1>16. Cur.at = "erase_file" =>
              \/ opt.op = "delete"
              \/ opt.op = "move" /\ Depth > 2 /\ Level(2).at = "erased"
  BY <1>1, <1>6, <1>7, <1>9, <1>10, <1>11, <1>12
<1>17. Cur.at = "erase_if_empty" =>
              opt.op = "move" /\ Depth > 2 /\ Level(2).at \in {"erased", "moved"}
  BY <1>1, <1>6, <1>7, <1>9, <1>10, <1>11, <1>12
<1> QED  BY <1>2, <1>3, <1>6, <1>8, <1>13, <1>14, <1>15, <1>16, <1>17

\* Every step keeps the shape of the stack.
LEMMA NextShape ==
  ASSUME Typed, Shape, Next
  PROVE  Shape'
<1>0. stack # <<>> /\ FrameOK(Cur)
  BY NextRuns, Places
<1>t. Depth \in Nat /\ Depth >= 1 /\ Cur.rest \in Seq(Nodes) /\ Separate(Cur.rest)
  BY <1>0, TopType DEF FrameOK
<1>r. (\E s : Returns(s)) /\ opt' = opt => Shape'
  BY <1>0, ShapeReturns
<1>f. (FailsNow \/ AbortNow) /\ opt' = opt => Shape'
  BY <1>r, FailsReturns
<1>g. ASSUME NEW l, NEW r, Goes(l, Cur.rest, r), opt' = opt, SameFn(Cur.at, l), l \notin InList,
             l = "short" => r \in {"skip", "abort"}
      PROVE  Shape'
  BY <1>0, <1>t, <1>g, GoesKeepsShape
<1>1. CASE Operate
  <2>1. PICK f, n : /\ Cur.at = "operate" /\ Cur.rest # <<>> /\ n = Head(Cur.rest) /\ n \in Nodes
                    /\ Enters("operated", f, n, TRUE) /\ opt' = opt
                    /\ f = CASE opt.op = "delete" -> IF n \in Dirs THEN "erase_dir" ELSE "erase_file"
                             [] opt.op = "copy" -> IF n \in Dirs THEN "copy_dir" ELSE "copy_file"
                             [] opt.op = "move" -> IF n \in Dirs THEN "move_dir" ELSE "move_file"
    BY <1>1, OperateIs
  <2>2. Depth = 1 /\ opt.op \in {"copy", "move", "delete"}
    BY <1>0, <2>1, Places DEF Ends
  <2>3. n \in Dirs \/ n \in Files
    BY <2>1, FilesAreNodes
  <2>4. \/ f \in {"copy_file", "move_file", "erase_file"} /\ n \in Files
        \/ f \in {"copy_dir", "move_dir", "erase_dir"} /\ n \in Dirs
    BY <2>1, <2>2, <2>3
  <2>5. \A h : Fits(opt.op, Depth + 1, h, f)
    BY <2>1, <2>2 DEF Fits, CopyFns, MoveFns, CopyFileFns, CopyDirFns, MoveFileFns, MoveDirFns,
       EraseDirFns
  <2>6. SameFn(Cur.at, "operated") /\ "operated" \in Waits
    BY <2>1, Families DEF Waits, InList
  <2> QED  BY <1>0, <2>1, <2>4, <2>5, <2>6, EntersKeepsShape
<1>2. CASE Operated
  <2>1. Goes("operate", Tail(Cur.rest), Cur.rs) => Shape'
    BY <1>2, <1>0, <1>t, OperatedIs, SeparateParts, Families, GoesKeepsShape DEF InList
  <2> QED  BY <1>2, <1>0, <1>r, <1>f, <2>1, OperatedIs
<1>3. CASE Finish
  BY <1>3, <1>r, <1>f, FinishIs
<1>4. CASE CopyFile
  <2>1. Goes("link", Cur.rest, Cur.rs) /\ opt' = opt => Shape'
    BY <1>4, <1>g, CopyFileIs, Families DEF InList
  <2> QED  BY <1>4, <1>r, <1>f, <2>1, CopyFileIs DEF Replaces
<1>5. CASE Link
  <2>1. \A r : Goes("open", Cur.rest, r) /\ opt' = opt => Shape'
    BY <1>5, <1>g, LinkIs, Families DEF InList
  <2> QED  BY <1>5, <1>r, <1>f, <2>1, LinkIs
<1>6. CASE Open
  <2>1. \A r : Goes("fill", Cur.rest, r) /\ opt' = opt => Shape'
    BY <1>6, <1>g, OpenIs, Families DEF InList
  <2> QED  BY <1>6, <1>r, <1>f, <2>1, OpenIs
<1>7. CASE Fill
  <2>1. \A r \in {"skip", "abort"} : Goes("short", Cur.rest, r) /\ opt' = opt => Shape'
    BY <1>7, <1>g, FillIs, Families DEF InList
  <2> QED  BY <1>7, <1>r, <1>f, <2>1, FillIs
<1>8. CASE Short
  BY <1>8, <1>r, <1>f, ShortIs
<1>9. CASE CopyDir
  <2>1. Goes("copy_dir", Cur.rest, "retry") /\ opt' = opt => Shape'
    BY <1>9, <1>0, <1>g, CopyDirIs, Families DEF InList
  <2>2. ASSUME NEW q, Listing(q, Cur.n), Goes("entry", q, Cur.rs), opt' = opt PROVE Shape'
    BY <1>9, <1>0, <2>2, CopyDirIs, Families, GoesKeepsShape DEF InList, Listing
  <2> QED  BY <1>9, <1>0, <1>f, <2>1, <2>2, CopyDirIs
<1>10. CASE Entry
  <2>1. CASE Returns(Cur.rs)
    BY <1>10, <1>r, <2>1, EntryIs
  <2>2. CASE ~Returns(Cur.rs)
    <3>1. PICK f, n : /\ Cur.at = "entry" /\ Cur.rest # <<>> /\ n = Head(Cur.rest) /\ n \in Nodes
                      /\ f = IF n \in Dirs THEN "copy_dir" ELSE "copy_file"
                      /\ Enters("copied_entry", f, n, TRUE) /\ opt' = opt
      BY <1>10, <2>2, EntryIs
    <3>2. \/ f = "copy_file" /\ n \in Files
          \/ f = "copy_dir" /\ n \in Dirs
      BY <3>1, FilesAreNodes
    <3>3. Cur.at \in CopyFns /\ Cur.at \notin CopyFileFns /\ f \in CopyFns
      BY <3>1, <3>2 DEF CopyFns, CopyFileFns, CopyDirFns
    <3>4. opt.op = "copy" \/ (opt.op = "move" /\ Depth > 2 /\ Level(2).at = "dir_copied")
      BY <1>0, <3>3, Places
    <3>5. \A h : (Depth = 1 => h = f) /\ (Depth = 2 => h = "copied_entry")
                  /\ (Depth > 2 => h = Level(2).at) => Fits(opt.op, Depth + 1, h, f)
      BY <1>t, <3>3, <3>4 DEF Fits
    <3>6. SameFn(Cur.at, "copied_entry") /\ "copied_entry" \in Waits
      BY <3>1, Families DEF Waits, InList
    <3>7. "copied_entry" \notin {"copied", "dir_copied", "moved"}
      OBVIOUS
    <3> QED  BY <1>0, <3>1, <3>2, <3>5, <3>6, <3>7, EntersKeepsShape
  <2> QED  BY <2>1, <2>2
<1>11. CASE CopiedEntry
  <2>1. /\ Cur.rest # <<>> /\ opt' = opt /\ SameFn(Cur.at, "entry")
        /\ \E r : Goes("entry", Tail(Cur.rest), r)
    BY <1>11, <1>0, CopiedEntryIs, Families
  <2>2. Separate(Tail(Cur.rest)) /\ "entry" \notin InList
    BY <1>t, <2>1, SeparateParts DEF InList
  <2> QED  BY <1>0, <2>1, <2>2, GoesKeepsShape
<1>12. CASE MoveFile
  <2>1. Goes("rename", Cur.rest, Cur.rs) /\ opt' = opt => Shape'
    BY <1>12, <1>g, MoveFileIs, Families DEF InList
  <2> QED  BY <1>12, <1>r, <1>f, <2>1, MoveFileIs DEF Replaces
<1>13. CASE Rename
  <2>1. CASE Enters("copied", "copy_file", Cur.n, FALSE)
    <3>1. Cur.at = "rename" /\ opt' = opt
      BY <1>13, RenameIs
    <3>2. Cur.n \in Files /\ Cur.at \in MoveFns
      BY <1>0, <3>1, FileFrames DEF MoveFns, MoveFileFns, MoveDirFns
    <3>3. Depth = 2 /\ opt.op = "move"
      BY <1>0, <3>2, Places
    <3>4. Fits(opt.op, Depth + 1, "copied", "copy_file")
      BY <3>3 DEF Fits, CopyFns, CopyFileFns, CopyDirFns
    <3>5. SameFn(Cur.at, "copied") /\ "copied" \in Waits /\ "copied" \notin InList
      BY <3>1, Families DEF Waits, InList
    <3> QED  BY <1>0, <2>1, <3>1, <3>2, <3>3, <3>4, <3>5, EntersKeepsShape
  <2> QED  BY <1>13, <1>r, <1>f, <2>1, RenameIs
<1>14. CASE Copied
  <2>1. \A r : Goes("remove", Cur.rest, r) /\ opt' = opt => Shape'
    BY <1>14, <1>g, CopiedIs, Families DEF InList
  <2> QED  BY <1>14, <1>r, <1>f, <2>1, CopiedIs
<1>15. CASE Remove
  <2>1. \A r : Goes("remove", Cur.rest, r) /\ opt' = opt => Shape'
    BY <1>15, <1>g, RemoveIs, Families DEF InList
  <2> QED  BY <1>15, <1>r, <1>f, <2>1, RemoveIs
<1>16. CASE MoveDir
  <2>1. CASE Enters("dir_copied", "copy_dir", Cur.n, TRUE)
    <3>1. Cur.at = "move_dir" /\ opt' = opt
      BY <1>16, MoveDirIs
    <3>2. Cur.n \in Dirs /\ Cur.at \in MoveFns
      BY <1>0, <3>1, FileFrames DEF MoveFns, MoveFileFns, MoveDirFns
    <3>3. Depth = 2 /\ opt.op = "move"
      BY <1>0, <3>2, Places
    <3>4. Fits(opt.op, Depth + 1, "dir_copied", "copy_dir")
      BY <3>3 DEF Fits, CopyFns, CopyFileFns, CopyDirFns
    <3>5. SameFn(Cur.at, "dir_copied") /\ "dir_copied" \in Waits /\ "dir_copied" \notin InList
      BY <3>1, Families DEF Waits, InList
    <3> QED  BY <1>0, <2>1, <3>1, <3>2, <3>3, <3>4, <3>5, EntersKeepsShape
  <2> QED  BY <1>16, <1>r, <1>f, <2>1, MoveDirIs
<1>17. CASE DirCopied
  <2>1. \A r : Goes("erasing", Cur.rest, r) /\ opt' = opt => Shape'
    BY <1>17, <1>g, DirCopiedIs, Families DEF InList
  <2> QED  BY <1>17, <1>r, <1>f, <2>1, DirCopiedIs
<1>18. CASE Erasing
  <2>1. CASE Enters("moved", "erase_if_empty", Cur.n, TRUE)
    <3>1. Cur.at = "erasing" /\ opt' = opt
      BY <1>18, ErasingIs
    <3>2. Cur.n \in Dirs /\ Cur.at \in MoveFns
      BY <1>0, <3>1, FileFrames DEF MoveFns, MoveFileFns, MoveDirFns
    <3>3. Depth = 2 /\ opt.op = "move"
      BY <1>0, <3>2, Places
    <3>4. Fits(opt.op, Depth + 1, "moved", "erase_if_empty")
      BY <3>3 DEF Fits, CopyFns, CopyFileFns, CopyDirFns
    <3>5. SameFn(Cur.at, "moved") /\ "moved" \in Waits /\ "moved" \notin InList
      BY <3>1, Families DEF Waits, InList
    <3> QED  BY <1>0, <2>1, <3>1, <3>2, <3>3, <3>4, <3>5, EntersKeepsShape
  <2>2. CASE ~Enters("moved", "erase_if_empty", Cur.n, TRUE)
    <3>1. PICK f, n : /\ Cur.at = "erasing" /\ n \in Nodes /\ opt' = opt
                      /\ f = IF n \in Dirs THEN "erase_if_empty" ELSE "erase_file"
                      /\ Enters("erased", f, n, TRUE)
      BY <1>18, <2>2, ErasingIs
    <3>2. (f = "erase_file" /\ n \in Files) \/ (f = "erase_if_empty" /\ n \in Dirs)
      BY <3>1, FilesAreNodes
    <3>3. Depth = 2 /\ opt.op = "move"
      BY <1>0, <3>1, Places DEF MoveFns, MoveDirFns
    <3>4. Fits(opt.op, Depth + 1, "erased", f)
      BY <3>2, <3>3 DEF Fits
    <3>5. SameFn(Cur.at, "erased") /\ "erased" \in Waits /\ "erased" \notin InList
      BY <3>1, Families DEF Waits, InList
    <3> QED  BY <1>0, <3>1, <3>2, <3>3, <3>4, <3>5, EntersKeepsShape
  <2> QED  BY <2>1, <2>2
<1>19. CASE Erased
  <2>1. \A r : Goes("erasing", Cur.rest, r) /\ opt' = opt => Shape'
    BY <1>19, <1>g, ErasedIs, Families DEF InList
  <2> QED  BY <1>19, <1>r, <1>f, <2>1, ErasedIs
<1>20. CASE Moved
  BY <1>20, <1>r, <1>f, MovedIs
<1>21. CASE EraseFile
  BY <1>21, <1>r, <1>f, EraseFileIs
<1>22. CASE EraseIfEmpty
  BY <1>22, <1>r, <1>f, EraseIfEmptyIs
<1>23. CASE EraseDir
  <2>1. Goes("recursive_erase", <<>>, "cont") /\ opt' = opt => Shape'
    BY <1>23, <1>0, EraseDirIs, SeparateParts, Families, GoesKeepsShape DEF InList
  <2> QED  BY <1>23, <1>r, <1>f, <2>1, EraseDirIs
<1>24. CASE RecursiveErase
  <2>1. ASSUME NEW q, Listing(q, Cur.n), Goes("erase_entry", q, Cur.rs), opt' = opt
        PROVE  Shape'
    BY <1>24, <1>0, <2>1, RecursiveEraseIs, Families, GoesKeepsShape DEF InList, Listing
  <2> QED  BY <1>24, <1>0, <1>r, <2>1, RecursiveEraseIs
<1>25. CASE EraseEntry
  <2>1. CASE Cur.rest # <<>> /\ Head(Cur.rest) \in Nodes
             /\ Enters("erased_entry",
                       IF Head(Cur.rest) \in Dirs THEN "recursive_erase" ELSE "erase_file",
                       Head(Cur.rest), TRUE)
    <3>1. PICK f, n : /\ Cur.at = "erase_entry" /\ n = Head(Cur.rest) /\ n \in Nodes /\ opt' = opt
                      /\ f = IF n \in Dirs THEN "recursive_erase" ELSE "erase_file"
                      /\ Enters("erased_entry", f, n, TRUE)
      BY <1>25, <2>1, EraseEntryIs
    <3>2. (f = "erase_file" /\ n \in Files) \/ (f = "recursive_erase" /\ n \in Dirs)
      BY <3>1, FilesAreNodes
    <3>3. Cur.at \in EraseDirFns /\ f \in EraseDirFns \cup {"erase_file"}
      BY <3>1, <3>2 DEF EraseDirFns
    <3>4. \A h : Fits(opt.op, Depth + 1, h, f)
      BY <1>0, <3>3, Places DEF Fits
    <3>5. SameFn(Cur.at, "erased_entry") /\ "erased_entry" \in Waits
      BY <3>1, Families DEF Waits, InList
    <3>6. "erased_entry" \notin {"copied", "dir_copied", "moved"}
      OBVIOUS
    <3> QED  BY <1>0, <2>1, <3>1, <3>2, <3>4, <3>5, <3>6, EntersKeepsShape
  <2> QED  BY <1>25, <1>r, <1>f, <2>1, EraseEntryIs
<1>26. CASE ErasedEntry
  <2>1. /\ Cur.rest # <<>> /\ opt' = opt /\ SameFn(Cur.at, "erase_entry")
        /\ \E r : Goes("erase_entry", Tail(Cur.rest), r)
    BY <1>26, <1>0, ErasedEntryIs, Families
  <2>2. Separate(Tail(Cur.rest)) /\ "erase_entry" \notin InList
    BY <1>t, <2>1, SeparateParts DEF InList
  <2> QED  BY <1>0, <2>1, <2>2, GoesKeepsShape
<1> QED
  BY <1>1, <1>2, <1>3, <1>4, <1>5, <1>6, <1>7, <1>8, <1>9, <1>10, <1>11, <1>12, <1>13,
     <1>14, <1>15, <1>16, <1>17, <1>18, <1>19, <1>20, <1>21, <1>22, <1>23, <1>24, <1>25,
     <1>26 DEF Next

(***************************************************************************)
(* The list of what to erase.                                              *)
(***************************************************************************)
\* points at which erase_list may hold entries
Erasers == {"dir_copied", "erasing", "erased", "moved"}
\* erase_list holds entries only for the directory at depth 2, and erased waits for its head.
ListInv ==
  /\ erase # <<>> => Depth >= 2 /\ opt.op = "move" /\ Level(2).at \in Erasers
  /\ Depth >= 2 /\ Level(2).at = "erased" => erase # <<>>
  /\ Depth > 2 /\ Level(2).at = "erased" => Level(3).n = Head(erase)

\* A step within a function that leaves erase_list alone keeps ListInv.
LEMMA ListGoes ==
  ASSUME Typed, stack # <<>>, ListInv, NEW l, NEW q, NEW r, Goes(l, q, r),
         UNCHANGED <<opt, erase>>,
         Depth = 2 => l # "erased" /\ (Cur.at \in Erasers => l \in Erasers)
  PROVE  ListInv'
<1>1. Depth \in Nat /\ Depth >= 1 /\ Cur = Level(Depth)
  BY TopType
<1>2. /\ Depth' = Depth /\ Cur'.at = l /\ Cur'.n = Cur.n
      /\ \A k \in 1..Depth : Level(k)' = IF k = Depth THEN Cur' ELSE Level(k)
  BY DEF Goes, Made
<1>3. Depth >= 2 => Level(2)' = IF 2 = Depth THEN Cur' ELSE Level(2)
  BY <1>1, <1>2
<1>4. Depth > 2 => Level(3)'.n = Level(3).n
  <2>1. Depth > 2 => Level(3)' = IF 3 = Depth THEN Cur' ELSE Level(3)
    BY <1>1, <1>2
  <2> QED  BY <1>1, <1>2, <2>1
<1> QED  BY <1>1, <1>2, <1>3, <1>4 DEF ListInv

\* So does a return.
LEMMA ListReturns ==
  ASSUME Typed, stack # <<>>, ListInv, NEW s, Returns(s), opt' = opt,
         (erase' = erase /\ (Depth = 2 => Cur.at \notin Erasers)) \/ (erase' = <<>> /\ Depth = 2)
  PROVE  ListInv'
<1>1. Depth \in Nat /\ Depth >= 1 /\ Cur = Level(Depth)
  BY TopType
<1>2. Depth' = Depth - 1 /\ \A k \in 1..Depth - 1 : Level(k)' = Level(k)
  BY DEF Returns
<1>3. /\ Depth - 1 >= 2 => Level(2)' = Level(2)
      /\ Depth - 1 > 2 => Level(3)' = Level(3)
  BY <1>1, <1>2
<1> QED  BY <1>1, <1>2, <1>3 DEF ListInv

\* So does a call.
LEMMA ListEnters ==
  ASSUME Typed, stack # <<>>, ListInv, NEW l, NEW f, NEW n, NEW a, Enters(l, f, n, a),
         UNCHANGED <<opt, erase>>, f \notin Erasers,
         Depth = 1 => Cur.at \notin Erasers,
         Depth = 2 => /\ l = "erased" => erase # <<>> /\ n = Head(erase)
                      /\ Cur.at \in Erasers => l \in Erasers
  PROVE  ListInv'
<1>1. Depth \in Nat /\ Depth >= 1 /\ Cur = Level(Depth)
  BY TopType
<1>2. PICK g \in Frame :
        /\ Made(g, l, Cur.n, Cur.rest, Cur.rs, Cur.ask)
        /\ \A k \in 1..Depth + 1 :
             Level(k)' = IF k = Depth + 1 THEN Cur' ELSE IF k = Depth THEN g ELSE Level(k)
  BY DEF Enters
<1>3. /\ Depth' = Depth + 1 /\ Cur'.at = f /\ Cur'.n = n
      /\ g.at = l /\ g.n = Cur.n
  BY <1>2 DEF Enters, Made
<1>4. Level(2)' = IF 2 = Depth + 1 THEN Cur' ELSE IF 2 = Depth THEN g ELSE Level(2)
  BY <1>1, <1>2
<1>5. Depth >= 2 =>
        Level(3)' = IF 3 = Depth + 1 THEN Cur' ELSE IF 3 = Depth THEN g ELSE Level(3)
  BY <1>1, <1>2
<1>6. "erased" \in Erasers
  BY DEF Erasers
<1>7. CASE Depth = 1
  BY <1>1, <1>3, <1>4, <1>6, <1>7 DEF ListInv
<1>8. CASE Depth = 2
  <2>1. Level(2)' = g /\ Level(3)' = Cur' /\ Cur = Level(2)
    BY <1>1, <1>4, <1>5, <1>8
  <2> QED  BY <1>1, <1>3, <1>6, <1>8, <2>1 DEF ListInv
<1>9. CASE Depth > 2
  <2>1. Level(2)' = Level(2) /\ Level(3)'.n = Level(3).n
    BY <1>1, <1>3, <1>4, <1>5, <1>9
  <2> QED  BY <1>1, <1>3, <1>9, <2>1 DEF ListInv
<1> QED  BY <1>1, <1>7, <1>8, <1>9

\* Every step keeps ListInv.
LEMMA NextList ==
  ASSUME Typed, Shape, ListInv, Next
  PROVE  ListInv'
<1>0. stack # <<>> /\ FrameOK(Cur)
  BY NextRuns, Places
<1>t. Depth \in Nat /\ Depth >= 1 /\ Cur = Level(Depth)
  BY <1>0, TopType
<1>p. Depth = 1 => Cur.at \in {"operate", "operated"}
  BY <1>0, Places DEF Ends
<1>r. ASSUME NEW s, Returns(s), UNCHANGED <<opt, erase>>, Cur.at \notin Erasers PROVE ListInv'
  BY <1>0, <1>r, ListReturns
<1>f. (FailsNow \/ AbortNow) /\ UNCHANGED <<opt, erase>> /\ Cur.at \notin Erasers => ListInv'
  BY <1>r, FailsReturns
<1>g. ASSUME NEW l, NEW q, NEW r, Goes(l, q, r), UNCHANGED <<opt, erase>>,
             Cur.at \notin Erasers, l # "erased"
      PROVE  ListInv'
  BY <1>0, <1>g, ListGoes
<1>e. ASSUME NEW l, NEW f, NEW n, NEW a, Enters(l, f, n, a), UNCHANGED <<opt, erase>>,
             Cur.at \notin Erasers, l # "erased", f \notin Erasers
      PROVE  ListInv'
  BY <1>0, <1>e, ListEnters
<1>d. ASSUME Cur.at \in Erasers PROVE Depth = 2 /\ opt.op = "move"
  BY <1>0, <1>d, Places DEF Erasers, MoveFns, MoveDirFns
<1>1. CASE Operate
  <2>1. opt.op \in {"copy", "move", "delete"}
    BY <1>0, Places
  <2>2. PICK f, n : /\ Cur.at = "operate" /\ UNCHANGED <<opt, erase>>
                    /\ Enters("operated", f, n, TRUE)
                    /\ f \in {"erase_dir", "erase_file", "copy_dir", "copy_file", "move_dir",
                              "move_file"}
    BY <1>1, <2>1, OperateIs
  <2> QED  BY <1>e, <2>2 DEF Erasers
<1>2. CASE Operated
  BY <1>2, <1>0, <1>r, <1>f, <1>g, <1>e, OperatedIs DEF Erasers
<1>3. CASE Finish
  BY <1>3, <1>r, <1>f, <1>g, <1>e, FinishIs DEF Erasers
<1>4. CASE CopyFile
  BY <1>4, <1>r, <1>f, <1>g, <1>e, CopyFileIs DEF Erasers, Replaces
<1>5. CASE Link
  BY <1>5, <1>r, <1>f, <1>g, <1>e, LinkIs DEF Erasers
<1>6. CASE Open
  BY <1>6, <1>r, <1>f, <1>g, <1>e, OpenIs DEF Erasers
<1>7. CASE Fill
  BY <1>7, <1>r, <1>f, <1>g, <1>e, FillIs DEF Erasers
<1>8. CASE Short
  BY <1>8, <1>r, <1>f, <1>g, <1>e, ShortIs DEF Erasers
<1>9. CASE CopyDir
  BY <1>9, <1>0, <1>r, <1>f, <1>g, <1>e, CopyDirIs DEF Erasers
<1>10. CASE Entry
  BY <1>10, <1>r, <1>f, <1>g, <1>e, EntryIs DEF Erasers
<1>11. CASE CopiedEntry
  <2>1. /\ Cur.at = "copied_entry" /\ opt' = opt /\ Goes("entry", Tail(Cur.rest), ret)
        /\ erase' # erase => opt.op = "move"
    BY <1>11, <1>0, CopiedEntryIs
  <2>2. CASE erase' = erase
    BY <1>g, <2>1, <2>2 DEF Erasers
  <2>3. CASE erase' # erase
    <3>1. opt.op = "move" /\ Depth > 2 /\ Level(2).at = "dir_copied"
      <4>1. Cur.at \in CopyFns /\ Cur.at \notin CopyFileFns /\ opt.op = "move"
        BY <2>1, <2>3 DEF CopyFns, CopyDirFns, CopyFileFns
      <4> QED  BY <1>0, <4>1, Places
    <3>2. Depth' = Depth /\ Level(2)' = Level(2)
      BY <1>t, <2>1, <3>1 DEF Goes
    <3> QED  BY <1>t, <2>1, <3>1, <3>2 DEF ListInv, Erasers
  <2> QED  BY <2>2, <2>3
<1>12. CASE MoveFile
  BY <1>12, <1>r, <1>f, <1>g, <1>e, MoveFileIs DEF Erasers, Replaces
<1>13. CASE Rename
  BY <1>13, <1>r, <1>f, <1>g, <1>e, RenameIs DEF Erasers
<1>14. CASE Copied
  BY <1>14, <1>r, <1>f, <1>g, <1>e, CopiedIs DEF Erasers
<1>15. CASE Remove
  BY <1>15, <1>r, <1>f, <1>g, <1>e, RemoveIs DEF Erasers
<1>16. CASE MoveDir
  BY <1>16, <1>r, <1>f, <1>g, <1>e, MoveDirIs DEF Erasers
<1>17. CASE DirCopied
  <2>1. Depth = 2
    BY <1>17, <1>d, DirCopiedIs DEF Erasers
  <2>2. \A s : Returns(s) /\ opt' = opt /\ erase' = <<>> => ListInv'
    BY <1>0, <2>1, ListReturns
  <2>3. Goes("erasing", Cur.rest, Cur.rs) /\ UNCHANGED <<opt, erase>> => ListInv'
    BY <1>0, <2>1, ListGoes DEF Erasers
  <2> QED  BY <1>17, <2>2, <2>3, DirCopiedIs, FailsReturns
<1>18. CASE Erasing
  <2>1. Depth = 2
    BY <1>18, <1>d, ErasingIs DEF Erasers
  <2>2. opt' = opt /\ erase' = erase
    BY <1>18, ErasingIs
  <2>3. ASSUME NEW l \in {"moved", "erased"}, NEW f \in {"erase_if_empty", "erase_file"}, NEW n,
               Enters(l, f, n, TRUE), l = "erased" => erase # <<>> /\ n = Head(erase)
        PROVE  ListInv'
    <3>1. l \in Erasers /\ f \notin Erasers
      BY DEF Erasers
    <3>2. (Depth = 1 => Cur.at \notin Erasers) /\ (Depth = 2 /\ Cur.at \in Erasers => l \in Erasers)
      BY <2>1, <3>1
    <3> QED  BY <1>0, <2>2, <2>3, <3>1, <3>2, ListEnters
  <2>4. CASE Enters("moved", "erase_if_empty", Cur.n, TRUE)
    BY <2>3, <2>4
  <2>5. CASE /\ erase # <<>>
             /\ Enters("erased", IF Head(erase) \in Dirs THEN "erase_if_empty" ELSE "erase_file",
                       Head(erase), TRUE)
    BY <2>3, <2>5
  <2> QED  BY <1>18, <2>4, <2>5, ErasingIs
<1>19. CASE Erased
  <2>1. Depth = 2 /\ opt.op = "move"
    BY <1>19, <1>d, ErasedIs DEF Erasers
  <2>2. Goes("erasing", Cur.rest, ret) /\ opt' = opt
    BY <1>19, ErasedIs
  <2>3. Depth' = Depth /\ Level(2)' = Cur' /\ Cur'.at = "erasing"
    BY <1>t, <2>1, <2>2 DEF Goes, Made
  <2> QED  BY <2>1, <2>2, <2>3 DEF ListInv, Erasers
<1>20. CASE Moved
  <2>1. Depth = 2
    BY <1>20, <1>d, MovedIs DEF Erasers
  <2> QED  BY <1>20, <1>0, <2>1, MovedIs, ListReturns
<1>21. CASE EraseFile
  BY <1>21, <1>r, <1>f, <1>g, <1>e, EraseFileIs DEF Erasers
<1>22. CASE EraseIfEmpty
  BY <1>22, <1>r, <1>f, <1>g, <1>e, EraseIfEmptyIs DEF Erasers
<1>23. CASE EraseDir
  BY <1>23, <1>r, <1>f, <1>g, <1>e, EraseDirIs DEF Erasers
<1>24. CASE RecursiveErase
  BY <1>24, <1>0, <1>r, <1>f, <1>g, <1>e, RecursiveEraseIs DEF Erasers
<1>25. CASE EraseEntry
  BY <1>25, <1>r, <1>f, <1>g, <1>e, EraseEntryIs DEF Erasers
<1>26. CASE ErasedEntry
  BY <1>26, <1>0, <1>r, <1>f, <1>g, <1>e, ErasedEntryIs DEF Erasers
<1> QED
  BY <1>1, <1>2, <1>3, <1>4, <1>5, <1>6, <1>7, <1>8, <1>9, <1>10, <1>11, <1>12, <1>13,
     <1>14, <1>15, <1>16, <1>17, <1>18, <1>19, <1>20, <1>21, <1>22, <1>23, <1>24, <1>25,
     <1>26 DEF Next

\* The stack in the beginning.
LEMMA InitTop ==
  ASSUME Init
  PROVE  /\ Depth = 1 /\ stack \in Seq(Frame) /\ stack # <<>> /\ Level(1) = Cur
         /\ Made(Cur, "operate", opt.tops[1], opt.tops, "cont", TRUE)
         /\ opt \in Settings /\ opt.tops \in Seq(Nodes) /\ opt.tops # <<>> /\ Separate(opt.tops)
<1>1. opt \in Settings /\ opt.tops \in Seq(Nodes) /\ opt.tops # <<>> /\ Separate(opt.tops)
  BY Assumed DEF Init
<1>2. opt.tops[1] \in Nodes
  BY <1>1, SeqHead
<1> DEFINE n == opt.tops[1]  q == opt.tops  f == [New("operate", n) EXCEPT !.rest = q]
<1>3. Made(f, "operate", n, q, "cont", TRUE)
  <2>1. Made(New("operate", n), "operate", n, <<>>, "cont", TRUE)
    BY <1>2, NewIs, AllPoints
  <2> DEFINE h == New("operate", n)
  <2>2. Made([h EXCEPT !.rest = q], "operate", n, q, "cont", TRUE)
    <3>1. q \in Seq(Nodes)
      BY <1>1
    <3> HIDE DEF h, n, q
    <3> QED  BY <2>1, <3>1 DEF Made, Frame, h
  <2> QED  BY <2>2
<1>4. stack = <<f>>
  BY DEF Init
<1>5. f \in Frame
  BY <1>3 DEF Made
<1>6. /\ stack \in Seq(Frame) /\ stack # <<>> /\ Len(stack) = 1 /\ Head(stack) = f
      /\ stack[1] = f
  <2> HIDE DEF f
  <2> QED  BY <1>4, <1>5
<1> HIDE DEF f
<1>7. Depth = 1 /\ Level(1) = f /\ Cur = f
  BY <1>6 DEF Depth, Level, Cur
<1> QED  BY <1>1, <1>3, <1>6, <1>7

\* Types, shape and ListInv in the beginning.
LEMMA InitTyped ==
  ASSUME Init
  PROVE  Typed /\ Shape /\ ListInv
<1>1. /\ Depth = 1 /\ stack \in Seq(Frame) /\ stack # <<>> /\ Level(1) = Cur
      /\ Made(Cur, "operate", opt.tops[1], opt.tops, "cont", TRUE)
      /\ opt \in Settings /\ opt.tops \in Seq(Nodes) /\ opt.tops # <<>> /\ Separate(opt.tops)
  BY InitTop
<1>2. Disk
  <2>1. tgt \in [Nodes -> Target]
    BY TargetIs, FilesAreNodes DEF Init
  <2>2. \A n \in Files : <<<<"old", n>>>> \in Seq(Piece)
    <3>1. \A p \in Piece : <<p>> \in Seq(Piece)
      OBVIOUS
    <3> QED  BY <3>1 DEF Piece
  <2>3. <<>> \in Seq(Piece)
    OBVIOUS
  <2>4. data \in [Files -> Seq(Piece)]
    BY <2>2, <2>3 DEF Init
  <2> QED  BY <2>1, <2>4 DEF Init, Disk
<1>3. Stack
  BY <1>1 DEF Init, Stack, Status
<1>4. Answers /\ Counts
  <2>1. Answers
    <3>1. said \in [Nodes -> {"nothing", "replace", "append", "keep"}]
      BY DEF Init
    <3> QED  BY <3>1 DEF Init, Answers
  <2>2. Counts
    <3>1. 0 \in 0..MaxTrouble
      BY Assumed
    <3> QED  BY <3>1 DEF Init, Counts
  <2> QED  BY <2>1, <2>2
<1>5. Lists
  <2>1. \A i \in DOMAIN opt.tops : opt.tops[i] \in Nodes
    BY <1>1
  <2> QED  BY <2>1 DEF Init, Lists
<1>6. Typed
  BY <1>1, <1>2, <1>3, <1>4, <1>5, TypedParts
<1>7. FrameOK(Cur) /\ Cur.at \in Ends
  BY <1>1 DEF Made, FrameOK, FileFns, DirFns, CopyFileFns, MoveFileFns, CopyDirFns, MoveDirFns,
     EraseDirFns, Ends, InList
<1>8. Shape
  BY <1>1, <1>7 DEF Shape, FramesOK, Linked, Fitting
<1>9. ListInv
  BY <1>1 DEF ListInv, Init
<1> QED  BY <1>6, <1>8, <1>9

\* Every step keeps types, shape and ListInv, and the operation stays the same.
LEMMA NextCore ==
  ASSUME Typed, Shape, ListInv, Next
  PROVE  Typed' /\ Shape' /\ ListInv' /\ opt' = opt
<1>1. stack # <<>> /\ FrameOK(Cur)
  BY NextRuns, Places
<1>2. Cur.at = "erased" => erase # <<>>
  <2>1. Cur.at = "erased" => Cur.at \in MoveFns
    BY DEF MoveFns, MoveDirFns
  <2>2. Cur.at = "erased" => Depth = 2 /\ Cur = Level(2)
    BY <1>1, <2>1, Places, TopType
  <2> QED  BY <2>2 DEF ListInv
<1> QED  BY <1>1, <1>2, NextTyped, NextShape, NextList

\* The inductive invariant that all others rest on.
Core == Typed /\ Shape /\ ListInv

\* A stuttering step keeps Core.
LEMMA CoreStutter == ASSUME Core, UNCHANGED vars PROVE Core'
<1>1. Typed'
  BY DEF Core, Typed, vars
<1>2. Shape'
  BY DEF Core, Shape, FramesOK, Linked, Fitting, Level, Depth, vars
<1>3. ListInv'
  BY DEF Core, ListInv, Level, Depth, vars
<1> QED  BY <1>1, <1>2, <1>3 DEF Core

\* The stack has at all times a shape the operation can produce, whatever the tree, and
\* erase_list belongs to the directory that panel_operate is moving.
THEOREM CoreHolds == Spec => []Core
<1>1. Init => Core
  BY InitTyped DEF Core
<1>2. Core /\ [Next]_vars => Core'
  BY NextCore, CoreStutter DEF Core
<1> QED  BY <1>1, <1>2, PTL DEF Spec

\* Core implies the type invariant.
LEMMA CoreTypes == Core => TypeOK
<1> SUFFICES ASSUME Core PROVE TypeOK
  OBVIOUS
<1>1. Typed
  BY DEF Core
<1>2. ASSUME erase # <<>>
      PROVE  \E i \in DOMAIN stack : stack[i].at \in {"dir_copied", "erasing", "erased", "moved"}
  <2>1. Depth >= 2 /\ Level(2).at \in Erasers
    BY <1>2 DEF Core, ListInv
  <2>2. stack \in Seq(Frame)
    BY <1>1 DEF Typed
  <2>3. Len(stack) + 1 - 2 \in DOMAIN stack
    BY <2>1, <2>2 DEF Depth
  <2> QED  BY <2>1, <2>3 DEF Level, Erasers
<1> QED  BY <1>1, <1>2 DEF TypeOK, Typed

\* The variables keep their types for any tree, any settings and any number of failures, and
\* the list of what to erase is empty between directories.
THEOREM TypeCorrect == Spec => []TypeOK
  BY CoreHolds, CoreTypes, PTL

(***************************************************************************)
(* After Abort.                                                            *)
(***************************************************************************)
\* the function that waits for the running one
Caller == Level(Depth - 1)
\* the tagged entries still to do
Rest == Level(1).rest

\* A step within a function leaves its caller and, but in panel_operate, the entries to do.
LEMMA CallerGoes ==
  ASSUME Typed, stack # <<>>, NEW l, NEW q, NEW r, Goes(l, q, r)
  PROVE  /\ Depth >= 2 => Caller' = Caller /\ Rest' = Rest
         /\ Depth = 1 => Rest' = q
<1>1. Depth \in Nat /\ Depth >= 1 /\ Cur = Level(Depth)
  BY TopType
<1>2. /\ Depth' = Depth /\ Cur'.rest = q
      /\ \A k \in 1..Depth : Level(k)' = IF k = Depth THEN Cur' ELSE Level(k)
  BY DEF Goes, Made
<1>3. Depth >= 2 => Caller' = Caller
  <2>1. \A k \in 1..Depth : stack'[Len(stack') + 1 - k] = IF k = Depth THEN Cur' ELSE Level(k)
    BY <1>2 DEF Level
  <2>2. Depth >= 2 => Depth - 1 \in 1..Depth /\ Depth - 1 # Depth
    BY <1>1
  <2>3. Depth >= 2 => stack'[Len(stack') + 1 - (Depth - 1)] = Level(Depth - 1)
    BY <2>1, <2>2
  <2>4. Caller' = stack'[Len(stack') + 1 - (Depth' - 1)]
    BY DEF Caller, Level
  <2> QED  BY <1>2, <2>3, <2>4 DEF Caller
<1>4. 1 \in 1..Depth
  BY <1>1
<1>5. Level(1)' = IF 1 = Depth THEN Cur' ELSE Level(1)
  BY <1>2, <1>4
<1> QED  BY <1>1, <1>2, <1>3, <1>5 DEF Rest

\* A call makes the running function the caller.
LEMMA CallerEnters ==
  ASSUME Typed, stack # <<>>, NEW l, NEW f, NEW n, NEW a, Enters(l, f, n, a)
  PROVE  /\ Caller'.at = l /\ Caller'.n = Cur.n /\ Caller'.rest = Cur.rest /\ Caller'.rs = Cur.rs
         /\ Rest' = Rest
<1>1. Depth \in Nat /\ Depth >= 1 /\ Cur = Level(Depth)
  BY TopType
<1>2. PICK g \in Frame :
        /\ Made(g, l, Cur.n, Cur.rest, Cur.rs, Cur.ask)
        /\ \A k \in 1..Depth + 1 :
             Level(k)' = IF k = Depth + 1 THEN Cur' ELSE IF k = Depth THEN g ELSE Level(k)
  BY DEF Enters
<1>3. Depth' = Depth + 1
  BY DEF Enters
<1>4. Caller' = g
  <2>1. \A k \in 1..Depth + 1 : stack'[Len(stack') + 1 - k] =
          IF k = Depth + 1 THEN Cur' ELSE IF k = Depth THEN g ELSE Level(k)
    BY <1>2 DEF Level
  <2>2. Depth \in 1..Depth + 1 /\ Depth # Depth + 1 /\ Depth' - 1 = Depth
    BY <1>1, <1>3
  <2>3. stack'[Len(stack') + 1 - Depth] = g
    BY <2>1, <2>2
  <2>4. Caller' = stack'[Len(stack') + 1 - (Depth' - 1)]
    BY DEF Caller, Level
  <2> QED  BY <2>2, <2>3, <2>4
<1>5. 1 \in 1..Depth + 1 /\ 1 # Depth + 1
  BY <1>1
<1>6. Level(1)' = IF 1 = Depth THEN g ELSE Level(1)
  BY <1>2, <1>5
<1> QED  BY <1>1, <1>2, <1>4, <1>6 DEF Rest, Made

\* A return makes the caller the running function.
LEMMA CallerReturns ==
  ASSUME Typed, stack # <<>>, NEW s, Returns(s)
  PROVE  /\ Depth = 1 <=> stack' = <<>>
         /\ Depth >= 2 => stack' # <<>> /\ Cur' = Caller /\ Rest' = Rest
<1>1. Depth \in Nat /\ Depth >= 1 /\ Cur = Level(Depth)
  BY TopType
<1>2. Depth >= 2 => 1 \in 1..Depth - 1
  BY <1>1
<1> QED  BY <1>1, <1>2 DEF Returns, Rest, Caller

\* Top is the first tagged entry still to do.
LEMMA TopRest ==
  ASSUME Typed, stack # <<>>
  PROVE  /\ Top = IF Rest = <<>> THEN "none" ELSE Head(Rest)
         /\ Rest \in Seq(Nodes) /\ (Depth = 1 => Rest = Cur.rest)
<1>1. /\ Depth \in Nat /\ Depth >= 1 /\ Cur = Level(Depth)
      /\ \A k \in 1..Depth : Level(k) \in Frame
  BY TopType
<1>2. Level(1) = stack[Len(stack)]
  <2>1. Len(stack) + 1 - 1 = Len(stack)
    BY <1>1 DEF Depth
  <2> QED  BY <2>1 DEF Level
<1>3. Level(1) \in Frame
  BY <1>1
<1> QED  BY <1>1, <1>2, <1>3 DEF Top, Rest, Frame

\* What can wait for the running function.
LEMMA CallerIs ==
  ASSUME Typed, Shape, Depth >= 2
  PROVE  /\ FrameOK(Caller) /\ Caller \in Frame /\ Calls(Caller, Cur)
         /\ Depth = 2 => Caller.at = "operated" /\ Caller = Level(1)
         /\ Depth > 2 /\ opt.op = "copy" => Caller.at = "copied_entry"
         /\ Depth > 2 /\ opt.op = "delete" => Caller.at = "erased_entry"
         /\ Depth > 2 /\ opt.op = "move" =>
              \/ Caller.at \in {"copied", "dir_copied", "erased", "moved"} /\ Caller = Level(2)
                 /\ Depth = 3
              \/ Caller.at = "copied_entry" /\ Level(2).at = "dir_copied"
<1>1. stack # <<>>
  <2>1. stack = <<>> => Len(stack) = 0
    OBVIOUS
  <2> QED  BY <2>1 DEF Depth
<1>2. /\ Depth \in Nat /\ Cur = Level(Depth) /\ \A k \in 1..Depth : Level(k) \in Frame
  BY <1>1, TopType
<1>3. Depth - 1 \in 1..Depth
  BY <1>2
<1>4. FrameOK(Caller) /\ Caller \in Frame
  BY <1>2, <1>3 DEF Shape, FramesOK, Caller
<1>5. Calls(Caller, Cur)
  BY <1>1, Places DEF Caller
<1>6. CASE Depth = 2
  <2>1. Caller = Level(1) /\ Caller.at \in Ends
    BY <1>6 DEF Caller, Shape
  <2> QED  BY <1>4, <1>5, <1>6, <2>1 DEF Calls, Ends, Waits, InList
<1>7. CASE Depth > 2
  <2>1. Fits(opt.op, Depth - 1, Level(2).at, Caller.at)
    <3>1. Depth - 1 \in 2..Depth
      BY <1>2, <1>7
    <3> QED  BY <3>1 DEF Shape, Fitting, Caller
  <2>2. Caller.at \in Waits
    BY <1>5 DEF Calls
  <2>3. CASE opt.op # "move"
    BY <1>4, <1>5, <1>7, <2>1, <2>2, <2>3 DEF Fits, CopyFns, CopyFileFns, CopyDirFns,
       EraseDirFns, Waits, InList
  <2>4. CASE opt.op = "move" /\ Depth = 3
    <3>1. Caller = Level(2)
      BY <2>4 DEF Caller
    <3>2. Caller.at \in MoveFns
      BY <2>1, <2>4 DEF Fits
    <3> QED  BY <1>4, <1>5, <1>7, <2>2, <2>4, <3>1, <3>2 DEF MoveFns, MoveFileFns, MoveDirFns,
             Waits, InList
  <2>5. CASE opt.op = "move" /\ Depth # 3
    <3>1. Depth - 1 # 2
      BY <1>2, <2>5
    <3> QED  BY <1>4, <1>5, <1>7, <2>1, <2>2, <2>5, <3>1 DEF Fits, CopyFns,
                CopyFileFns, CopyDirFns,
             Waits, InList
  <2> QED  BY <2>3, <2>4, <2>5
<1> QED  BY <1>2, <1>4, <1>5, <1>6, <1>7

\* A node is in itself.
LEMMA SubReflexive == \A n \in Nodes : n \in Sub[n]
  BY DEF Sub

\* The first of separate entries is not among the others.
LEMMA HeadApart ==
  ASSUME NEW q \in Seq(Nodes), q # <<>>, Separate(q)
  PROVE  \A j \in 2..Len(q) : q[j] # Head(q)
<1>1. /\ Head(q) = q[1] /\ Len(q) \in Nat /\ Len(q) >= 1
      /\ \A i \in 1..Len(q) : q[i] \in Nodes
  BY SeqHead
<1>2. \A j \in 2..Len(q) : 1 \in DOMAIN q /\ j \in DOMAIN q /\ j # 1 /\ j \in 1..Len(q)
  BY <1>1
<1>3. \A j \in 2..Len(q) : Sub[q[1]] \cap Sub[q[j]] = {}
  BY <1>2 DEF Separate
<1>4. \A j \in 2..Len(q) : q[j] \in Sub[q[j]]
  BY <1>1, <1>2, SubReflexive
<1> QED  BY <1>1, <1>3, <1>4

\* the tagged entry that is operated on
Aim == IF Rest = <<>> THEN "none" ELSE Head(Rest)
\* points at which nothing is done to a file any more, if Abort was answered
StopPoints == Waits \cup {"entry", "short", "erasing", "erase_entry", "erase_if_empty"}
\* The functions that run are on their way out.
Stopping ==
  /\ Cur.at \in StopPoints
  /\ Cur.at \in {"copied_entry", "copied", "dir_copied", "erased"} => ret = "abort"
  /\ Cur.at = "operated" /\ opt.op = "copy" => ret = "abort"
  /\ Cur.at \in {"entry", "short", "erasing"} => Cur.rs = "abort"
  /\ Cur.at = "erased_entry" => ret \in {"abort", "retry"}
  /\ Cur.at = "erase_entry" => Cur.rs \in {"abort", "retry"}
  /\ Cur.at = "erase_if_empty" => Caller.at = "moved"
\* After Abort the entry is not among those still to do, and while it is operated on, or
\* anything is in a copy, the functions are on their way out.
AbortInv ==
  aborted # "none" /\ stack # <<>> =>
    /\ \A j \in 2..Len(Rest) : Rest[j] # aborted
    /\ Cur.at = "operate" => opt.op # "copy" /\ \A j \in 1..Len(Rest) : Rest[j] # aborted
    /\ opt.op = "copy" \/ Aim = aborted => Stopping

\* A return of Abort keeps AbortInv.
LEMMA AbortReturns ==
  ASSUME Core, AbortInv, stack # <<>>, Returns("abort"), aborted' \in {Aim, aborted}
  PROVE  AbortInv'
<1>0. Typed /\ Shape
  BY DEF Core
<1>t. Depth \in Nat /\ Depth >= 1
  BY <1>0, TopType
<1>1. CASE Depth = 1
  BY <1>0, <1>1, CallerReturns DEF AbortInv
<1>2. CASE Depth >= 2
  <2>1. stack' # <<>> /\ Cur' = Caller /\ Rest' = Rest /\ ret' = "abort"
    BY <1>0, <1>2, CallerReturns DEF Returns
  <2>2. Caller.at \in Waits
    BY <1>0, <1>2, CallerIs DEF Calls
  <2>3. Rest \in Seq(Nodes) /\ Separate(Rest) /\ Aim' = Aim
    <3>1. 1 \in 1..Depth
      BY <1>t
    <3> QED  BY <1>0, <2>1, <3>1, TopRest DEF Shape, FramesOK, FrameOK, Rest, Aim
  <2>4. Stopping'
    BY <2>1, <2>2 DEF Stopping, StopPoints, Waits, InList
  <2>5. aborted' # "none" => \A j \in 2..Len(Rest) : Rest[j] # aborted'
    BY <2>3, HeadApart DEF AbortInv, Aim
  <2>6. Cur'.at # "operate"
    BY <2>1, <2>2 DEF Waits, InList
  <2> QED  BY <2>1, <2>4, <2>5, <2>6 DEF AbortInv
<1> QED  BY <1>t, <1>1, <1>2

\* So does a step on the way out, in which the user says nothing.
LEMMA AbortElse ==
  ASSUME Core, AbortInv, stack # <<>>, UNCHANGED <<opt, aborted>>,
         (opt.op = "copy" \/ Aim = aborted) => aborted = "none" \/ stack' = <<>> \/ Stopping',
         stack' # <<>> => Cur'.at # "operate" /\ Rest' = Rest
  PROVE  AbortInv'
  BY DEF AbortInv, Aim

\* What an answer makes of aborted.
LEMMA AbortKinds ==
  ASSUME Typed, stack # <<>>
  PROVE  /\ FailsNow \/ AbortNow \/ (\E l : Replaces(l) /\ ~Goes(l, Cur.rest, Cur.rs)) =>
              aborted' = "none" \/ (Returns("abort") /\ aborted' = Aim)
         /\ \A s : FileError(s) => aborted' = IF s = "abort" THEN Aim ELSE "none"
         /\ \A b : UserSays(b) => aborted' = IF b THEN Aim ELSE "none"
         /\ \A l : Replaces(l) => aborted' = "none" \/ (Returns("abort") /\ aborted' = Aim)
<1>1. Top = Aim
  BY TopRest DEF Aim
<1>2. \A b : UserSays(b) => aborted' = IF b THEN Aim ELSE "none"
  BY <1>1 DEF UserSays
<1>3. \A s : FileError(s) => aborted' = IF s = "abort" THEN Aim ELSE "none"
  BY <1>2 DEF FileError
<1>4. FailsNow \/ AbortNow => aborted' = "none" \/ (Returns("abort") /\ aborted' = Aim)
  BY <1>3 DEF FailsNow, AbortNow
<1>5. \A l : Replaces(l) => aborted' = "none" \/ (Returns("abort") /\ aborted' = Aim)
  BY <1>2 DEF Replaces
<1> QED  BY <1>2, <1>3, <1>4, <1>5

\* Every step keeps AbortInv.
LEMMA NextAbort ==
  ASSUME Core, AbortInv, Next
  PROVE  AbortInv'
<1>0. stack # <<>> /\ FrameOK(Cur) /\ Typed /\ Shape
  BY NextRuns, Places DEF Core
<1>t. Depth \in Nat /\ Depth >= 1
  BY <1>0, TopType
<1>p. Cur.at \in {"operate", "operated"} <=> Depth = 1
  BY <1>0, Places DEF Ends
<1>d. Cur.at \notin {"operate", "operated"} => Depth >= 2
  BY <1>t, <1>p
<1>n. aborted' = "none" => AbortInv'
  BY DEF AbortInv
<1>a. Returns("abort") /\ aborted' \in {Aim, aborted} => AbortInv'
  BY <1>0, AbortReturns
<1>f. FailsNow \/ AbortNow \/ (\E l : Replaces(l)) => AbortInv'
  BY <1>0, <1>a, <1>n, AbortKinds
<1>q. Quietly \/ Smooth => UNCHANGED aborted
  BY DEF Quietly, Smooth
<1>s. aborted # "none" /\ (opt.op = "copy" \/ Aim = aborted) => Stopping /\ Cur.at \in StopPoints
  BY <1>0 DEF AbortInv, Stopping
<1>r. ASSUME NEW s, Returns(s), UNCHANGED <<opt, aborted>>, Cur.at \notin StopPoints, Depth >= 2
      PROVE  AbortInv'
  <2>1. stack' # <<>> /\ Cur' = Caller /\ Rest' = Rest /\ Caller.at \in Waits
    BY <1>0, <1>r, CallerReturns, CallerIs DEF Calls
  <2>2. Cur'.at # "operate"
    BY <2>1 DEF Waits, InList
  <2> QED  BY <1>0, <1>r, <1>s, <2>1, <2>2, AbortElse
<1>g. ASSUME NEW l, NEW q, NEW r, Goes(l, q, r), UNCHANGED <<opt, aborted>>, l # "operate",
             Cur.at \notin StopPoints, Depth >= 2
      PROVE  AbortInv'
  <2>1. Rest' = Rest /\ Cur'.at # "operate"
    BY <1>0, <1>g, CallerGoes DEF Goes, Made
  <2> QED  BY <1>0, <1>g, <1>s, <2>1, AbortElse
<1>e. ASSUME NEW l, NEW f, NEW n, NEW a, Enters(l, f, n, a), UNCHANGED <<opt, aborted>>,
             f # "operate", Cur.at \notin StopPoints
      PROVE  AbortInv'
  <2>1. Rest' = Rest /\ Cur'.at # "operate"
    BY <1>0, <1>e, CallerEnters DEF Enters, Made
  <2> QED  BY <1>0, <1>e, <1>s, <2>1, AbortElse
<1>h. ASSUME NEW l, NEW q, NEW r, Goes(l, q, r), UNCHANGED <<opt, aborted>>, Depth >= 2,
             l # "operate",
             aborted # "none" /\ (opt.op = "copy" \/ Aim = aborted) => Stopping'
      PROVE  AbortInv'
  <2>1. Rest' = Rest /\ Cur'.at # "operate"
    BY <1>0, <1>h, CallerGoes DEF Goes, Made
  <2> QED  BY <1>0, <1>h, <2>1, AbortElse
<1>b. ASSUME NEW s, Returns(s), UNCHANGED <<opt, aborted>>, Depth >= 2,
             aborted # "none" /\ (opt.op = "copy" \/ Aim = aborted) => Stopping'
      PROVE  AbortInv'
  <2>1. stack' # <<>> /\ Cur' = Caller /\ Rest' = Rest /\ Caller.at \in Waits
    BY <1>0, <1>b, CallerReturns, CallerIs DEF Calls
  <2>2. Cur'.at # "operate"
    BY <2>1 DEF Waits, InList
  <2> QED  BY <1>0, <1>b, <2>1, <2>2, AbortElse
<1>1. CASE Operate
  <2>1. Aim = aborted /\ aborted # "none" => Rest # <<>> /\ Head(Rest) = aborted
    BY DEF Aim
  <2>2. aborted # "none" => opt.op # "copy" /\ \A j \in 1..Len(Rest) : Rest[j] # aborted
    BY <1>1, <1>0, OperateIs DEF AbortInv
  <2>3. Rest \in Seq(Nodes)
    BY <1>0, TopRest
  <2>4. aborted # "none" => ~(opt.op = "copy" \/ Aim = aborted)
    <3>1. Rest # <<>> => Head(Rest) = Rest[1] /\ 1 \in 1..Len(Rest)
      BY <2>3, SeqHead
    <3> QED  BY <2>1, <2>2, <3>1
  <2>5. PICK f, n : /\ Enters("operated", f, n, TRUE) /\ UNCHANGED <<opt, aborted>>
                    /\ f \in {"erase_dir", "erase_file", "copy_dir", "copy_file", "move_dir",
                              "move_file"}
    <3>1. opt.op \in {"copy", "move", "delete"}
      BY <1>0, Places
    <3> QED  BY <1>1, <1>0, <3>1, OperateIs
  <2>6. stack' # <<>> /\ Cur'.at # "operate" /\ Rest' = Rest
    BY <1>0, <2>5, CallerEnters DEF Enters, Made
  <2> QED  BY <1>0, <2>4, <2>5, <2>6, AbortElse
<1>2. CASE Operated
  <2>0. Depth = 1 /\ Rest = Cur.rest /\ opt' = opt
    BY <1>2, <1>p, <1>0, OperatedIs, TopRest
  <2>1. ASSUME NEW s, Returns(s) PROVE AbortInv'
    BY <1>0, <2>0, <2>1, CallerReturns DEF AbortInv
  <2>2. CASE Goes("operate", Tail(Cur.rest), Cur.rs) /\ Smooth /\ ret # "abort" /\ aborted # "none"
    <3>1. Rest' = Tail(Rest) /\ aborted' = aborted /\ Rest # <<>> /\ Rest \in Seq(Nodes)
      BY <1>2, <1>0, <1>q, <2>0, <2>2, CallerGoes, TopRest, OperatedIs
    <3>2. /\ Tail(Rest) \in Seq(Nodes) /\ Len(Tail(Rest)) = Len(Rest) - 1 /\ Len(Rest) \in Nat
          /\ \A j \in 1..Len(Rest) - 1 : Tail(Rest)[j] = Rest[j + 1] /\ j + 1 \in 2..Len(Rest)
      BY <3>1, SeqTail, SeqHead
    <3>3. \A j \in 2..Len(Rest) : Rest[j] # aborted
      BY <1>0, <2>2 DEF AbortInv
    <3>4. \A j \in 1..Len(Rest') : Rest'[j] # aborted'
      BY <3>1, <3>2, <3>3
    <3>5. Rest' # <<>> => Head(Rest') = Rest'[1] /\ 1 \in 1..Len(Rest')
      BY <3>1, <3>2, SeqHead
    <3>6. Aim' # aborted'
      BY <2>2, <3>1, <3>4, <3>5 DEF Aim
    <3>7. opt.op # "copy"
      BY <1>2, <1>0, <1>s, <2>2, OperatedIs DEF Stopping
    <3>8. \A j \in 2..Len(Rest') : j \in 1..Len(Rest')
      BY <3>1, <3>2
    <3> QED  BY <2>0, <3>4, <3>6, <3>7, <3>8 DEF AbortInv
  <2> QED  BY <1>2, <1>0, <1>n, <1>q, <2>1, <2>2, OperatedIs, FailsReturns
<1>3. CASE Finish
  <2>1. stack' = <<>>
    BY <1>3, <1>p, <1>0, FinishIs, CallerReturns
  <2> QED  BY <2>1 DEF AbortInv
<1>4. CASE CopyFile
  BY <1>4, <1>0, <1>d, <1>f, <1>r, <1>g, <1>e, <1>q, CopyFileIs DEF StopPoints, Waits, InList
<1>5. CASE Link
  BY <1>5, <1>0, <1>d, <1>f, <1>r, <1>g, <1>e, <1>q, LinkIs DEF StopPoints, Waits, InList
<1>6. CASE Open
  BY <1>6, <1>0, <1>d, <1>f, <1>r, <1>g, <1>e, <1>q, OpenIs DEF StopPoints, Waits, InList
<1>7. CASE Fill
  <2>0. Cur.at = "fill" /\ Depth >= 2 /\ opt' = opt
    BY <1>7, <1>0, <1>d, FillIs
  <2>1. ASSUME NEW s \in {"skip", "abort"}, FileError(s), Goes("short", Cur.rest, s) PROVE AbortInv'
    <3>1. CASE s = "skip"
      BY <1>0, <1>n, <2>1, <3>1, AbortKinds
    <3>2. CASE s = "abort"
      <4>1. aborted' = Aim /\ Rest' = Rest /\ Cur'.at = "short" /\ Cur'.rs = "abort"
        BY <1>0, <2>0, <2>1, <3>2, AbortKinds, CallerGoes DEF Goes, Made
      <4>2. Stopping'
        BY <4>1 DEF Stopping, StopPoints, Waits, InList
      <4>3. \A j \in 2..Len(Rest) : Aim # "none" => Rest[j] # Aim
        <5>1. Rest \in Seq(Nodes) /\ Separate(Rest)
          <6>1. 1 \in 1..Depth
            BY <1>t
          <6> QED  BY <1>0, <6>1, TopRest DEF Shape, FramesOK, FrameOK, Rest
        <5> QED  BY <5>1, HeadApart DEF Aim
      <4> QED  BY <4>1, <4>2, <4>3 DEF AbortInv
    <3> QED  BY <2>1, <3>1, <3>2
  <2>2. Cur.at \notin StopPoints
    BY <2>0 DEF StopPoints, Waits, InList
  <2> QED  BY <1>7, <1>0, <1>f, <1>r, <2>0, <2>1, <2>2, FillIs
<1>8. CASE Short
  <2>0. Cur.at = "short" /\ Depth >= 2 /\ opt' = opt
    BY <1>8, <1>0, <1>d, ShortIs
  <2>1. CASE Returns(Cur.rs) /\ aborted' = aborted
    <3>1. CASE Cur.rs = "abort"
      BY <1>a, <2>1, <3>1
    <3>2. CASE Cur.rs # "abort"
      BY <1>s, <1>b, <2>0, <2>1, <3>2 DEF Stopping
    <3> QED  BY <3>1, <3>2
  <2> QED  BY <1>8, <1>0, <1>f, <2>1, ShortIs
<1>9. CASE CopyDir
  <2>0. Cur.at = "copy_dir" /\ Depth >= 2 /\ opt' = opt
    BY <1>9, <1>0, <1>d, CopyDirIs
  <2>1. Cur.at \notin StopPoints
    BY <2>0 DEF StopPoints, Waits, InList
  <2>2. FileError("retry") => aborted' = "none"
    BY <1>0, AbortKinds
  <2> QED  BY <1>9, <1>0, <1>n, <1>f, <1>g, <1>q, <2>0, <2>1, <2>2, CopyDirIs
<1>10. CASE Entry
  <2>0. Cur.at = "entry" /\ Depth >= 2 /\ UNCHANGED <<opt, aborted>>
    BY <1>10, <1>0, <1>d, EntryIs
  <2>1. CASE Cur.rs = "abort"
    BY <1>10, <1>0, <1>a, <2>0, <2>1, EntryIs
  <2>2. CASE Cur.rs # "abort"
    <3>1. aborted # "none" => ~(opt.op = "copy" \/ Aim = aborted)
      BY <1>s, <2>0, <2>2 DEF Stopping
    <3>2. CASE Returns(Cur.rs)
      BY <1>b, <2>0, <3>1, <3>2
    <3>3. CASE ~Returns(Cur.rs)
      <4>1. PICK f, n : Enters("copied_entry", f, n, TRUE) /\ f \in {"copy_dir", "copy_file"}
        BY <1>10, <1>0, <3>3, EntryIs
      <4>2. stack' # <<>> /\ Cur'.at # "operate" /\ Rest' = Rest
        BY <1>0, <4>1, CallerEnters DEF Enters, Made
      <4> QED  BY <1>0, <2>0, <3>1, <4>2, AbortElse
    <3> QED  BY <3>2, <3>3
  <2> QED  BY <2>1, <2>2
<1>11. CASE CopiedEntry
  <2>0. /\ Cur.at = "copied_entry" /\ Depth >= 2 /\ UNCHANGED <<opt, aborted>>
        /\ Goes("entry", Tail(Cur.rest), ret)
    BY <1>11, <1>0, <1>d, CopiedEntryIs
  <2>1. aborted # "none" /\ (opt.op = "copy" \/ Aim = aborted) => Stopping'
    BY <1>s, <2>0 DEF Stopping, Goes, Made, StopPoints, Waits, InList
  <2> QED  BY <1>h, <2>0, <2>1
<1>12. CASE MoveFile
  BY <1>12, <1>0, <1>d, <1>f, <1>r, <1>g, <1>e, <1>q, MoveFileIs DEF StopPoints, Waits, InList
<1>13. CASE Rename
  BY <1>13, <1>0, <1>d, <1>f, <1>r, <1>g, <1>e, <1>q, RenameIs DEF StopPoints, Waits, InList
<1>14. CASE Copied
  <2>0. Cur.at = "copied" /\ Depth >= 2 /\ opt' = opt
    BY <1>14, <1>0, <1>d, CopiedIs
  <2>1. CASE ret = "abort" /\ Smooth
    BY <1>14, <1>0, <1>a, <1>q, <2>0, <2>1, CopiedIs
  <2>2. CASE ret # "abort" /\ Smooth
    <3>1. aborted # "none" => ~(opt.op = "copy" \/ Aim = aborted)
      BY <1>s, <2>0, <2>2 DEF Stopping
    <3>2. UNCHANGED <<opt, aborted>>
      BY <1>q, <2>0, <2>2
    <3> QED  BY <1>14, <1>0, <1>b, <1>h, <1>f, <2>0, <2>2, <3>1, <3>2, CopiedIs
  <2> QED  BY <1>14, <1>0, <1>f, <2>1, <2>2, CopiedIs
<1>15. CASE Remove
  <2>0. Cur.at = "remove" /\ Depth >= 2 /\ opt' = opt
    BY <1>15, <1>0, <1>d, RemoveIs
  <2>1. Cur.at \notin StopPoints
    BY <2>0 DEF StopPoints, Waits, InList
  <2>2. FileError("retry") => aborted' = "none"
    BY <1>0, AbortKinds
  <2> QED  BY <1>15, <1>0, <1>n, <1>f, <1>r, <1>q, <2>0, <2>1, <2>2, RemoveIs
<1>16. CASE MoveDir
  BY <1>16, <1>0, <1>d, <1>f, <1>r, <1>g, <1>e, <1>q, MoveDirIs DEF StopPoints, Waits, InList
<1>17. CASE DirCopied
  <2>0. Cur.at = "dir_copied" /\ Depth >= 2 /\ opt' = opt
    BY <1>17, <1>0, <1>d, DirCopiedIs
  <2>1. CASE ret = "abort" /\ Smooth
    BY <1>17, <1>0, <1>a, <1>q, <2>0, <2>1, DirCopiedIs
  <2>2. CASE ret # "abort" /\ Smooth
    <3>1. aborted # "none" => ~(opt.op = "copy" \/ Aim = aborted)
      BY <1>s, <2>0, <2>2 DEF Stopping
    <3>2. UNCHANGED <<opt, aborted>>
      BY <1>q, <2>0, <2>2
    <3> QED  BY <1>17, <1>0, <1>b, <1>h, <1>f, <2>0, <2>2, <3>1, <3>2, DirCopiedIs
  <2> QED  BY <1>17, <1>0, <1>f, <2>1, <2>2, DirCopiedIs
<1>18. CASE Erasing
  <2>0. Cur.at = "erasing" /\ Depth >= 2 /\ UNCHANGED <<opt, aborted>>
    BY <1>18, <1>0, <1>d, ErasingIs
  <2>1. CASE Enters("moved", "erase_if_empty", Cur.n, TRUE)
    <3>1. stack' # <<>> /\ Cur'.at = "erase_if_empty" /\ Caller'.at = "moved" /\ Rest' = Rest
      BY <1>0, <2>1, CallerEnters DEF Enters, Made
    <3>2. Stopping'
      BY <3>1 DEF Stopping, StopPoints, Waits, InList
    <3> QED  BY <1>0, <2>0, <3>1, <3>2, AbortElse
  <2>2. CASE ~Enters("moved", "erase_if_empty", Cur.n, TRUE)
    <3>1. PICK f, n : /\ Enters("erased", f, n, TRUE) /\ f \in {"erase_if_empty", "erase_file"}
                      /\ Cur.rs # "abort"
      BY <1>18, <1>0, <2>2, ErasingIs
    <3>2. aborted # "none" => ~(opt.op = "copy" \/ Aim = aborted)
      BY <1>s, <2>0, <3>1 DEF Stopping
    <3>3. stack' # <<>> /\ Cur'.at # "operate" /\ Rest' = Rest
      BY <1>0, <3>1, CallerEnters DEF Enters, Made
    <3> QED  BY <1>0, <2>0, <3>2, <3>3, AbortElse
  <2> QED  BY <2>1, <2>2
<1>19. CASE Erased
  <2>0. /\ Cur.at = "erased" /\ Depth >= 2 /\ UNCHANGED <<opt, aborted>>
        /\ Goes("erasing", Cur.rest, ret)
    BY <1>19, <1>0, <1>d, ErasedIs
  <2>1. aborted # "none" /\ (opt.op = "copy" \/ Aim = aborted) => Stopping'
    BY <1>s, <2>0 DEF Stopping, Goes, Made, StopPoints, Waits, InList
  <2> QED  BY <1>h, <2>0, <2>1
<1>20. CASE Moved
  <2>0. Cur.at = "moved" /\ Depth >= 2 /\ UNCHANGED <<opt, aborted>> /\ Returns(Cur.rs)
    BY <1>20, <1>0, <1>d, MovedIs
  <2>1. Depth = 2 /\ opt.op = "move"
    BY <1>0, <2>0, Places DEF MoveFns, MoveDirFns
  <2>2. Cur' = Caller /\ Caller.at = "operated"
    BY <1>0, <2>0, <2>1, CallerIs, CallerReturns
  <2>3. Stopping'
    BY <2>0, <2>1, <2>2 DEF Stopping, StopPoints, Waits, InList
  <2> QED  BY <1>b, <2>0, <2>3
<1>21. CASE EraseFile
  BY <1>21, <1>0, <1>d, <1>f, <1>r, <1>g, <1>e, <1>q, EraseFileIs DEF StopPoints, Waits, InList
<1>22. CASE EraseIfEmpty
  <2>0. Cur.at = "erase_if_empty" /\ Depth >= 2 /\ opt' = opt
    BY <1>22, <1>0, <1>d, EraseIfEmptyIs
  <2>1. ASSUME NEW s, Returns(s), aborted' = aborted PROVE AbortInv'
    <3>1. Cur' = Caller
      BY <1>0, <2>0, <2>1, CallerReturns
    <3>2. aborted # "none" /\ (opt.op = "copy" \/ Aim = aborted) => Stopping'
      BY <1>s, <2>0, <3>1 DEF Stopping, StopPoints, Waits, InList
    <3> QED  BY <1>b, <2>0, <2>1, <3>2
  <2> QED  BY <1>22, <1>0, <1>f, <1>q, <2>1, EraseIfEmptyIs
<1>23. CASE EraseDir
  <2>0. Cur.at = "erase_dir" /\ Depth >= 2 /\ opt' = opt /\ Cur.at \notin StopPoints
    BY <1>23, <1>0, <1>d, EraseDirIs DEF StopPoints, Waits, InList
  <2>1. /\ UserSays(FALSE) => aborted' = "none"
        /\ UserSays(TRUE) => aborted' = Aim
    BY <1>0, AbortKinds
  <2> QED  BY <1>23, <1>0, <1>n, <1>a, <1>f, <1>r, <1>q, <2>0, <2>1, EraseDirIs
<1>24. CASE RecursiveErase
  BY <1>24, <1>0, <1>d, <1>f, <1>r, <1>g, <1>e, <1>q, RecursiveEraseIs DEF StopPoints,
     Waits, InList
<1>25. CASE EraseEntry
  <2>0. Cur.at = "erase_entry" /\ Depth >= 2 /\ opt' = opt
    BY <1>25, <1>0, <1>d, EraseEntryIs
  <2>c. opt.op = "delete" /\ Caller.at \in {"operated", "erased_entry"}
    <3>1. opt.op = "delete"
      BY <1>0, <2>0, Places DEF EraseDirFns
    <3>2. Depth = 2 \/ Depth > 2
      BY <1>t, <2>0
    <3> QED  BY <1>0, <2>0, <3>1, <3>2, CallerIs
  <2>1. CASE Cur.rs # "cont" /\ Returns(Cur.rs) /\ Smooth
    <3>1. Cur' = Caller /\ ret' = Cur.rs /\ UNCHANGED <<opt, aborted>>
      BY <1>0, <1>q, <2>0, <2>1, CallerReturns DEF Returns
    <3>2. aborted # "none" /\ (opt.op = "copy" \/ Aim = aborted) => Stopping'
      BY <1>s, <2>0, <2>c, <3>1 DEF Stopping, StopPoints, Waits, InList
    <3> QED  BY <1>b, <2>0, <2>1, <3>1, <3>2
  <2>2. CASE Cur.rs = "cont"
    <3>1. aborted # "none" => ~(opt.op = "copy" \/ Aim = aborted)
      BY <1>s, <2>0, <2>2 DEF Stopping
    <3>2. ASSUME NEW s, Returns(s), aborted' = aborted PROVE AbortInv'
      BY <1>b, <2>0, <3>1, <3>2
    <3>3. ASSUME NEW f \in {"recursive_erase", "erase_file"}, NEW n, Enters("erased_entry", f, n, TRUE),
                 aborted' = aborted
          PROVE  AbortInv'
      <4>1. stack' # <<>> /\ Cur'.at # "operate" /\ Rest' = Rest
        BY <1>0, <3>3, CallerEnters DEF Enters, Made
      <4> QED  BY <1>0, <2>0, <3>1, <3>3, <4>1, AbortElse
    <3> QED  BY <1>25, <1>0, <1>f, <1>q, <2>2, <3>2, <3>3, EraseEntryIs
  <2> QED  BY <1>25, <1>0, <2>1, <2>2, EraseEntryIs
<1>26. CASE ErasedEntry
  <2>0. PICK r : /\ Cur.at = "erased_entry" /\ Depth >= 2 /\ UNCHANGED <<opt, aborted>>
                 /\ Goes("erase_entry", Tail(Cur.rest), r)
                 /\ ret \in {"abort", "retry"} => r \in {"abort", "retry"}
    BY <1>26, <1>0, <1>d, ErasedEntryIs
  <2>1. aborted # "none" /\ (opt.op = "copy" \/ Aim = aborted) => Stopping'
    BY <1>s, <2>0 DEF Stopping, Goes, Made, StopPoints, Waits, InList
  <2> QED  BY <1>h, <2>0, <2>1
<1> QED
  BY <1>1, <1>2, <1>3, <1>4, <1>5, <1>6, <1>7, <1>8, <1>9, <1>10, <1>11, <1>12, <1>13,
     <1>14, <1>15, <1>16, <1>17, <1>18, <1>19, <1>20, <1>21, <1>22, <1>23, <1>24, <1>25,
     <1>26 DEF Next

\* Nothing is aborted in the beginning.
LEMMA InitAbort == Init => AbortInv
  BY DEF Init, AbortInv

\* A stuttering step keeps AbortInv.
LEMMA AbortStutter == ASSUME AbortInv, UNCHANGED vars PROVE AbortInv'
  BY DEF AbortInv, Aim, Rest, Stopping, Caller, Level, Depth, Cur, vars

\* After Abort the functions are at all times on their way out.
THEOREM AbortHolds == Spec => [](Core /\ AbortInv)
<1>1. Init => Core /\ AbortInv
  BY InitTyped, InitAbort DEF Core
<1>2. Core /\ AbortInv /\ [Next]_vars => (Core /\ AbortInv)'
  BY NextCore, CoreStutter, NextAbort, AbortStutter DEF Core
<1> QED  BY <1>1, <1>2, PTL DEF Spec

\* what AbortStops says of a step
AbortStep ==
  aborted # "none" /\ aborted' = aborted /\ (opt.op = "copy" \/ Top = aborted) =>
    /\ src' \cap Files = src \cap Files /\ data' = data
    /\ tgt' = tgt \/ At("short")

\* Where the functions are on their way out, no step touches a file.
LEMMA NextStops ==
  ASSUME Core, AbortInv, Next
  PROVE  AbortStep
<1>0. stack # <<>> /\ FrameOK(Cur) /\ Typed /\ Shape
  BY NextRuns, Places DEF Core
<1> SUFFICES ASSUME aborted # "none", aborted' = aborted, opt.op = "copy" \/ Top = aborted
             PROVE  /\ src' \cap Files = src \cap Files /\ data' = data
                    /\ tgt' = tgt \/ At("short")
  BY DEF AbortStep
<1>a. Top = Aim
  BY <1>0, TopRest DEF Aim
<1>s. Stopping /\ Cur.at \in StopPoints
  BY <1>0, <1>a DEF AbortInv, Stopping
<1>1. CASE Operate
  BY <1>1, <1>0, <1>s, OperateIs DEF AbortInv, StopPoints, Waits, InList, disk
<1>2. CASE Operated
  BY <1>2, <1>0, <1>s, OperatedIs DEF StopPoints, Waits, InList, disk
<1>3. CASE Finish
  BY <1>3, <1>0, <1>s, FinishIs DEF StopPoints, Waits, InList, disk
<1>4. CASE CopyFile
  BY <1>4, <1>0, <1>s, CopyFileIs DEF StopPoints, Waits, InList, disk
<1>5. CASE Link
  BY <1>5, <1>0, <1>s, LinkIs DEF StopPoints, Waits, InList, disk
<1>6. CASE Open
  BY <1>6, <1>0, <1>s, OpenIs DEF StopPoints, Waits, InList, disk
<1>7. CASE Fill
  BY <1>7, <1>0, <1>s, FillIs DEF StopPoints, Waits, InList, disk
<1>8. CASE Short
  BY <1>8, <1>0, ShortIs DEF At
<1>9. CASE CopyDir
  BY <1>9, <1>0, <1>s, CopyDirIs DEF StopPoints, Waits, InList, disk
<1>10. CASE Entry
  BY <1>10, <1>0, <1>s, EntryIs DEF StopPoints, Waits, InList, disk
<1>11. CASE CopiedEntry
  BY <1>11, <1>0, <1>s, CopiedEntryIs DEF StopPoints, Waits, InList, disk
<1>12. CASE MoveFile
  BY <1>12, <1>0, <1>s, MoveFileIs DEF StopPoints, Waits, InList, disk
<1>13. CASE Rename
  BY <1>13, <1>0, <1>s, RenameIs DEF StopPoints, Waits, InList, disk
<1>14. CASE Copied
  BY <1>14, <1>0, <1>s, CopiedIs DEF StopPoints, Waits, InList, disk
<1>15. CASE Remove
  BY <1>15, <1>0, <1>s, RemoveIs DEF StopPoints, Waits, InList, disk
<1>16. CASE MoveDir
  BY <1>16, <1>0, <1>s, MoveDirIs DEF StopPoints, Waits, InList, disk
<1>17. CASE DirCopied
  BY <1>17, <1>0, <1>s, DirCopiedIs DEF StopPoints, Waits, InList, disk
<1>18. CASE Erasing
  BY <1>18, <1>0, <1>s, ErasingIs DEF StopPoints, Waits, InList, disk
<1>19. CASE Erased
  BY <1>19, <1>0, <1>s, ErasedIs DEF StopPoints, Waits, InList, disk
<1>20. CASE Moved
  BY <1>20, <1>0, <1>s, MovedIs DEF StopPoints, Waits, InList, disk
<1>21. CASE EraseFile
  BY <1>21, <1>0, <1>s, EraseFileIs DEF StopPoints, Waits, InList, disk
<1>22. CASE EraseIfEmpty
  <2>1. Cur.n \notin Files
    BY <1>22, <1>0, EraseIfEmptyIs, FileFrames, FilesAreNodes
  <2> QED  BY <1>22, <1>0, <2>1, EraseIfEmptyIs
<1>23. CASE EraseDir
  BY <1>23, <1>0, <1>s, EraseDirIs DEF StopPoints, Waits, InList, disk
<1>24. CASE RecursiveErase
  BY <1>24, <1>0, <1>s, RecursiveEraseIs DEF StopPoints, Waits, InList, disk
<1>25. CASE EraseEntry
  BY <1>25, <1>0, <1>s, EraseEntryIs DEF Stopping
<1>26. CASE ErasedEntry
  BY <1>26, <1>0, <1>s, ErasedEntryIs DEF StopPoints, Waits, InList, disk
<1> QED
  BY <1>1, <1>2, <1>3, <1>4, <1>5, <1>6, <1>7, <1>8, <1>9, <1>10, <1>11, <1>12, <1>13,
     <1>14, <1>15, <1>16, <1>17, <1>18, <1>19, <1>20, <1>21, <1>22, <1>23, <1>24, <1>25,
     <1>26 DEF Next

\* After Abort nothing more is done to a file of the tagged entry, and in a copy to no file
\* at all, whatever the tree and whatever else goes wrong.
THEOREM AbortStopsHolds == Spec => AbortStops
<1>1. Core /\ AbortInv /\ [Next]_vars => [AbortStep]_vars
  BY NextStops
<1> QED  BY <1>1, AbortHolds, PTL DEF Spec, AbortStops, AbortStep

(***************************************************************************)
(* The tree.                                                               *)
(***************************************************************************)

\* The entries of a directory are nodes.
LEMMA EntriesAre == \A d \in Dirs : Entries(d) \subseteq Nodes
  BY Assumed DEF Entries

\* Sub[n] has n and all the entries of its directories.
LEMMA SubIs ==
  ASSUME NEW n \in Nodes
  PROVE  Sub[n] \subseteq Nodes /\ n \in Sub[n] /\ HasEntries(Sub[n])
<1>1. Sub[n] \subseteq Nodes /\ n \in Sub[n]
  BY DEF Sub
<1>2. ASSUME NEW d \in Sub[n] \cap Dirs, NEW c \in Entries(d) PROVE c \in Sub[n]
  <2>1. c \in Nodes
    BY EntriesAre
  <2>2. ASSUME NEW S \in SUBSET Nodes, n \in S, HasEntries(S) PROVE c \in S
    BY <2>2 DEF Sub, HasEntries
  <2> QED  BY <2>1, <2>2 DEF Sub
<1> QED  BY <1>1, <1>2 DEF HasEntries

\* Sub[n] is the least such set.
LEMMA SubLeast ==
  ASSUME NEW n \in Nodes, NEW S \in SUBSET Nodes, n \in S, HasEntries(S)
  PROVE  Sub[n] \subseteq S
  BY DEF Sub

\* What is in a node of Sub[n] is in Sub[n].
LEMMA SubNested == \A n \in Nodes : \A m \in Sub[n] : Sub[m] \subseteq Sub[n]
  BY SubIs, SubLeast

\* What is in an entry is in the directory.
LEMMA SubEntry == \A d \in Dirs : \A c \in Entries(d) : c \in Nodes /\ Sub[c] \subseteq Sub[d]
<1>1. \A d \in Dirs : d \in Nodes /\ \A c \in Entries(d) : c \in Sub[d]
  BY SubIs, Assumed DEF HasEntries
<1> QED  BY <1>1, SubNested, EntriesAre

\* In a file there is only the file.
LEMMA SubFile == \A f \in Files : Sub[f] = {f}
<1> TAKE f \in Files
<1>1. {f} \in SUBSET Nodes /\ f \in {f} /\ HasEntries({f}) /\ f \in Nodes
  BY FilesAreNodes DEF HasEntries
<1> QED  BY <1>1, SubIs, SubLeast

\* What is in a directory is the directory or in one of its entries.
LEMMA SubDir == \A d \in Dirs : \A m \in Sub[d] : m = d \/ \E c \in Entries(d) : m \in Sub[c]
<1> TAKE d \in Dirs
<1> DEFINE S == {m \in Nodes : m = d \/ \E c \in Entries(d) : m \in Sub[c]}
<1>1. d \in Nodes /\ S \in SUBSET Nodes /\ d \in S
  BY Assumed
<1>2. ASSUME NEW e \in S \cap Dirs, NEW c \in Entries(e) PROVE c \in S
  <2>1. c \in Nodes
    BY EntriesAre
  <2>2. c \in Sub[c]
    BY <2>1, SubIs
  <2>3. CASE e = d
    BY <2>1, <2>2, <2>3
  <2>4. CASE e # d
    <3>1. PICK b \in Entries(d) : e \in Sub[b]
      BY <2>4
    <3>2. c \in Sub[b]
      BY <3>1, SubIs, EntriesAre DEF HasEntries
    <3> QED  BY <2>1, <3>2
  <2> QED  BY <2>3, <2>4
<1>3. HasEntries(S)
  BY <1>2 DEF HasEntries
<1> HIDE DEF S
<1>4. Sub[d] \subseteq S
  BY <1>1, <1>3, SubLeast
<1> QED  BY <1>4 DEF S

(***************************************************************************)
(* What is still to be visited.                                            *)
(***************************************************************************)
\* what is in the nodes listed
Under(q) == {n \in Nodes : \E j \in DOMAIN q : n \in Sub[q[j]]}
\* points at which the node of the frame has still to be copied or moved
Visiting == CopyFileFns \cup {"copy_dir", "move_file", "rename", "move_dir"}
\* the nodes that a function at l, for n, with list q, has still to copy or move
TodoOf(l, n, q) ==
  IF l \in {"operate", "entry"} THEN Under(q)
  ELSE IF l \in {"operated", "copied_entry"} THEN Under(Tail(q))
  ELSE IF l \in Visiting THEN Sub[n]
  ELSE {}
\* the same for a frame
Todo(f) == TodoOf(f.at, f.n, f.rest)
\* the files still to be copied or moved
Pending == {n \in Files : \E k \in 1..Depth : n \in Todo(Level(k))}
\* No two functions have the same node still to do.
Disjoint == \A k, m \in 1..Depth : k # m => Todo(Level(k)) \cap Todo(Level(m)) = {}

\* What is in the first of the nodes listed and in the others.
LEMMA UnderParts ==
  ASSUME NEW q \in Seq(Nodes), q # <<>>
  PROVE  /\ Under(q) = Sub[Head(q)] \cup Under(Tail(q))
         /\ Separate(q) => Sub[Head(q)] \cap Under(Tail(q)) = {}
<1> DEFINE p == Tail(q)
<1>1. /\ Head(q) = q[1] /\ Head(q) \in Nodes /\ Len(q) \in Nat /\ Len(q) >= 1
      /\ p \in Seq(Nodes) /\ Len(p) = Len(q) - 1
      /\ \A i \in 1..Len(q) - 1 : p[i] = q[i + 1]
  BY SeqHead, SeqTail
<1>2. DOMAIN q = 1..Len(q) /\ DOMAIN p = 1..Len(q) - 1
  BY <1>1
<1> HIDE DEF p
<1>3. \A i \in DOMAIN p : i + 1 \in DOMAIN q /\ i + 1 # 1 /\ p[i] = q[i + 1]
  BY <1>1, <1>2
<1>4. \A j \in DOMAIN q : j = 1 \/ (j - 1 \in DOMAIN p /\ p[j - 1] = q[j])
  BY <1>1, <1>2
<1>5. 1 \in DOMAIN q
  BY <1>1, <1>2
<1>6. Sub[Head(q)] \subseteq Nodes
  BY <1>1, SubIs
<1>7. Under(q) = Sub[Head(q)] \cup Under(p)
  BY <1>1, <1>3, <1>4, <1>5, <1>6 DEF Under
<1>8. Separate(q) => Sub[Head(q)] \cap Under(p) = {}
  BY <1>1, <1>3, <1>5 DEF Under, Separate
<1> QED  BY <1>7, <1>8 DEF p

\* What is in entries listed is in the directory.
LEMMA UnderListing ==
  ASSUME NEW d \in Dirs, NEW q, Listing(q, d)
  PROVE  Under(q) \subseteq Sub[d]
  BY SubEntry DEF Under, Listing

\* What the running function has to do is pending.
LEMMA PendingTop ==
  ASSUME Typed, stack # <<>>
  PROVE  Todo(Cur) \cap Files \subseteq Pending
  BY TopType DEF Pending

\* A step within a function that takes on nothing new adds nothing to what is pending.
LEMMA TodoGoes ==
  ASSUME Typed, stack # <<>>, Disjoint, NEW l, NEW q, NEW r, Goes(l, q, r),
         TodoOf(l, Cur.n, q) \subseteq Todo(Cur)
  PROVE  /\ Disjoint' /\ Pending' \subseteq Pending
         /\ (Todo(Cur) \ TodoOf(l, Cur.n, q)) \cap Pending' = {}
<1>1. Depth \in Nat /\ Depth >= 1 /\ Cur = Level(Depth) /\ Depth \in 1..Depth
  BY TopType
<1>2. /\ Depth' = Depth /\ Todo(Cur') = TodoOf(l, Cur.n, q)
      /\ \A k \in 1..Depth : Level(k)' = IF k = Depth THEN Cur' ELSE Level(k)
  BY DEF Goes, Made, Todo
<1>3. \A k \in 1..Depth : Todo(Level(k)') \subseteq Todo(Level(k))
  BY <1>1, <1>2
<1>4. \A k, m \in 1..Depth : k # m => Todo(Level(k)') \cap Todo(Level(m)') = {}
  BY <1>3 DEF Disjoint
<1>5. \A n \in Files : (\E k \in 1..Depth : n \in Todo(Level(k)')) =>
                       /\ \E k \in 1..Depth : n \in Todo(Level(k))
                       /\ n \in Todo(Cur) => n \in Todo(Cur')
  <2> TAKE n \in Files
  <2> SUFFICES ASSUME NEW k \in 1..Depth, n \in Todo(Level(k)')
               PROVE  n \in Todo(Level(k)) /\ (n \in Todo(Cur) => n \in Todo(Cur'))
    OBVIOUS
  <2>1. n \in Todo(Level(k))
    BY <1>3
  <2>2. CASE k = Depth
    BY <1>2, <2>1, <2>2
  <2>3. CASE k # Depth
    BY <1>1, <2>1, <2>3 DEF Disjoint
  <2> QED  BY <2>1, <2>2, <2>3
<1> QED  BY <1>2, <1>4, <1>5 DEF Disjoint, Pending

\* When a function returns, what it had to do is pending no more.
LEMMA TodoReturns ==
  ASSUME Typed, stack # <<>>, Disjoint, NEW s, Returns(s)
  PROVE  Disjoint' /\ Pending' \subseteq Pending /\ Todo(Cur) \cap Pending' = {}
<1>1. Depth \in Nat /\ Depth >= 1 /\ Cur = Level(Depth) /\ Depth \in 1..Depth
  BY TopType
<1>2. Depth' = Depth - 1 /\ \A k \in 1..Depth - 1 : Level(k)' = Level(k)
  BY DEF Returns
<1>3. \A k \in 1..Depth - 1 : k \in 1..Depth /\ k # Depth
  BY <1>1
<1>4. \A k, m \in 1..Depth - 1 : k # m => Todo(Level(k)') \cap Todo(Level(m)') = {}
  BY <1>2, <1>3 DEF Disjoint
<1>5. \A n \in Files : (\E k \in 1..Depth - 1 : n \in Todo(Level(k)')) =>
                       (\E k \in 1..Depth : n \in Todo(Level(k))) /\ n \notin Todo(Cur)
  BY <1>1, <1>2, <1>3 DEF Disjoint
<1> QED  BY <1>2, <1>4, <1>5 DEF Disjoint, Pending

\* A call that shares out what there is to do adds nothing to what is pending.
LEMMA TodoEnters ==
  ASSUME Typed, stack # <<>>, Disjoint, NEW l, NEW f, NEW n, NEW a, Enters(l, f, n, a),
         TodoOf(l, Cur.n, Cur.rest) \subseteq Todo(Cur), TodoOf(f, n, <<>>) \subseteq Todo(Cur),
         TodoOf(l, Cur.n, Cur.rest) \cap TodoOf(f, n, <<>>) = {}
  PROVE  /\ Disjoint' /\ Pending' \subseteq Pending
         /\ (Todo(Cur) \ (TodoOf(l, Cur.n, Cur.rest) \cup TodoOf(f, n, <<>>))) \cap Pending' = {}
<1>1. Depth \in Nat /\ Depth >= 1 /\ Cur = Level(Depth) /\ Depth \in 1..Depth
  BY TopType
<1>2. PICK g \in Frame :
        /\ Made(g, l, Cur.n, Cur.rest, Cur.rs, Cur.ask)
        /\ \A k \in 1..Depth + 1 :
             Level(k)' = IF k = Depth + 1 THEN Cur' ELSE IF k = Depth THEN g ELSE Level(k)
  BY DEF Enters
<1>3. /\ Depth' = Depth + 1 /\ Todo(Cur') = TodoOf(f, n, <<>>)
      /\ Todo(g) = TodoOf(l, Cur.n, Cur.rest)
  BY <1>2 DEF Enters, Made, Todo
<1>4. \A k \in 1..Depth + 1 :
        /\ k = Depth + 1 \/ k \in 1..Depth
        /\ k = Depth + 1 => Todo(Level(k)') = Todo(Cur')
        /\ k = Depth => Todo(Level(k)') = Todo(g)
        /\ k # Depth /\ k # Depth + 1 => Todo(Level(k)') = Todo(Level(k))
  BY <1>1, <1>2
<1>d. \A k \in 1..Depth : k # Depth => Todo(Level(k)) \cap Todo(Cur) = {}
  BY <1>1 DEF Disjoint
<1>5. ASSUME NEW k \in 1..Depth + 1, NEW m \in 1..Depth + 1, k # m
      PROVE  Todo(Level(k)') \cap Todo(Level(m)') = {}
  <2>1. CASE k # Depth /\ k # Depth + 1 /\ m # Depth /\ m # Depth + 1
    BY <1>4, <1>5, <2>1 DEF Disjoint
  <2>2. CASE k \in {Depth, Depth + 1} /\ m # Depth /\ m # Depth + 1
    BY <1>3, <1>4, <1>d, <2>2
  <2>3. CASE m \in {Depth, Depth + 1} /\ k # Depth /\ k # Depth + 1
    BY <1>3, <1>4, <1>d, <2>3
  <2>4. CASE k \in {Depth, Depth + 1} /\ m \in {Depth, Depth + 1}
    BY <1>3, <1>4, <1>5, <2>4
  <2> QED  BY <2>1, <2>2, <2>3, <2>4
<1>6. \A x \in Files : (\E k \in 1..Depth + 1 : x \in Todo(Level(k)')) =>
                       /\ \E k \in 1..Depth : x \in Todo(Level(k))
                       /\ x \in Todo(Cur) => x \in Todo(g) \cup Todo(Cur')
  <2> TAKE x \in Files
  <2> SUFFICES ASSUME NEW k \in 1..Depth + 1, x \in Todo(Level(k)')
               PROVE  /\ \E i \in 1..Depth : x \in Todo(Level(i))
                      /\ x \in Todo(Cur) => x \in Todo(g) \cup Todo(Cur')
    OBVIOUS
  <2>1. CASE k \in {Depth, Depth + 1}
    BY <1>1, <1>3, <1>4, <2>1
  <2>2. CASE k # Depth /\ k # Depth + 1
    BY <1>4, <1>d, <2>2
  <2> QED  BY <2>1, <2>2
<1> QED  BY <1>3, <1>5, <1>6 DEF Disjoint, Pending

\* TodoOf, point by point.
LEMMA TodoCases ==
  ASSUME NEW n, NEW q
  PROVE  /\ TodoOf("operate", n, q) = Under(q) /\ TodoOf("entry", n, q) = Under(q)
         /\ TodoOf("operated", n, q) = Under(Tail(q))
         /\ TodoOf("copied_entry", n, q) = Under(Tail(q))
         /\ \A l \in {"copy_file", "link", "open", "fill", "short", "copy_dir", "move_file",
                      "rename", "move_dir"} : TodoOf(l, n, q) = Sub[n]
         /\ \A l \in {"copied", "remove", "dir_copied", "erasing", "erased", "moved",
                      "erase_file", "erase_if_empty", "erase_dir", "recursive_erase",
                      "erase_entry", "erased_entry"} : TodoOf(l, n, q) = {}
         /\ Under(<<>>) = {}
  BY DEF TodoOf, Visiting, CopyFileFns, Under

\* Every step keeps Disjoint, and nothing becomes pending again: no file is visited twice.
LEMMA NextTodo ==
  ASSUME Core, Disjoint, Next
  PROVE  Disjoint' /\ Pending' \subseteq Pending
<1>0. stack # <<>> /\ FrameOK(Cur) /\ Typed /\ Shape
  BY NextRuns, Places DEF Core
<1>t. /\ Depth \in Nat /\ Depth >= 1 /\ Cur.n \in Nodes /\ Cur.rest \in Seq(Nodes)
      /\ Separate(Cur.rest)
  BY <1>0, TopType DEF FrameOK
<1>u. Todo(Cur) = TodoOf(Cur.at, Cur.n, Cur.rest)
  BY DEF Todo
<1>r. (\E s : Returns(s)) => Disjoint' /\ Pending' \subseteq Pending
  BY <1>0, TodoReturns
<1>f. FailsNow \/ AbortNow => Disjoint' /\ Pending' \subseteq Pending
  BY <1>r, FailsReturns
<1>g. ASSUME NEW l, NEW q, NEW r, Goes(l, q, r), TodoOf(l, Cur.n, q) \subseteq Todo(Cur)
      PROVE  Disjoint' /\ Pending' \subseteq Pending
  BY <1>0, <1>g, TodoGoes
<1>e. ASSUME NEW l, NEW f, NEW n, NEW a, Enters(l, f, n, a),
             TodoOf(l, Cur.n, Cur.rest) \subseteq Todo(Cur), TodoOf(f, n, <<>>) \subseteq Todo(Cur),
             TodoOf(l, Cur.n, Cur.rest) \cap TodoOf(f, n, <<>>) = {}
      PROVE  Disjoint' /\ Pending' \subseteq Pending
  BY <1>0, <1>e, TodoEnters
<1>c. Cur.rest # <<>> =>
        /\ Under(Cur.rest) = Sub[Head(Cur.rest)] \cup Under(Tail(Cur.rest))
        /\ Sub[Head(Cur.rest)] \cap Under(Tail(Cur.rest)) = {}
  BY <1>t, UnderParts
<1>1. CASE Operate
  <2>1. opt.op \in {"copy", "move", "delete"}
    BY <1>0, Places
  <2>2. PICK f, n : /\ Cur.at = "operate" /\ Cur.rest # <<>> /\ n = Head(Cur.rest)
                    /\ Enters("operated", f, n, TRUE)
                    /\ f \in {"erase_dir", "erase_file", "copy_dir", "copy_file", "move_dir",
                              "move_file"}
    BY <1>1, <1>0, <2>1, OperateIs
  <2>3. TodoOf(f, n, <<>>) \subseteq Sub[n]
    BY <2>2, TodoCases
  <2>4. Todo(Cur) = Under(Cur.rest) /\ TodoOf("operated", Cur.n, Cur.rest) = Under(Tail(Cur.rest))
    BY <1>u, <2>2, TodoCases
  <2> QED  BY <1>c, <1>e, <2>2, <2>3, <2>4
<1>2. CASE Operated
  <2>1. /\ Todo(Cur) = Under(Tail(Cur.rest))
        /\ TodoOf("operate", Cur.n, Tail(Cur.rest)) = Under(Tail(Cur.rest))
    BY <1>2, <1>0, <1>u, OperatedIs, TodoCases
  <2> QED  BY <1>2, <1>0, <1>r, <1>f, <1>g, <2>1, OperatedIs
<1>3. CASE Finish
  BY <1>3, <1>0, <1>r, <1>f, FinishIs
<1>4. CASE CopyFile
  <2>1. \A q : TodoOf("link", Cur.n, q) \subseteq Todo(Cur)
    BY <1>4, <1>0, <1>u, CopyFileIs, TodoCases
  <2> QED  BY <1>4, <1>0, <1>r, <1>f, <1>g, <2>1, CopyFileIs DEF Replaces
<1>5. CASE Link
  <2>1. \A q : TodoOf("open", Cur.n, q) \subseteq Todo(Cur)
    BY <1>5, <1>0, <1>u, LinkIs, TodoCases
  <2> QED  BY <1>5, <1>0, <1>r, <1>f, <1>g, <2>1, LinkIs
<1>6. CASE Open
  <2>1. \A q : TodoOf("fill", Cur.n, q) \subseteq Todo(Cur)
    BY <1>6, <1>0, <1>u, OpenIs, TodoCases
  <2> QED  BY <1>6, <1>0, <1>r, <1>f, <1>g, <2>1, OpenIs
<1>7. CASE Fill
  <2>1. \A q : TodoOf("short", Cur.n, q) \subseteq Todo(Cur)
    BY <1>7, <1>0, <1>u, FillIs, TodoCases
  <2> QED  BY <1>7, <1>0, <1>r, <1>f, <1>g, <2>1, FillIs
<1>8. CASE Short
  BY <1>8, <1>0, <1>r, <1>f, ShortIs
<1>9. CASE CopyDir
  <2>1. Cur.at = "copy_dir" /\ Todo(Cur) = Sub[Cur.n] /\ TodoOf("copy_dir", Cur.n, Cur.rest) = Sub[Cur.n]
    BY <1>9, <1>0, <1>u, CopyDirIs, TodoCases
  <2>2. ASSUME NEW q, Listing(q, Cur.n), Goes("entry", q, Cur.rs)
        PROVE  Disjoint' /\ Pending' \subseteq Pending
    <3>1. Cur.n \in Dirs
      BY <1>0, <2>1, FileFrames
    <3>2. TodoOf("entry", Cur.n, q) = Under(q)
      BY TodoCases
    <3> QED  BY <1>g, <2>1, <2>2, <3>1, <3>2, UnderListing
  <2> QED  BY <1>9, <1>0, <1>f, <1>g, <2>1, <2>2, CopyDirIs
<1>10. CASE Entry
  <2>1. CASE Returns(Cur.rs)
    BY <1>r, <2>1
  <2>2. CASE ~Returns(Cur.rs)
    <3>1. PICK f, n : /\ Cur.at = "entry" /\ Cur.rest # <<>> /\ n = Head(Cur.rest)
                      /\ Enters("copied_entry", f, n, TRUE) /\ f \in {"copy_dir", "copy_file"}
      BY <1>10, <1>0, <2>2, EntryIs
    <3>2. /\ TodoOf(f, n, <<>>) = Sub[n] /\ Todo(Cur) = Under(Cur.rest)
          /\ TodoOf("copied_entry", Cur.n, Cur.rest) = Under(Tail(Cur.rest))
      BY <1>u, <3>1, TodoCases
    <3> QED  BY <1>c, <1>e, <3>1, <3>2
  <2> QED  BY <2>1, <2>2
<1>11. CASE CopiedEntry
  <2>1. /\ Todo(Cur) = Under(Tail(Cur.rest))
        /\ TodoOf("entry", Cur.n, Tail(Cur.rest)) = Under(Tail(Cur.rest))
    BY <1>11, <1>0, <1>u, CopiedEntryIs, TodoCases
  <2> QED  BY <1>11, <1>0, <1>g, <2>1, CopiedEntryIs
<1>12. CASE MoveFile
  <2>1. \A q : TodoOf("rename", Cur.n, q) \subseteq Todo(Cur)
    BY <1>12, <1>0, <1>u, MoveFileIs, TodoCases
  <2> QED  BY <1>12, <1>0, <1>r, <1>f, <1>g, <2>1, MoveFileIs DEF Replaces
<1>13. CASE Rename
  <2>1. /\ TodoOf("copied", Cur.n, Cur.rest) = {} /\ Todo(Cur) = Sub[Cur.n]
        /\ TodoOf("copy_file", Cur.n, <<>>) = Sub[Cur.n]
    BY <1>13, <1>0, <1>u, RenameIs, TodoCases
  <2> QED  BY <1>13, <1>0, <1>r, <1>f, <1>e, <2>1, RenameIs
<1>14. CASE Copied
  <2>1. \A q : TodoOf("remove", Cur.n, q) \subseteq Todo(Cur)
    BY <1>14, <1>0, <1>u, CopiedIs, TodoCases
  <2> QED  BY <1>14, <1>0, <1>r, <1>f, <1>g, <2>1, CopiedIs
<1>15. CASE Remove
  <2>1. \A q : TodoOf("remove", Cur.n, q) \subseteq Todo(Cur)
    BY <1>15, <1>0, <1>u, RemoveIs, TodoCases
  <2> QED  BY <1>15, <1>0, <1>r, <1>f, <1>g, <2>1, RemoveIs
<1>16. CASE MoveDir
  <2>1. /\ TodoOf("dir_copied", Cur.n, Cur.rest) = {} /\ Todo(Cur) = Sub[Cur.n]
        /\ TodoOf("copy_dir", Cur.n, <<>>) = Sub[Cur.n]
    BY <1>16, <1>0, <1>u, MoveDirIs, TodoCases
  <2> QED  BY <1>16, <1>0, <1>r, <1>f, <1>e, <2>1, MoveDirIs
<1>17. CASE DirCopied
  <2>1. \A q : TodoOf("erasing", Cur.n, q) \subseteq Todo(Cur)
    BY <1>17, <1>0, <1>u, DirCopiedIs, TodoCases
  <2> QED  BY <1>17, <1>0, <1>r, <1>f, <1>g, <2>1, DirCopiedIs
<1>18. CASE Erasing
  <2>1. \A n, q : /\ TodoOf("moved", n, q) = {} /\ TodoOf("erased", n, q) = {}
                  /\ TodoOf("erase_if_empty", n, q) = {} /\ TodoOf("erase_file", n, q) = {}
    BY TodoCases
  <2> QED  BY <1>18, <1>0, <1>e, <2>1, ErasingIs
<1>19. CASE Erased
  <2>1. \A q : TodoOf("erasing", Cur.n, q) \subseteq Todo(Cur)
    BY <1>19, <1>0, <1>u, ErasedIs, TodoCases
  <2> QED  BY <1>19, <1>0, <1>r, <1>f, <1>g, <2>1, ErasedIs
<1>20. CASE Moved
  BY <1>20, <1>0, <1>r, <1>f, MovedIs
<1>21. CASE EraseFile
  BY <1>21, <1>0, <1>r, <1>f, EraseFileIs
<1>22. CASE EraseIfEmpty
  BY <1>22, <1>0, <1>r, <1>f, EraseIfEmptyIs
<1>23. CASE EraseDir
  <2>1. \A q : TodoOf("recursive_erase", Cur.n, q) \subseteq Todo(Cur)
    BY <1>23, <1>0, <1>u, EraseDirIs, TodoCases
  <2> QED  BY <1>23, <1>0, <1>r, <1>f, <1>g, <2>1, EraseDirIs
<1>24. CASE RecursiveErase
  <2>1. \A q : TodoOf("erase_entry", Cur.n, q) \subseteq Todo(Cur)
    BY <1>24, <1>0, <1>u, RecursiveEraseIs, TodoCases
  <2> QED  BY <1>24, <1>0, <1>r, <1>f, <1>g, <2>1, RecursiveEraseIs
<1>25. CASE EraseEntry
  <2>1. \A n, q : /\ TodoOf("erased_entry", n, q) = {} /\ TodoOf("recursive_erase", n, q) = {}
                  /\ TodoOf("erase_file", n, q) = {}
    BY TodoCases
  <2> QED  BY <1>25, <1>0, <1>r, <1>f, <1>e, <2>1, EraseEntryIs
<1>26. CASE ErasedEntry
  <2>1. \A q : TodoOf("erase_entry", Cur.n, q) \subseteq Todo(Cur)
    BY <1>26, <1>0, <1>u, ErasedEntryIs, TodoCases
  <2> QED  BY <1>26, <1>0, <1>r, <1>f, <1>g, <2>1, ErasedEntryIs
<1> QED
  BY <1>1, <1>2, <1>3, <1>4, <1>5, <1>6, <1>7, <1>8, <1>9, <1>10, <1>11, <1>12, <1>13,
     <1>14, <1>15, <1>16, <1>17, <1>18, <1>19, <1>20, <1>21, <1>22, <1>23, <1>24, <1>25,
     <1>26 DEF Next

\* Disjoint in the beginning.
LEMMA InitTodo == Init => Disjoint
  BY InitTop DEF Disjoint

\* A stuttering step keeps Disjoint.
LEMMA TodoStutter == ASSUME Disjoint, UNCHANGED vars PROVE Disjoint'
  BY DEF Disjoint, Level, Depth, vars

(***************************************************************************)
(* What a step of a copy or a move does to the two trees.                  *)
(***************************************************************************)
\* the files in erase_list
Erasable == {f \in Files : \E i \in DOMAIN erase : erase[i] = f}
\* the file whose copy has just ended, before it is put into erase_list or removed
JustCopied ==
  {f \in Files :
     /\ stack # <<>>
     /\ \/ Cur.at = "copied_entry" /\ opt.op = "move" /\ ret = "cont" /\ f = Head(Cur.rest)
        \/ Cur.at = "copied" /\ ret = "cont" /\ f = Cur.n
        \/ Cur.at = "remove" /\ f = Cur.n}
\* the files a move may remove from the source
Doomed == Erasable \cup JustCopied

\* No file has just been copied after a step elsewhere in a function.
LEMMA JustGoes ==
  ASSUME NEW l, NEW q, NEW r, Goes(l, q, r), l \notin {"copied_entry", "copied", "remove"}
  PROVE  JustCopied' = {}
  BY DEF JustCopied, Goes, Made

\* Nor when a function is called.
LEMMA JustEnters ==
  ASSUME NEW l, NEW f, NEW n, NEW a, Enters(l, f, n, a), f \notin {"copied_entry", "copied", "remove"}
  PROVE  JustCopied' = {}
  BY DEF JustCopied, Enters, Made

\* A return of success is of the copy of the file at hand.
LEMMA JustReturns ==
  ASSUME Typed, Shape, stack # <<>>, NEW s, Returns(s), opt' = opt
  PROVE  /\ JustCopied' \subseteq {Cur.n} /\ (s # "cont" => JustCopied' = {})
         /\ Depth = 1 \/ (Caller.at # "copied" /\ Caller.at # "copied_entry") => JustCopied' = {}
<1>1. Depth \in Nat /\ Depth >= 1
  BY TopType
<1>2. CASE Depth = 1
  BY <1>2, CallerReturns DEF JustCopied
<1>3. CASE Depth >= 2
  <2>1. Cur' = Caller /\ ret' = s /\ Calls(Caller, Cur)
    BY <1>3, CallerReturns, CallerIs DEF Returns
  <2>2. Caller.at # "remove"
    BY <2>1 DEF Calls, Waits, InList
  <2>3. /\ Caller.at = "copied_entry" => Cur.n = Head(Caller.rest)
        /\ Caller.at = "copied" => Cur.n = Caller.n
    BY <2>1 DEF Calls, InList
  <2> QED  BY <1>3, <2>1, <2>2, <2>3 DEF JustCopied
<1> QED  BY <1>1, <1>2, <1>3

\* Nothing is copied, and only what is to be removed is.
KeepStep ==
  /\ UNCHANGED <<data, links>> /\ src' \subseteq src /\ (src \ src') \cap Files \subseteq Doomed
  /\ \A m \in Files : tgt'[m] = tgt[m]
  /\ tgt' = tgt \/ (Cur.n \in Dirs /\ tgt' = [tgt EXCEPT ![Cur.n] = Directory])
  /\ Doomed' \subseteq Doomed
  /\ Cur.at \in {"open", "fill", "short"} => Cur.n \notin Pending'
  /\ stack' # <<>> => Cur'.at # "fill"

\* check_hardlinks makes a hard link to what was copied before.
LinkStep ==
  /\ Cur.at = "link" /\ UNCHANGED <<src, data, links>>
  /\ LET first == links[Inode(Cur.n)]
     IN /\ first # "none" /\ first \in src /\ tgt[first] # Nothing /\ tgt[Cur.n] = Nothing
        /\ tgt' = [tgt EXCEPT ![Cur.n] = tgt[first]]
  /\ Doomed' \subseteq Doomed \cup {Cur.n} /\ Cur.n \notin Pending'
  /\ stack' # <<>> => Cur'.at # "fill"

\* check_hardlinks notes the first name of an inode.
FirstStep ==
  /\ Cur.at = "link" /\ UNCHANGED <<src, tgt, data>>
  /\ links' = [links EXCEPT ![Inode(Cur.n)] = Cur.n]
  /\ stack' # <<>> /\ Cur'.at = "open" /\ Cur'.n = Cur.n
  /\ Doomed' \subseteq Doomed

\* The target is opened.
OpenStep ==
  /\ Cur.at = "open" /\ UNCHANGED <<src, links>>
  /\ LET t == IF tgt[Cur.n] = Nothing THEN OwnFile(Cur.n) ELSE tgt[Cur.n]
     IN /\ tgt' = [tgt EXCEPT ![Cur.n] = t]
        /\ data' = IF append /\ tgt[Cur.n] # Nothing THEN data ELSE [data EXCEPT ![t.file] = <<>>]
  /\ stack' # <<>> /\ Cur'.at = "fill" /\ Cur'.n = Cur.n
  /\ Doomed' \subseteq Doomed

\* All is written, or a part and the target stays incomplete.
FillStep ==
  /\ Cur.at = "fill" /\ UNCHANGED <<src, tgt, links>>
  /\ stack' # <<>> => Cur'.at # "fill"
  /\ \/ /\ Written(Cur.n, <<<<"whole", Inode(Cur.n)>>>>)
        /\ Cur.n \notin Pending' /\ Doomed' \subseteq Doomed \cup {Cur.n}
     \/ /\ \E p \in Seq(Piece) : Written(Cur.n, p)
        /\ stack' # <<>> /\ Cur'.at = "short" /\ Cur'.n = Cur.n /\ Doomed' \subseteq Doomed

\* The incomplete target is kept or deleted.
ShortStep ==
  /\ Cur.at = "short" /\ UNCHANGED <<src, data, links>>
  /\ tgt' \in {tgt, [tgt EXCEPT ![Cur.n] = Nothing]}
  /\ Cur.n \notin Pending' /\ Doomed' \subseteq Doomed
  /\ stack' # <<>> => Cur'.at # "fill"

\* A file is renamed.
RenameStep ==
  /\ Cur.at = "rename" /\ UNCHANGED links
  /\ src' = src \ {Cur.n}
  /\ tgt' = [tgt EXCEPT ![Cur.n] = OwnFile(Cur.n)]
  /\ data' = [data EXCEPT ![Cur.n] = <<<<"moved", Inode(Cur.n)>>>>]
  /\ Cur.n \notin Pending' /\ Doomed' \subseteq Doomed
  /\ stack' # <<>> => Cur'.at # "fill"

\* A directory is renamed with all that is in it.
MoveDirStep ==
  /\ Cur.at = "move_dir" /\ UNCHANGED links /\ tgt[Cur.n] = Nothing
  /\ src' = src \ Sub[Cur.n]
  /\ tgt' = [m \in Nodes |-> IF m \notin Sub[Cur.n] THEN tgt[m]
              ELSE IF m \in Dirs THEN Directory ELSE OwnFile(m)]
  /\ data' = [f \in Files |-> IF f \in Sub[Cur.n] THEN <<<<"moved", Inode(f)>>>> ELSE data[f]]
  /\ Sub[Cur.n] \cap Pending' = {} /\ Doomed' \subseteq Doomed
  /\ stack' # <<>> => Cur'.at # "fill"

\* what a step of a copy or a move can do to the two trees
CarryStep ==
  \/ KeepStep \/ LinkStep \/ FirstStep \/ OpenStep \/ FillStep \/ ShortStep \/ RenameStep
  \/ MoveDirStep

\* Every step of a copy or a move is one of these.
LEMMA NextCarry ==
  ASSUME Core, Disjoint, opt.op # "delete", Next
  PROVE  CarryStep
<1>0. stack # <<>> /\ FrameOK(Cur) /\ Typed /\ Shape /\ ListInv /\ opt' = opt
  BY NextRuns, Places, NextCore DEF Core
<1>t. /\ Depth \in Nat /\ Depth >= 1 /\ Cur.n \in Nodes /\ Cur.rest \in Seq(Nodes)
      /\ Separate(Cur.rest)
  BY <1>0, TopType DEF FrameOK
<1>p. Cur.at \in {"operate", "operated"} <=> Depth = 1
  BY <1>0, Places DEF Ends
<1>d. Cur.at \notin {"operate", "operated"} => Depth >= 2
  BY <1>t, <1>p
<1>e. erase' = erase => Erasable' = Erasable
  BY DEF Erasable
<1>j. ASSUME NEW s, Returns(s)
      PROVE  /\ JustCopied' \subseteq {Cur.n} /\ (s # "cont" => JustCopied' = {})
             /\ Depth = 1 \/ (Caller.at # "copied" /\ Caller.at # "copied_entry") => JustCopied' = {}
             /\ stack' # <<>> => Cur'.at # "fill"
             /\ Todo(Cur) \cap Pending' = {}
  <2>1. stack' # <<>> => Cur'.at # "fill"
    <3>1. stack' # <<>> => Depth >= 2 /\ Cur' = Caller /\ Caller.at \in Waits
      BY <1>0, <1>t, <1>j, CallerReturns, CallerIs DEF Calls
    <3> QED  BY <3>1 DEF Waits, InList
  <2> QED  BY <1>0, <1>j, <2>1, JustReturns, TodoReturns
<1>m. Cur.at \in MoveFns => Depth = 2 /\ Caller.at = "operated"
  BY <1>0, Places, CallerIs
<1>n. Cur.at \in {"link", "open", "fill", "short", "rename", "move_dir"} =>
        /\ Cur.n \in Todo(Cur) /\ Todo(Cur) = Sub[Cur.n]
  BY <1>t, TodoCases, SubIs DEF Todo
<1>x. JustCopied \cap Files = JustCopied /\ JustCopied' \cap Files = JustCopied'
  BY DEF JustCopied
<1>k. ASSUME UNCHANGED <<disk, links, erase>>, JustCopied' \subseteq Doomed,
             Cur.at \notin {"open", "fill", "short"}, stack' # <<>> => Cur'.at # "fill"
      PROVE  KeepStep
  BY <1>e, <1>k DEF KeepStep, Doomed, disk
<1>f. ASSUME FailsNow \/ AbortNow, UNCHANGED <<disk, links, erase>> PROVE KeepStep
  <2>1. PICK s \in {"skip", "abort"} : Returns(s)
    BY <1>f, FailsReturns
  <2>2. JustCopied' = {} /\ (stack' # <<>> => Cur'.at # "fill") /\ Todo(Cur) \cap Pending' = {}
    BY <1>j, <2>1
  <2>3. Cur.at \in {"open", "fill", "short"} => Cur.n \notin Pending'
    BY <1>n, <2>2
  <2> QED  BY <1>e, <1>f, <2>2, <2>3 DEF KeepStep, Doomed, disk
<1>g. ASSUME NEW l, NEW q, NEW r, Goes(l, q, r), UNCHANGED <<disk, links, erase>>,
             l \notin {"copied_entry", "copied", "remove", "fill"},
             Cur.at \notin {"open", "fill", "short"}
      PROVE  KeepStep
  <2>1. JustCopied' = {} /\ Cur'.at # "fill"
    BY <1>g, JustGoes DEF Goes, Made
  <2> QED  BY <1>g, <1>k, <2>1
<1>c. ASSUME NEW l, NEW f, NEW n, NEW a, Enters(l, f, n, a), UNCHANGED <<disk, links, erase>>,
             f \notin {"copied_entry", "copied", "remove", "fill"},
             Cur.at \notin {"open", "fill", "short"}
      PROVE  KeepStep
  <2>1. JustCopied' = {} /\ Cur'.at # "fill"
    BY <1>c, JustEnters DEF Enters, Made
  <2> QED  BY <1>c, <1>k, <2>1
<1>b. Cur.at \notin {"erase_dir", "recursive_erase", "erase_entry", "erased_entry"}
  BY <1>0, Places DEF EraseDirFns
<1>1. CASE Operate
  <2>1. opt.op \in {"copy", "move", "delete"}
    BY <1>0, Places
  <2>2. PICK f, n : /\ Cur.at = "operate" /\ Enters("operated", f, n, TRUE)
                    /\ UNCHANGED <<disk, links, erase>>
                    /\ f \in {"erase_dir", "erase_file", "copy_dir", "copy_file", "move_dir",
                              "move_file"}
    BY <1>1, <1>0, <2>1, OperateIs
  <2> QED  BY <1>c, <2>2 DEF CarryStep
<1>2. CASE Operated
  <2>1. Cur.at = "operated" /\ Depth = 1 /\ UNCHANGED <<disk, links, erase>>
    BY <1>2, <1>0, <1>p, OperatedIs
  <2>2. \A s : Returns(s) => KeepStep
    BY <1>j, <1>k, <2>1
  <2> QED  BY <1>2, <1>0, <1>f, <1>g, <2>1, <2>2, OperatedIs DEF CarryStep
<1>3. CASE Finish
  <2>1. Cur.at = "operate" /\ Depth = 1 /\ UNCHANGED <<disk, links, erase>>
    BY <1>3, <1>0, <1>p, FinishIs
  <2>2. \A s : Returns(s) => KeepStep
    BY <1>j, <1>k, <2>1
  <2> QED  BY <1>3, <1>0, <2>2, FinishIs DEF CarryStep
<1>4. CASE CopyFile
  <2>1. Cur.at = "copy_file"
    BY <1>4, <1>0, CopyFileIs
  <2>2. ASSUME NEW s \in {"skip", "abort"}, Returns(s), UNCHANGED <<disk, links, erase>> PROVE KeepStep
    BY <1>j, <1>k, <2>1, <2>2
  <2> QED  BY <1>4, <1>0, <1>f, <1>g, <2>1, <2>2, CopyFileIs DEF CarryStep, Replaces
<1>5. CASE Link
  <2>1. Cur.at = "link" /\ UNCHANGED <<src, data, erase>>
    BY <1>5, <1>0, LinkIs DEF Unasked
  <2>2. ASSUME Goes("open", Cur.rest, Cur.rs)
        PROVE  JustCopied' = {} /\ stack' # <<>> /\ Cur'.at = "open" /\ Cur'.n = Cur.n
    BY <2>2, JustGoes DEF Goes, Made
  <2>3. CASE Goes("open", Cur.rest, Cur.rs) /\ UNCHANGED <<tgt, links>>
    BY <1>g, <2>1, <2>3 DEF CarryStep, disk
  <2>4. CASE Goes("open", Cur.rest, Cur.rs) /\ UNCHANGED tgt /\ links' = [links EXCEPT ![Inode(Cur.n)] = Cur.n]
    BY <1>e, <2>1, <2>2, <2>4 DEF CarryStep, FirstStep, Doomed
  <2>5. CASE /\ Returns("cont") /\ UNCHANGED links
             /\ LET first == links[Inode(Cur.n)]
                IN /\ first # "none" /\ first \in src /\ tgt[first] # Nothing /\ tgt[Cur.n] = Nothing
                   /\ tgt' = [tgt EXCEPT ![Cur.n] = tgt[first]]
    <3>1. JustCopied' \subseteq {Cur.n} /\ Cur.n \notin Pending' /\ (stack' # <<>> => Cur'.at # "fill")
      BY <1>j, <1>n, <2>1, <2>5
    <3> QED  BY <1>e, <2>1, <2>5, <3>1 DEF CarryStep, LinkStep, Doomed
  <2> QED  BY <1>5, <1>0, <2>3, <2>4, <2>5, LinkIs
<1>6. CASE Open
  <2>1. Cur.at = "open" /\ UNCHANGED <<src, links, erase>>
    BY <1>6, <1>0, OpenIs
  <2>2. CASE FailsNow /\ UNCHANGED <<tgt, data>>
    BY <1>f, <2>1, <2>2 DEF disk, CarryStep
  <2>3. CASE /\ Goes("fill", Cur.rest, Cur.rs)
             /\ LET t == IF tgt[Cur.n] = Nothing THEN OwnFile(Cur.n) ELSE tgt[Cur.n]
                IN /\ tgt' = [tgt EXCEPT ![Cur.n] = t]
                   /\ data' = IF append /\ tgt[Cur.n] # Nothing THEN data
                              ELSE [data EXCEPT ![t.file] = <<>>]
    <3>1. JustCopied' = {} /\ stack' # <<>> /\ Cur'.at = "fill" /\ Cur'.n = Cur.n
      BY <2>3, JustGoes DEF Goes, Made
    <3> QED  BY <1>e, <2>1, <2>3, <3>1 DEF CarryStep, OpenStep, Doomed
  <2> QED  BY <1>6, <1>0, <2>2, <2>3, OpenIs
<1>7. CASE Fill
  <2>1. Cur.at = "fill" /\ UNCHANGED <<src, tgt, links, erase>> /\ Cur.n \in Files
    BY <1>7, <1>0, FillIs, FileFrames
  <2>2. CASE Written(Cur.n, <<<<"whole", Inode(Cur.n)>>>>) /\ (Returns("cont") \/ FailsNow)
    <3>1. \E s : Returns(s)
      BY <2>2, FailsReturns
    <3>2. JustCopied' \subseteq {Cur.n} /\ Cur.n \notin Pending' /\ (stack' # <<>> => Cur'.at # "fill")
      BY <1>j, <1>n, <2>1, <3>1
    <3> QED  BY <1>e, <2>1, <2>2, <3>2 DEF CarryStep, FillStep, Doomed
  <2>3. CASE \E s \in {"skip", "abort"}, pieces \in {<<>>, <<<<"part", Inode(Cur.n)>>>>} :
                 FileError(s) /\ Written(Cur.n, pieces) /\ Goes("short", Cur.rest, s)
    <3>1. \E p \in Seq(Piece) : Written(Cur.n, p)
      BY <1>0, <2>1, <2>3, PiecesAre
    <3>2. \E s : Goes("short", Cur.rest, s)
      BY <2>3
    <3>3. JustCopied' = {} /\ stack' # <<>> /\ Cur'.at = "short" /\ Cur'.n = Cur.n
      BY <3>2, JustGoes DEF Goes, Made
    <3> QED  BY <1>e, <2>1, <3>1, <3>3 DEF CarryStep, FillStep, Doomed
  <2> QED  BY <1>7, <1>0, <2>2, <2>3, FillIs
<1>8. CASE Short
  <2>1. /\ Cur.at = "short" /\ UNCHANGED <<src, data, links, erase>>
        /\ tgt' \in {tgt, [tgt EXCEPT ![Cur.n] = Nothing]}
    BY <1>8, <1>0, ShortIs
  <2>2. Cur.rs \in {"skip", "abort"}
    BY <1>0, <2>1 DEF FrameOK
  <2>3. PICK s \in {"skip", "abort"} : Returns(s)
    BY <1>8, <1>0, <2>2, ShortIs, FailsReturns
  <2>4. JustCopied' = {} /\ Cur.n \notin Pending' /\ (stack' # <<>> => Cur'.at # "fill")
    BY <1>j, <1>n, <2>1, <2>3
  <2> QED  BY <1>e, <2>1, <2>4 DEF CarryStep, ShortStep, Doomed
<1>9. CASE CopyDir
  <2>1. /\ Cur.at = "copy_dir" /\ UNCHANGED <<src, data, links, erase>> /\ Cur.n \in Dirs
        /\ tgt' = tgt \/ tgt' = [tgt EXCEPT ![Cur.n] = Directory]
    BY <1>9, <1>0, CopyDirIs, FileFrames
  <2>2. \A m \in Files : tgt'[m] = tgt[m]
    BY <1>0, <2>1, FilesAreNodes DEF Typed
  <2>3. \/ \E s \in {"skip", "abort"} : Returns(s)
        \/ \E l \in {"copy_dir", "entry"} : \E q, r : Goes(l, q, r)
    BY <1>9, <1>0, CopyDirIs, FailsReturns
  <2>4. JustCopied' = {} /\ (stack' # <<>> => Cur'.at # "fill")
    BY <1>j, <2>3, JustGoes DEF Goes, Made
  <2> QED  BY <1>e, <2>1, <2>2, <2>4 DEF CarryStep, KeepStep, Doomed
<1>10. CASE Entry
  <2>1. Cur.at = "entry" /\ UNCHANGED <<disk, links, erase>> /\ Cur.n \in Dirs
    BY <1>10, <1>0, EntryIs, FileFrames
  <2>2. CASE Returns(Cur.rs)
    <3>1. JustCopied' = {}
      BY <1>j, <1>x, <2>1, <2>2, FilesAreNodes
    <3> QED  BY <1>j, <1>k, <2>1, <2>2, <3>1 DEF CarryStep
  <2>3. CASE ~Returns(Cur.rs)
    <3>1. PICK f, n : Enters("copied_entry", f, n, TRUE) /\ f \in {"copy_dir", "copy_file"}
      BY <1>10, <1>0, <2>3, EntryIs
    <3> QED  BY <1>c, <2>1, <3>1 DEF CarryStep
  <2> QED  BY <2>2, <2>3
<1>11. CASE CopiedEntry
  <2>1. /\ Cur.at = "copied_entry" /\ UNCHANGED <<disk, links>> /\ Goes("entry", Tail(Cur.rest), ret)
        /\ Cur.rest # <<>>
        /\ erase' = IF opt.op = "move" /\ ret = "cont" THEN Append(erase, Head(Cur.rest)) ELSE erase
    BY <1>11, <1>0, CopiedEntryIs
  <2>2. JustCopied' = {} /\ Cur'.at = "entry"
    BY <2>1, JustGoes DEF Goes, Made
  <2>3. Erasable' \subseteq Doomed
    <3>1. CASE erase' = erase
      BY <1>e, <3>1 DEF Doomed
    <3>2. CASE opt.op = "move" /\ ret = "cont" /\ erase' = Append(erase, Head(Cur.rest))
      <4>1. \A i \in DOMAIN erase' :
              erase'[i] = Head(Cur.rest) \/ (i \in DOMAIN erase /\ erase'[i] = erase[i])
        <5>1. erase \in Seq(Nodes) /\ Head(Cur.rest) \in Nodes
          BY <1>0, <1>t, <2>1, SeqHead DEF Typed
        <5> DEFINE h == Head(Cur.rest)
        <5> HIDE DEF h
        <5>2. erase' = Append(erase, h) /\ h \in Nodes
          BY <3>2, <5>1 DEF h
        <5>3. \A i \in DOMAIN Append(erase, h) :
                Append(erase, h)[i] = h \/ (i \in DOMAIN erase /\ Append(erase, h)[i] = erase[i])
          BY <5>1, <5>2
        <5> QED  BY <5>2, <5>3 DEF h
      <4> QED  BY <1>0, <2>1, <3>2, <4>1 DEF Doomed, Erasable, JustCopied
    <3> QED  BY <2>1, <3>1, <3>2
  <2> QED  BY <2>1, <2>2, <2>3 DEF CarryStep, KeepStep, Doomed, disk
<1>12. CASE MoveFile
  <2>1. Cur.at = "move_file"
    BY <1>12, <1>0, MoveFileIs
  <2>2. ASSUME NEW s \in {"skip", "abort"}, Returns(s), UNCHANGED <<disk, links, erase>> PROVE KeepStep
    BY <1>j, <1>k, <2>1, <2>2
  <2> QED  BY <1>12, <1>0, <1>f, <1>g, <2>1, <2>2, MoveFileIs DEF CarryStep, Replaces
<1>13. CASE Rename
  <2>1. Cur.at = "rename" /\ UNCHANGED <<links, erase>> /\ Cur.at \in MoveFns
    BY <1>13, <1>0, RenameIs DEF MoveFns, MoveFileFns
  <2>2. CASE Enters("copied", "copy_file", Cur.n, FALSE) /\ UNCHANGED disk
    BY <1>c, <2>1, <2>2 DEF CarryStep
  <2>3. CASE /\ src' = src \ {Cur.n}
             /\ tgt' = [tgt EXCEPT ![Cur.n] = OwnFile(Cur.n)]
             /\ data' = [data EXCEPT ![Cur.n] = <<<<"moved", Inode(Cur.n)>>>>]
             /\ Returns("cont") \/ FailsNow
    <3>1. \E s : Returns(s)
      BY <2>3, FailsReturns
    <3>2. JustCopied' = {} /\ Cur.n \notin Pending' /\ (stack' # <<>> => Cur'.at # "fill")
      BY <1>j, <1>m, <1>n, <2>1, <3>1
    <3> QED  BY <1>e, <2>1, <2>3, <3>2 DEF CarryStep, RenameStep, Doomed
  <2> QED  BY <1>13, <1>0, <2>2, <2>3, RenameIs
<1>14. CASE Copied
  <2>1. Cur.at = "copied" /\ UNCHANGED <<disk, links, erase>>
    BY <1>14, <1>0, CopiedIs
  <2>2. CASE ret # "cont" /\ Returns(ret)
    BY <1>j, <1>k, <2>1, <2>2 DEF CarryStep
  <2>3. CASE ret = "cont" /\ Goes("remove", Cur.rest, Cur.rs)
    <3>1. JustCopied' = JustCopied /\ Cur'.at # "fill"
      BY <1>0, <2>1, <2>3 DEF JustCopied, Goes, Made
    <3> QED  BY <1>k, <2>1, <3>1 DEF CarryStep, Doomed
  <2> QED  BY <1>14, <1>0, <1>f, <2>1, <2>2, <2>3, CopiedIs DEF CarryStep
<1>15. CASE Remove
  <2>1. /\ Cur.at = "remove" /\ UNCHANGED <<tgt, data, links, erase>> /\ Cur.at \in MoveFns
        /\ Cur.n \in Files
    BY <1>15, <1>0, RemoveIs, FileFrames DEF MoveFns, MoveFileFns
  <2>2. CASE src' = src \ {Cur.n} /\ Returns(Cur.rs)
    <3>1. JustCopied' = {} /\ (stack' # <<>> => Cur'.at # "fill")
      BY <1>j, <1>m, <2>1, <2>2
    <3>2. Cur.n \in Doomed
      BY <1>0, <2>1 DEF Doomed, JustCopied
    <3> QED  BY <1>e, <2>1, <2>2, <3>1, <3>2 DEF CarryStep, KeepStep, Doomed
  <2>3. CASE FailsNow /\ UNCHANGED src
    BY <1>f, <2>1, <2>3 DEF CarryStep, disk
  <2>4. CASE Goes("remove", Cur.rest, "retry") /\ UNCHANGED src
    <3>1. JustCopied' = JustCopied /\ Cur'.at # "fill"
      BY <1>0, <2>1, <2>4 DEF JustCopied, Goes, Made
    <3> QED  BY <1>k, <2>1, <2>4, <3>1 DEF CarryStep, Doomed, disk
  <2> QED  BY <1>15, <1>0, <2>2, <2>3, <2>4, RemoveIs
<1>16. CASE MoveDir
  <2>1. Cur.at = "move_dir" /\ UNCHANGED <<links, erase>> /\ Cur.at \in MoveFns
    BY <1>16, <1>0, MoveDirIs DEF MoveFns, MoveDirFns
  <2>2. CASE Enters("dir_copied", "copy_dir", Cur.n, TRUE) /\ UNCHANGED disk
    BY <1>c, <2>1, <2>2 DEF CarryStep
  <2>3. CASE (FailsNow \/ AbortNow) /\ UNCHANGED disk
    BY <1>f, <2>1, <2>3 DEF CarryStep
  <2>4. CASE /\ src' = src \ Sub[Cur.n] /\ tgt[Cur.n] = Nothing
             /\ tgt' = [m \in Nodes |-> IF m \notin Sub[Cur.n] THEN tgt[m]
                         ELSE IF m \in Dirs THEN Directory ELSE OwnFile(m)]
             /\ data' = [f \in Files |->
                  IF f \in Sub[Cur.n] THEN <<<<"moved", Inode(f)>>>> ELSE data[f]]
             /\ Returns("cont")
    <3>2. JustCopied' = {} /\ Sub[Cur.n] \cap Pending' = {} /\ (stack' # <<>> => Cur'.at # "fill")
      BY <1>j, <1>m, <1>n, <2>1, <2>4
    <3> QED  BY <1>e, <2>1, <2>4, <3>2 DEF CarryStep, MoveDirStep, Doomed
  <2> QED  BY <1>16, <1>0, <2>2, <2>3, <2>4, MoveDirIs
<1>17. CASE DirCopied
  <2>1. Cur.at = "dir_copied" /\ UNCHANGED <<disk, links>> /\ Cur.at \in MoveFns
    BY <1>17, <1>0, DirCopiedIs DEF MoveFns, MoveDirFns
  <2>2. CASE erase' = <<>> /\ \E s : Returns(s)
    <3>1. JustCopied' = {} /\ (stack' # <<>> => Cur'.at # "fill")
      BY <1>j, <1>m, <2>1, <2>2
    <3>2. Erasable' = {}
      BY <2>2 DEF Erasable
    <3> QED  BY <2>1, <3>1, <3>2 DEF CarryStep, KeepStep, Doomed, disk
  <2>3. CASE Goes("erasing", Cur.rest, Cur.rs) /\ UNCHANGED erase
    BY <1>g, <2>1, <2>3 DEF CarryStep
  <2> QED  BY <1>17, <1>0, <2>2, <2>3, DirCopiedIs, FailsReturns
<1>18. CASE Erasing
  <2>1. PICK l, f, n : /\ Enters(l, f, n, TRUE) /\ Cur.at = "erasing"
                       /\ UNCHANGED <<disk, links, erase>> /\ f \in {"erase_if_empty", "erase_file"}
    BY <1>18, <1>0, ErasingIs
  <2> QED  BY <1>c, <2>1 DEF CarryStep
<1>19. CASE Erased
  <2>1. /\ Cur.at = "erased" /\ UNCHANGED <<disk, links>> /\ Goes("erasing", Cur.rest, ret)
        /\ erase' = Tail(erase)
    BY <1>19, <1>0, ErasedIs
  <2>2. JustCopied' = {} /\ Cur'.at = "erasing"
    BY <2>1, JustGoes DEF Goes, Made
  <2>3. erase \in Seq(Nodes) /\ erase # <<>>
    <3>1. Depth = 2 /\ Cur = Level(2)
      BY <1>0, <2>1, Places, TopType DEF MoveFns, MoveDirFns
    <3> QED  BY <1>0, <2>1, <3>1 DEF ListInv, Typed
  <2>4. Erasable' \subseteq Erasable
    <3>1. /\ Tail(erase) \in Seq(Nodes) /\ Len(Tail(erase)) = Len(erase) - 1 /\ Len(erase) \in Nat
          /\ \A i \in 1..Len(erase) - 1 : Tail(erase)[i] = erase[i + 1]
      BY <2>3, SeqTail
    <3>2. \A i \in DOMAIN erase' : i + 1 \in DOMAIN erase /\ erase'[i] = erase[i + 1]
      BY <2>1, <2>3, <3>1
    <3> QED  BY <3>2 DEF Erasable
  <2> QED  BY <2>1, <2>2, <2>4 DEF CarryStep, KeepStep, Doomed, disk
<1>20. CASE Moved
  <2>1. /\ Cur.at = "moved" /\ UNCHANGED <<disk, links>> /\ Cur.at \in MoveFns
        /\ erase' = <<>> /\ \E s : Returns(s)
    BY <1>20, <1>0, MovedIs DEF MoveFns, MoveDirFns
  <2>2. JustCopied' = {} /\ (stack' # <<>> => Cur'.at # "fill")
    BY <1>j, <1>m, <2>1
  <2>3. Erasable' = {}
    BY <2>1 DEF Erasable
  <2> QED  BY <2>1, <2>2, <2>3 DEF CarryStep, KeepStep, Doomed, disk
<1>21. CASE EraseFile
  <2>1. /\ Cur.at = "erase_file" /\ UNCHANGED <<tgt, data, links, erase>> /\ Cur.n \in Files
        /\ Depth >= 2
    BY <1>21, <1>0, <1>d, EraseFileIs, FileFrames
  <2>2. Depth = 3 /\ Caller.at = "erased" /\ Caller = Level(2)
    <3>1. opt.op = "move" /\ Depth > 2 /\ Level(2).at = "erased"
      BY <1>0, <2>1, Places
    <3> QED  BY <1>0, <2>1, <3>1, CallerIs
  <2>3. Cur.n \in Doomed
    <3>1. Cur.n = Head(erase) /\ erase # <<>> /\ erase \in Seq(Nodes)
      BY <1>0, <2>2, TopType DEF ListInv, Typed
    <3>2. erase[1] = Cur.n /\ 1 \in DOMAIN erase
      BY <3>1, SeqHead
    <3> QED  BY <2>1, <3>2 DEF Doomed, Erasable
  <2>4. \A s : Returns(s) => JustCopied' = {} /\ (stack' # <<>> => Cur'.at # "fill")
    BY <1>j, <2>2
  <2>5. \E s : Returns(s)
    BY <1>21, <1>0, EraseFileIs, FailsReturns
  <2> QED  BY <1>21, <1>0, <1>e, <2>1, <2>3, <2>4, <2>5, EraseFileIs DEF CarryStep,
              KeepStep, Doomed
<1>22. CASE EraseIfEmpty
  <2>1. /\ Cur.at = "erase_if_empty" /\ UNCHANGED <<tgt, data, links, erase>> /\ Cur.n \in Dirs
        /\ src' = src \/ src' = src \ {Cur.n}
    BY <1>22, <1>0, EraseIfEmptyIs, FileFrames
  <2>2. \E s : Returns(s)
    BY <1>22, <1>0, EraseIfEmptyIs, FailsReturns
  <2>3. JustCopied' = {} /\ (stack' # <<>> => Cur'.at # "fill")
    BY <1>j, <1>x, <2>1, <2>2, FilesAreNodes
  <2>4. (src \ src') \cap Files = {} /\ src' \subseteq src
    BY <2>1, FilesAreNodes
  <2> QED  BY <1>e, <2>1, <2>3, <2>4 DEF CarryStep, KeepStep, Doomed
<1>23. CASE EraseDir
  BY <1>23, <1>0, <1>b, EraseDirIs
<1>24. CASE RecursiveErase
  BY <1>24, <1>0, <1>b, RecursiveEraseIs
<1>25. CASE EraseEntry
  BY <1>25, <1>0, <1>b, EraseEntryIs
<1>26. CASE ErasedEntry
  BY <1>26, <1>0, <1>b, ErasedEntryIs
<1> QED
  BY <1>1, <1>2, <1>3, <1>4, <1>5, <1>6, <1>7, <1>8, <1>9, <1>10, <1>11, <1>12, <1>13,
     <1>14, <1>15, <1>16, <1>17, <1>18, <1>19, <1>20, <1>21, <1>22, <1>23, <1>24, <1>25,
     <1>26 DEF Next

(***************************************************************************)
(* Copying reaches every file at most once, before anything depends on it. *)
(***************************************************************************)

\* What distinguishes the targets.
LEMMA OwnFileIs ==
  /\ \A f : OwnFile(f) # Nothing /\ OwnFile(f).kind = "file" /\ OwnFile(f).file = f
  /\ \A f, g : OwnFile(f) = OwnFile(g) => f = g
  /\ Nothing.kind # "file"
<1>1. \A f : OwnFile(f).kind = "file" /\ OwnFile(f).file = f
  BY DEF OwnFile
<1>2. Nothing.kind # "file"
  BY DEF Nothing
<1> QED  BY <1>1, <1>2

\* What is at the target of a file is the file of a name of the same inode.
Kin ==
  /\ \A n \in Files : tgt[n] = Nothing \/ \E f \in Files : tgt[n] = OwnFile(f) /\ Inode(f) = Inode(n)
  /\ \A i \in Files : links[i] # "none" => Inode(links[i]) = i

\* Nothing has happened to n, but that its own copy may have begun.
Fresh(n) ==
  /\ n \in src /\ n \notin Doomed
  /\ tgt[n] \in {Nothing, OwnFile(n)}
  /\ \A m \in Files \ {n} : tgt[m] # OwnFile(n)
  /\ \A i \in Files : links[i] = n =>
       stack # <<>> /\ Cur.at \in {"open", "fill", "short"} /\ Cur.n = n
\* Nothing has happened to the files that are pending.
Visits == \A n \in Pending : Fresh(n)
\* What is written goes to the file's own target.
Filling == stack # <<>> /\ Cur.at = "fill" => tgt[Cur.n] = OwnFile(Cur.n)
\* What holds of the two trees in a copy or a move.
CarryInv == Kin /\ Visits /\ Filling

\* The file at hand, or the directory to be renamed, is pending.
LEMMA Visited ==
  ASSUME Core, stack # <<>>
  PROVE  /\ Cur.at \in {"link", "open", "fill", "short", "rename"} => Cur.n \in Files /\ Cur.n \in Pending
         /\ Cur.at = "move_dir" => Cur.n \in Dirs /\ Sub[Cur.n] \cap Files \subseteq Pending
<1>1. Typed /\ FrameOK(Cur)
  BY Places DEF Core
<1>2. Todo(Cur) \cap Files \subseteq Pending
  BY <1>1, PendingTop
<1>3. /\ Cur.at \in {"link", "open", "fill", "short", "rename"} => Cur.n \in Files
      /\ Cur.at = "move_dir" => Cur.n \in Dirs
  BY <1>1, FileFrames
<1>4. Cur.at \in {"link", "open", "fill", "short", "rename", "move_dir"} => Todo(Cur) = Sub[Cur.n]
  BY TodoCases DEF Todo
<1>5. Cur.n \in Files => Cur.n \in Sub[Cur.n]
  BY SubIs, FilesAreNodes
<1> QED  BY <1>2, <1>3, <1>4, <1>5

\* The steps keep Kin.
LEMMA NextKin ==
  ASSUME Core, CarryInv, CarryStep, stack # <<>>, opt' = opt
  PROVE  Kin'
<1>1. /\ tgt \in [Nodes -> Target] /\ links \in [Files -> Files \cup {"none"}] /\ Kin
      /\ \A n \in Files : Inode(n) \in Files
  BY Assumed DEF Core, Typed, CarryInv, Inode
<1>2. Files \subseteq Nodes /\ "none" \notin Files
  BY Assumed, FilesAreNodes
<1>3. \A n : Inode(n)' = Inode(n)
  BY DEF Inode
<1>4. ASSUME UNCHANGED links,
             \A n \in Files : tgt'[n] = Nothing \/ \E f \in Files : tgt'[n] = OwnFile(f) /\ Inode(f) = Inode(n)
      PROVE  Kin'
  BY <1>1, <1>3, <1>4 DEF Kin
<1>5. CASE KeepStep
  BY <1>1, <1>4, <1>5 DEF KeepStep, Kin
<1>6. CASE LinkStep
  <2>1. Cur.n \in Files
    BY <1>6, Visited DEF LinkStep
  <2>2. Inode(links[Inode(Cur.n)]) = Inode(Cur.n) /\ links[Inode(Cur.n)] \in Files
    BY <1>1, <1>2, <1>6, <2>1 DEF LinkStep, Kin
  <2>3. UNCHANGED links /\ tgt' = [tgt EXCEPT ![Cur.n] = tgt[links[Inode(Cur.n)]]]
    BY <1>6 DEF LinkStep
  <2>4. ASSUME NEW n \in Files
        PROVE  tgt'[n] = Nothing \/ \E f \in Files : tgt'[n] = OwnFile(f) /\ Inode(f) = Inode(n)
    <3>1. tgt'[n] = IF n = Cur.n THEN tgt[links[Inode(Cur.n)]] ELSE tgt[n]
      BY <1>1, <1>2, <2>3
    <3> QED  BY <1>1, <2>2, <3>1 DEF Kin
  <2> QED  BY <1>4, <2>3, <2>4
<1>7. CASE FirstStep
  <2>1. Cur.n \in Files
    BY <1>7, Visited DEF FirstStep
  <2>2. UNCHANGED tgt /\ links' = [links EXCEPT ![Inode(Cur.n)] = Cur.n]
    BY <1>7 DEF FirstStep
  <2>3. \A i \in Files : links'[i] = IF i = Inode(Cur.n) THEN Cur.n ELSE links[i]
    BY <1>1, <2>2
  <2> QED  BY <1>1, <1>3, <2>2, <2>3 DEF Kin
<1>8. ASSUME NEW n \in Files, UNCHANGED links, NEW t,
             tgt' = [tgt EXCEPT ![n] = t], t \in {Nothing, OwnFile(n), tgt[n]}
      PROVE  Kin'
  <2>1. ASSUME NEW m \in Files
        PROVE  tgt'[m] = Nothing \/ \E f \in Files : tgt'[m] = OwnFile(f) /\ Inode(f) = Inode(m)
    <3>1. tgt'[m] = IF m = n THEN t ELSE tgt[m]
      BY <1>1, <1>2, <1>8
    <3> QED  BY <1>1, <1>8, <3>1 DEF Kin
  <2> QED  BY <1>4, <1>8, <2>1
<1>9. CASE OpenStep
  <2>1. Cur.n \in Files
    BY <1>9, Visited DEF OpenStep
  <2> QED  BY <1>8, <1>9, <2>1 DEF OpenStep
<1>10. CASE FillStep
  BY <1>1, <1>4, <1>10 DEF FillStep, Kin
<1>11. CASE ShortStep
  <2>1. Cur.n \in Files
    BY <1>11, Visited DEF ShortStep
  <2>2. CASE tgt' = tgt
    BY <1>1, <1>4, <1>11, <2>2 DEF ShortStep, Kin
  <2>3. CASE tgt' = [tgt EXCEPT ![Cur.n] = Nothing]
    BY <1>8, <1>11, <2>1, <2>3 DEF ShortStep
  <2> QED  BY <1>11, <2>2, <2>3 DEF ShortStep
<1>12. CASE RenameStep
  <2>1. Cur.n \in Files
    BY <1>12, Visited DEF RenameStep
  <2> QED  BY <1>8, <1>12, <2>1 DEF RenameStep
<1>13. CASE MoveDirStep
  <2>1. \A n \in Files : tgt'[n] = IF n \in Sub[Cur.n] THEN OwnFile(n) ELSE tgt[n]
    BY <1>2, <1>13, FilesAreNodes DEF MoveDirStep
  <2>2. UNCHANGED links
    BY <1>13 DEF MoveDirStep
  <2> QED  BY <1>1, <1>4, <2>1, <2>2 DEF Kin
<1> QED
  BY <1>5, <1>6, <1>7, <1>9, <1>10, <1>11, <1>12, <1>13 DEF CarryStep

\* The steps keep Visits.
LEMMA NextVisits ==
  ASSUME Core, CarryInv, CarryStep, stack # <<>>, Pending' \subseteq Pending
  PROVE  Visits'
<1>1. /\ tgt \in [Nodes -> Target] /\ links \in [Files -> Files \cup {"none"}] /\ Visits
      /\ \A n \in Files : Inode(n) \in Files \/ Inode(n) \notin Files
  BY DEF Core, Typed, CarryInv
<1>2. Files \subseteq Nodes /\ "none" \notin Files /\ Pending \subseteq Files
  BY Assumed, FilesAreNodes DEF Pending
<1>3. ASSUME NEW n \in Pending' PROVE n \in Files /\ n \in Pending /\ Fresh(n)
  BY <1>1, <1>2, <1>3 DEF Visits
\* the shape of all the cases
<1>4. ASSUME NEW n \in Pending', n \in src', n \notin Doomed', tgt'[n] \in {Nothing, OwnFile(n)},
             \A m \in Files \ {n} : tgt'[m] = tgt[m] \/ tgt'[m] # OwnFile(n),
             UNCHANGED links,
             Cur.at \in {"open", "fill", "short"} /\ Cur.n = n =>
               stack' # <<>> /\ Cur'.at \in {"open", "fill", "short"} /\ Cur'.n = Cur.n
      PROVE  Fresh(n)'
  BY <1>3, <1>4 DEF Fresh
<1>5. CASE KeepStep
  <2>1. ASSUME NEW n \in Pending' PROVE Fresh(n)'
    <3>1. n \in src' /\ n \notin Doomed'
      BY <1>3, <1>5, <2>1 DEF KeepStep, Fresh
    <3>2. tgt'[n] \in {Nothing, OwnFile(n)} /\ \A m \in Files \ {n} : tgt'[m] = tgt[m]
      BY <1>3, <1>5, <2>1 DEF KeepStep, Fresh
    <3> QED  BY <1>4, <1>5, <2>1, <3>1, <3>2 DEF KeepStep
  <2> QED  BY <2>1 DEF Visits
<1>6. CASE LinkStep
  <2> DEFINE first == links[Inode(Cur.n)]
  <2>1. /\ Cur.n \in Files /\ Cur.n \notin Pending' /\ Cur.at = "link" /\ UNCHANGED <<src, links>>
        /\ tgt' = [tgt EXCEPT ![Cur.n] = tgt[first]] /\ first # "none"
        /\ Doomed' \subseteq Doomed \cup {Cur.n}
    BY <1>6, Visited DEF LinkStep
  <2>2. Inode(Cur.n) \in Files
    BY <2>1, Assumed DEF Core, Typed, Inode
  <2>3. first \in Files
    BY <1>1, <2>1, <2>2
  <2> HIDE DEF first
  <2>4. ASSUME NEW n \in Pending' PROVE Fresh(n)'
    <3>1. n # Cur.n /\ Fresh(n) /\ n \in Files
      BY <1>3, <2>1, <2>4
    <3>2. n # first
      BY <2>1, <2>2, <3>1 DEF Fresh, first
    <3>3. \A m \in Files : tgt'[m] = IF m = Cur.n THEN tgt[first] ELSE tgt[m]
      BY <1>1, <1>2, <2>1
    <3>4. \A m \in Files \ {n} : tgt'[m] = tgt[m] \/ tgt'[m] # OwnFile(n)
      BY <2>3, <3>1, <3>2, <3>3 DEF Fresh
    <3>5. n \in src' /\ n \notin Doomed' /\ tgt'[n] \in {Nothing, OwnFile(n)}
      BY <2>1, <3>1, <3>3 DEF Fresh
    <3> QED  BY <1>4, <2>1, <2>4, <3>4, <3>5
  <2> QED  BY <2>4 DEF Visits
<1>7. CASE FirstStep
  <2>1. /\ Cur.n \in Files /\ Cur.at = "link" /\ UNCHANGED <<src, tgt>>
        /\ links' = [links EXCEPT ![Inode(Cur.n)] = Cur.n]
        /\ Doomed' \subseteq Doomed /\ stack' # <<>> /\ Cur'.at = "open" /\ Cur'.n = Cur.n
    BY <1>7, Visited DEF FirstStep
  <2>2. \A i \in Files : links'[i] = IF i = Inode(Cur.n) THEN Cur.n ELSE links[i]
    BY <1>1, <2>1
  <2>3. ASSUME NEW n \in Pending' PROVE Fresh(n)'
    <3>1. Fresh(n) /\ n \in Files
      BY <1>3, <2>3
    <3>2. \A i \in Files : links[i] # n
      BY <2>1, <3>1 DEF Fresh
    <3>3. \A i \in Files : links'[i] = n => Cur'.n = n
      BY <2>1, <2>2, <3>2
    <3> QED  BY <2>1, <3>1, <3>3 DEF Fresh
  <2> QED  BY <2>3 DEF Visits
<1>8. ASSUME Cur.n \in Files, NEW t, tgt' = [tgt EXCEPT ![Cur.n] = t],
             t = tgt[Cur.n] \/ t \in {Nothing, OwnFile(Cur.n)},
             UNCHANGED links, Doomed' \subseteq Doomed, src \ {Cur.n} \subseteq src',
             Cur.n \in Pending' =>
               Cur.n \in src' /\ stack' # <<>> /\ Cur'.at \in {"open", "fill", "short"} /\ Cur'.n = Cur.n
      PROVE  Visits'
  <2>1. ASSUME NEW n \in Pending' PROVE Fresh(n)'
    <3>1. Fresh(n) /\ n \in Files
      BY <1>3, <2>1
    <3>2. \A m \in Files : tgt'[m] = IF m = Cur.n THEN t ELSE tgt[m]
      BY <1>1, <1>2, <1>8
    <3>3. tgt'[n] \in {Nothing, OwnFile(n)}
      BY <1>8, <3>1, <3>2 DEF Fresh
    <3>4. \A m \in Files \ {n} : tgt'[m] = tgt[m] \/ tgt'[m] # OwnFile(n)
      BY <1>8, <3>2, OwnFileIs
    <3>5. n \in src' /\ n \notin Doomed'
      BY <1>8, <2>1, <3>1 DEF Fresh
    <3> QED  BY <1>4, <1>8, <2>1, <3>3, <3>4, <3>5
  <2> QED  BY <2>1 DEF Visits
<1>9. CASE OpenStep
  <2>1. Cur.n \in Files /\ Cur.n \in Pending
    BY <1>9, Visited DEF OpenStep
  <2>2. Cur.n \in src
    BY <1>1, <2>1 DEF Visits, Fresh
  <2>3. PICK t : tgt' = [tgt EXCEPT ![Cur.n] = t] /\ t \in {OwnFile(Cur.n), tgt[Cur.n]}
    BY <1>9 DEF OpenStep
  <2> QED  BY <1>8, <1>9, <2>1, <2>2, <2>3 DEF OpenStep
<1>10. CASE FillStep
  <2>1. /\ Cur.n \in Files /\ UNCHANGED <<src, tgt, links>>
        /\ Cur.n \in Pending' => stack' # <<>> /\ Cur'.at = "short" /\ Cur'.n = Cur.n
    BY <1>10, Visited DEF FillStep
  <2>2. CASE Doomed' \subseteq Doomed
    <3>1. ASSUME NEW n \in Pending' PROVE Fresh(n)'
      <4>1. Fresh(n) /\ n \in Files
        BY <1>3, <3>1
      <4> QED  BY <1>4, <2>1, <2>2, <3>1, <4>1 DEF Fresh
    <3> QED  BY <3>1 DEF Visits
  <2>3. CASE Cur.n \notin Pending' /\ Doomed' \subseteq Doomed \cup {Cur.n}
    <3>1. ASSUME NEW n \in Pending' PROVE Fresh(n)'
      <4>1. Fresh(n) /\ n \in Files /\ n # Cur.n
        BY <1>3, <2>3, <3>1
      <4> QED  BY <1>4, <2>1, <2>3, <3>1, <4>1 DEF Fresh
    <3> QED  BY <3>1 DEF Visits
  <2> QED  BY <1>10, <2>2, <2>3 DEF FillStep
<1>11. CASE ShortStep
  <2>1. Cur.n \in Files /\ Cur.n \in Nodes
    BY <1>2, <1>11, Visited DEF ShortStep
  <2>2. \E t : tgt' = [tgt EXCEPT ![Cur.n] = t] /\ t \in {Nothing, tgt[Cur.n]}
    <3>1. tgt = [tgt EXCEPT ![Cur.n] = tgt[Cur.n]]
      BY <1>1, <2>1
    <3> QED  BY <1>11, <3>1 DEF ShortStep
  <2> QED  BY <1>8, <1>11, <2>1, <2>2 DEF ShortStep
<1>12. CASE RenameStep
  <2>1. Cur.n \in Files
    BY <1>12, Visited DEF RenameStep
  <2> QED  BY <1>8, <1>12, <2>1 DEF RenameStep
<1>13. CASE MoveDirStep
  <2>1. /\ Sub[Cur.n] \cap Pending' = {} /\ src' = src \ Sub[Cur.n] /\ UNCHANGED links
        /\ Doomed' \subseteq Doomed /\ Cur.at = "move_dir"
    BY <1>13 DEF MoveDirStep
  <2>2. \A n \in Files : tgt'[n] = IF n \in Sub[Cur.n] THEN OwnFile(n) ELSE tgt[n]
    BY <1>2, <1>13, FilesAreNodes DEF MoveDirStep
  <2>3. ASSUME NEW n \in Pending' PROVE Fresh(n)'
    <3>1. Fresh(n) /\ n \in Files /\ n \notin Sub[Cur.n]
      BY <1>3, <2>1, <2>3
    <3>2. tgt'[n] \in {Nothing, OwnFile(n)}
      BY <2>2, <3>1 DEF Fresh
    <3>3. \A m \in Files \ {n} : tgt'[m] = tgt[m] \/ tgt'[m] # OwnFile(n)
      BY <2>2, <3>1, OwnFileIs
    <3>4. n \in src' /\ n \notin Doomed'
      BY <2>1, <3>1 DEF Fresh
    <3> QED  BY <1>4, <2>1, <2>3, <3>2, <3>3, <3>4
  <2> QED  BY <2>3 DEF Visits
<1> QED
  BY <1>5, <1>6, <1>7, <1>9, <1>10, <1>11, <1>12, <1>13 DEF CarryStep

\* The steps keep Filling.
LEMMA NextFilling ==
  ASSUME Core, CarryInv, CarryStep, stack # <<>>
  PROVE  Filling'
<1>1. CASE stack' # <<>> => Cur'.at # "fill"
  BY <1>1 DEF Filling
<1>2. CASE OpenStep
  <2>1. Cur.n \in Files /\ Cur.n \in Pending /\ Cur.n \in Nodes
    BY <1>2, Visited, FilesAreNodes DEF OpenStep
  <2>2. tgt[Cur.n] \in {Nothing, OwnFile(Cur.n)} /\ tgt \in [Nodes -> Target]
    BY <2>1 DEF CarryInv, Visits, Fresh, Core, Typed
  <2>3. /\ tgt' = [tgt EXCEPT ![Cur.n] = IF tgt[Cur.n] = Nothing THEN OwnFile(Cur.n) ELSE tgt[Cur.n]]
        /\ Cur'.n = Cur.n
    BY <1>2 DEF OpenStep
  <2>4. tgt'[Cur.n] = OwnFile(Cur.n)
    BY <2>1, <2>2, <2>3
  <2> QED  BY <2>3, <2>4 DEF Filling
<1> QED
  BY <1>1, <1>2 DEF CarryStep, KeepStep, LinkStep, FirstStep, FillStep, ShortStep,
     RenameStep, MoveDirStep

\* CarryInv in the beginning.
LEMMA InitCarry == Init => CarryInv
<1> SUFFICES ASSUME Init PROVE CarryInv
  OBVIOUS
<1>1. Files \subseteq Nodes /\ "none" \notin Files /\ Files \cap Dirs = {} /\ Pending \subseteq Files
  BY Assumed, FilesAreNodes DEF Pending
<1>2. stack # <<>> /\ Cur.at = "operate" /\ erase = <<>>
  BY InitTop DEF Made, Init
<1>3. Doomed = {}
  BY <1>2 DEF Doomed, Erasable, JustCopied
<1>4. \A n \in Files : tgt[n] = IF n \in opt.there THEN OwnFile(n) ELSE Nothing
  BY <1>1 DEF Init
<1>5. \A i \in Files : links[i] = "none"
  BY DEF Init
<1>6. ASSUME NEW n \in Files PROVE Fresh(n)
  <2>1. \A m \in Files \ {n} : tgt[m] # OwnFile(n)
    BY <1>4, OwnFileIs
  <2>2. n \in src
    BY <1>1 DEF Init
  <2> QED  BY <1>1, <1>3, <1>4, <1>5, <2>1, <2>2 DEF Fresh
<1>7. Kin
  BY <1>4, <1>5 DEF Kin
<1> QED  BY <1>1, <1>2, <1>6, <1>7 DEF CarryInv, Visits, Filling

\* Copies and moves keep all that has been said of them so far.
CopyInv == Core /\ Disjoint /\ (opt.op # "delete" => CarryInv)

\* Every step keeps CopyInv.
LEMMA NextCopy ==
  ASSUME CopyInv, Next
  PROVE  CopyInv'
<1>1. stack # <<>> /\ Core' /\ opt' = opt /\ Disjoint' /\ Pending' \subseteq Pending
  BY NextRuns, NextCore, NextTodo DEF CopyInv, Core
<1>2. ASSUME opt.op # "delete" PROVE CarryInv'
  <2>1. CarryStep
    BY <1>2, NextCarry DEF CopyInv
  <2> QED  BY <1>1, <1>2, <2>1, NextKin, NextVisits, NextFilling DEF CopyInv, CarryInv
<1> QED  BY <1>1, <1>2 DEF CopyInv

\* So does a stuttering step.
LEMMA CopyStutter == ASSUME CopyInv, UNCHANGED vars PROVE CopyInv'
<1>1. \A k : Level(k)' = Level(k)
  BY DEF Level, vars
<1>2. Core' /\ Disjoint' /\ Depth' = Depth
  BY CoreStutter, TodoStutter DEF CopyInv, Depth, vars
<1>3. Cur' = Cur /\ Pending' = Pending
  BY <1>1, <1>2 DEF Pending, Cur, vars
<1>4. Doomed' = Doomed
  BY <1>3 DEF Doomed, Erasable, JustCopied, vars
<1>5. Kin = Kin'
  BY DEF Kin, Inode, vars
<1>6. Visits => Visits'
  BY <1>3, <1>4 DEF Visits, Fresh, vars
<1>7. Filling => Filling'
  BY <1>3 DEF Filling, vars
<1>8. opt' = opt
  BY DEF vars
<1> QED  BY <1>2, <1>5, <1>6, <1>7, <1>8 DEF CopyInv, CarryInv

\* Every file is copied or moved at most once, and until then nothing has happened to it: it
\* is at the source, no other target is a link to its, and no hard link will be made to it.
THEOREM CopyHolds == Spec => []CopyInv
<1>1. Init => CopyInv
  BY InitTyped, InitTodo, InitCarry DEF CopyInv, Core
<1>2. CopyInv /\ [Next]_vars => CopyInv'
  BY NextCopy, CopyStutter
<1> QED  BY <1>1, <1>2, PTL DEF Spec

(***************************************************************************)
(* Moving.                                                                 *)
(***************************************************************************)
\* the content of m is at the source for good, or whole at the target
Safe(m) == m \in src \ Doomed \/ Whole(m)
\* Every inode is safe under one of its names, and if a name is doomed under one that is not
\* pending any more.
Kept ==
  /\ \A f \in Files : \E m \in Files : Inode(m) = Inode(f) /\ Safe(m)
  /\ \A f \in Doomed : \E m \in Files \ Pending : Inode(m) = Inode(f) /\ Safe(m)

\* Only what is at the target of a file tells whether it is whole.
LEMMA WholeSame ==
  ASSUME opt' = opt, NEW m, NEW f, Kin, m \in Files,
         tgt'[m] = tgt[m], \A g \in Files : tgt[m] = OwnFile(g) => data'[g] = data[g]
  PROVE  Whole(m)' <=> Whole(m)
<1>1. Content(m)' = Content(m)
  BY OwnFileIs DEF Content, Kin
<1>2. Inode(m)' = Inode(m)
  BY DEF Inode
<1> QED  BY <1>1, <1>2 DEF Whole

\* A file that ends with all of the inode is whole, in this state or the next.
LEMMA LastWhole ==
  ASSUME NEW m \in Files, <<"whole", Inode(m)>> \in Piece, opt' = opt, tgt'[m] = OwnFile(m),
         \E q \in Seq(Piece) : data'[m] = q \o <<<<"whole", Inode(m)>>>>
  PROVE  Whole(m)'
<1> DEFINE e == <<"whole", Inode(m)>>
<1>1. PICK q \in Seq(Piece) : data'[m] = q \o <<e>>
  OBVIOUS
<1>2. e \in Piece /\ e \in {<<"whole", Inode(m)>>, <<"moved", Inode(m)>>}
  OBVIOUS
<1>3. Content(m)' = q \o <<e>> /\ Inode(m)' = Inode(m)
  BY <1>1, OwnFileIs DEF Content, Inode
<1> HIDE DEF e
<1>4. q \o <<e>> # <<>> /\ (q \o <<e>>)[Len(q \o <<e>>)] = e
  BY <1>2
<1> QED  BY <1>2, <1>3, <1>4 DEF Whole

\* A target that was renamed is whole.
LEMMA RenamedWhole ==
  ASSUME NEW m \in Files, <<"moved", Inode(m)>> \in Piece, opt' = opt, tgt'[m] = OwnFile(m),
         data'[m] = <<<<"moved", Inode(m)>>>>
  PROVE  Whole(m)'
<1> DEFINE e == <<"moved", Inode(m)>>
<1>2. e \in Piece /\ e \in {<<"whole", Inode(m)>>, <<"moved", Inode(m)>>}
  OBVIOUS
<1>3. Content(m)' = <<e>> /\ Inode(m)' = Inode(m)
  BY OwnFileIs DEF Content, Inode
<1> HIDE DEF e
<1>4. <<e>> # <<>> /\ <<e>>[Len(<<e>>)] = e
  BY <1>2
<1> QED  BY <1>2, <1>3, <1>4 DEF Whole

\* What a step does to a file that is safe, and which one is newly to be removed.
Spares ==
  \A m \in Files \ Pending : Safe(m) => Safe(m)'
\* What a file that is pending loses is safe under another name.
Hands ==
  \A m \in Pending : m \in src' \ Doomed' \/
    \E o \in Files \ Pending' : Inode(o) = Inode(m) /\ Safe(o)'

\* Where the files go that are still to be visited, and the others stay.
Leaves ==
  /\ \A m \in Files \ Pending : m \in src \ Doomed => m \in src' \ Doomed'
  /\ \A m \in Files \ Pending : tgt'[m] = tgt[m]
  /\ \A g \in Files : data'[g] # data[g] => g \in Pending

\* The steps leave alone the files that are not pending.
LEMMA StepLeaves ==
  ASSUME Core, CarryInv, CarryStep, stack # <<>>, opt' = opt
  PROVE  Leaves
<1>1. /\ tgt \in [Nodes -> Target] /\ data \in [Files -> Seq(Piece)] /\ Files \subseteq Nodes
  BY FilesAreNodes DEF Core, Typed
<1>2. CASE KeepStep
  BY <1>2 DEF Leaves, KeepStep
<1>3. CASE LinkStep
  <2>1. Cur.n \in Pending /\ \A m \in Files \ Pending : tgt'[m] = tgt[m]
    BY <1>1, <1>3, Visited DEF LinkStep
  <2> QED  BY <1>3, <2>1 DEF Leaves, LinkStep
<1>4. CASE FirstStep
  BY <1>4 DEF Leaves, FirstStep
<1>5. CASE OpenStep
  <2>1. /\ Cur.n \in Files /\ Cur.n \in Pending /\ tgt[Cur.n] \in {Nothing, OwnFile(Cur.n)}
    BY <1>5, Visited DEF OpenStep, CarryInv, Visits, Fresh
  <2> DEFINE t == IF tgt[Cur.n] = Nothing THEN OwnFile(Cur.n) ELSE tgt[Cur.n]
  <2>2. t = OwnFile(Cur.n) /\ t.file = Cur.n
    BY <2>1, OwnFileIs
  <2>3. /\ tgt' = [tgt EXCEPT ![Cur.n] = OwnFile(Cur.n)]
        /\ data' = data \/ data' = [data EXCEPT ![Cur.n] = <<>>]
        /\ src' = src /\ Doomed' \subseteq Doomed
    BY <1>5, <2>2 DEF OpenStep
  <2>4. \A m \in Files \ Pending : tgt'[m] = tgt[m]
    BY <1>1, <2>1, <2>3
  <2>5. \A g \in Files : data'[g] # data[g] => g \in Pending
    BY <1>1, <2>1, <2>3
  <2> QED  BY <2>3, <2>4, <2>5 DEF Leaves
<1>6. CASE FillStep
  <2>1. /\ Cur.n \in Files /\ Cur.n \in Pending /\ tgt[Cur.n].file = Cur.n
        /\ Cur.at = "fill"
    BY <1>6, Visited, OwnFileIs DEF FillStep, CarryInv, Filling
  <2>2. \E p : data' = [data EXCEPT ![Cur.n] = @ \o p]
    BY <1>6, <2>1 DEF FillStep, Written
  <2>3. \A g \in Files : data'[g] # data[g] => g \in Pending
    BY <1>1, <2>1, <2>2
  <2>4. /\ src' = src /\ tgt' = tgt /\ Doomed' \subseteq Doomed \cup {Cur.n}
    BY <1>6 DEF FillStep
  <2> QED  BY <2>1, <2>3, <2>4 DEF Leaves
<1>7. CASE ShortStep
  <2>1. Cur.n \in Pending /\ \A m \in Files \ Pending : tgt'[m] = tgt[m]
    BY <1>1, <1>7, Visited DEF ShortStep
  <2> QED  BY <1>7, <2>1 DEF Leaves, ShortStep
<1>8. CASE RenameStep
  <2>1. Cur.n \in Files /\ Cur.n \in Pending
    BY <1>8, Visited DEF RenameStep
  <2>2. \A m \in Files \ Pending : tgt'[m] = tgt[m]
    BY <1>1, <1>8, <2>1 DEF RenameStep
  <2>3. \A g \in Files : data'[g] # data[g] => g \in Pending
    BY <1>1, <1>8, <2>1 DEF RenameStep
  <2> QED  BY <1>8, <2>1, <2>2, <2>3 DEF Leaves, RenameStep
<1>9. CASE MoveDirStep
  <2>1. Sub[Cur.n] \cap Files \subseteq Pending
    BY <1>9, Visited DEF MoveDirStep
  <2>2. \A m \in Files \ Pending : tgt'[m] = tgt[m]
    BY <1>1, <1>9, <2>1 DEF MoveDirStep
  <2>3. \A g \in Files : data'[g] # data[g] => g \in Pending
    BY <1>1, <1>9, <2>1 DEF MoveDirStep
  <2> QED  BY <1>9, <2>1, <2>2, <2>3 DEF Leaves, MoveDirStep
<1> QED
  BY <1>2, <1>3, <1>4, <1>5, <1>6, <1>7, <1>8, <1>9 DEF CarryStep

\* So what was whole stays whole.
LEMMA LeavesWhole ==
  ASSUME Core, CarryInv, Leaves, opt' = opt, NEW m \in Files \ Pending
  PROVE  Whole(m)' <=> Whole(m)
<1>1. \A g \in Files : tgt[m] = OwnFile(g) => data'[g] = data[g]
  BY DEF Leaves, CarryInv, Visits, Fresh
<1> QED  BY <1>1, WholeSame DEF CarryInv, Leaves

\* So what was safe stays safe.
LEMMA StepSpares ==
  ASSUME Core, CarryInv, CarryStep, stack # <<>>, opt' = opt
  PROVE  Spares
<1> SUFFICES ASSUME NEW m \in Files \ Pending, Safe(m) PROVE Safe(m)'
  BY DEF Spares
<1>1. Leaves
  BY StepLeaves
<1>2. CASE m \in src \ Doomed
  BY <1>1, <1>2 DEF Safe, Leaves
<1>3. CASE Whole(m)
  BY <1>1, <1>3, LeavesWhole DEF Safe
<1> QED  BY <1>2, <1>3 DEF Safe

\* The steps take nothing from a file that is pending before it is safe elsewhere.
LEMMA StepHands ==
  ASSUME Core, CarryInv, Kept, CarryStep, stack # <<>>, opt' = opt, Pending' \subseteq Pending
  PROVE  Hands
<1>1. /\ tgt \in [Nodes -> Target] /\ data \in [Files -> Seq(Piece)] /\ Files \subseteq Nodes
      /\ Pending \subseteq Files /\ \A m \in Pending : m \in src \ Doomed
      /\ links \in [Files -> Files \cup {"none"}]
  BY FilesAreNodes DEF Core, Typed, Pending, CarryInv, Visits, Fresh
<1>s. Spares
  BY StepSpares
<1>k. \A m \in Files : Inode(m) \in Files /\ Inode(m)' = Inode(m)
      /\ <<"whole", Inode(m)>> \in Piece /\ <<"moved", Inode(m)>> \in Piece
  <2>1. \A m \in Files : Inode(m) \in Files
    BY Assumed DEF Core, Typed, Inode
  <2> QED  BY <2>1 DEF Inode, Piece
<1>2. CASE src \cap Files \subseteq src' \cup Doomed /\ Doomed' \subseteq Doomed
  BY <1>1, <1>2 DEF Hands
<1>3. CASE LinkStep
  <2> DEFINE first == links[Inode(Cur.n)]
  <2>1. /\ Cur.n \in Files /\ Cur.n \in Pending /\ Cur.n \notin Pending' /\ Cur.at = "link"
        /\ first # "none" /\ first \in src /\ src' = src
        /\ Doomed' \subseteq Doomed \cup {Cur.n}
    BY <1>3, Visited DEF LinkStep
  <2>2. first \in Files /\ Inode(first) = Inode(Cur.n)
    BY <1>1, <1>k, <2>1 DEF CarryInv, Kin
  <2>3. first \notin Pending
    BY <1>k, <2>1 DEF CarryInv, Visits, Fresh
  <2> HIDE DEF first
  <2>4. PICK o \in Files \ Pending : Inode(o) = Inode(Cur.n) /\ Safe(o)
    <3>1. CASE first \in Doomed
      BY <2>2, <3>1 DEF Kept
    <3>2. CASE first \notin Doomed
      BY <2>1, <2>2, <2>3, <3>2 DEF Safe
    <3> QED  BY <3>1, <3>2
  <2>5. Safe(o)' /\ o \notin Pending'
    BY <1>s, <2>4 DEF Spares
  <2>6. \A m \in Pending : m # Cur.n => m \in src' \ Doomed'
    BY <1>1, <2>1
  <2> QED  BY <2>4, <2>5, <2>6 DEF Hands
<1>4. ASSUME NEW n \in Files, n \notin Pending', Whole(n)',
             \A m \in Pending : m # n => m \in src' \ Doomed'
      PROVE  Hands
  BY <1>4 DEF Hands, Safe
<1>5. CASE FillStep
  <2>1. Cur.n \in Files /\ tgt[Cur.n] = OwnFile(Cur.n) /\ tgt' = tgt /\ src' = src
    BY <1>5, Visited DEF FillStep, CarryInv, Filling
  <2>2. CASE /\ Written(Cur.n, <<<<"whole", Inode(Cur.n)>>>>)
             /\ Cur.n \notin Pending' /\ Doomed' \subseteq Doomed \cup {Cur.n}
    <3>0. PICK n \in Files : n = Cur.n
      BY <2>1
    <3>1. data' = [data EXCEPT ![n] = @ \o <<<<"whole", Inode(n)>>>>]
      BY <2>1, <2>2, <3>0, OwnFileIs DEF Written
    <3>2. data'[n] = data[n] \o <<<<"whole", Inode(n)>>>> /\ data[n] \in Seq(Piece)
      BY <1>1, <3>1
    <3>3. Whole(n)'
      <4>1. \E q \in Seq(Piece) : data'[n] = q \o <<<<"whole", Inode(n)>>>>
        BY <3>2
      <4> QED  BY <1>k, <2>1, <3>0, <4>1, LastWhole
    <3>4. \A m \in Pending : m # n => m \in src' \ Doomed'
      BY <1>1, <2>1, <2>2, <3>0
    <3>5. n \notin Pending'
      BY <2>2, <3>0
    <3> QED  BY <1>4, <3>3, <3>4, <3>5
  <2>3. CASE Doomed' \subseteq Doomed
    BY <1>2, <2>1, <2>3
  <2> QED  BY <1>5, <2>2, <2>3 DEF FillStep
<1>6. CASE RenameStep
  <2>1. PICK n \in Files :
          /\ n \notin Pending' /\ src' = src \ {n} /\ Doomed' \subseteq Doomed
          /\ tgt' = [tgt EXCEPT ![n] = OwnFile(n)]
          /\ data' = [data EXCEPT ![n] = <<<<"moved", Inode(n)>>>>]
    BY <1>6, Visited DEF RenameStep
  <2>2. tgt'[n] = OwnFile(n) /\ data'[n] = <<<<"moved", Inode(n)>>>>
    BY <1>1, <2>1
  <2>3. Whole(n)'
    BY <1>k, <2>2, RenamedWhole
  <2>4. \A m \in Pending : m # n => m \in src' \ Doomed'
    BY <1>1, <2>1
  <2> QED  BY <1>4, <2>1, <2>3, <2>4
<1>7. CASE MoveDirStep
  <2>1. /\ src' = src \ Sub[Cur.n] /\ Sub[Cur.n] \cap Pending' = {} /\ Doomed' \subseteq Doomed
    BY <1>7 DEF MoveDirStep
  <2>2. ASSUME NEW m \in Pending, m \in Sub[Cur.n]
        PROVE  Whole(m)' /\ m \in Files \ Pending' /\ Inode(m) = Inode(m)
    <3>1. m \in Files /\ m \in Nodes /\ m \notin Dirs
      BY <1>1, FilesAreNodes
    <3>2. tgt'[m] = OwnFile(m) /\ data'[m] = <<<<"moved", Inode(m)>>>>
      BY <1>7, <2>2, <3>1 DEF MoveDirStep
    <3>3. Whole(m)'
      BY <1>k, <3>1, <3>2, RenamedWhole
    <3> QED  BY <2>1, <2>2, <3>1, <3>3
  <2>3. \A m \in Pending : m \notin Sub[Cur.n] => m \in src' \ Doomed'
    BY <1>1, <2>1
  <2> QED  BY <2>2, <2>3 DEF Hands, Safe
<1> QED
  BY <1>2, <1>3, <1>5, <1>6, <1>7 DEF CarryStep, KeepStep, FirstStep, OpenStep, ShortStep

\* So every step keeps Kept.
LEMMA NextKept ==
  ASSUME CopyInv, opt.op = "move", Kept, Next
  PROVE  Kept'
<1>1. stack # <<>> /\ Core /\ CarryInv /\ opt' = opt /\ CarryStep /\ Pending' \subseteq Pending
  BY NextRuns, NextCore, NextTodo, NextCarry DEF CopyInv, Core
<1>2. Spares /\ Hands
  BY <1>1, StepSpares, StepHands
<1>3. \A m : Inode(m)' = Inode(m)
  BY <1>1 DEF Inode
<1>4. Pending \subseteq Files
  BY DEF Pending
<1>5. \A f \in Files : \E m \in Files : Inode(m) = Inode(f) /\ Safe(m)'
  <2> TAKE f \in Files
  <2>1. PICK m \in Files : Inode(m) = Inode(f) /\ Safe(m)
    BY DEF Kept
  <2>2. CASE m \in Pending
    BY <1>2, <2>1, <2>2 DEF Hands, Safe
  <2>3. CASE m \notin Pending
    BY <1>2, <2>1, <2>3 DEF Spares
  <2> QED  BY <2>2, <2>3
<1>6. \A f \in Doomed' : \E m \in Files \ Pending' : Inode(m) = Inode(f) /\ Safe(m)'
  <2> TAKE f \in Doomed'
  <2>1. CASE f \in Doomed
    <3>1. PICK m \in Files \ Pending : Inode(m) = Inode(f) /\ Safe(m)
      BY <2>1 DEF Kept
    <3> QED  BY <1>1, <1>2, <3>1 DEF Spares
  <2>2. CASE f \notin Doomed
    <3>1. f \in Pending
      BY <1>1, <2>2, Visited DEF CarryStep, KeepStep, LinkStep, FirstStep, OpenStep, FillStep,
         ShortStep, RenameStep, MoveDirStep
    <3> QED  BY <1>2, <3>1 DEF Hands
  <2> QED  BY <2>1, <2>2
<1> QED  BY <1>3, <1>5, <1>6 DEF Kept

\* Every inode is safe in the beginning.
LEMMA InitKept == Init => Kept
<1> SUFFICES ASSUME Init PROVE Kept
  OBVIOUS
<1>1. stack # <<>> /\ Cur.at = "operate" /\ erase = <<>> /\ src = Nodes
  BY InitTop DEF Made, Init
<1>2. Doomed = {}
  BY <1>1 DEF Doomed, Erasable, JustCopied
<1>3. \A f \in Files : Safe(f)
  BY <1>1, <1>2, FilesAreNodes DEF Safe
<1> QED  BY <1>2, <1>3 DEF Kept

\* A stuttering step keeps Kept.
LEMMA KeptStutter == ASSUME Kept, UNCHANGED vars PROVE Kept'
<1>1. \A k : Level(k)' = Level(k)
  BY DEF Level, vars
<1>2. Cur' = Cur /\ Pending' = Pending
  BY <1>1 DEF Pending, Cur, Depth, vars
<1>3. Doomed' = Doomed
  BY <1>2 DEF Doomed, Erasable, JustCopied, vars
<1>4. \A m : Inode(m)' = Inode(m) /\ (Whole(m)' <=> Whole(m))
  BY DEF Inode, Whole, Content, vars
<1>5. \A m : Safe(m)' <=> Safe(m)
  BY <1>3, <1>4 DEF Safe, vars
<1> QED  BY <1>2, <1>3, <1>4, <1>5 DEF Kept

\* Kept is claimed of moves.
MoveInv == opt.op = "move" => Kept

\* A move loses no data, whatever the tree and the hard links in it, whatever fails and
\* whatever the user answers: of every inode there is a name at the source or a whole target.
THEOREM NothingIsLost == Spec => []NothingLost
<1>1. Init => CopyInv /\ MoveInv
  BY InitTyped, InitTodo, InitCarry, InitKept DEF CopyInv, Core, MoveInv
<1>2. CopyInv /\ MoveInv /\ [Next]_vars => CopyInv' /\ MoveInv'
  <2>1. ASSUME CopyInv, MoveInv, Next PROVE CopyInv' /\ MoveInv'
    <3>1. CopyInv' /\ opt' = opt
      BY <2>1, NextCopy, NextCore DEF CopyInv, Core
    <3> QED  BY <2>1, <3>1, NextKept DEF MoveInv
  <2>2. ASSUME CopyInv, MoveInv, UNCHANGED vars PROVE CopyInv' /\ MoveInv'
    BY <2>2, CopyStutter, KeptStutter DEF MoveInv, vars
  <2> QED  BY <2>1, <2>2
<1>3. CopyInv /\ MoveInv => NothingLost
  BY DEF MoveInv, Kept, Safe, NothingLost
<1> QED  BY <1>1, <1>2, <1>3, PTL DEF Spec

(***************************************************************************)
(* What is untagged is done.                                               *)
(***************************************************************************)
\* n is at the target, whole unless it became a hard link
Got(n) == tgt[n] # Nothing /\ (n \in Files => tgt[n] # OwnFile(n) \/ Whole(n))
\* n is at the target and not pending, so it stays there
Ready(n) == Got(n) /\ n \notin Pending
\* n is done
Finished(n) == Ready(n) /\ (opt.op = "move" /\ n \in Files => n \notin src)

\* Directories that are being copied or have been are at the target.
Within == {"entry", "copied_entry", "erasing", "erased", "moved"}
\* Directories that are being copied exist at the target.
There == \A k \in 1..Depth : Level(k).at \in Within => tgt[Level(k).n] # Nothing

\* What a function has returned FILE_CONT for is done.
AtTop ==
  stack # <<>> => \A n \in Nodes :
    /\ Cur.at = "operated" /\ ret = "cont" /\ n = Head(Cur.rest) => Finished(n)
    /\ ((Cur.at \in {"copied", "dir_copied"} /\ ret = "cont") \/ Cur.at = "remove") /\ n = Cur.n =>
         Ready(n)

\* n was tagged in the beginning
IsTop(n) == \E i \in DOMAIN opt.tops : n = opt.tops[i]
\* What is untagged is done.
Untagged == \A n \in Nodes : IsTop(n) /\ n \notin tagged => Finished(n)

\* The steps leave the directories that are at the target.
LEMMA StepDirs ==
  ASSUME Core, CarryInv, CarryStep, stack # <<>>, NEW d \in Dirs, tgt[d] # Nothing
  PROVE  tgt'[d] # Nothing
<1>1. tgt \in [Nodes -> Target] /\ d \in Nodes /\ d \notin Files /\ Directory # Nothing
  BY FilesAreNodes, Assumed DEF Core, Typed, Directory, Nothing
<1>2. CASE \E v : tgt' = [tgt EXCEPT ![Cur.n] = v] /\ Cur.n \in Files
  BY <1>1, <1>2
<1>3. CASE tgt' = tgt
  BY <1>3
<1>4. CASE tgt' = [tgt EXCEPT ![Cur.n] = Directory]
  BY <1>1, <1>4
<1>5. CASE MoveDirStep
  BY <1>1, <1>5 DEF MoveDirStep
<1> QED
  BY <1>2, <1>3, <1>4, <1>5, Visited DEF CarryStep, KeepStep, LinkStep, FirstStep, OpenStep,
     FillStep, ShortStep, RenameStep

\* What is ready stays ready.
LEMMA ReadyStays ==
  ASSUME Core, CarryInv, CarryStep, stack # <<>>, opt' = opt, Pending' \subseteq Pending,
         NEW n \in Nodes, Ready(n)
  PROVE  Ready(n)'
<1>1. n \notin Pending /\ n \notin Pending' /\ Got(n)
  BY DEF Ready
<1>2. Leaves
  BY StepLeaves
<1>3. CASE n \in Files
  <2>1. tgt'[n] = tgt[n] /\ (Whole(n)' <=> Whole(n))
    BY <1>1, <1>2, <1>3, LeavesWhole DEF Leaves
  <2>2. Got(n)'
    BY <1>1, <2>1 DEF Got
  <2> QED  BY <1>1, <2>2 DEF Ready
<1>4. CASE n \in Dirs
  <2>1. tgt'[n] # Nothing /\ n \notin Files
    BY <1>1, <1>4, StepDirs, FilesAreNodes DEF Got
  <2> QED  BY <1>1, <2>1 DEF Ready, Got
<1> QED  BY <1>3, <1>4, FilesAreNodes

\* The steps add nothing to the source.
LEMMA StepSrc == ASSUME CarryStep PROVE src' \subseteq src
  BY DEF CarryStep, KeepStep, LinkStep, FirstStep, OpenStep, FillStep, ShortStep, RenameStep,
     MoveDirStep

\* What is done stays done.
LEMMA FinishedStays ==
  ASSUME Core, CarryInv, CarryStep, stack # <<>>, opt' = opt, Pending' \subseteq Pending,
         NEW n \in Nodes, Finished(n)
  PROVE  Finished(n)'
  BY ReadyStays, StepSrc DEF Finished

\* The frames within a directory are for directories.
LEMMA WithinDirs ==
  ASSUME Core
  PROVE  \A k \in 1..Depth : Level(k).at \in Within => Level(k).n \in Dirs
  BY DEF Core, Shape, FramesOK, FrameOK, Within, DirFns, CopyDirFns, MoveDirFns

\* A step within a function keeps There.
LEMMA ThereGoes ==
  ASSUME Core, stack # <<>>, There, NEW l, NEW q, NEW r, Goes(l, q, r),
         \A d \in Dirs : tgt[d] # Nothing => tgt'[d] # Nothing,
         l \in Within => tgt'[Cur.n] # Nothing
  PROVE  There'
<1>1. Depth \in Nat /\ Depth >= 1 /\ Cur = Level(Depth)
  BY TopType DEF Core
<1>2. /\ Depth' = Depth /\ Cur'.at = l /\ Cur'.n = Cur.n
      /\ \A k \in 1..Depth : Level(k)' = IF k = Depth THEN Cur' ELSE Level(k)
  BY DEF Goes, Made
<1>3. \A k \in 1..Depth : Level(k)'.at \in Within => tgt'[Level(k)'.n] # Nothing
  BY <1>2, WithinDirs DEF There
<1> QED  BY <1>2, <1>3 DEF There

\* So does a return.
LEMMA ThereReturns ==
  ASSUME Core, stack # <<>>, There, NEW s, Returns(s),
         \A d \in Dirs : tgt[d] # Nothing => tgt'[d] # Nothing
  PROVE  There'
<1>1. Depth \in Nat /\ Depth' = Depth - 1 /\ \A k \in 1..Depth - 1 : Level(k)' = Level(k)
  BY TopType DEF Core, Returns
<1>2. \A k \in 1..Depth - 1 : Level(k)'.at \in Within => tgt'[Level(k)'.n] # Nothing
  <2>1. \A k \in 1..Depth - 1 : k \in 1..Depth
    BY <1>1
  <2> QED  BY <1>1, <2>1, WithinDirs DEF There
<1> QED  BY <1>1, <1>2 DEF There

\* So does a call.
LEMMA ThereEnters ==
  ASSUME Core, stack # <<>>, There, NEW l, NEW f, NEW n, NEW a, Enters(l, f, n, a),
         \A d \in Dirs : tgt[d] # Nothing => tgt'[d] # Nothing,
         f \notin Within, l \in Within => Cur.at \in Within
  PROVE  There'
<1>1. Depth \in Nat /\ Depth >= 1 /\ Cur = Level(Depth) /\ Depth \in 1..Depth
  BY TopType DEF Core
<1>2. PICK g \in Frame :
        /\ Made(g, l, Cur.n, Cur.rest, Cur.rs, Cur.ask)
        /\ \A k \in 1..Depth + 1 :
             Level(k)' = IF k = Depth + 1 THEN Cur' ELSE IF k = Depth THEN g ELSE Level(k)
  BY DEF Enters
<1>3. Depth' = Depth + 1 /\ Cur'.at = f /\ g.at = l /\ g.n = Cur.n
  BY <1>2 DEF Enters, Made
<1>4. g.at \in Within => tgt'[g.n] # Nothing
  BY <1>1, <1>3, WithinDirs DEF There
<1>5. \A k \in 1..Depth + 1 : Level(k)'.at \in Within => tgt'[Level(k)'.n] # Nothing
  <2>1. \A k \in 1..Depth + 1 : k = Depth + 1 \/ k \in 1..Depth
    BY <1>1
  <2> QED  BY <1>2, <1>3, <1>4, <2>1, WithinDirs DEF There
<1> QED  BY <1>3, <1>5 DEF There

\* What UntaggedDone needs of copies and moves.
DoneInv == There /\ AtTop /\ Untagged

\* Every step of a copy or a move keeps DoneInv.
LEMMA NextDone ==
  ASSUME CopyInv, opt.op # "delete", DoneInv, Next
  PROVE  DoneInv'
<1>0. /\ stack # <<>> /\ Core /\ CarryInv /\ opt' = opt /\ CarryStep /\ Pending' \subseteq Pending
      /\ Typed /\ Shape /\ FrameOK(Cur) /\ Disjoint
  BY NextRuns, NextCore, NextTodo, NextCarry, Places DEF CopyInv, Core
<1>t. /\ Depth \in Nat /\ Depth >= 1 /\ Cur.n \in Nodes /\ Cur = Level(Depth) /\ Depth \in 1..Depth
  BY <1>0, TopType
<1>d. \A d \in Dirs : tgt[d] # Nothing => tgt'[d] # Nothing
  BY <1>0, StepDirs
<1>w. Cur.at \in Within => tgt[Cur.n] # Nothing /\ tgt'[Cur.n] # Nothing /\ Cur.n \in Dirs
  BY <1>0, <1>t, <1>d, WithinDirs DEF DoneInv, There
<1>n. PICK n \in Nodes : n = Cur.n
  BY <1>t
<1>s. /\ Ready(n) => Ready(n)'
      /\ \A m \in Nodes : Finished(m) => Finished(m)'
  BY <1>0, ReadyStays, FinishedStays
<1>b. opt.op \in {"copy", "move"}
  BY <1>0, Places
<1>k. tagged' = tagged => Untagged'
  BY <1>0, <1>s DEF DoneInv, Untagged, IsTop
<1>m. \A m \in Files : Inode(m) \in Files /\ <<"whole", Inode(m)>> \in Piece /\ <<"moved", Inode(m)>> \in Piece
  <2>1. \A m \in Files : Inode(m) \in Files
    BY <1>0, Assumed DEF Typed, Inode
  <2> QED  BY <2>1 DEF Piece
\* a function returns, and if it returns FILE_CONT it has done its work
<1>r. ASSUME NEW s, Returns(s),
             Depth >= 2 /\ s = "cont" /\ Cur.at \in CopyFns \cup MoveFns =>
               Ready(n)' /\ (Cur.at \in MoveFns /\ n \in Files => n \notin src')
      PROVE  There' /\ AtTop'
  <2>1. There'
    BY <1>0, <1>d, <1>r, ThereReturns DEF DoneInv
  <2>2. CASE Depth = 1
    BY <1>0, <1>r, <2>1, <2>2, CallerReturns DEF AtTop
  <2>3. CASE Depth >= 2
    <3>1. Cur' = Caller /\ ret' = s /\ Calls(Caller, Cur) /\ Caller.at # "remove"
      BY <1>0, <1>r, <2>3, CallerReturns, CallerIs DEF Returns, Calls, Waits, InList
    <3>2. CASE s # "cont"
      BY <2>1, <3>1, <3>2 DEF AtTop
    <3>3. CASE s = "cont" /\ Caller.at = "operated"
      <4>0. n = Head(Caller.rest)
        BY <1>n, <3>1, <3>3 DEF Calls, InList
      <4>1. Depth = 2
        <5>1. ~(Depth > 2)
          BY <1>0, <1>b, <2>3, <3>3, CallerIs
        <5> QED  BY <1>t, <2>3, <5>1
      <4>2. Fits(opt.op, 2, Level(2).at, Cur.at)
        BY <1>0, <1>t, <4>1 DEF Shape, Fitting
      <4>3. Finished(n)'
        BY <1>0, <1>b, <1>r, <2>3, <3>3, <4>2 DEF Fits, Finished
      <4> QED  BY <2>1, <3>1, <3>3, <4>0, <4>3 DEF AtTop
    <3>4. CASE s = "cont" /\ Caller.at \in {"copied", "dir_copied"}
      <4>1. n = Caller.n /\ Caller = Level(2) /\ Depth = 3
        BY <1>0, <1>b, <1>n, <1>t, <2>3, <3>1, <3>4, CallerIs DEF Calls
      <4>2. Fits(opt.op, 3, Level(2).at, Cur.at)
        BY <1>0, <1>t, <4>1 DEF Shape, Fitting
      <4>3. Ready(n)'
        BY <1>b, <1>r, <2>3, <3>4, <4>1, <4>2 DEF Fits, CopyFns
      <4> QED  BY <2>1, <3>1, <3>4, <4>1, <4>3 DEF AtTop
    <3>5. CASE s = "cont" /\ Caller.at \notin {"operated", "copied", "dir_copied"}
      BY <2>1, <3>1, <3>5 DEF AtTop
    <3> QED  BY <3>2, <3>3, <3>4, <3>5
  <2> QED  BY <1>t, <2>2, <2>3
<1>f. FailsNow \/ AbortNow => There' /\ AtTop'
  BY <1>r, FailsReturns
<1>o. \A s \in {"skip", "abort"} : Returns(s) => There' /\ AtTop'
  BY <1>r
<1>g. ASSUME NEW l, NEW q, NEW r, Goes(l, q, r), l \notin {"operated", "copied", "dir_copied"},
             l = "remove" => Ready(n), l \in Within => tgt'[Cur.n] # Nothing
      PROVE  There' /\ AtTop'
  <2>1. There'
    BY <1>0, <1>d, <1>g, ThereGoes DEF DoneInv
  <2>2. Cur'.at = l /\ Cur'.n = n
    BY <1>g, <1>n DEF Goes, Made
  <2> QED  BY <1>g, <1>s, <2>1, <2>2 DEF AtTop
<1>e. ASSUME NEW l, NEW f, NEW m, NEW a, Enters(l, f, m, a),
             f \notin Within \cup {"operated", "copied", "dir_copied", "remove"},
             l \in Within => Cur.at \in Within
      PROVE  There' /\ AtTop'
  <2>1. There'
    BY <1>0, <1>d, <1>e, ThereEnters DEF DoneInv
  <2>2. Cur'.at = f
    BY <1>e DEF Enters, Made
  <2> QED  BY <1>e, <2>1, <2>2 DEF AtTop
<1>x. Cur.at \notin {"erase_dir", "recursive_erase", "erase_entry", "erased_entry"}
  BY <1>0, Places DEF EraseDirFns
<1>y. ASSUME NEW s, Returns(s), Cur.at \notin CopyFns \cup MoveFns PROVE There' /\ AtTop'
  BY <1>r, <1>y
<1>q. Todo(Cur) \cap Pending' = {} \/ \A s : ~Returns(s)
  BY <1>0, TodoReturns
<1>v. Cur.at \in {"link", "open", "fill", "short", "rename", "move_dir"} =>
        n \in Todo(Cur)
  BY <1>n, TodoCases, SubIs DEF Todo
<1>z. "copy_file" \notin Within
  BY DEF Within
<1>1. CASE Operate
  <2>1. opt.op \in {"copy", "move", "delete"}
    BY <1>0, Places
  <2>2. PICK f, m : /\ Enters("operated", f, m, TRUE) /\ tagged' = tagged
                    /\ f \in {"erase_dir", "erase_file", "copy_dir", "copy_file", "move_dir",
                              "move_file"}
    BY <1>1, <1>0, <2>1, OperateIs
  <2> QED  BY <1>e, <1>k, <2>2 DEF Within, DoneInv
<1>2. CASE Operated
  <2>1. /\ Cur.at = "operated" /\ Cur.rest # <<>>
        /\ tagged' = IF ret = "cont" THEN tagged \ {Head(Cur.rest)} ELSE tagged
    BY <1>2, <1>0, OperatedIs
  <2>2. Head(Cur.rest) \in Nodes /\ Cur.at \notin CopyFns \cup MoveFns
    BY <1>0, <2>1, TopType, SeqHead DEF CopyFns, CopyFileFns, CopyDirFns, MoveFns,
       MoveFileFns, MoveDirFns
  <2>3. ret = "cont" => \A m \in Nodes : m = Head(Cur.rest) => Finished(m)'
    BY <1>0, <1>s, <2>1 DEF DoneInv, AtTop
  <2>4. Untagged'
    BY <1>0, <1>s, <2>1, <2>2, <2>3 DEF DoneInv, Untagged, IsTop
  <2>5. There' /\ AtTop'
    BY <1>2, <1>0, <1>f, <1>g, <1>y, <2>2, OperatedIs DEF Within
  <2> QED  BY <2>4, <2>5 DEF DoneInv
<1>3. CASE Finish
  BY <1>3, <1>0, <1>k, <1>y, FinishIs DEF DoneInv, CopyFns, CopyFileFns, CopyDirFns,
     MoveFns, MoveFileFns, MoveDirFns
<1>4. CASE CopyFile
  <2>1. /\ tagged' = tagged
        /\ \/ FailsNow \/ Goes("link", Cur.rest, Cur.rs)
           \/ \E s \in {"skip", "abort"} : Returns(s)
    BY <1>4, <1>0, CopyFileIs DEF Replaces
  <2> QED  BY <1>k, <1>f, <1>o, <1>g, <2>1 DEF DoneInv, Within
<1>5. CASE Link
  <2>1. Cur.at = "link" /\ tagged' = tagged
    BY <1>5, <1>0, LinkIs
  <2>2. CASE Goes("open", Cur.rest, Cur.rs)
    BY <1>g, <1>k, <2>1, <2>2 DEF DoneInv, Within
  <2>3. CASE ~Goes("open", Cur.rest, Cur.rs)
    <3> DEFINE first == links[Inode(n)]
    <3>1. /\ Returns("cont") /\ first # "none" /\ tgt[first] # Nothing
          /\ tgt' = [tgt EXCEPT ![n] = tgt[first]]
      BY <1>5, <1>0, <1>n, <2>3, LinkIs
    <3>2. n \in Files /\ n \in Pending /\ n \notin Pending'
      BY <1>0, <1>n, <1>q, <1>v, <2>1, <3>1, Visited
    <3>3. Inode(n) \in Files /\ first \in Files /\ first # n /\ tgt \in [Nodes -> Target]
      BY <1>0, <1>m, <2>1, <3>1, <3>2 DEF Typed, CarryInv, Visits, Fresh
    <3>4. tgt[first] # OwnFile(n)
      BY <1>0, <3>2, <3>3 DEF CarryInv, Visits, Fresh
    <3> HIDE DEF first
    <3>5. tgt'[n] # Nothing /\ tgt'[n] # OwnFile(n)
      BY <3>1, <3>3, <3>4
    <3>6. Ready(n)'
      BY <3>2, <3>5 DEF Ready, Got
    <3> QED  BY <1>k, <1>r, <2>1, <3>1, <3>6 DEF DoneInv, MoveFns, MoveFileFns, MoveDirFns
  <2> QED  BY <2>2, <2>3
<1>6. CASE Open
  BY <1>6, <1>0, <1>k, <1>f, <1>g, OpenIs DEF DoneInv, Within
<1>7. CASE Fill
  <2>1. Cur.at = "fill" /\ tagged' = tagged /\ tgt' = tgt /\ data \in [Files -> Seq(Piece)]
    BY <1>7, <1>0, FillIs DEF Typed
  <2>2. n \in Files /\ tgt[n] = OwnFile(n)
    BY <1>0, <1>n, <2>1, Visited DEF CarryInv, Filling
  <2>3. CASE Written(Cur.n, <<<<"whole", Inode(Cur.n)>>>>) /\ Returns("cont")
    <3>1. data' = [data EXCEPT ![n] = @ \o <<<<"whole", Inode(n)>>>>]
      BY <1>n, <2>2, <2>3, OwnFileIs DEF Written
    <3>2. \E q \in Seq(Piece) : data'[n] = q \o <<<<"whole", Inode(n)>>>>
      <4>1. data'[n] = data[n] \o <<<<"whole", Inode(n)>>>> /\ data[n] \in Seq(Piece)
        BY <2>1, <2>2, <3>1
      <4> QED  BY <4>1
    <3>3. Whole(n)'
      BY <1>0, <1>m, <2>1, <2>2, <3>2, LastWhole
    <3>4. n \notin Pending' /\ tgt'[n] # Nothing
      BY <1>q, <1>v, <2>1, <2>2, <2>3, OwnFileIs
    <3>5. Ready(n)'
      BY <3>3, <3>4 DEF Ready, Got
    <3> QED  BY <1>k, <1>r, <2>1, <2>3, <3>5 DEF DoneInv, MoveFns, MoveFileFns, MoveDirFns
  <2>4. CASE FailsNow
    BY <1>f, <1>k, <2>1, <2>4 DEF DoneInv
  <2>5. CASE \E s : Goes("short", Cur.rest, s)
    BY <1>g, <1>k, <2>1, <2>5 DEF DoneInv, Within
  <2> QED  BY <1>7, <1>0, <2>3, <2>4, <2>5, FillIs
<1>8. CASE Short
  <2>1. Cur.rs \in {"skip", "abort"} /\ tagged' = tagged
    BY <1>8, <1>0, ShortIs DEF FrameOK
  <2> QED  BY <1>8, <1>0, <1>k, <1>f, <1>o, <2>1, ShortIs DEF DoneInv
<1>9. CASE CopyDir
  <2>1. Cur.at = "copy_dir" /\ tagged' = tagged /\ Cur.n \in Dirs
    BY <1>9, <1>0, CopyDirIs, FileFrames
  <2>2. CASE FailsNow
    BY <1>f, <1>k, <2>1, <2>2 DEF DoneInv
  <2>3. CASE Goes("copy_dir", Cur.rest, "retry")
    BY <1>g, <1>k, <2>1, <2>3 DEF DoneInv, Within
  <2>4. CASE /\ \E q : Goes("entry", q, Cur.rs)
             /\ \/ tgt[Cur.n] # Nothing /\ UNCHANGED tgt
                \/ tgt[Cur.n] = Nothing /\ tgt' = [tgt EXCEPT ![Cur.n] = Directory]
    <3>1. tgt'[Cur.n] # Nothing
      <4>1. tgt \in [Nodes -> Target] /\ Directory # Nothing
        BY <1>0 DEF Typed, Directory, Nothing
      <4> QED  BY <1>t, <2>4, <4>1
    <3> QED  BY <1>g, <1>k, <2>1, <2>4, <3>1 DEF DoneInv
  <2> QED  BY <1>9, <1>0, <2>2, <2>3, <2>4, CopyDirIs
<1>10. CASE Entry
  <2>1. Cur.at = "entry" /\ tagged' = tagged /\ Cur.at \in Within
    BY <1>10, <1>0, EntryIs DEF Within
  <2>2. CASE Returns(Cur.rs)
    <3>1. n \notin Files
      BY <1>n, <1>w, <2>1, FilesAreNodes
    <3>2. tgt'[n] # Nothing
      BY <1>d, <1>n, <1>w, <2>1
    <3>3. Ready(n)'
      BY <3>1, <3>2 DEF Ready, Got, Pending
    <3> QED  BY <1>k, <1>r, <2>1, <2>2, <3>1, <3>3 DEF DoneInv
  <2>3. CASE ~Returns(Cur.rs)
    <3>1. PICK f, m : Enters("copied_entry", f, m, TRUE) /\ f \in {"copy_dir", "copy_file"}
      BY <1>10, <1>0, <2>3, EntryIs
    <3> QED  BY <1>e, <1>k, <2>1, <3>1 DEF DoneInv, Within
  <2> QED  BY <2>2, <2>3
<1>11. CASE CopiedEntry
  <2>1. Cur.at \in Within /\ tagged' = tagged /\ Goes("entry", Tail(Cur.rest), ret)
    BY <1>11, <1>0, CopiedEntryIs DEF Within
  <2> QED  BY <1>g, <1>k, <1>w, <2>1 DEF DoneInv
<1>12. CASE MoveFile
  <2>1. /\ tagged' = tagged
        /\ \/ FailsNow \/ Goes("rename", Cur.rest, Cur.rs)
           \/ \E s \in {"skip", "abort"} : Returns(s)
    BY <1>12, <1>0, MoveFileIs DEF Replaces
  <2> QED  BY <1>k, <1>f, <1>o, <1>g, <2>1 DEF DoneInv, Within
<1>13. CASE Rename
  <2>1. Cur.at = "rename" /\ tagged' = tagged
    BY <1>13, <1>0, RenameIs
  <2>2. CASE /\ src' = src \ {Cur.n}
             /\ tgt' = [tgt EXCEPT ![Cur.n] = OwnFile(Cur.n)]
             /\ data' = [data EXCEPT ![Cur.n] = <<<<"moved", Inode(Cur.n)>>>>]
             /\ Returns("cont")
    <3>1. n \in Files /\ tgt \in [Nodes -> Target] /\ data \in [Files -> Seq(Piece)]
      BY <1>0, <1>n, <2>1, Visited DEF Typed
    <3>2. tgt'[n] = OwnFile(n) /\ data'[n] = <<<<"moved", Inode(n)>>>>
      BY <1>n, <2>2, <3>1
    <3>3. Whole(n)'
      BY <1>0, <1>m, <3>1, <3>2, RenamedWhole
    <3>4. n \notin Pending' /\ tgt'[n] # Nothing /\ n \notin src'
      BY <1>n, <1>q, <1>v, <2>1, <2>2, <3>2, OwnFileIs
    <3>5. Ready(n)'
      BY <3>3, <3>4 DEF Ready, Got
    <3> QED  BY <1>k, <1>r, <2>1, <2>2, <3>4, <3>5 DEF DoneInv
  <2>3. CASE FailsNow
    BY <1>f, <1>k, <2>1, <2>3 DEF DoneInv
  <2>4. CASE Enters("copied", "copy_file", Cur.n, FALSE)
    BY <1>e, <1>k, <2>1, <2>4 DEF DoneInv, Within
  <2> QED  BY <1>13, <1>0, <2>2, <2>3, <2>4, RenameIs
<1>14. CASE Copied
  <2>1. Cur.at = "copied" /\ tagged' = tagged
    BY <1>14, <1>0, CopiedIs
  <2>2. ret = "cont" => Ready(n)
    BY <1>0, <1>n, <2>1 DEF DoneInv, AtTop
  <2> QED  BY <1>14, <1>0, <1>k, <1>f, <1>g, <1>r, <2>1, <2>2, CopiedIs DEF DoneInv, Within
<1>15. CASE Remove
  <2>1. Cur.at = "remove" /\ tagged' = tagged
    BY <1>15, <1>0, RemoveIs
  <2>2. Ready(n) /\ Ready(n)'
    BY <1>0, <1>n, <1>s, <2>1 DEF DoneInv, AtTop
  <2>3. CASE src' = src \ {Cur.n} /\ Returns(Cur.rs)
    BY <1>k, <1>n, <1>r, <2>1, <2>2, <2>3 DEF DoneInv
  <2> QED  BY <1>15, <1>0, <1>k, <1>f, <1>g, <2>1, <2>2, <2>3, RemoveIs DEF DoneInv, Within
<1>16. CASE MoveDir
  <2>1. Cur.at = "move_dir" /\ tagged' = tagged /\ n \in Dirs /\ n \notin Files
    BY <1>16, <1>0, <1>n, MoveDirIs, FileFrames, FilesAreNodes
  <2>2. CASE AbortNow \/ FailsNow
    BY <1>f, <1>k, <2>1, <2>2 DEF DoneInv
  <2>3. CASE /\ tgt' = [m \in Nodes |-> IF m \notin Sub[Cur.n] THEN tgt[m]
                          ELSE IF m \in Dirs THEN Directory ELSE OwnFile(m)]
             /\ Returns("cont")
    <3>1. tgt'[n] = Directory /\ Directory # Nothing
      BY <1>n, <2>1, <2>3, SubIs DEF Directory, Nothing
    <3>2. Ready(n)'
      BY <2>1, <3>1 DEF Ready, Got, Pending
    <3> QED  BY <1>k, <1>r, <2>1, <2>3, <3>2 DEF DoneInv
  <2>4. CASE Enters("dir_copied", "copy_dir", Cur.n, TRUE)
    BY <1>e, <1>k, <2>1, <2>4 DEF DoneInv, Within
  <2> QED  BY <1>16, <1>0, <2>2, <2>3, <2>4, MoveDirIs
<1>17. CASE DirCopied
  <2>1. Cur.at = "dir_copied" /\ tagged' = tagged
    BY <1>17, <1>0, DirCopiedIs
  <2>2. ret = "cont" => Ready(n)
    BY <1>0, <1>n, <2>1 DEF DoneInv, AtTop
  <2>3. ret = "cont" => tgt'[Cur.n] # Nothing
    <3>1. ret = "cont" => tgt'[n] # Nothing
      BY <1>s, <2>2 DEF Ready, Got
    <3> QED  BY <1>n, <3>1
  <2> QED  BY <1>17, <1>0, <1>k, <1>f, <1>g, <1>r, <2>1, <2>3, DirCopiedIs DEF DoneInv
<1>18. CASE Erasing
  <2>1. Cur.at \in Within /\ tagged' = tagged
    BY <1>18, <1>0, ErasingIs DEF Within
  <2>2. PICK l, f, m : Enters(l, f, m, TRUE) /\ f \in {"erase_if_empty", "erase_file"}
    BY <1>18, <1>0, ErasingIs
  <2> QED  BY <1>e, <1>k, <2>1, <2>2 DEF DoneInv, Within
<1>19. CASE Erased
  <2>1. Cur.at \in Within /\ tagged' = tagged /\ Goes("erasing", Cur.rest, ret)
    BY <1>19, <1>0, ErasedIs DEF Within
  <2> QED  BY <1>g, <1>k, <1>w, <2>1 DEF DoneInv
<1>20. CASE Moved
  <2>1. Cur.at = "moved" /\ tagged' = tagged /\ Returns(Cur.rs) /\ Cur.at \in Within
    BY <1>20, <1>0, MovedIs DEF Within
  <2>2. n \notin Files
    BY <1>n, <1>w, <2>1, FilesAreNodes
  <2>3. tgt'[n] # Nothing
    BY <1>d, <1>n, <1>w, <2>1
  <2>4. Ready(n)'
    BY <2>2, <2>3 DEF Ready, Got, Pending
  <2> QED  BY <1>k, <1>r, <2>1, <2>2, <2>4 DEF DoneInv
<1>21. CASE EraseFile
  <2>1. Cur.at \notin CopyFns \cup MoveFns
    BY <1>21, <1>0, EraseFileIs DEF CopyFns, CopyFileFns, CopyDirFns, MoveFns,
       MoveFileFns, MoveDirFns
  <2> QED  BY <1>21, <1>0, <1>k, <1>f, <1>y, <2>1, EraseFileIs DEF DoneInv
<1>22. CASE EraseIfEmpty
  <2>1. Cur.at \notin CopyFns \cup MoveFns
    BY <1>22, <1>0, EraseIfEmptyIs DEF CopyFns, CopyFileFns, CopyDirFns, MoveFns,
       MoveFileFns, MoveDirFns
  <2> QED  BY <1>22, <1>0, <1>k, <1>f, <1>y, <2>1, EraseIfEmptyIs DEF DoneInv
<1>23. CASE EraseDir
  BY <1>23, <1>0, <1>x, EraseDirIs
<1>24. CASE RecursiveErase
  BY <1>24, <1>0, <1>x, RecursiveEraseIs
<1>25. CASE EraseEntry
  BY <1>25, <1>0, <1>x, EraseEntryIs
<1>26. CASE ErasedEntry
  BY <1>26, <1>0, <1>x, ErasedEntryIs
<1> QED
  BY <1>1, <1>2, <1>3, <1>4, <1>5, <1>6, <1>7, <1>8, <1>9, <1>10, <1>11, <1>12, <1>13,
     <1>14, <1>15, <1>16, <1>17, <1>18, <1>19, <1>20, <1>21, <1>22, <1>23, <1>24, <1>25,
     <1>26 DEF Next

\* DoneInv in the beginning.
LEMMA InitDone == Init => DoneInv
<1> SUFFICES ASSUME Init PROVE DoneInv
  OBVIOUS
<1>1. stack # <<>> /\ Cur.at = "operate" /\ Depth = 1 /\ Level(1) = Cur
  BY InitTop DEF Made
<1>2. There
  <2>1. \A k \in 1..Depth : Level(k) = Cur
    BY <1>1
  <2> QED  BY <1>1, <2>1 DEF There, Within
<1>3. AtTop
  BY <1>1 DEF AtTop
<1>4. Untagged
  BY DEF Untagged, IsTop, Init
<1> QED  BY <1>2, <1>3, <1>4 DEF DoneInv

\* A stuttering step keeps DoneInv.
LEMMA DoneStutter == ASSUME DoneInv, UNCHANGED vars PROVE DoneInv'
<1>1. Depth' = Depth /\ \A k : Level(k)' = Level(k)
  BY DEF Level, Depth, vars
<1>2. There'
  BY <1>1 DEF DoneInv, There, vars
<1>3. Cur' = Cur /\ Pending' = Pending
  BY <1>1 DEF Pending, Cur, vars
<1>4. \A n : (Whole(n)' <=> Whole(n))
  BY DEF Inode, Whole, Content, vars
<1>5. \A n : (Ready(n)' <=> Ready(n)) /\ (Finished(n)' <=> Finished(n))
  BY <1>3, <1>4 DEF Ready, Finished, Got, vars
<1>6. AtTop'
  BY <1>3, <1>5 DEF DoneInv, AtTop, vars
<1>7. Untagged'
  BY <1>5 DEF DoneInv, Untagged, IsTop, vars
<1> QED  BY <1>2, <1>6, <1>7 DEF DoneInv

(***************************************************************************)
(* Deleting.                                                               *)
(***************************************************************************)
\* A directory that is gone was empty.
Gone == \A d \in Dirs \ src : Sub[d] \cap src = {}
\* A tagged entry just returned as deleted is gone.
GoneTop == stack # <<>> /\ Cur.at = "operated" /\ ret = "cont" => Head(Cur.rest) \notin src
\* Entries that are untagged are gone.
GoneTops == \A n \in Nodes : IsTop(n) /\ n \notin tagged => n \notin src
\* What UntaggedDone needs of deletions.
DeleteInv == Gone /\ GoneTop /\ GoneTops

\* Deleting a file keeps Gone.
LEMMA GoneFile == ASSUME Gone, NEW f \in Files, src' = src \ {f} PROVE Gone'
<1> SUFFICES ASSUME NEW d \in Dirs, d \notin src' PROVE Sub[d] \cap src' = {}
  BY DEF Gone
<1>1. d \notin src
  BY FilesAreNodes
<1> QED  BY <1>1 DEF Gone

\* Deleting an empty directory keeps Gone.
LEMMA GoneDir ==
  ASSUME Core, Gone, NEW e \in Dirs, IsEmpty(e), src' = src \ {e}
  PROVE  Gone'
<1> SUFFICES ASSUME NEW d \in Dirs, d \notin src' PROVE Sub[d] \cap src' = {}
  BY DEF Gone
<1>1. CASE d \notin src
  BY <1>1 DEF Gone
<1>2. CASE d = e
  <2>1. ASSUME NEW m \in Sub[e], m # e PROVE m \notin src
    <3>1. PICK c \in Entries(e) : m \in Sub[c]
      BY <2>1, SubDir
    <3>2. c \notin src /\ c \in Nodes
      BY EntriesAre DEF IsEmpty
    <3>3. CASE c \in Files
      BY <3>1, <3>2, <3>3, SubFile
    <3>4. CASE c \in Dirs
      BY <3>1, <3>2, <3>4 DEF Gone
    <3> QED  BY <3>2, <3>3, <3>4, FilesAreNodes
  <2> QED  BY <1>2, <2>1
<1> QED  BY <1>1, <1>2

\* Every step of a deletion keeps DeleteInv.
LEMMA NextDelete ==
  ASSUME Core, opt.op = "delete", DeleteInv, Next
  PROVE  DeleteInv'
<1>0. /\ stack # <<>> /\ opt' = opt /\ Typed /\ Shape /\ FrameOK(Cur)
  BY NextRuns, NextCore, Places DEF Core
<1>t. /\ Depth \in Nat /\ Depth >= 1 /\ Cur.n \in Nodes
  BY <1>0, TopType
<1>p. Cur.at \in {"operate", "operated", "erase_file", "erase_dir", "recursive_erase", "erase_entry",
                  "erased_entry"}
  <2>1. Depth >= 2 => Fits(opt.op, Depth, Level(2).at, Cur.at)
    BY <1>0, <1>t, TopType DEF Shape, Fitting
  <2>2. Depth >= 2 => Cur.at \in EraseDirFns \cup {"erase_file"}
    BY <2>1 DEF Fits
  <2>3. Depth = 1 => Cur.at \in Ends
    BY <1>0, Places
  <2> QED  BY <1>t, <2>2, <2>3 DEF EraseDirFns, Ends
<1>k. tagged' = tagged /\ src' \subseteq src => GoneTops'
  BY <1>0 DEF DeleteInv, GoneTops, IsTop
<1>h. src' = src => Gone'
  BY DEF DeleteInv, Gone
<1>r. ASSUME NEW s, Returns(s), s = "cont" => Depth = 1 \/ Cur.n \notin src'
      PROVE  GoneTop'
  <2>1. CASE Depth = 1
    BY <1>0, <1>r, <2>1, CallerReturns DEF GoneTop
  <2>2. CASE Depth >= 2
    <3>1. Cur' = Caller /\ ret' = s /\ (Caller.at = "operated" => Cur.n = Head(Caller.rest))
      BY <1>0, <1>r, <2>2, CallerReturns, CallerIs DEF Returns, Calls, InList
    <3>2. s = "cont" => Cur.n \notin src'
      BY <1>r, <2>2
    <3> QED  BY <3>1, <3>2 DEF GoneTop
  <2> QED  BY <1>t, <2>1, <2>2
<1>f. FailsNow \/ AbortNow => GoneTop'
  BY <1>r, FailsReturns
<1>g. ASSUME NEW l, NEW q, NEW r, Goes(l, q, r), l # "operated" PROVE GoneTop'
  BY <1>g DEF GoneTop, Goes, Made
<1>e. ASSUME NEW l, NEW f, NEW m, NEW a, Enters(l, f, m, a), f # "operated" PROVE GoneTop'
  BY <1>e DEF GoneTop, Enters, Made
<1>1. CASE Operate
  <2>1. opt.op \in {"copy", "move", "delete"}
    BY <1>0, Places
  <2>2. PICK f, m : /\ Enters("operated", f, m, TRUE) /\ UNCHANGED <<disk, tagged>>
                    /\ f \in {"erase_dir", "erase_file", "copy_dir", "copy_file", "move_dir",
                              "move_file"}
    BY <1>1, <1>0, <2>1, OperateIs
  <2> QED  BY <1>e, <1>h, <1>k, <2>2 DEF DeleteInv, disk
<1>2. CASE Operated
  <2>1. /\ Cur.at = "operated" /\ Cur.rest # <<>> /\ src' = src
        /\ tagged' = IF ret = "cont" THEN tagged \ {Head(Cur.rest)} ELSE tagged
    BY <1>2, <1>0, OperatedIs DEF disk
  <2>2. GoneTops'
    BY <1>0, <2>1 DEF DeleteInv, GoneTop, GoneTops, IsTop
  <2>3. GoneTop'
    BY <1>2, <1>0, <1>f, <1>g, <1>r, OperatedIs
  <2> QED  BY <1>h, <2>1, <2>2, <2>3 DEF DeleteInv
<1>3. CASE Finish
  <2>1. Depth = 1
    BY <1>3, <1>0, Places, FinishIs DEF Ends
  <2> QED  BY <1>3, <1>0, <1>h, <1>k, <1>r, <2>1, FinishIs DEF DeleteInv, disk
<1>4. CASE CopyFile
  BY <1>4, <1>0, <1>p, CopyFileIs
<1>5. CASE Link
  BY <1>5, <1>0, <1>p, LinkIs
<1>6. CASE Open
  BY <1>6, <1>0, <1>p, OpenIs
<1>7. CASE Fill
  BY <1>7, <1>0, <1>p, FillIs
<1>8. CASE Short
  BY <1>8, <1>0, <1>p, ShortIs
<1>9. CASE CopyDir
  BY <1>9, <1>0, <1>p, CopyDirIs
<1>10. CASE Entry
  BY <1>10, <1>0, <1>p, EntryIs
<1>11. CASE CopiedEntry
  BY <1>11, <1>0, <1>p, CopiedEntryIs
<1>12. CASE MoveFile
  BY <1>12, <1>0, <1>p, MoveFileIs
<1>13. CASE Rename
  BY <1>13, <1>0, <1>p, RenameIs
<1>14. CASE Copied
  BY <1>14, <1>0, <1>p, CopiedIs
<1>15. CASE Remove
  BY <1>15, <1>0, <1>p, RemoveIs
<1>16. CASE MoveDir
  BY <1>16, <1>0, <1>p, MoveDirIs
<1>17. CASE DirCopied
  BY <1>17, <1>0, <1>p, DirCopiedIs
<1>18. CASE Erasing
  BY <1>18, <1>0, <1>p, ErasingIs
<1>19. CASE Erased
  BY <1>19, <1>0, <1>p, ErasedIs
<1>20. CASE Moved
  BY <1>20, <1>0, <1>p, MovedIs
<1>21. CASE EraseFile
  <2>1. Cur.n \in Files /\ tagged' = tagged
    BY <1>21, <1>0, EraseFileIs, FileFrames
  <2>2. CASE src' = src \ {Cur.n} /\ Returns("cont")
    BY <1>k, <1>r, <2>1, <2>2, GoneFile DEF DeleteInv
  <2>3. CASE FailsNow /\ src' = src
    BY <1>f, <1>h, <1>k, <2>1, <2>3 DEF DeleteInv
  <2> QED  BY <1>21, <1>0, <2>2, <2>3, EraseFileIs
<1>22. CASE EraseIfEmpty
  BY <1>22, <1>0, <1>p, EraseIfEmptyIs
<1>23. CASE EraseDir
  <2>1. Cur.n \in Dirs /\ tagged' = tagged
    BY <1>23, <1>0, EraseDirIs, FileFrames
  <2>2. CASE IsEmpty(Cur.n) /\ src' = src \ {Cur.n} /\ Returns("cont")
    <3>1. Gone'
      BY <2>1, <2>2, GoneDir DEF DeleteInv
    <3> QED  BY <1>k, <1>r, <2>1, <2>2, <3>1 DEF DeleteInv
  <2>3. CASE src' = src /\ (FailsNow \/ \E s \in {"skip", "abort"} : Returns(s))
    BY <1>f, <1>h, <1>k, <1>r, <2>1, <2>3 DEF DeleteInv
  <2>4. CASE src' = src /\ Goes("recursive_erase", <<>>, "cont")
    BY <1>g, <1>h, <1>k, <2>1, <2>4 DEF DeleteInv
  <2> QED  BY <1>23, <1>0, <2>2, <2>3, <2>4, EraseDirIs
<1>24. CASE RecursiveErase
  <2>1. tagged' = tagged /\ src' = src
    BY <1>24, <1>0, RecursiveEraseIs DEF disk
  <2>2. Returns("retry") \/ \E q : Goes("erase_entry", q, Cur.rs)
    BY <1>24, <1>0, RecursiveEraseIs
  <2> QED  BY <1>g, <1>h, <1>k, <1>r, <2>1, <2>2 DEF DeleteInv
<1>25. CASE EraseEntry
  <2>1. Cur.n \in Dirs /\ tagged' = tagged
    BY <1>25, <1>0, EraseEntryIs, FileFrames
  <2>2. CASE IsEmpty(Cur.n) /\ src' = src \ {Cur.n} /\ Returns("cont")
    <3>1. Gone'
      BY <2>1, <2>2, GoneDir DEF DeleteInv
    <3> QED  BY <1>k, <1>r, <2>1, <2>2, <3>1 DEF DeleteInv
  <2>3. CASE src' = src /\ (FailsNow \/ Returns("retry") \/ (Cur.rs # "cont" /\ Returns(Cur.rs)))
    BY <1>f, <1>h, <1>k, <1>r, <2>1, <2>3 DEF DeleteInv
  <2>4. CASE src' = src /\ \E f \in {"recursive_erase", "erase_file"} : \E m : Enters("erased_entry", f, m, TRUE)
    BY <1>e, <1>h, <1>k, <2>1, <2>4 DEF DeleteInv
  <2> QED  BY <1>25, <1>0, <2>2, <2>3, <2>4, EraseEntryIs
<1>26. CASE ErasedEntry
  <2>1. tagged' = tagged /\ src' = src /\ \E q, r : Goes("erase_entry", q, r)
    BY <1>26, <1>0, ErasedEntryIs DEF disk
  <2> QED  BY <1>g, <1>h, <1>k, <2>1 DEF DeleteInv
<1> QED
  BY <1>1, <1>2, <1>3, <1>4, <1>5, <1>6, <1>7, <1>8, <1>9, <1>10, <1>11, <1>12, <1>13,
     <1>14, <1>15, <1>16, <1>17, <1>18, <1>19, <1>20, <1>21, <1>22, <1>23, <1>24, <1>25,
     <1>26 DEF Next

\* DeleteInv in the beginning.
LEMMA InitDelete == Init => DeleteInv
<1> SUFFICES ASSUME Init PROVE DeleteInv
  OBVIOUS
<1>1. Cur.at = "operate" /\ src = Nodes
  BY InitTop DEF Made, Init
<1> QED  BY <1>1, Assumed DEF DeleteInv, Gone, GoneTop, GoneTops, IsTop, Init

\* A stuttering step keeps DeleteInv.
LEMMA DeleteStutter == ASSUME DeleteInv, UNCHANGED vars PROVE DeleteInv'
  BY DEF DeleteInv, Gone, GoneTop, GoneTops, IsTop, Cur, vars

\* DoneInv or DeleteInv, by the operation.
TagInv == IF opt.op = "delete" THEN DeleteInv ELSE DoneInv

\* These imply UntaggedDone.
LEMMA TagDone == ASSUME Core, TagInv PROVE UntaggedDone
<1> SUFFICES ASSUME NEW i \in DOMAIN opt.tops, opt.tops[i] \notin tagged
             PROVE  LET n == opt.tops[i]
                    IN /\ opt.op = "delete" => Sub[n] \cap src = {}
                       /\ opt.op # "delete" => tgt[n] # Nothing
                       /\ opt.op = "move" /\ n \in Files => n \notin src
                       /\ opt.op # "delete" /\ n \in Files => tgt[n] # OwnFile(n) \/ Whole(n)
  BY DEF UntaggedDone
<1>1. opt.tops \in Seq(Nodes)
  BY Assumed DEF Core, Typed
<1>2. PICK n \in Nodes : n = opt.tops[i]
  BY <1>1
<1>3. CASE opt.op = "delete"
  <2>1. n \notin src
    BY <1>2, <1>3 DEF TagInv, DeleteInv, GoneTops, IsTop
  <2>2. CASE n \in Files
    BY <1>2, <1>3, <2>1, <2>2, SubFile
  <2>3. CASE n \in Dirs
    BY <1>2, <1>3, <2>1, <2>3 DEF TagInv, DeleteInv, Gone
  <2> QED  BY <2>2, <2>3, FilesAreNodes
<1>4. CASE opt.op # "delete"
  <2>1. Finished(n)
    BY <1>2, <1>4 DEF TagInv, DoneInv, Untagged, IsTop
  <2> QED  BY <1>2, <1>4, <2>1 DEF Finished, Ready, Got
<1> QED  BY <1>3, <1>4

\* What has been untagged is done, whatever the tree, whatever fails and is answered.
THEOREM UntaggedIsDone == Spec => []UntaggedDone
<1>1. Init => CopyInv /\ TagInv
  BY InitTyped, InitTodo, InitCarry, InitDone, InitDelete DEF CopyInv, Core, TagInv
<1>2. CopyInv /\ TagInv /\ [Next]_vars => CopyInv' /\ TagInv'
  <2>1. ASSUME CopyInv, TagInv, Next PROVE CopyInv' /\ TagInv'
    <3>1. CopyInv' /\ opt' = opt /\ Core
      BY <2>1, NextCopy, NextCore DEF CopyInv, Core
    <3> QED  BY <2>1, <3>1, NextDone, NextDelete DEF TagInv
  <2>2. ASSUME CopyInv, TagInv, UNCHANGED vars PROVE CopyInv' /\ TagInv'
    <3>1. CopyInv' /\ opt' = opt
      BY <2>2, CopyStutter DEF vars
    <3> QED  BY <2>2, <3>1, DoneStutter, DeleteStutter DEF TagInv
  <2> QED  BY <2>1, <2>2
<1>3. CopyInv /\ TagInv => UntaggedDone
  BY TagDone DEF CopyInv
<1> QED  BY <1>1, <1>2, <1>3, PTL DEF Spec

(***************************************************************************)
(* What the user has answered: directories to be kept.                     *)
(***************************************************************************)
\* what is in the tagged entries that delete has not reached
Left == IF Depth = 1 /\ Cur.at = "operate" THEN Under(Rest)
        ELSE IF Depth >= 1 THEN Under(Tail(Rest)) ELSE {}
\* delete stays in the tagged entry it is at
Stays(n, q, h) == n \in Sub[h] /\ \A i \in DOMAIN q : q[i] \in Sub[h]
\* Every function works within the tagged entry.
Inside == \A k \in 2..Depth : Stays(Level(k).n, Level(k).rest, Head(Rest))
\* What delete has not reached is there, and a directory asked about is complete.
LeftThere ==
  /\ Left \subseteq src
  /\ stack # <<>> /\ Cur.at = "erase_dir" => Depth = 2 /\ Sub[Cur.n] \subseteq src
\* A directory that is to be kept is complete, and not within what is still to be deleted.
WhollyKept ==
  \A d \in Dirs : said[d] = "keep" =>
    /\ Sub[d] \subseteq src /\ Sub[d] \cap Left = {}
    /\ Depth >= 2 => Sub[d] \cap Sub[Head(Rest)] = {}
\* Delete asks about no target and changes none.
FilesNotAsked ==
  \A n \in opt.there \cap Files : said[n] = "nothing" /\ tgt[n] = OwnFile(n) /\ data[n] = <<<<"old", n>>>>
\* What AnswerObeyed needs of deletions.
KeepInv == Inside /\ LeftThere /\ WhollyKept /\ FilesNotAsked

\* A step within a function keeps Inside.
LEMMA InsideGoes ==
  ASSUME Core, stack # <<>>, Inside, NEW l, NEW q, NEW r, Goes(l, q, r),
         Depth >= 2 => \A i \in DOMAIN q : q[i] \in Sub[Head(Rest)]
  PROVE  Inside'
<1>1. /\ Depth \in Nat /\ Depth >= 1 /\ Cur = Level(Depth) /\ Typed
  BY TopType DEF Core
<1>2. /\ Depth' = Depth /\ Cur'.n = Cur.n /\ Cur'.rest = q
      /\ \A k \in 1..Depth : Level(k)' = IF k = Depth THEN Cur' ELSE Level(k)
  BY DEF Goes, Made
<1>3. Depth >= 2 => Rest' = Rest
  BY <1>1, CallerGoes
<1>4. \A k \in 2..Depth : k \in 1..Depth
  BY <1>1
<1>5. \A k \in 2..Depth : Stays(Level(k)'.n, Level(k)'.rest, Head(Rest))
  BY <1>1, <1>2, <1>4 DEF Inside, Stays
<1>6. \A k \in 2..Depth : Rest' = Rest
  BY <1>1, <1>3
<1> QED  BY <1>2, <1>5, <1>6 DEF Inside

\* So does a return.
LEMMA InsideReturns ==
  ASSUME Core, stack # <<>>, Inside, NEW s, Returns(s)
  PROVE  Inside'
<1>1. /\ Depth \in Nat /\ Depth >= 1 /\ Typed /\ Depth' = Depth - 1
      /\ \A k \in 1..Depth - 1 : Level(k)' = Level(k)
  BY TopType DEF Core, Returns
<1>2. Depth >= 2 => Rest' = Rest
  BY <1>1, CallerReturns
<1>3. \A k \in 2..Depth - 1 : k \in 1..Depth - 1 /\ k \in 2..Depth /\ Depth >= 2
  BY <1>1
<1> QED  BY <1>1, <1>2, <1>3 DEF Inside

\* So does a call.
LEMMA InsideEnters ==
  ASSUME Core, stack # <<>>, Inside, NEW l, NEW f, NEW n, NEW a, Enters(l, f, n, a),
         n \in Sub[Head(Rest)]
  PROVE  Inside'
<1>1. /\ Depth \in Nat /\ Depth >= 1 /\ Cur = Level(Depth) /\ Typed
  BY TopType DEF Core
<1>2. PICK g \in Frame :
        /\ Made(g, l, Cur.n, Cur.rest, Cur.rs, Cur.ask)
        /\ \A k \in 1..Depth + 1 :
             Level(k)' = IF k = Depth + 1 THEN Cur' ELSE IF k = Depth THEN g ELSE Level(k)
  BY DEF Enters
<1>3. /\ Depth' = Depth + 1 /\ Cur'.n = n /\ Cur'.rest = <<>> /\ g.n = Cur.n /\ g.rest = Cur.rest
  BY <1>2 DEF Enters, Made
<1>4. Rest' = Rest
  BY <1>1, CallerEnters
<1>5. Stays(n, <<>>, Head(Rest))
  BY DEF Stays
<1>6. Depth >= 2 => Stays(Cur.n, Cur.rest, Head(Rest))
  BY <1>1 DEF Inside
<1>7. \A k \in 2..Depth + 1 : Stays(Level(k)'.n, Level(k)'.rest, Head(Rest))
  <2>1. \A k \in 2..Depth + 1 : k \in 1..Depth + 1 /\ (k = Depth + 1 \/ (k \in 2..Depth /\ Depth >= 2))
    BY <1>1
  <2> QED  BY <1>2, <1>3, <1>5, <1>6, <2>1 DEF Inside
<1> QED  BY <1>3, <1>4, <1>7 DEF Inside

\* Nothing is removed, or an entry of the tagged entry that is being deleted.
LEMMA KeepsWhole ==
  ASSUME Core, stack # <<>>, Inside, LeftThere, WhollyKept, Next,
         src' = src \/ (Depth >= 2 /\ src' = src \ {Cur.n})
  PROVE  /\ Left \subseteq src'
         /\ \A d \in Dirs : said[d] = "keep" => Sub[d] \subseteq src'
<1>1. /\ Depth \in Nat /\ Depth >= 1 /\ Cur = Level(Depth) /\ Typed /\ Shape
  BY TopType DEF Core
<1>2. CASE src' = src
  BY <1>2 DEF LeftThere, WhollyKept
<1>3. CASE Depth >= 2 /\ src' = src \ {Cur.n}
  <2>1. Cur.n \in Sub[Head(Rest)]
    <3>1. Depth \in 2..Depth
      BY <1>1, <1>3
    <3> QED  BY <1>1, <3>1 DEF Inside, Stays
  <2>2. Left = Under(Tail(Rest))
    BY <1>1, <1>3 DEF Left
  <2>3. Sub[Head(Rest)] \cap Under(Tail(Rest)) = {}
    <3>1. FrameOK(Level(1)) /\ Calls(Level(1), Level(2)) /\ Level(1).at \in Ends
      <4>1. 1 \in 1..Depth /\ 1 \in 1..Depth - 1
        BY <1>1, <1>3
      <4>2. 1 + 1 = 2
        OBVIOUS
      <4> QED  BY <1>1, <1>3, <4>1, <4>2 DEF Shape, FramesOK, Linked
    <3>2. Level(1).at = "operated"
      BY <3>1 DEF Ends, Calls, Waits, InList
    <3>3. Rest # <<>> /\ Separate(Rest) /\ Rest \in Seq(Nodes)
      BY <1>1, <3>1, <3>2, TopRest DEF FrameOK, InList, Rest
    <3> QED  BY <3>3, UnderParts
  <2> QED  BY <1>3, <2>1, <2>2, <2>3 DEF LeftThere, WhollyKept
<1> QED  BY <1>2, <1>3

\* Every step of a deletion keeps KeepInv.
LEMMA NextKeep ==
  ASSUME Core, opt.op = "delete", KeepInv, Next
  PROVE  KeepInv'
<1>0. /\ stack # <<>> /\ opt' = opt /\ Typed /\ Shape /\ FrameOK(Cur)
  BY NextRuns, NextCore, Places DEF Core
<1>i. Inside /\ LeftThere /\ WhollyKept /\ FilesNotAsked
  BY DEF KeepInv
<1>t. /\ Depth \in Nat /\ Depth >= 1 /\ Cur.n \in Nodes /\ Cur = Level(Depth) /\ Depth \in 1..Depth
      /\ Cur.rest \in Seq(Nodes) /\ Separate(Cur.rest) /\ Rest \in Seq(Nodes)
      /\ Depth = 1 => Rest = Cur.rest
  BY <1>0, TopType, TopRest DEF FrameOK
<1>p. Cur.at \in {"operate", "operated", "erase_file", "erase_dir", "recursive_erase", "erase_entry",
                  "erased_entry"}
  <2>1. Depth >= 2 => Fits(opt.op, Depth, Level(2).at, Cur.at)
    BY <1>0, <1>t DEF Shape, Fitting
  <2>2. Depth >= 2 => Cur.at \in EraseDirFns \cup {"erase_file"}
    BY <2>1 DEF Fits
  <2>3. Depth = 1 => Cur.at \in Ends
    BY <1>0, Places
  <2> QED  BY <1>t, <2>2, <2>3 DEF EraseDirFns, Ends
<1>2d. Cur.at \notin {"operate", "operated"} => Depth >= 2
  BY <1>0, <1>t, Places DEF Ends
<1>1d. Cur.at \in {"operate", "operated"} => Depth = 1
  BY <1>0, Places DEF Ends
<1>in. Depth >= 2 => Stays(Cur.n, Cur.rest, Head(Rest))
  <2>1. Depth >= 2 => Depth \in 2..Depth
    BY <1>t
  <2> QED  BY <1>i, <1>t, <2>1 DEF Inside
<1>n. UNCHANGED <<tgt, data, said>> => FilesNotAsked'
  BY <1>0, <1>i DEF FilesNotAsked
<1>w. src' = src \/ (Depth >= 2 /\ src' = src \ {Cur.n}) =>
        /\ Left \subseteq src'
        /\ \A d \in Dirs : said[d] = "keep" => Sub[d] \subseteq src'
  BY <1>0, <1>i, KeepsWhole
\* the top function returns: when it is panel_operate, nothing is left to do
<1>r. ASSUME NEW s, Returns(s), src' = src \/ (Depth >= 2 /\ src' = src \ {Cur.n})
      PROVE  /\ Inside' /\ LeftThere' /\ (said' = said => WhollyKept') /\ Left' \subseteq Left
             /\ Depth' = Depth - 1 /\ (Depth >= 2 => Left' = Left /\ Rest' = Rest)
  <2>1. Inside'
    BY <1>0, <1>i, <1>r, InsideReturns
  <2>2. Depth' = Depth - 1
    BY <1>r DEF Returns
  <2>3. Depth >= 2 => Rest' = Rest /\ stack' # <<>> /\ Cur'.at \notin {"operate", "erase_dir"}
    <3>1. Depth >= 2 => Rest' = Rest /\ stack' # <<>> /\ Cur' = Caller /\ Caller.at \in Waits
      BY <1>0, <1>r, CallerReturns, CallerIs DEF Calls
    <3> QED  BY <3>1 DEF Waits, InList
  <2>4. Depth >= 2 => Left' = Left
    BY <1>t, <2>2, <2>3 DEF Left
  <2>5. Depth = 1 => Left' = {} /\ stack' = <<>>
    BY <1>t, <1>r, <2>2 DEF Left, Returns
  <2>6. Left' \subseteq Left
    BY <1>t, <2>4, <2>5
  <2>7. LeftThere'
    BY <1>r, <1>t, <1>w, <2>3, <2>5, <2>6 DEF LeftThere
  <2>8. said' = said => WhollyKept'
    BY <1>i, <1>r, <1>t, <1>w, <2>2, <2>3, <2>6 DEF WhollyKept
  <2> QED  BY <2>1, <2>2, <2>3, <2>4, <2>6, <2>7, <2>8
<1>f. ASSUME FailsNow \/ AbortNow, src' = src \/ (Depth >= 2 /\ src' = src \ {Cur.n}), said' = said
      PROVE  Inside' /\ LeftThere' /\ WhollyKept'
  BY <1>f, <1>r, FailsReturns
<1>g. ASSUME NEW l, NEW q, NEW r, Goes(l, q, r), src' = src, said' = said, l # "erase_dir", Depth >= 2,
             \A i \in DOMAIN q : q[i] \in Sub[Head(Rest)]
      PROVE  Inside' /\ LeftThere' /\ WhollyKept'
  <2>1. Inside'
    BY <1>0, <1>g, <1>i, InsideGoes
  <2>2. Depth' = Depth /\ Rest' = Rest /\ Cur'.at = l
    BY <1>0, <1>g, CallerGoes DEF Goes, Made
  <2>3. Left' = Left
    BY <1>g, <1>t, <2>2 DEF Left
  <2> QED  BY <1>g, <1>i, <2>1, <2>2, <2>3 DEF LeftThere, WhollyKept
<1>top. Depth >= 2 => Head(Rest) \in Nodes
  <2>1. Depth >= 2 => Level(1).at \in Ends /\ Calls(Level(1), Level(2)) /\ FrameOK(Level(1))
    <3>1. Depth >= 2 => 1 \in 1..Depth /\ 1 \in 1..Depth - 1
      BY <1>t
    <3>2. 1 + 1 = 2
      OBVIOUS
    <3> QED  BY <1>0, <1>t, <3>1, <3>2 DEF Shape, FramesOK, Linked
  <2>2. Depth >= 2 => Rest # <<>>
    BY <2>1 DEF Ends, Calls, Waits, InList, FrameOK, Rest
  <2> QED  BY <1>t, <2>2, SeqHead
<1>1. CASE Operate
  <2>1. PICK f, m : /\ Cur.at = "operate" /\ Cur.rest # <<>> /\ m = Head(Cur.rest)
                    /\ Enters("operated", f, m, TRUE) /\ UNCHANGED <<disk, said>>
    BY <1>1, <1>0, OperateIs DEF Unasked, answers
  <2>2. Depth = 1 /\ Rest = Cur.rest /\ m = Head(Rest) /\ m \in Nodes
    BY <1>1d, <1>t, <2>1, SeqHead
  <2>3. Depth' = 2 /\ Rest' = Rest /\ Cur'.n = m
    BY <1>0, <2>1, <2>2, CallerEnters DEF Enters, Made
  <2>4. Left = Sub[m] \cup Under(Tail(Rest)) /\ Left' = Under(Tail(Rest))
    <3>1. Left = Under(Rest)
      BY <2>1, <2>2 DEF Left
    <3>2. Under(Rest) = Sub[m] \cup Under(Tail(Rest))
      BY <1>t, <2>1, <2>2, UnderParts
    <3>3. Left' = Under(Tail(Rest))
      BY <2>3 DEF Left
    <3> QED  BY <3>1, <3>2, <3>3
  <2>5. Inside'
    BY <1>0, <1>i, <2>1, <2>2, InsideEnters, SubIs
  <2>6. LeftThere'
    BY <1>i, <2>1, <2>3, <2>4 DEF LeftThere, disk
  <2>7. WhollyKept'
    BY <1>i, <2>1, <2>2, <2>3, <2>4 DEF WhollyKept, disk
  <2> QED  BY <1>n, <2>1, <2>5, <2>6, <2>7 DEF KeepInv, disk
<1>2. CASE Operated
  <2>1. /\ Cur.at = "operated" /\ Cur.rest # <<>> /\ UNCHANGED <<src, tgt, data, said>> /\ Depth = 1
    BY <1>2, <1>0, <1>1d, OperatedIs DEF disk, Unasked, answers
  <2>2. CASE Goes("operate", Tail(Cur.rest), Cur.rs)
    <3>1. Depth' = 1 /\ Rest' = Tail(Rest) /\ Cur'.at = "operate"
      BY <1>0, <1>t, <2>1, <2>2, CallerGoes DEF Goes, Made
    <3>2. Left' = Under(Tail(Rest)) /\ Left = Under(Tail(Rest))
      BY <2>1, <3>1 DEF Left
    <3>3. Inside'
      BY <3>1 DEF Inside
    <3>4. LeftThere' /\ WhollyKept'
      BY <1>i, <2>1, <3>1, <3>2 DEF LeftThere, WhollyKept
    <3> QED  BY <1>n, <2>1, <3>3, <3>4 DEF KeepInv
  <2>3. CASE AbortNow \/ Returns("abort")
    <3>1. Returns("abort")
      BY <2>3 DEF AbortNow
    <3> QED  BY <1>n, <1>r, <2>1, <3>1 DEF KeepInv
  <2> QED  BY <1>2, <1>0, <2>2, <2>3, OperatedIs
<1>3. CASE Finish
  BY <1>3, <1>0, <1>n, <1>r, FinishIs DEF KeepInv, disk, Unasked, answers
<1>4. CASE CopyFile
  BY <1>4, <1>0, <1>p, CopyFileIs
<1>5. CASE Link
  BY <1>5, <1>0, <1>p, LinkIs
<1>6. CASE Open
  BY <1>6, <1>0, <1>p, OpenIs
<1>7. CASE Fill
  BY <1>7, <1>0, <1>p, FillIs
<1>8. CASE Short
  BY <1>8, <1>0, <1>p, ShortIs
<1>9. CASE CopyDir
  BY <1>9, <1>0, <1>p, CopyDirIs
<1>10. CASE Entry
  BY <1>10, <1>0, <1>p, EntryIs
<1>11. CASE CopiedEntry
  BY <1>11, <1>0, <1>p, CopiedEntryIs
<1>12. CASE MoveFile
  BY <1>12, <1>0, <1>p, MoveFileIs
<1>13. CASE Rename
  BY <1>13, <1>0, <1>p, RenameIs
<1>14. CASE Copied
  BY <1>14, <1>0, <1>p, CopiedIs
<1>15. CASE Remove
  BY <1>15, <1>0, <1>p, RemoveIs
<1>16. CASE MoveDir
  BY <1>16, <1>0, <1>p, MoveDirIs
<1>17. CASE DirCopied
  BY <1>17, <1>0, <1>p, DirCopiedIs
<1>18. CASE Erasing
  BY <1>18, <1>0, <1>p, ErasingIs
<1>19. CASE Erased
  BY <1>19, <1>0, <1>p, ErasedIs
<1>20. CASE Moved
  BY <1>20, <1>0, <1>p, MovedIs
<1>21. CASE EraseFile
  <2>1. Cur.at = "erase_file" /\ UNCHANGED <<tgt, data, said>>
    BY <1>21, <1>0, EraseFileIs DEF Unasked, answers
  <2>2. Depth >= 2 /\ (src' = src \/ src' = src \ {Cur.n})
    BY <1>21, <1>0, <1>2d, <2>1, EraseFileIs
  <2>3. Returns("cont") \/ FailsNow
    BY <1>21, <1>0, EraseFileIs
  <2> QED  BY <1>f, <1>n, <1>r, <2>1, <2>2, <2>3 DEF KeepInv
<1>22. CASE EraseIfEmpty
  BY <1>22, <1>0, <1>p, EraseIfEmptyIs
<1>23. CASE EraseDir
  <2>1. Cur.at = "erase_dir" /\ UNCHANGED <<tgt, data>> /\ Cur.n \in Dirs
    BY <1>23, <1>0, EraseDirIs, FileFrames
  <2>2. Depth >= 2
    BY <1>2d, <2>1
  <2>3. CASE said' = said
    <3>1. (src' = src \/ src' = src \ {Cur.n})
      BY <1>23, <1>0, EraseDirIs
    <3>2. \/ FailsNow \/ \E s : Returns(s)
          \/ src' = src /\ Goes("recursive_erase", <<>>, "cont")
      BY <1>23, <1>0, EraseDirIs
    <3>3. Goes("recursive_erase", <<>>, "cont") /\ src' = src => Inside' /\ LeftThere' /\ WhollyKept'
      BY <1>g, <2>2, <2>3
    <3> QED  BY <1>f, <1>n, <1>r, <2>1, <2>2, <2>3, <3>1, <3>2, <3>3 DEF KeepInv
  <2>4. CASE /\ src' = src /\ Returns("skip") /\ said' = [said EXCEPT ![Cur.n] = "keep"]
    <3>1. Caller.at = "operated" /\ Calls(Caller, Cur) /\ Depth = 2
      BY <1>0, <1>i, <2>1, <2>2, CallerIs DEF LeftThere
    <3>2. Caller = Level(1) /\ Cur.n = Head(Rest) /\ Rest # <<>> /\ Separate(Rest)
      <4>1. Caller = Level(1) /\ FrameOK(Caller)
        BY <1>0, <3>1, CallerIs
      <4> QED  BY <3>1, <4>1 DEF Rest, Calls, FrameOK, InList
    <3>3. Left = Under(Tail(Rest)) /\ Left' = Left /\ Depth' = 1
      BY <1>r, <1>t, <2>4, <3>1 DEF Left
    <3>4. Sub[Cur.n] \cap Left = {}
      BY <1>t, <3>2, <3>3, UnderParts
    <3>5. Sub[Cur.n] \subseteq src
      BY <1>0, <1>i, <2>1 DEF LeftThere
    <3>6. \A d \in Dirs : said'[d] = "keep" => d = Cur.n \/ said[d] = "keep"
      BY <1>0, <2>4, Assumed DEF Typed
    <3>7. WhollyKept'
      BY <1>i, <2>4, <3>3, <3>4, <3>5, <3>6 DEF WhollyKept
    <3>8. FilesNotAsked'
      <4>1. \A n \in Files : said'[n] = said[n] /\ tgt'[n] = tgt[n] /\ data'[n] = data[n]
        BY <1>0, <2>1, <2>4, FilesAreNodes DEF Typed
      <4> QED  BY <1>0, <1>i, <4>1 DEF FilesNotAsked
    <3> QED  BY <1>r, <2>4, <3>7, <3>8 DEF KeepInv
  <2> QED  BY <1>23, <1>0, <2>3, <2>4, EraseDirIs
<1>24. CASE RecursiveErase
  <2>1. Cur.at = "recursive_erase" /\ UNCHANGED <<src, tgt, data, said>> /\ Cur.n \in Dirs
    BY <1>24, <1>0, RecursiveEraseIs, FileFrames DEF disk, Unasked, answers
  <2>2. Depth >= 2
    BY <1>2d, <2>1
  <2>3. CASE Returns("retry")
    BY <1>n, <1>r, <2>1, <2>3 DEF KeepInv
  <2>4. CASE \E q : Listing(q, Cur.n) /\ Goes("erase_entry", q, Cur.rs)
    <3>1. PICK q : Listing(q, Cur.n) /\ Goes("erase_entry", q, Cur.rs)
      BY <2>4
    <3>2. Sub[Cur.n] \subseteq Sub[Head(Rest)] /\ Head(Rest) \in Nodes
      <4>1. Head(Rest) \in Nodes
        BY <1>top, <2>2
      <4> QED  BY <1>in, <2>2, <4>1, SubNested DEF Stays
    <3>3. \A i \in DOMAIN q : q[i] \in Sub[Head(Rest)]
      BY <2>1, <3>1, <3>2, SubEntry, SubIs DEF Listing
    <3> QED  BY <1>g, <1>n, <2>1, <2>2, <3>1, <3>3 DEF KeepInv
  <2> QED  BY <1>24, <1>0, <2>3, <2>4, RecursiveEraseIs
<1>25. CASE EraseEntry
  <2>1. Cur.at = "erase_entry" /\ UNCHANGED <<tgt, data, said>>
    BY <1>25, <1>0, EraseEntryIs DEF Unasked, answers
  <2>2. Depth >= 2 /\ (src' = src \/ src' = src \ {Cur.n})
    BY <1>25, <1>0, <1>2d, <2>1, EraseEntryIs
  <2>3. CASE (\E s : Returns(s)) \/ FailsNow
    BY <1>f, <1>n, <1>r, <2>1, <2>2, <2>3 DEF KeepInv
  <2>4. CASE /\ src' = src /\ Cur.rest # <<>>
             /\ \E f \in {"recursive_erase", "erase_file"} : Enters("erased_entry", f, Head(Cur.rest), TRUE)
    <3>1. PICK f \in {"recursive_erase", "erase_file"} : Enters("erased_entry", f, Head(Cur.rest), TRUE)
      BY <2>4
    <3>2. Head(Cur.rest) \in Sub[Head(Rest)]
      <4>1. 1 \in DOMAIN Cur.rest /\ Head(Cur.rest) = Cur.rest[1]
        BY <1>t, <2>4, SeqHead
      <4> QED  BY <1>in, <2>2, <4>1 DEF Stays
    <3>3. Inside'
      BY <1>0, <1>i, <3>1, <3>2, InsideEnters
    <3>4. Depth' = Depth + 1 /\ Rest' = Rest /\ Cur'.at = f
      BY <1>0, <3>1, CallerEnters DEF Enters, Made
    <3>5. Left' = Left
      BY <1>t, <2>2, <3>4 DEF Left
    <3>6. LeftThere' /\ WhollyKept'
      BY <1>i, <1>t, <2>1, <2>2, <2>4, <3>4, <3>5 DEF LeftThere, WhollyKept
    <3> QED  BY <1>n, <2>1, <3>3, <3>6 DEF KeepInv
  <2> QED  BY <1>25, <1>0, <2>3, <2>4, EraseEntryIs
<1>26. CASE ErasedEntry
  <2>1. /\ Cur.at = "erased_entry" /\ Cur.rest # <<>> /\ UNCHANGED <<src, tgt, data, said>>
        /\ \E r : Goes("erase_entry", Tail(Cur.rest), r)
    BY <1>26, <1>0, ErasedEntryIs DEF disk, Unasked, answers
  <2>2. Depth >= 2
    BY <1>2d, <2>1
  <2>3. \A i \in DOMAIN Tail(Cur.rest) : Tail(Cur.rest)[i] \in Sub[Head(Rest)]
    <3>1. /\ Tail(Cur.rest) \in Seq(Nodes) /\ Len(Tail(Cur.rest)) = Len(Cur.rest) - 1
          /\ \A i \in 1..Len(Cur.rest) - 1 : Tail(Cur.rest)[i] = Cur.rest[i + 1]
      BY <1>t, <2>1, SeqTail
    <3>2. \A i \in 1..Len(Cur.rest) - 1 : i + 1 \in DOMAIN Cur.rest
      BY <1>t
    <3>3. DOMAIN Tail(Cur.rest) = 1..Len(Cur.rest) - 1
      <4> DEFINE p == Tail(Cur.rest)
      <4>1. p \in Seq(Nodes) /\ Len(p) = Len(Cur.rest) - 1
        BY <3>1
      <4> HIDE DEF p
      <4>2. DOMAIN p = 1..Len(Cur.rest) - 1
        BY <4>1
      <4> QED  BY <4>2 DEF p
    <3> QED  BY <1>in, <2>2, <3>1, <3>2, <3>3 DEF Stays
  <2> QED  BY <1>g, <1>n, <2>1, <2>2, <2>3 DEF KeepInv
<1> QED
  BY <1>1, <1>2, <1>3, <1>4, <1>5, <1>6, <1>7, <1>8, <1>9, <1>10, <1>11, <1>12, <1>13,
     <1>14, <1>15, <1>16, <1>17, <1>18, <1>19, <1>20, <1>21, <1>22, <1>23, <1>24, <1>25,
     <1>26 DEF Next

(***************************************************************************)
(* What the user has answered: targets that existed.                       *)
(***************************************************************************)
\* No call has failed in a move, as AnswerObeyed has it.
Calm == opt.op = "move" => trouble = 0
\* the question about the file at hand is behind, or was not necessary
Answered ==
  /\ stack # <<>>
  /\ \/ Cur.at \in {"link", "open", "fill", "short", "rename"}
     \/ Cur.at = "copy_file" /\ ~Cur.ask
\* the target has been opened
Opened == stack # <<>> /\ Cur.at \in {"fill", "short"}
\* nothing is left of the target that existed
NoOld(n) == \A j \in DOMAIN data[n] : data[n][j] # <<"old", n>>
\* the target begins with what it was before
StartsOld(n) == data[n] # <<>> /\ Head(data[n]) = <<"old", n>>
\* The target of n is as the user wants it.
Obeyed(n) ==
  /\ tgt[n] \in {Nothing, OwnFile(n)}
  /\ said[n] = "nothing" => tgt[n] = OwnFile(n) /\ data[n] = <<<<"old", n>>>>
  /\ said[n] = "append" => tgt[n] = Nothing \/ StartsOld(n)
  /\ said[n] = "replace" /\ Calm => data[n] = <<<<"old", n>>>> \/ NoOld(n)
\* Until it is asked about a target is untouched, and Append is remembered until it is opened.
InTurn(n) ==
  n \in Pending =>
    /\ tgt[n] = OwnFile(n)
    /\ Answered /\ Cur.n = n =>
         /\ said[n] \in {"append", "replace"}
         /\ said[n] = "append" => append \/ Opened
         /\ said[n] = "replace" /\ Calm /\ Cur.at = "fill" => NoOld(n)
    /\ ~(Answered /\ Cur.n = n) => said[n] = "nothing"
\* do_append is set only between the answer and the opening of that very file.
FlagMeant == append /\ Calm => Answered /\ ~Opened /\ said[Cur.n] = "append"
\* Only move_file_file calls copy_file_file without a question.
UnaskedMoves == stack # <<>> /\ Cur.at = "copy_file" /\ ~Cur.ask => opt.op = "move"
\* Target directories that existed stay.
DirsThere == \A d \in Dirs \cap opt.there : tgt[d] # Nothing
\* Copies and moves never ask whether a directory may be deleted.
NoneKept == \A n \in Nodes : said[n] # "keep"
\* What AnswerObeyed needs of copies and moves.
AnswerInv ==
  /\ \A n \in opt.there \cap Files : Obeyed(n) /\ InTurn(n)
  /\ FlagMeant /\ UnaskedMoves /\ DirsThere /\ NoneKept

\* The beginning of a concatenation, and what is not in it.
LEMMA Concat ==
  ASSUME NEW S, NEW c \in Seq(S), NEW p \in Seq(S), NEW o
  PROVE  /\ c \o p \in Seq(S)
         /\ c # <<>> => c \o p # <<>> /\ Head(c \o p) = Head(c)
         /\ (\A j \in DOMAIN c : c[j] # o) /\ (\A j \in DOMAIN p : p[j] # o) =>
              \A j \in DOMAIN (c \o p) : (c \o p)[j] # o
<1>1. c \o p \in Seq(S) /\ Len(c \o p) = Len(c) + Len(p) /\ Len(c) \in Nat /\ Len(p) \in Nat
  OBVIOUS
<1>2. c # <<>> => c \o p # <<>> /\ Head(c \o p) = Head(c)
  OBVIOUS
<1>3. \A j \in DOMAIN (c \o p) :
        (j \in DOMAIN c /\ (c \o p)[j] = c[j]) \/ (j - Len(c) \in DOMAIN p /\ (c \o p)[j] = p[j - Len(c)])
  OBVIOUS
<1>4. ASSUME \A j \in DOMAIN c : c[j] # o, \A j \in DOMAIN p : p[j] # o
      PROVE  \A j \in DOMAIN (c \o p) : (c \o p)[j] # o
  BY <1>3, <1>4
<1> QED  BY <1>1, <1>2, <1>4

\* Only the file at hand is touched, and what a directory that was not there brings along.
LEMMA StepTouches ==
  ASSUME Core, CarryInv, CarryStep, stack # <<>>, DirsThere, NEW n \in opt.there \cap Files,
         n # Cur.n
  PROVE  tgt'[n] = tgt[n] /\ data'[n] = data[n]
<1>1. /\ tgt \in [Nodes -> Target] /\ data \in [Files -> Seq(Piece)] /\ n \in Nodes /\ n \in Files
  BY FilesAreNodes DEF Core, Typed
<1>2. CASE KeepStep
  BY <1>1, <1>2 DEF KeepStep
<1>3. CASE LinkStep
  <2>1. PICK v : tgt' = [tgt EXCEPT ![Cur.n] = v]
    BY <1>3 DEF LinkStep
  <2> QED  BY <1>1, <1>3, <2>1 DEF LinkStep
<1>4. CASE FirstStep
  BY <1>4 DEF FirstStep
<1>5. CASE OpenStep
  <2>1. Cur.n \in Files /\ Cur.n \in Pending
    BY <1>5, Visited DEF OpenStep
  <2>2. tgt[Cur.n] \in {Nothing, OwnFile(Cur.n)}
    BY <2>1 DEF CarryInv, Visits, Fresh
  <2>3. PICK v : tgt' = [tgt EXCEPT ![Cur.n] = v]
    BY <1>5 DEF OpenStep
  <2>4. data' = data \/ data' = [data EXCEPT ![Cur.n] = <<>>]
    BY <1>5, <2>2, OwnFileIs DEF OpenStep
  <2> QED  BY <1>1, <2>3, <2>4
<1>6. CASE FillStep
  <2>1. tgt[Cur.n] = OwnFile(Cur.n) /\ UNCHANGED tgt
    BY <1>6 DEF FillStep, CarryInv, Filling
  <2>2. PICK p : Written(Cur.n, p)
    BY <1>6 DEF FillStep
  <2>3. PICK v : data' = [data EXCEPT ![Cur.n] = v]
    BY <2>1, <2>2, OwnFileIs DEF Written
  <2> QED  BY <1>1, <2>1, <2>3
<1>7. CASE ShortStep
  BY <1>1, <1>7 DEF ShortStep
<1>8. CASE RenameStep
  BY <1>1, <1>8 DEF RenameStep
<1>9. CASE MoveDirStep
  <2>1. Cur.n \in Dirs
    BY <1>9, Visited DEF MoveDirStep
  <2>2. Cur.n \notin opt.there
    BY <1>9, <2>1 DEF MoveDirStep, DirsThere
  <2>3. n \notin Sub[Cur.n]
    BY <2>1, <2>2, TreeAssumption DEF Core, Typed
  <2> QED  BY <1>1, <1>9, <2>3 DEF MoveDirStep
<1> QED  BY <1>2, <1>3, <1>4, <1>5, <1>6, <1>7, <1>8, <1>9 DEF CarryStep

\* Troubles are only added.
LEMMA TroubleGrows ==
  ASSUME Core, Next
  PROVE  trouble' = trouble \/ trouble' = trouble + 1
<1>0. Typed /\ stack # <<>> /\ FrameOK(Cur)
  BY NextRuns, Places DEF Core
<1>1. CASE Operate
  BY <1>1, OperateIs, <1>0 DEF FailsNow, AbortNow, FileError, Trouble, Quietly, Smooth, Replaces
<1>2. CASE Operated
  BY <1>2, OperatedIs, <1>0 DEF FailsNow, AbortNow, FileError, Trouble, Quietly,
     Smooth, Replaces
<1>3. CASE Finish
  BY <1>3, FinishIs, <1>0 DEF FailsNow, AbortNow, FileError, Trouble, Quietly, Smooth, Replaces
<1>4. CASE CopyFile
  BY <1>4, CopyFileIs, <1>0 DEF FailsNow, AbortNow, FileError, Trouble, Quietly,
     Smooth, Replaces
<1>5. CASE Link
  BY <1>5, LinkIs, <1>0 DEF FailsNow, AbortNow, FileError, Trouble, Quietly, Smooth, Replaces
<1>6. CASE Open
  BY <1>6, OpenIs, <1>0 DEF FailsNow, AbortNow, FileError, Trouble, Quietly, Smooth, Replaces
<1>7. CASE Fill
  BY <1>7, FillIs, <1>0 DEF FailsNow, AbortNow, FileError, Trouble, Quietly, Smooth, Replaces
<1>8. CASE Short
  BY <1>8, ShortIs, <1>0 DEF FailsNow, AbortNow, FileError, Trouble, Quietly, Smooth, Replaces
<1>9. CASE CopyDir
  BY <1>9, CopyDirIs, <1>0 DEF FailsNow, AbortNow, FileError, Trouble, Quietly, Smooth, Replaces
<1>10. CASE Entry
  BY <1>10, EntryIs, <1>0 DEF FailsNow, AbortNow, FileError, Trouble, Quietly, Smooth, Replaces
<1>11. CASE CopiedEntry
  BY <1>11, CopiedEntryIs, <1>0 DEF FailsNow, AbortNow, FileError, Trouble, Quietly,
     Smooth, Replaces
<1>12. CASE MoveFile
  BY <1>12, MoveFileIs, <1>0 DEF FailsNow, AbortNow, FileError, Trouble, Quietly,
     Smooth, Replaces
<1>13. CASE Rename
  BY <1>13, RenameIs, <1>0 DEF FailsNow, AbortNow, FileError, Trouble, Quietly, Smooth, Replaces
<1>14. CASE Copied
  BY <1>14, CopiedIs, <1>0 DEF FailsNow, AbortNow, FileError, Trouble, Quietly, Smooth, Replaces
<1>15. CASE Remove
  BY <1>15, RemoveIs, <1>0 DEF FailsNow, AbortNow, FileError, Trouble, Quietly, Smooth, Replaces
<1>16. CASE MoveDir
  BY <1>16, MoveDirIs, <1>0 DEF FailsNow, AbortNow, FileError, Trouble, Quietly,
     Smooth, Replaces
<1>17. CASE DirCopied
  BY <1>17, DirCopiedIs, <1>0 DEF FailsNow, AbortNow, FileError, Trouble, Quietly,
     Smooth, Replaces
<1>18. CASE Erasing
  BY <1>18, ErasingIs, <1>0 DEF FailsNow, AbortNow, FileError, Trouble, Quietly,
     Smooth, Replaces
<1>19. CASE Erased
  BY <1>19, ErasedIs, <1>0 DEF FailsNow, AbortNow, FileError, Trouble, Quietly, Smooth, Replaces
<1>20. CASE Moved
  BY <1>20, MovedIs, <1>0 DEF FailsNow, AbortNow, FileError, Trouble, Quietly, Smooth, Replaces
<1>21. CASE EraseFile
  BY <1>21, EraseFileIs, <1>0 DEF FailsNow, AbortNow, FileError, Trouble, Quietly,
     Smooth, Replaces
<1>22. CASE EraseIfEmpty
  BY <1>22, EraseIfEmptyIs, <1>0 DEF FailsNow, AbortNow, FileError, Trouble, Quietly,
     Smooth, Replaces
<1>23. CASE EraseDir
  BY <1>23, EraseDirIs, <1>0 DEF FailsNow, AbortNow, FileError, Trouble, Quietly,
     Smooth, Replaces
<1>24. CASE RecursiveErase
  BY <1>24, RecursiveEraseIs, <1>0 DEF FailsNow, AbortNow, FileError, Trouble,
     Quietly, Smooth, Replaces
<1>25. CASE EraseEntry
  BY <1>25, EraseEntryIs, <1>0 DEF FailsNow, AbortNow, FileError, Trouble, Quietly,
     Smooth, Replaces
<1>26. CASE ErasedEntry
  BY <1>26, ErasedEntryIs, <1>0 DEF FailsNow, AbortNow, FileError, Trouble, Quietly,
     Smooth, Replaces
<1> QED
  BY <1>1, <1>2, <1>3, <1>4, <1>5, <1>6, <1>7, <1>8, <1>9, <1>10, <1>11, <1>12, <1>13,
     <1>14, <1>15, <1>16, <1>17, <1>18, <1>19, <1>20, <1>21, <1>22, <1>23, <1>24, <1>25,
     <1>26 DEF Next

\* So a calm move has been calm, and is not after a failure.
LEMMA CalmBefore ==
  ASSUME Core, Next, opt' = opt
  PROVE  /\ Calm' => Calm
         /\ (FailsNow \/ AbortNow) /\ opt.op = "move" => ~Calm'
<1>1. trouble \in 0..MaxTrouble /\ MaxTrouble \in Nat
  BY Assumed DEF Core, Typed
<1>2. trouble' = 0 => trouble = 0
  BY <1>1, TroubleGrows
<1>3. FailsNow \/ AbortNow => trouble' = trouble + 1
  BY DEF FailsNow, AbortNow, FileError, Trouble
<1>4. trouble + 1 # 0
  BY <1>1
<1> QED  BY <1>2, <1>3, <1>4 DEF Calm

\* What every step of a copy or a move brings.
LEMMA AnswerFacts ==
  ASSUME CopyInv, opt.op # "delete", AnswerInv, Next
  PROVE  /\ stack # <<>> /\ Core /\ CarryInv /\ CarryStep /\ opt' = opt
         /\ Pending' \subseteq Pending /\ (Calm' => Calm) /\ DirsThere'
         /\ Typed /\ Shape /\ FrameOK(Cur) /\ Cur.n \in Nodes
         /\ Cur.at \notin {"link", "open", "fill", "short", "rename", "move_dir"} => KeepStep
         /\ Cur.at \in {"copy_file", "link", "open", "fill", "short", "move_file", "rename"} =>
              Cur.n \in Files /\ Cur.n \in Pending
<1>1. stack # <<>> /\ Core /\ opt' = opt /\ Typed /\ Shape /\ FrameOK(Cur) /\ CarryInv /\ Cur.n \in Nodes
  BY NextRuns, NextCore, Places, TopType DEF CopyInv, Core
<1>2. CarryStep
  BY NextCarry DEF CopyInv
<1>3. Pending' \subseteq Pending
  BY NextTodo DEF CopyInv
<1>4. Calm' => Calm
  BY <1>1, CalmBefore
<1>5. DirsThere'
  <2>1. \A d \in Dirs \cap opt.there : tgt'[d] # Nothing
    BY <1>1, <1>2, StepDirs DEF AnswerInv, DirsThere
  <2> QED  BY <1>1, <2>1 DEF DirsThere
<1>6. Cur.at \notin {"link", "open", "fill", "short", "rename", "move_dir"} => KeepStep
  BY <1>2 DEF CarryStep, LinkStep, FirstStep, OpenStep, FillStep, ShortStep,
     RenameStep, MoveDirStep
<1>7. Cur.at \in {"copy_file", "link", "open", "fill", "short", "move_file", "rename"} =>
        Cur.n \in Files /\ Cur.n \in Pending
  <2>1. Todo(Cur) \cap Files \subseteq Pending
    BY <1>1, PendingTop
  <2>2. Cur.at \in {"copy_file", "link", "open", "fill", "short", "move_file", "rename"} =>
          Cur.n \in Files /\ Todo(Cur) = Sub[Cur.n]
    BY <1>1, TodoCases, FileFrames DEF Todo
  <2> QED  BY <1>1, <2>1, <2>2, SubIs
<1> QED  BY <1>1, <1>2, <1>3, <1>4, <1>5, <1>6, <1>7

\* A step outside of what follows a question, in which nothing is answered.
LEMMA QuietStep ==
  ASSUME CopyInv, opt.op # "delete", AnswerInv, Next, ~Answered, ~Answered',
         UNCHANGED <<said, append>>
  PROVE  AnswerInv'
<1>0. /\ stack # <<>> /\ Core /\ CarryInv /\ CarryStep /\ opt' = opt
      /\ Pending' \subseteq Pending /\ (Calm' => Calm) /\ DirsThere' /\ FrameOK(Cur)
      /\ Cur.at \notin {"link", "open", "fill", "short", "rename", "move_dir"} => KeepStep
  BY AnswerFacts
<1>1. ASSUME NEW n \in opt.there \cap Files
      PROVE  tgt'[n] = tgt[n] /\ data'[n] = data[n]
  <2>1. CASE n # Cur.n
    BY <1>0, <2>1, StepTouches DEF AnswerInv
  <2>2. CASE n = Cur.n
    <3>1. Cur.at # "move_dir" /\ Cur.at \notin {"link", "open", "fill", "short", "rename"}
      BY <1>0, <2>2, FileFrames, FilesAreNodes DEF Answered
    <3> QED  BY <1>0, <3>1 DEF KeepStep
  <2> QED  BY <2>1, <2>2
<1>2. ASSUME NEW n \in opt.there \cap Files
      PROVE  Obeyed(n)' /\ InTurn(n)'
  <2>1. Obeyed(n) /\ InTurn(n) /\ tgt'[n] = tgt[n] /\ data'[n] = data[n] /\ said'[n] = said[n]
    BY <1>1 DEF AnswerInv
  <2>2. Obeyed(n)'
    BY <1>0, <2>1 DEF Obeyed, NoOld, StartsOld
  <2>3. InTurn(n)'
    BY <1>0, <2>1 DEF InTurn
  <2> QED  BY <2>2, <2>3
<1>3. FlagMeant'
  BY <1>0 DEF AnswerInv, FlagMeant
<1>4. UnaskedMoves'
  BY DEF UnaskedMoves, Answered
<1>5. NoneKept'
  BY DEF AnswerInv, NoneKept
<1> QED  BY <1>0, <1>2, <1>3, <1>4, <1>5 DEF AnswerInv

\* A step of the file at hand.
LEMMA FileStep ==
  ASSUME CopyInv, opt.op # "delete", AnswerInv, Next, NEW m \in Files, m = Cur.n,
         Answered' => Cur'.n = m,
         \A n \in Nodes : said'[n] = said[n] \/ (n = m /\ said'[n] # "keep"),
         FlagMeant', Answered' => (Cur'.at = "copy_file" => opt.op = "move"),
         m \in opt.there => Obeyed(m)' /\ InTurn(m)'
  PROVE  AnswerInv'
<1>0. /\ stack # <<>> /\ Core /\ CarryInv /\ CarryStep /\ opt' = opt
      /\ Pending' \subseteq Pending /\ (Calm' => Calm) /\ DirsThere' /\ Files \subseteq Nodes
  BY AnswerFacts, FilesAreNodes
<1>1. ASSUME NEW n \in opt.there \cap Files, n # m
      PROVE  Obeyed(n)' /\ InTurn(n)'
  <2>1. /\ Obeyed(n) /\ InTurn(n) /\ tgt'[n] = tgt[n] /\ data'[n] = data[n] /\ said'[n] = said[n]
    BY <1>0, <1>1, StepTouches DEF AnswerInv
  <2>2. Obeyed(n)'
    BY <1>0, <2>1 DEF Obeyed, NoOld, StartsOld
  <2>3. ~(Answered /\ Cur.n = n) /\ ~(Answered' /\ Cur'.n = n)
    BY <1>1
  <2>4. InTurn(n)'
    BY <1>0, <2>1, <2>3 DEF InTurn
  <2> QED  BY <2>2, <2>4
<1>2. \A n \in opt'.there \cap Files : Obeyed(n)' /\ InTurn(n)'
  BY <1>0, <1>1
<1>3. UnaskedMoves'
  BY <1>0 DEF UnaskedMoves, Answered
<1>4. NoneKept'
  BY DEF AnswerInv, NoneKept
<1> QED  BY <1>0, <1>2, <1>3, <1>4 DEF AnswerInv

\* Every step of a copy or a move keeps AnswerInv.
LEMMA NextAnswer ==
  ASSUME CopyInv, opt.op # "delete", AnswerInv, Next
  PROVE  AnswerInv'
<1>0. /\ stack # <<>> /\ Core /\ CarryInv /\ CarryStep /\ opt' = opt /\ Typed /\ Shape
      /\ Pending' \subseteq Pending /\ (Calm' => Calm) /\ DirsThere' /\ FrameOK(Cur) /\ Cur.n \in Nodes
      /\ Cur.at \notin {"link", "open", "fill", "short", "rename", "move_dir"} => KeepStep
      /\ Cur.at \in {"copy_file", "link", "open", "fill", "short", "move_file", "rename"} =>
           Cur.n \in Files /\ Cur.n \in Pending
  BY AnswerFacts
<1>t. /\ Disjoint /\ FlagMeant /\ UnaskedMoves
      /\ \A n \in opt.there \cap Files : Obeyed(n) /\ InTurn(n)
      /\ tgt \in [Nodes -> Target] /\ data \in [Files -> Seq(Piece)] /\ append \in BOOLEAN
      /\ said \in [Nodes -> {"nothing", "replace", "append", "keep"}] /\ Files \subseteq Nodes
  BY <1>0, FilesAreNodes DEF AnswerInv, CopyInv, Typed
<1>w. (FailsNow \/ AbortNow) /\ opt.op = "move" => ~Calm'
  BY <1>0, CalmBefore
<1>r. ASSUME NEW s, Returns(s)
      PROVE  ~Answered' /\ Todo(Cur) \cap Pending' = {}
  <2>1. stack' # <<>> => Cur'.at \in Waits
    <3>1. stack' # <<>> => Depth >= 2
      <4>1. Depth \in Nat /\ Depth >= 1 /\ (stack' = <<>> <=> Depth = 1)
        BY <1>0, <1>r, TopType DEF Returns
      <4> QED  BY <4>1
    <3> QED  BY <1>0, <1>r, <3>1, CallerReturns, CallerIs DEF Calls
  <2>2. ~Answered'
    BY <2>1 DEF Answered, Waits, InList
  <2> QED  BY <1>0, <1>r, <1>t, <2>2, TodoReturns
<1>f. FailsNow \/ AbortNow => \E s : Returns(s)
  BY FailsReturns
<1>n. Cur.at \in {"copy_file", "link", "open", "fill", "short", "move_file", "rename"} =>
        Cur.n \in Todo(Cur)
  BY <1>0, TodoCases, SubIs DEF Todo
<1>q. ASSUME UNCHANGED <<said, append>>, \E s : Returns(s), ~Answered PROVE AnswerInv'
  BY <1>q, <1>r, QuietStep
<1>g. ASSUME UNCHANGED <<said, append>>, NEW l, NEW q, NEW r, Goes(l, q, r), ~Answered,
             l \notin {"copy_file", "link", "open", "fill", "short", "rename"}
      PROVE  AnswerInv'
  <2>1. ~Answered'
    BY <1>g DEF Answered, Goes, Made
  <2> QED  BY <1>g, <2>1, QuietStep
<1>c. ASSUME UNCHANGED <<said, append>>, NEW l, NEW f, NEW n, Enters(l, f, n, TRUE), ~Answered,
             f \notin {"link", "open", "fill", "short", "rename"}
      PROVE  AnswerInv'
  <2>1. ~Answered'
    BY <1>c DEF Answered, Enters, Made
  <2> QED  BY <1>c, <2>1, QuietStep
<1>u. Unasked => UNCHANGED <<said, append>>
  BY DEF Unasked, answers
<1>p. Cur.at \notin {"erase_dir", "recursive_erase", "erase_entry", "erased_entry"}
  BY <1>0, Places DEF EraseDirFns
<1>1. CASE Operate
  <2>1. UNCHANGED <<said, append>> /\ ~Answered
    BY <1>1, <1>0, <1>u, OperateIs DEF Answered
  <2>2. opt.op \in {"copy", "move", "delete"}
    BY <1>0, Places
  <2>3. PICK f, n : /\ Enters("operated", f, n, TRUE)
                    /\ f \in {"erase_dir", "erase_file", "copy_dir", "copy_file", "move_dir",
                              "move_file"}
    BY <1>1, <1>0, <2>2, OperateIs
  <2> QED  BY <1>c, <2>1, <2>3
<1>2. CASE Operated
  <2>1. Cur.at = "operated" /\ UNCHANGED <<said, append>> /\ ~Answered
    BY <1>2, <1>0, <1>u, OperatedIs DEF Answered
  <2> QED  BY <1>2, <1>0, <1>c, <1>f, <1>g, <1>q, <2>1, OperatedIs
<1>3. CASE Finish
  <2>1. Cur.at = "operate" /\ UNCHANGED <<said, append>> /\ ~Answered
    BY <1>3, <1>0, <1>u, FinishIs DEF Answered
  <2> QED  BY <1>3, <1>0, <1>c, <1>f, <1>g, <1>q, <2>1, FinishIs
<1>4. CASE CopyFile
  <2>1. PICK m \in Files : m = Cur.n
    BY <1>4, <1>0, CopyFileIs
  <2>2. /\ Cur.at = "copy_file" /\ m \in Pending /\ m \in Nodes /\ m \in Todo(Cur)
        /\ m \in opt.there => Obeyed(m) /\ InTurn(m)
    BY <1>4, <1>0, <1>n, <1>t, <2>1, CopyFileIs
  <2>3. CASE Replaces("link") /\ ~Answered
    <3>1. CASE UNCHANGED <<said, append>> /\ \E s : Returns(s)
      BY <1>q, <2>3, <3>1
    <3>2. CASE \E a \in {"append", "replace"} :
                 /\ Goes("link", Cur.rest, Cur.rs) /\ said' = [said EXCEPT ![m] = a]
                 /\ append' = (append \/ a = "append")
      <4>1. PICK a \in {"append", "replace"} :
                 /\ Goes("link", Cur.rest, Cur.rs) /\ said' = [said EXCEPT ![m] = a]
                 /\ append' = (append \/ a = "append")
        BY <3>2
      <4>2. /\ Answered' /\ ~Opened' /\ Cur'.n = m /\ Cur'.at = "link"
        BY <2>1, <4>1 DEF Answered, Opened, Goes, Made
      <4>3. /\ said'[m] = a /\ \A n \in Nodes : said'[n] = said[n] \/ (n = m /\ said'[n] # "keep")
        BY <1>t, <2>2, <4>1
      <4>4. UNCHANGED <<tgt, data>>
        BY <2>3 DEF Replaces, disk
      <4>5. FlagMeant'
        BY <1>0, <1>t, <2>3, <4>1, <4>2, <4>3 DEF FlagMeant
      <4>6. m \in opt.there => Obeyed(m)' /\ InTurn(m)'
        <5> SUFFICES ASSUME m \in opt.there PROVE Obeyed(m)' /\ InTurn(m)'
          OBVIOUS
        <5>1. tgt[m] = OwnFile(m) /\ data[m] = <<<<"old", m>>>>
          BY <2>2, <2>3 DEF Obeyed, InTurn
        <5>2. StartsOld(m)'
          BY <4>4, <5>1 DEF StartsOld
        <5>3. Obeyed(m)'
          BY <4>3, <4>4, <5>1, <5>2 DEF Obeyed
        <5>4. InTurn(m)'
          BY <4>1, <4>2, <4>3, <4>4, <5>1 DEF InTurn
        <5> QED  BY <5>3, <5>4
      <4> QED  BY <2>1, <4>2, <4>3, <4>5, <4>6, FileStep
    <3> QED  BY <2>1, <2>3, <3>1, <3>2 DEF Replaces
  <2>4. CASE FailsNow /\ UNCHANGED <<tgt, data, said, append>>
    <3>1. CASE ~Answered
      BY <1>f, <1>q, <2>4, <3>1
    <3>2. CASE Answered
      <4>1. opt.op = "move"
        BY <1>0, <1>t, <2>2, <3>2 DEF Answered, UnaskedMoves
      <4>2. ~Calm' /\ ~Answered' /\ m \notin Pending'
        BY <1>f, <1>r, <1>w, <2>2, <2>4, <4>1
      <4>3. FlagMeant'
        BY <4>2 DEF FlagMeant
      <4>4. m \in opt.there => Obeyed(m)' /\ InTurn(m)'
        BY <2>2, <2>4, <4>2 DEF Obeyed, InTurn, StartsOld
      <4> QED  BY <2>1, <2>4, <4>2, <4>3, <4>4, FileStep
    <3> QED  BY <3>1, <3>2
  <2>5. CASE /\ tgt[m] = Nothing \/ ~Cur.ask
             /\ Goes("link", Cur.rest, Cur.rs) /\ UNCHANGED <<tgt, data, said, append, trouble>>
    <3>1. Answered' /\ ~Opened' /\ Cur'.n = m /\ Cur'.at = "link" /\ ~Opened
      BY <2>1, <2>2, <2>5 DEF Answered, Opened, Goes, Made
    <3>2. FlagMeant'
      BY <1>0, <1>t, <2>1, <2>5, <3>1 DEF FlagMeant
    <3>3. ~Cur.ask => Answered
      BY <1>0, <2>2 DEF Answered
    <3>4. m \in opt.there => Obeyed(m)' /\ InTurn(m)'
      <4> SUFFICES ASSUME m \in opt.there PROVE Obeyed(m)' /\ InTurn(m)'
        OBVIOUS
      <4>1. Answered
        BY <2>2, <2>5, <3>3, OwnFileIs DEF InTurn
      <4>2. Obeyed(m)'
        BY <1>0, <2>2, <2>5 DEF Obeyed, NoOld, StartsOld
      <4>3. InTurn(m)'
        BY <2>1, <2>2, <2>5, <3>1, <4>1 DEF InTurn
      <4> QED  BY <4>2, <4>3
    <3> QED  BY <2>1, <2>5, <3>1, <3>2, <3>4, FileStep
  <2>6. Cur.ask => ~Answered
    BY <2>2 DEF Answered
  <2> QED  BY <1>4, <1>0, <1>u, <2>1, <2>3, <2>4, <2>5, <2>6, CopyFileIs DEF disk
<1>5. CASE Link
  <2>1. PICK m \in Files : m = Cur.n
    BY <1>5, <1>0, LinkIs
  <2>2. /\ Cur.at = "link" /\ m \in Pending /\ m \in Nodes /\ m \in Todo(Cur)
        /\ m \in opt.there => Obeyed(m) /\ InTurn(m)
    BY <1>5, <1>0, <1>n, <1>t, <2>1, LinkIs
  <2>3. Answered /\ (Cur.at \in {"link", "open", "rename"} => ~Opened)
    BY <1>0, <2>2 DEF Answered, Opened
  <2>4. m \in opt.there =>
          /\ tgt[m] = OwnFile(m) /\ said[m] \in {"append", "replace"}
          /\ said[m] = "append" => append \/ Opened
          /\ said[m] = "replace" /\ Calm /\ Cur.at = "fill" => NoOld(m)
    BY <2>1, <2>2, <2>3 DEF InTurn
  <2>5. UNCHANGED <<data, said, append, trouble>>
    BY <1>5, <1>0, <1>u, LinkIs
  <2>6. CASE Goes("open", Cur.rest, Cur.rs) /\ UNCHANGED tgt
    <3>1. Answered' /\ ~Opened' /\ Cur'.n = m /\ Cur'.at = "open"
      BY <2>1, <2>6 DEF Answered, Opened, Goes, Made
    <3>2. FlagMeant'
      BY <1>0, <1>t, <2>1, <2>5, <3>1 DEF FlagMeant
    <3>3. m \in opt.there => Obeyed(m)'
      BY <1>0, <2>2, <2>5, <2>6 DEF Obeyed, NoOld, StartsOld
    <3>4. m \in opt.there => InTurn(m)'
      BY <2>2, <2>3, <2>4, <2>5, <2>6, <3>1 DEF InTurn
    <3> QED  BY <2>1, <2>5, <3>1, <3>2, <3>3, <3>4, FileStep
  <2>7. CASE ~append /\ Returns("cont") /\ tgt[m] = Nothing
    <3>1. ~Answered'
      BY <1>r, <2>7
    <3>2. FlagMeant'
      BY <2>5, <2>7 DEF FlagMeant
    <3>3. m \notin opt.there
      BY <2>4, <2>7, OwnFileIs
    <3> QED  BY <2>1, <2>5, <3>1, <3>2, <3>3, FileStep
  <2> QED  BY <1>5, <1>0, <2>1, <2>6, <2>7, LinkIs
<1>6. CASE Open
  <2>1. PICK m \in Files : m = Cur.n
    BY <1>6, <1>0, OpenIs
  <2>2. /\ Cur.at = "open" /\ m \in Pending /\ m \in Nodes /\ m \in Todo(Cur)
        /\ m \in opt.there => Obeyed(m) /\ InTurn(m)
    BY <1>6, <1>0, <1>n, <1>t, <2>1, OpenIs
  <2>3. Answered /\ (Cur.at \in {"link", "open", "rename"} => ~Opened)
    BY <1>0, <2>2 DEF Answered, Opened
  <2>4. m \in opt.there =>
          /\ tgt[m] = OwnFile(m) /\ said[m] \in {"append", "replace"}
          /\ said[m] = "append" => append \/ Opened
          /\ said[m] = "replace" /\ Calm /\ Cur.at = "fill" => NoOld(m)
    BY <2>1, <2>2, <2>3 DEF InTurn
  <2>5. UNCHANGED said /\ append' = FALSE
    BY <1>6, <1>0, OpenIs DEF answers
  <2>6. FlagMeant'
    BY <2>5 DEF FlagMeant
  <2>7. CASE FailsNow /\ UNCHANGED <<tgt, data>>
    <3>1. ~Answered' /\ m \notin Pending'
      BY <1>f, <1>r, <2>2, <2>7
    <3>2. m \in opt.there => Obeyed(m)' /\ InTurn(m)'
      BY <1>0, <2>2, <2>5, <2>7, <3>1 DEF Obeyed, InTurn, NoOld, StartsOld
    <3> QED  BY <2>1, <2>5, <2>6, <3>1, <3>2, FileStep
  <2>8. CASE /\ Goes("fill", Cur.rest, Cur.rs) /\ UNCHANGED trouble
             /\ LET t == IF tgt[Cur.n] = Nothing THEN OwnFile(Cur.n) ELSE tgt[Cur.n]
                IN /\ tgt' = [tgt EXCEPT ![Cur.n] = t]
                   /\ data' = IF append /\ tgt[Cur.n] # Nothing THEN data
                              ELSE [data EXCEPT ![t.file] = <<>>]
    <3>1. Answered' /\ Opened' /\ Cur'.n = m /\ Cur'.at = "fill"
      BY <2>1, <2>8 DEF Answered, Opened, Goes, Made
    <3>2. m \in opt.there => Obeyed(m)' /\ InTurn(m)'
      <4> SUFFICES ASSUME m \in opt.there PROVE Obeyed(m)' /\ InTurn(m)'
        OBVIOUS
      <4>1. tgt'[m] = OwnFile(m) /\ data'[m] = IF append THEN data[m] ELSE <<>>
        BY <1>t, <2>1, <2>2, <2>4, <2>8, OwnFileIs
      <4>2. said[m] = "append" => append /\ StartsOld(m)
        BY <2>2, <2>3, <2>4, OwnFileIs DEF Obeyed
      <4>3. said[m] = "replace" /\ Calm => ~append
        BY <1>t, <2>1 DEF FlagMeant
      <4>4. said'[m] = "append" => StartsOld(m)'
        BY <2>5, <4>1, <4>2 DEF StartsOld
      <4>5. said'[m] = "replace" /\ Calm' => NoOld(m)'
        BY <1>0, <2>5, <4>1, <4>3 DEF NoOld
      <4>6. Obeyed(m)'
        BY <2>4, <2>5, <4>1, <4>4, <4>5 DEF Obeyed
      <4>7. InTurn(m)'
        BY <2>4, <2>5, <3>1, <4>1, <4>5 DEF InTurn
      <4> QED  BY <4>6, <4>7
    <3> QED  BY <2>1, <2>5, <2>6, <3>1, <3>2, FileStep
  <2> QED  BY <1>6, <1>0, <2>7, <2>8, OpenIs
<1>7. CASE Fill
  <2>1. PICK m \in Files : m = Cur.n
    BY <1>7, <1>0, FillIs
  <2>2. /\ Cur.at = "fill" /\ m \in Pending /\ m \in Nodes /\ m \in Todo(Cur)
        /\ m \in opt.there => Obeyed(m) /\ InTurn(m)
    BY <1>7, <1>0, <1>n, <1>t, <2>1, FillIs
  <2>3. Answered /\ (Cur.at \in {"link", "open", "rename"} => ~Opened)
    BY <1>0, <2>2 DEF Answered, Opened
  <2>4. m \in opt.there =>
          /\ tgt[m] = OwnFile(m) /\ said[m] \in {"append", "replace"}
          /\ said[m] = "append" => append \/ Opened
          /\ said[m] = "replace" /\ Calm /\ Cur.at = "fill" => NoOld(m)
    BY <2>1, <2>2, <2>3 DEF InTurn
  <2>5. UNCHANGED <<tgt, said, append>> /\ Opened
    BY <1>7, <1>0, <1>u, <2>2, FillIs DEF Opened
  <2>6. FlagMeant'
    BY <1>0, <1>t, <2>5 DEF FlagMeant
  <2>7. PICK p \in Seq(Piece) : Written(m, p) /\ \A j \in DOMAIN p : p[j] # <<"old", m>>
    <3>1. \E p \in {<<<<"whole", Inode(m)>>>>, <<>>, <<<<"part", Inode(m)>>>>} : Written(m, p)
      BY <1>7, <1>0, <2>1, FillIs
    <3>2. \A p \in {<<<<"whole", Inode(m)>>>>, <<>>, <<<<"part", Inode(m)>>>>} :
            p \in Seq(Piece) /\ \A j \in DOMAIN p : p[j] # <<"old", m>>
      <4> DEFINE e == <<"old", m>>
      <4>1. <<"whole", Inode(m)>> # e /\ <<"part", Inode(m)>> # e
        OBVIOUS
      <4> HIDE DEF e
      <4>2. \A x : x # e => \A j \in DOMAIN <<x>> : <<x>>[j] # e
        OBVIOUS
      <4>3. \A j \in DOMAIN <<>> : <<>>[j] # e
        OBVIOUS
      <4> QED  BY <1>0, <4>1, <4>2, <4>3, PiecesAre DEF e
    <3> QED  BY <3>1, <3>2
  <2>8. m \in opt.there => Obeyed(m)'
    <3> SUFFICES ASSUME m \in opt.there PROVE Obeyed(m)'
      OBVIOUS
    <3>1. data'[m] = data[m] \o p /\ data[m] \in Seq(Piece)
      BY <1>t, <2>4, <2>7, OwnFileIs DEF Written
    <3>2. said[m] = "append" => StartsOld(m)
      BY <2>2, <2>4, OwnFileIs DEF Obeyed
    <3>3. said[m] = "replace" /\ Calm => NoOld(m)
      BY <2>2, <2>4
    <3>4. StartsOld(m) => StartsOld(m)'
      BY <3>1, Concat DEF StartsOld
    <3>5. NoOld(m) => NoOld(m)'
      BY <2>7, <3>1, Concat DEF NoOld
    <3> QED  BY <1>0, <2>4, <2>5, <3>2, <3>3, <3>4, <3>5 DEF Obeyed
  <2>9. CASE \E s : Returns(s)
    <3>1. ~Answered' /\ m \notin Pending'
      BY <1>r, <2>2, <2>9
    <3>2. m \in opt.there => InTurn(m)'
      BY <3>1 DEF InTurn
    <3> QED  BY <2>1, <2>5, <2>6, <2>8, <3>1, <3>2, FileStep
  <2>10. CASE \E s : Goes("short", Cur.rest, s)
    <3>1. Answered' /\ Opened' /\ Cur'.n = m /\ Cur'.at = "short"
      BY <2>1, <2>10 DEF Answered, Opened, Goes, Made
    <3>2. m \in opt.there => InTurn(m)'
      BY <2>4, <2>5, <3>1 DEF InTurn
    <3> QED  BY <2>1, <2>5, <2>6, <2>8, <3>1, <3>2, FileStep
  <2> QED  BY <1>7, <1>0, <1>f, <2>9, <2>10, FillIs
<1>8. CASE Short
  <2>1. PICK m \in Files : m = Cur.n
    BY <1>8, <1>0, ShortIs
  <2>2. /\ Cur.at = "short" /\ m \in Pending /\ m \in Nodes /\ m \in Todo(Cur)
        /\ m \in opt.there => Obeyed(m) /\ InTurn(m)
    BY <1>8, <1>0, <1>n, <1>t, <2>1, ShortIs
  <2>3. Answered /\ (Cur.at \in {"link", "open", "rename"} => ~Opened)
    BY <1>0, <2>2 DEF Answered, Opened
  <2>4. m \in opt.there =>
          /\ tgt[m] = OwnFile(m) /\ said[m] \in {"append", "replace"}
          /\ said[m] = "append" => append \/ Opened
          /\ said[m] = "replace" /\ Calm /\ Cur.at = "fill" => NoOld(m)
    BY <2>1, <2>2, <2>3 DEF InTurn
  <2>5. UNCHANGED <<data, said, append>> /\ Opened /\ tgt' \in {tgt, [tgt EXCEPT ![m] = Nothing]}
    BY <1>8, <1>0, <1>u, <2>1, <2>2, ShortIs DEF Opened
  <2>6. FlagMeant'
    BY <1>0, <1>t, <2>5 DEF FlagMeant
  <2>7. ~Answered' /\ m \notin Pending'
    BY <1>8, <1>0, <1>f, <1>r, <2>2, ShortIs
  <2>8. tgt'[m] \in {tgt[m], Nothing}
    BY <1>t, <2>2, <2>5
  <2>9. m \in opt.there => Obeyed(m)' /\ InTurn(m)'
    BY <1>0, <2>2, <2>4, <2>5, <2>7, <2>8 DEF Obeyed, InTurn, NoOld, StartsOld
  <2> QED  BY <2>1, <2>5, <2>6, <2>7, <2>9, FileStep
<1>9. CASE CopyDir
  <2>1. Cur.at = "copy_dir" /\ UNCHANGED <<said, append>> /\ ~Answered
    BY <1>9, <1>0, <1>u, CopyDirIs DEF Answered
  <2> QED  BY <1>9, <1>0, <1>c, <1>f, <1>g, <1>q, <2>1, CopyDirIs
<1>10. CASE Entry
  <2>1. UNCHANGED <<said, append>> /\ ~Answered
    BY <1>10, <1>0, <1>u, EntryIs DEF Answered
  <2>2. \/ \E s : Returns(s)
        \/ \E f \in {"copy_dir", "copy_file"} : \E n : Enters("copied_entry", f, n, TRUE)
    BY <1>10, <1>0, EntryIs
  <2> QED  BY <1>c, <1>q, <2>1, <2>2
<1>11. CASE CopiedEntry
  <2>1. Cur.at = "copied_entry" /\ UNCHANGED <<said, append>> /\ ~Answered
    BY <1>11, <1>0, <1>u, CopiedEntryIs DEF Answered
  <2> QED  BY <1>11, <1>0, <1>c, <1>f, <1>g, <1>q, <2>1, CopiedEntryIs
<1>12. CASE MoveFile
  <2>1. PICK m \in Files : m = Cur.n
    BY <1>12, <1>0, MoveFileIs
  <2>2. /\ Cur.at = "move_file" /\ m \in Pending /\ m \in Nodes /\ m \in Todo(Cur)
        /\ m \in opt.there => Obeyed(m) /\ InTurn(m)
    BY <1>12, <1>0, <1>n, <1>t, <2>1, MoveFileIs
  <2>3. CASE Replaces("rename") /\ ~Answered
    <3>1. CASE UNCHANGED <<said, append>> /\ \E s : Returns(s)
      BY <1>q, <2>3, <3>1
    <3>2. CASE \E a \in {"append", "replace"} :
                 /\ Goes("rename", Cur.rest, Cur.rs) /\ said' = [said EXCEPT ![m] = a]
                 /\ append' = (append \/ a = "append")
      <4>1. PICK a \in {"append", "replace"} :
                 /\ Goes("rename", Cur.rest, Cur.rs) /\ said' = [said EXCEPT ![m] = a]
                 /\ append' = (append \/ a = "append")
        BY <3>2
      <4>2. /\ Answered' /\ ~Opened' /\ Cur'.n = m /\ Cur'.at = "rename"
        BY <2>1, <4>1 DEF Answered, Opened, Goes, Made
      <4>3. /\ said'[m] = a /\ \A n \in Nodes : said'[n] = said[n] \/ (n = m /\ said'[n] # "keep")
        BY <1>t, <2>2, <4>1
      <4>4. UNCHANGED <<tgt, data>>
        BY <2>3 DEF Replaces, disk
      <4>5. FlagMeant'
        BY <1>0, <1>t, <2>3, <4>1, <4>2, <4>3 DEF FlagMeant
      <4>6. m \in opt.there => Obeyed(m)' /\ InTurn(m)'
        <5> SUFFICES ASSUME m \in opt.there PROVE Obeyed(m)' /\ InTurn(m)'
          OBVIOUS
        <5>1. tgt[m] = OwnFile(m) /\ data[m] = <<<<"old", m>>>>
          BY <2>2, <2>3 DEF Obeyed, InTurn
        <5>2. StartsOld(m)'
          BY <4>4, <5>1 DEF StartsOld
        <5>3. Obeyed(m)'
          BY <4>3, <4>4, <5>1, <5>2 DEF Obeyed
        <5>4. InTurn(m)'
          BY <4>1, <4>2, <4>3, <4>4, <5>1 DEF InTurn
        <5> QED  BY <5>3, <5>4
      <4> QED  BY <2>1, <4>2, <4>3, <4>5, <4>6, FileStep
    <3> QED  BY <2>1, <2>3, <3>1, <3>2 DEF Replaces
  <2>4. ~Answered
    BY <2>2 DEF Answered
  <2>5. CASE FailsNow /\ UNCHANGED <<said, append>>
    BY <1>f, <1>q, <2>4, <2>5
  <2>6. CASE /\ tgt[m] = Nothing
             /\ Goes("rename", Cur.rest, Cur.rs) /\ UNCHANGED <<tgt, data, said, append, trouble>>
    <3>1. Answered' /\ Cur'.n = m /\ Cur'.at = "rename"
      BY <2>1, <2>6 DEF Answered, Goes, Made
    <3>2. FlagMeant'
      BY <1>0, <1>t, <2>4, <2>6 DEF FlagMeant
    <3>3. m \notin opt.there
      BY <2>2, <2>6, OwnFileIs DEF InTurn
    <3> QED  BY <2>1, <2>6, <3>1, <3>2, <3>3, FileStep
  <2> QED  BY <1>12, <1>0, <1>u, <2>1, <2>3, <2>4, <2>5, <2>6, MoveFileIs DEF disk
<1>13. CASE Rename
  <2>1. PICK m \in Files : m = Cur.n
    BY <1>13, <1>0, RenameIs
  <2>2. /\ Cur.at = "rename" /\ m \in Pending /\ m \in Nodes /\ m \in Todo(Cur)
        /\ m \in opt.there => Obeyed(m) /\ InTurn(m)
    BY <1>13, <1>0, <1>n, <1>t, <2>1, RenameIs
  <2>3. Answered /\ (Cur.at \in {"link", "open", "rename"} => ~Opened)
    BY <1>0, <2>2 DEF Answered, Opened
  <2>4. m \in opt.there =>
          /\ tgt[m] = OwnFile(m) /\ said[m] \in {"append", "replace"}
          /\ said[m] = "append" => append \/ Opened
          /\ said[m] = "replace" /\ Calm /\ Cur.at = "fill" => NoOld(m)
    BY <2>1, <2>2, <2>3 DEF InTurn
  <2>5. UNCHANGED <<said, append>> /\ opt.op = "move"
    BY <1>13, <1>0, <1>u, <2>2, RenameIs, Places DEF MoveFns, MoveFileFns
  <2>6. CASE /\ ~append /\ tgt' = [tgt EXCEPT ![m] = OwnFile(m)]
             /\ data' = [data EXCEPT ![m] = <<<<"moved", Inode(m)>>>>] /\ \E s : Returns(s)
    <3>1. ~Answered' /\ m \notin Pending'
      BY <1>r, <2>2, <2>6
    <3>2. FlagMeant'
      BY <2>5, <2>6 DEF FlagMeant
    <3>3. tgt'[m] = OwnFile(m) /\ data'[m] = <<<<"moved", Inode(m)>>>>
      BY <1>t, <2>2, <2>6
    <3>4. NoOld(m)'
      BY <3>3 DEF NoOld
    <3>5. m \in opt.there => said'[m] = "replace"
      BY <2>2, <2>3, <2>4, <2>5, <2>6
    <3>6. m \in opt.there => Obeyed(m)' /\ InTurn(m)'
      BY <3>1, <3>3, <3>4, <3>5 DEF Obeyed, InTurn
    <3> QED  BY <2>1, <2>5, <3>1, <3>2, <3>6, FileStep
  <2>7. CASE Enters("copied", "copy_file", m, FALSE) /\ UNCHANGED <<tgt, data>>
    <3>1. Answered' /\ ~Opened' /\ Cur'.n = m /\ Cur'.at = "copy_file"
      BY <2>7 DEF Answered, Opened, Enters, Made
    <3>2. FlagMeant'
      BY <1>0, <1>t, <2>1, <2>5, <3>1 DEF FlagMeant
    <3>3. m \in opt.there => Obeyed(m)'
      BY <1>0, <2>2, <2>5, <2>7 DEF Obeyed, NoOld, StartsOld
    <3>4. m \in opt.there => InTurn(m)'
      BY <2>2, <2>3, <2>4, <2>5, <2>7, <3>1 DEF InTurn
    <3> QED  BY <2>1, <2>5, <3>1, <3>2, <3>3, <3>4, FileStep
  <2> QED  BY <1>13, <1>0, <1>f, <2>1, <2>6, <2>7, RenameIs DEF disk
<1>14. CASE Copied
  <2>1. Cur.at = "copied" /\ UNCHANGED <<said, append>> /\ ~Answered
    BY <1>14, <1>0, <1>u, CopiedIs DEF Answered
  <2> QED  BY <1>14, <1>0, <1>c, <1>f, <1>g, <1>q, <2>1, CopiedIs
<1>15. CASE Remove
  <2>1. Cur.at = "remove" /\ UNCHANGED <<said, append>> /\ ~Answered
    BY <1>15, <1>0, <1>u, RemoveIs DEF Answered
  <2> QED  BY <1>15, <1>0, <1>c, <1>f, <1>g, <1>q, <2>1, RemoveIs
<1>16. CASE MoveDir
  <2>1. Cur.at = "move_dir" /\ UNCHANGED <<said, append>> /\ ~Answered
    BY <1>16, <1>0, <1>u, MoveDirIs DEF Answered
  <2> QED  BY <1>16, <1>0, <1>c, <1>f, <1>g, <1>q, <2>1, MoveDirIs
<1>17. CASE DirCopied
  <2>1. Cur.at = "dir_copied" /\ UNCHANGED <<said, append>> /\ ~Answered
    BY <1>17, <1>0, <1>u, DirCopiedIs DEF Answered
  <2> QED  BY <1>17, <1>0, <1>c, <1>f, <1>g, <1>q, <2>1, DirCopiedIs
<1>18. CASE Erasing
  <2>1. UNCHANGED <<said, append>> /\ ~Answered
    BY <1>18, <1>0, <1>u, ErasingIs DEF Answered
  <2>2. PICK l, f, n : Enters(l, f, n, TRUE) /\ f \in {"erase_if_empty", "erase_file"}
    BY <1>18, <1>0, ErasingIs
  <2> QED  BY <1>c, <2>1, <2>2
<1>19. CASE Erased
  <2>1. Cur.at = "erased" /\ UNCHANGED <<said, append>> /\ ~Answered
    BY <1>19, <1>0, <1>u, ErasedIs DEF Answered
  <2> QED  BY <1>19, <1>0, <1>c, <1>f, <1>g, <1>q, <2>1, ErasedIs
<1>20. CASE Moved
  <2>1. Cur.at = "moved" /\ UNCHANGED <<said, append>> /\ ~Answered
    BY <1>20, <1>0, <1>u, MovedIs DEF Answered
  <2> QED  BY <1>20, <1>0, <1>c, <1>f, <1>g, <1>q, <2>1, MovedIs
<1>21. CASE EraseFile
  <2>1. Cur.at = "erase_file" /\ UNCHANGED <<said, append>> /\ ~Answered
    BY <1>21, <1>0, <1>u, EraseFileIs DEF Answered
  <2> QED  BY <1>21, <1>0, <1>c, <1>f, <1>g, <1>q, <2>1, EraseFileIs
<1>22. CASE EraseIfEmpty
  <2>1. Cur.at = "erase_if_empty" /\ UNCHANGED <<said, append>> /\ ~Answered
    BY <1>22, <1>0, <1>u, EraseIfEmptyIs DEF Answered
  <2> QED  BY <1>22, <1>0, <1>c, <1>f, <1>g, <1>q, <2>1, EraseIfEmptyIs
<1>23. CASE EraseDir
  BY <1>23, <1>0, <1>p, EraseDirIs
<1>24. CASE RecursiveErase
  BY <1>24, <1>0, <1>p, RecursiveEraseIs
<1>25. CASE EraseEntry
  BY <1>25, <1>0, <1>p, EraseEntryIs
<1>26. CASE ErasedEntry
  BY <1>26, <1>0, <1>p, ErasedEntryIs
<1> QED
  BY <1>1, <1>2, <1>3, <1>4, <1>5, <1>6, <1>7, <1>8, <1>9, <1>10, <1>11, <1>12, <1>13,
     <1>14, <1>15, <1>16, <1>17, <1>18, <1>19, <1>20, <1>21, <1>22, <1>23, <1>24, <1>25,
     <1>26 DEF Next

\* Nothing has been answered in the beginning.
LEMMA InitAnswer == Init => AnswerInv /\ KeepInv
<1> SUFFICES ASSUME Init PROVE AnswerInv /\ KeepInv
  OBVIOUS
<1>1. /\ Cur.at = "operate" /\ Depth = 1 /\ Rest = opt.tops /\ stack # <<>> /\ opt.tops \in Seq(Nodes)
      /\ opt.tops # <<>>
  BY InitTop DEF Rest, Made
<1>2. /\ \A n \in Nodes : said[n] = "nothing" 
      /\ \A n \in opt.there \cap Files : tgt[n] = OwnFile(n) /\ data[n] = <<<<"old", n>>>>
      /\ \A d \in opt.there \cap Dirs : tgt[d] = Directory
      /\ Files \subseteq Nodes /\ append = FALSE /\ src = Nodes
  BY FilesAreNodes, Assumed DEF Init
<1>3. ~Answered
  BY <1>1 DEF Answered
<1>4. AnswerInv
  <2>1. \A n \in opt.there \cap Files : Obeyed(n) /\ InTurn(n)
    BY <1>2, <1>3 DEF Obeyed, InTurn
  <2>2. DirsThere
    BY <1>2 DEF DirsThere, Directory, Nothing
  <2> QED  BY <1>1, <1>2, <2>1, <2>2 DEF AnswerInv, FlagMeant, UnaskedMoves, NoneKept
<1>5. KeepInv
  <2>1. Inside
    BY <1>1 DEF Inside
  <2>2. Left \subseteq src
    <3>1. Left = Under(opt.tops)
      BY <1>1 DEF Left
    <3>2. \A i \in DOMAIN opt.tops : opt.tops[i] \in Nodes
      BY <1>1
    <3> QED  BY <1>2, <3>1, <3>2, SubIs DEF Under
  <2>3. LeftThere
    BY <1>1, <2>2 DEF LeftThere
  <2>4. WhollyKept
    BY <1>2, Assumed DEF WhollyKept
  <2>5. FilesNotAsked
    BY <1>2 DEF FilesNotAsked
  <2> QED  BY <2>1, <2>3, <2>4, <2>5 DEF KeepInv
<1> QED  BY <1>4, <1>5

\* A stuttering step keeps both invariants.
LEMMA AnswerStutter ==
  ASSUME UNCHANGED vars
  PROVE  (AnswerInv => AnswerInv') /\ (KeepInv => KeepInv')
<1>1. /\ opt' = opt /\ src' = src /\ tgt' = tgt /\ data' = data /\ stack' = stack /\ append' = append
      /\ said' = said /\ trouble' = trouble
  BY DEF vars
<1>2. Cur' = Cur /\ Depth' = Depth /\ Pending' = Pending /\ Rest' = Rest /\ Left' = Left
  BY <1>1 DEF Cur, Depth, Pending, Level, Rest, Left
<1>3. AnswerInv => AnswerInv'
  <2>1. Calm' = Calm /\ Answered' = Answered /\ Opened' = Opened
    BY <1>1, <1>2 DEF Calm, Answered, Opened
  <2> QED
    BY <1>1, <1>2, <2>1 DEF AnswerInv, Obeyed, InTurn, NoOld, StartsOld, FlagMeant,
       UnaskedMoves,
       DirsThere, NoneKept
<1>4. KeepInv => KeepInv'
  BY <1>1, <1>2 DEF KeepInv, Inside, LeftThere, WhollyKept, FilesNotAsked, Level
<1> QED  BY <1>3, <1>4

\* KeepInv or AnswerInv, by the operation.
SaidInv == IF opt.op = "delete" THEN KeepInv ELSE AnswerInv

\* These imply AnswerObeyed.
LEMMA SaidObeyed == SaidInv => AnswerObeyed
<1> SUFFICES ASSUME SaidInv PROVE AnswerObeyed
  OBVIOUS
<1>0. Dirs \subseteq Nodes
  BY Assumed
<1>1. ASSUME NEW n \in opt.there \cap Files
      PROVE  LET old == <<"old", n>>
                 c == Content(n)
             IN /\ said[n] = "nothing" => c = <<old>>
                /\ said[n] = "append" => c = <<>> \/ Head(c) = old
                /\ said[n] = "replace" /\ (opt.op = "move" => trouble = 0) =>
                     c = <<old>> \/ \A j \in DOMAIN c : c[j] # old
  <2>1. /\ tgt[n] = OwnFile(n) => Content(n) = data[n]
        /\ tgt[n] = Nothing => Content(n) = <<>>
    BY OwnFileIs DEF Content
  <2>2. CASE opt.op = "delete"
    <3>1. said[n] = "nothing" /\ tgt[n] = OwnFile(n) /\ data[n] = <<<<"old", n>>>>
      BY <2>2 DEF SaidInv, KeepInv, FilesNotAsked
    <3> QED  BY <2>1, <3>1
  <2>3. CASE opt.op # "delete"
    <3>1. Obeyed(n)
      BY <2>3 DEF SaidInv, AnswerInv
    <3>2. CASE tgt[n] = OwnFile(n)
      BY <2>1, <3>1, <3>2 DEF Obeyed, StartsOld, NoOld, Calm
    <3>3. CASE tgt[n] = Nothing
      <4>1. said[n] # "nothing"
        BY <3>1, <3>3, OwnFileIs DEF Obeyed
      <4>2. DOMAIN <<>> = {}
        OBVIOUS
      <4> QED  BY <2>1, <3>3, <4>1, <4>2
    <3> QED  BY <3>1, <3>2, <3>3 DEF Obeyed
  <2> QED  BY <2>2, <2>3
<1>2. ASSUME NEW d \in Dirs, said[d] = "keep" PROVE Sub[d] \subseteq src
  BY <1>0, <1>2 DEF SaidInv, KeepInv, WhollyKept, AnswerInv, NoneKept
<1> QED  BY <1>1, <1>2 DEF AnswerObeyed

\* What the user answers happens, whatever the tree and whatever fails: targets stay, are
\* appended to or replaced as the user wants, and directories to be kept are complete.
THEOREM AnswersObeyed == Spec => []AnswerObeyed
<1>1. Init => CopyInv /\ SaidInv
  BY InitTyped, InitTodo, InitCarry, InitAnswer DEF CopyInv, Core, SaidInv
<1>2. CopyInv /\ SaidInv /\ [Next]_vars => CopyInv' /\ SaidInv'
  <2> SUFFICES ASSUME CopyInv, SaidInv, [Next]_vars PROVE CopyInv' /\ SaidInv'
    OBVIOUS
  <2>1. CASE Next
    <3>1. opt' = opt /\ Core
      BY <2>1, NextCore DEF CopyInv, Core
    <3> QED  BY <2>1, <3>1, NextCopy, NextKeep, NextAnswer DEF SaidInv
  <2>2. CASE UNCHANGED vars
    <3>1. opt' = opt
      BY <2>2 DEF vars
    <3> QED  BY <2>2, <3>1, CopyStutter, AnswerStutter DEF SaidInv
  <2> QED  BY <2>1, <2>2
<1> QED  BY <1>1, <1>2, SaidObeyed, PTL DEF Spec

==============================================================================
