---------------------------- MODULE EditBufferProofs ----------------------------
(***************************************************************************)
(* What is true of the text of the editor and of the ring its changes are  *)
(* undone from, for every text, every size of a block and of the ring, and *)
(* every number of remembered lines.                                       *)
(*                                                                         *)
(*   TypeCorrect       the blocks there are are those the cursor needs     *)
(*   LinesAreTrue      every number of a line the editor keeps is the one  *)
(*                     a count from the first byte finds                   *)
(*   MarksAreFound     bookmarks stay in order and every one is found      *)
(*   TextImplemented   the blocks on the two sides of the cursor hold a    *)
(*                     text, and each routine changes it as it says        *)
(*   PushWellFormed, PopWellFormed, LastInFirstOut                         *)
(*                     the same ring after any push or pop                 *)
(*                                                                         *)
(* The invariant is IInv: the editor tells the truth of its text (True).   *)
(* Each routine is shown first to change the bytes as it should (a byte    *)
(* put down, taken away, moved to the other side of the cursor), then what *)
(* is counted, remembered and marked is compared with the bytes after it.  *)
(* What is computed one byte or one line at a time is a recursive function *)
(* of numbers: it is known from the least number at which it would fail.   *)
(* No statement is about the highlighting beyond its type.                 *)
(***************************************************************************)
EXTENDS EditText, UndoRing, NaturalsInduction, WellFoundedInduction,
        FiniteSetTheorems, SequenceTheorems, TLAPS

(***************************************************************************)
(* Induction, without operators as parameters                              *)
(***************************************************************************)

\* A nonempty set of numbers has a least one.
LEMMA LeastNat ==
  ASSUME NEW S \in SUBSET Nat, S # {}
  PROVE  \E m \in S : \A x \in S : m <= x
<1> DEFINE R == OpToRel(<, Nat)
<1>1. IsWellFoundedOn(R, Nat)
  BY NatLessThanWellFounded
<1>2. R = {p \in Nat \X Nat : p[1] < p[2]}
  BY DEF OpToRel
<1> HIDE DEF R
<1>3. \E m \in S : \A x \in S : <<x, m>> \notin R
  BY <1>1, WFMin, Zenon
<1>4. PICK m \in S : \A x \in S : <<x, m>> \notin R
  BY <1>3
<1>5. ASSUME NEW x \in S PROVE m <= x
  <2>1. <<x, m>> \in Nat \X Nat /\ <<x, m>> \notin R
    BY <1>4
  <2>2. ~ (x < m)
    BY <2>1, <1>2
  <2> QED BY <2>2
<1> QED BY <1>5

\* What holds of 0 and of every successor holds of every number.
LEMMA Induct ==
  ASSUME NEW S, 0 \in S, \A n \in Nat : n \in S => n + 1 \in S
  PROVE  Nat \subseteq S
<1>1. SUFFICES ASSUME Nat \ S # {} PROVE FALSE
  OBVIOUS
<1>2. PICK m \in Nat \ S : \A x \in Nat \ S : m <= x
  <2>1. (Nat \ S) \in SUBSET Nat
    OBVIOUS
  <2> QED BY <1>1, <2>1, LeastNat
<1>3. m # 0 BY <1>2
<1>4. m - 1 \in Nat /\ m - 1 \in S BY <1>2, <1>3
<1> QED BY <1>2, <1>4

\* What holds of 0 and goes from each number to the next holds up to n.
LEMMA Along ==
  ASSUME NEW n \in Nat, NEW T, 0 \in T, \A k \in 1 .. n : k - 1 \in T => k \in T
  PROVE  \A k \in 0 .. n : k \in T
<1> DEFINE W == {k \in Nat : k <= n => k \in T}
<1>1. 0 \in W
  OBVIOUS
<1>2. ASSUME NEW k \in Nat, k \in W PROVE k + 1 \in W
  <2>1. SUFFICES ASSUME k + 1 <= n PROVE k + 1 \in T
    OBVIOUS
  <2>2. k \in T /\ k + 1 \in 1 .. n /\ (k + 1) - 1 = k
    BY <1>2, <2>1
  <2> DEFINE m == k + 1
  <2>3. m \in 1 .. n /\ m - 1 \in T
    BY <2>2
  <2> HIDE DEF m
  <2>4. m \in T
    BY <2>3
  <2> QED BY <2>4 DEF m
<1>3. Nat \subseteq W
  <2> HIDE DEF W
  <2> QED BY <1>1, <1>2, Induct
<1> QED BY <1>3

\* A function given by its first value and by each from the one before.
IsSteps(F, n, S) == F \in [1 .. n -> [S -> S]]
IsRun(g, F, n, S, e) ==
  g \in [0 .. n -> S] /\ g[0] = e /\ \A k \in 1 .. n : g[k] = F[k][g[k - 1]]

LEMMA Run ==
  ASSUME NEW S, NEW e \in S, NEW n \in Nat, NEW F, IsSteps(F, n, S)
  PROVE  \E g : IsRun(g, F, n, S, e)
<1>0. F \in [1 .. n -> [S -> S]]
  BY DEF IsSteps
<1> DEFINE Is(g, m) == g \in [0 .. m -> S] /\ g[0] = e /\ \A k \in 1 .. m : g[k] = F[k][g[k - 1]]
<1> DEFINE H(m) == \E g : Is(g, m)
<1> DEFINE W == {m \in Nat : m <= n => H(m)}
<1>1. 0 \in W
  <2> DEFINE g == [k \in 0 .. 0 |-> e]
  <2>1. g \in [0 .. 0 -> S] /\ g[0] = e /\ \A k \in 1 .. 0 : g[k] = F[k][g[k - 1]]
    OBVIOUS
  <2> HIDE DEF g
  <2>2. H(0)
    BY <2>1
  <2> QED BY <2>2
<1>2. ASSUME NEW m \in Nat, m \in W PROVE m + 1 \in W
  <2>1. SUFFICES ASSUME m + 1 <= n PROVE H(m + 1)
    <3> HIDE DEF H
    <3> QED OBVIOUS
  <2>2. H(m)
    <3> HIDE DEF H
    <3> QED BY <1>2, <2>1
  <2>3. PICK g : Is(g, m)
    BY <2>2
  <2> DEFINE h == [k \in 0 .. m + 1 |-> IF k = m + 1 THEN F[m + 1][g[m]] ELSE g[k]]
  <2>4. F[m + 1] \in [S -> S] /\ g[m] \in S
    BY <1>0, <2>1, <2>3
  <2>5. h \in [0 .. m + 1 -> S]
    BY <2>3, <2>4
  <2>6. h[0] = e
    BY <2>3
  <2>7. ASSUME NEW k \in 1 .. m + 1 PROVE h[k] = F[k][h[k - 1]]
    <3>1. CASE k = m + 1
      <4>1. h[m + 1] = F[m + 1][g[m]] /\ h[m] = g[m]
        OBVIOUS
      <4> QED BY <4>1, <3>1
    <3>2. CASE k \in 1 .. m
      <4>1. h[k] = g[k] /\ h[k - 1] = g[k - 1]
        BY <3>2
      <4> QED BY <4>1, <3>2, <2>3
    <3> QED BY <3>1, <3>2
  <2> HIDE DEF h
  <2> QED BY <2>5, <2>6, <2>7
<1>3. H(n)
  <2>1. n \in W
    <3> HIDE DEF W
    <3> QED BY <1>1, <1>2, Induct
  <2> HIDE DEF H
  <2> QED BY <2>1
<1> QED BY <1>3 DEF IsRun

(***************************************************************************)
(* Least and greatest numbers                                              *)
(***************************************************************************)

\* Least and Greatest are what their names say wherever there is one.
LEMMA LeastIs ==
  ASSUME NEW S \in SUBSET Int, NEW low \in Int, \A x \in S : x >= low, S # {}
  PROVE  Least(S) \in S /\ \A y \in S : Least(S) <= y
<1> DEFINE N == {x \in Nat : x + low \in S}
<1>1. N \in SUBSET Nat
  OBVIOUS
<1>2. N # {}
  <2> PICK x \in S : TRUE
    OBVIOUS
  <2>1. x - low \in N
    OBVIOUS
  <2> QED BY <2>1
<1>3. PICK m \in N : \A x \in N : m <= x
  <2> HIDE DEF N
  <2> QED BY <1>1, <1>2, LeastNat
<1>4. m + low \in S /\ \A y \in S : m + low <= y
  <2>1. ASSUME NEW y \in S PROVE m + low <= y
    <3>1. y - low \in N
      OBVIOUS
    <3>2. m <= y - low
      BY <3>1, <1>3
    <3> QED BY <3>2
  <2> QED BY <2>1
<1> QED BY <1>4 DEF Least

LEMMA GreatestIs ==
  ASSUME NEW S \in SUBSET Int, NEW high \in Int, \A x \in S : x <= high, S # {}
  PROVE  Greatest(S) \in S /\ \A y \in S : Greatest(S) >= y
<1> DEFINE N == {x \in Nat : high - x \in S}
<1>1. N \in SUBSET Nat
  OBVIOUS
<1>2. N # {}
  <2> PICK x \in S : TRUE
    OBVIOUS
  <2>1. high - x \in Nat /\ high - (high - x) = x
    OBVIOUS
  <2>2. high - x \in N
    BY <2>1
  <2> QED BY <2>2
<1>3. PICK m \in N : \A x \in N : m <= x
  <2> HIDE DEF N
  <2> QED BY <1>1, <1>2, LeastNat
<1>4. high - m \in S /\ \A y \in S : high - m >= y
  <2>1. ASSUME NEW y \in S PROVE high - m >= y
    <3>1. high - y \in Nat /\ high - (high - y) = y
      OBVIOUS
    <3>2. high - y \in N
      BY <3>1
    <3>3. m <= high - y
      BY <3>2, <1>3
    <3> QED BY <3>3
  <2> QED BY <2>1
<1> QED BY <1>4 DEF Greatest

(***************************************************************************)
(* Blocks: a number and the size of a block                                *)
(***************************************************************************)

LEMMA Times ==
  ASSUME NEW b \in Nat, NEW p \in Nat, NEW q \in Nat, p <= q
  PROVE  p * b <= q * b
OBVIOUS

\* The quotient and the remainder are what the division says.
LEMMA Divided ==
  ASSUME NEW b \in Nat \ {0}, NEW n \in Nat
  PROVE  /\ n \div b \in Nat /\ n % b \in Nat /\ n % b < b
         /\ n = (n \div b) * b + (n % b)
         /\ (n \div b) * b \in Nat
BY Z3

\* the block and the place in it are the only ones
LEMMA DividedOnce ==
  ASSUME NEW b \in Nat \ {0}, NEW q \in Nat, NEW r \in Nat, r < b, NEW n, n = q * b + r
  PROVE  n \div b = q /\ n % b = r
<1>1. n \in Nat
  OBVIOUS
<1>2. /\ n \div b \in Nat /\ n % b \in Nat /\ n % b < b
      /\ n = (n \div b) * b + (n % b)
      /\ (n \div b) * b \in Nat
  BY <1>1, Divided
<1> DEFINE d == n \div b
<1> DEFINE m == n % b
<1>3. d \in Nat /\ m \in Nat /\ m < b /\ d * b + m = q * b + r
  BY <1>2
<1> HIDE DEF d, m
<1>4. d = q
  <2>1. CASE d < q
    <3>1. (d + 1) * b <= q * b
      BY <2>1, <1>3, Times
    <3>2. (d + 1) * b = d * b + b
      BY <1>3
    <3>3. d * b \in Nat /\ q * b \in Nat
      BY <1>3
    <3> QED BY <3>1, <3>2, <3>3, <1>3
  <2>2. CASE d > q
    <3>1. (q + 1) * b <= d * b
      BY <2>2, <1>3, Times
    <3>2. (q + 1) * b = q * b + b
      BY <1>3
    <3>3. d * b \in Nat /\ q * b \in Nat
      BY <1>3
    <3> QED BY <3>1, <3>2, <3>3, <1>3
  <2> QED BY <2>1, <2>2, <1>3
<1>5. m = r
  <2>1. q * b \in Nat
    OBVIOUS
  <2> QED BY <1>3, <1>4, <2>1
<1> QED BY <1>4, <1>5 DEF d, m

(***************************************************************************)
(* Blocks                                                                  *)
(***************************************************************************)

BlockRow == [0 .. MAXBUFF -> Block \cup {NULL}]

\* the blocks there are, with room for the byte a move puts down before it takes one
Blocks(e) ==
  /\ e.curs1 \in 0 .. SIZE_LIMIT + 1 /\ e.curs2 \in 0 .. SIZE_LIMIT + 1
  /\ \A b \in 0 .. MAXBUFF :
       /\ (e.buffers1[b] # NULL) <=> (b * EDIT_BUF_SIZE < e.curs1)
       /\ (e.buffers2[b] # NULL) <=> (b * EDIT_BUF_SIZE <= e.curs2)

\* The constants as the proofs need them; SIZE_LIMIT is the last place of the
\* last block.
LEMMA Sizes ==
  /\ EDIT_BUF_SIZE \in Nat \ {0, 1} /\ MAXBUFF \in Nat /\ MAXBUFF > 2
  /\ SIZE_LIMIT \in Nat
<1>1. EDIT_BUF_SIZE \in Nat \ {0, 1} /\ MAXBUFF \in Nat /\ MAXBUFF > 2
  BY TextAssumption
<1> QED BY <1>1 DEF SIZE_LIMIT

LEMMA NullIsNoBlock == ASSUME NEW b \in Block PROVE b # NULL
<1>1. DOMAIN b = 0 .. EDIT_BUF_SIZE - 1 /\ 0 \in DOMAIN b
  BY Sizes DEF Block
<1>2. DOMAIN NULL = {}
  BY DEF NULL
<1> QED BY <1>1, <1>2

\* the block a byte lies in, and its place there
LEMMA Where ==
  ASSUME NEW n \in 0 .. SIZE_LIMIT + 1
  PROVE  /\ n \div EDIT_BUF_SIZE \in 0 .. MAXBUFF
         /\ n % EDIT_BUF_SIZE \in 0 .. EDIT_BUF_SIZE - 1
         /\ n = (n \div EDIT_BUF_SIZE) * EDIT_BUF_SIZE + (n % EDIT_BUF_SIZE)
         /\ (n \div EDIT_BUF_SIZE) * EDIT_BUF_SIZE \in Nat
<1> DEFINE q == n \div EDIT_BUF_SIZE
<1>1. /\ q \in Nat /\ n % EDIT_BUF_SIZE \in Nat /\ n % EDIT_BUF_SIZE < EDIT_BUF_SIZE
      /\ n = q * EDIT_BUF_SIZE + (n % EDIT_BUF_SIZE)
      /\ q * EDIT_BUF_SIZE \in Nat
  BY Sizes, Divided
<1> HIDE DEF q
<1>2. q <= MAXBUFF
  <2>1. SUFFICES ASSUME q > MAXBUFF PROVE FALSE
    BY <1>1, Sizes
  <2>2. MAXBUFF * EDIT_BUF_SIZE <= q * EDIT_BUF_SIZE
    BY <2>1, <1>1, Sizes, Times
  <2>3. MAXBUFF * EDIT_BUF_SIZE = EDIT_BUF_SIZE * (MAXBUFF - 2) + 2 * EDIT_BUF_SIZE
    BY Sizes
  <2>4. n <= EDIT_BUF_SIZE * (MAXBUFF - 2) + 1
    BY DEF SIZE_LIMIT
  <2>5. EDIT_BUF_SIZE * (MAXBUFF - 2) \in Nat
    BY Sizes
  <2> QED BY <1>1, <2>2, <2>3, <2>4, <2>5, Sizes
<1> QED BY <1>1, <1>2, Sizes DEF q

\* blocks before a place
LEMMA BlockBefore ==
  ASSUME NEW n \in Nat, NEW b \in Nat
  PROVE  /\ b * EDIT_BUF_SIZE \in Nat
         /\ b * EDIT_BUF_SIZE <= n <=> b <= n \div EDIT_BUF_SIZE
         /\ b * EDIT_BUF_SIZE = n <=> b = n \div EDIT_BUF_SIZE /\ n % EDIT_BUF_SIZE = 0
<1> DEFINE q == n \div EDIT_BUF_SIZE
<1> DEFINE r == n % EDIT_BUF_SIZE
<1>1. /\ q \in Nat /\ r \in Nat /\ r < EDIT_BUF_SIZE
      /\ n = q * EDIT_BUF_SIZE + r
      /\ q * EDIT_BUF_SIZE \in Nat
  BY Sizes, Divided
<1> HIDE DEF q, r
<1>2. b * EDIT_BUF_SIZE \in Nat
  BY Sizes
<1>3. b <= q => b * EDIT_BUF_SIZE <= q * EDIT_BUF_SIZE
  BY <1>1, Sizes, Times
<1>4. b > q => (q + 1) * EDIT_BUF_SIZE <= b * EDIT_BUF_SIZE
  BY <1>1, Sizes, Times
<1>5. (q + 1) * EDIT_BUF_SIZE = q * EDIT_BUF_SIZE + EDIT_BUF_SIZE
  BY <1>1, Sizes
<1>6. b < q => (b + 1) * EDIT_BUF_SIZE <= q * EDIT_BUF_SIZE
  BY <1>1, Sizes, Times
<1>7. (b + 1) * EDIT_BUF_SIZE = b * EDIT_BUF_SIZE + EDIT_BUF_SIZE
  BY Sizes
<1>8. b * EDIT_BUF_SIZE <= n <=> b <= q
  BY <1>1, <1>2, <1>3, <1>4, <1>5, Sizes
<1>9. b * EDIT_BUF_SIZE = n <=> b = q /\ r = 0
  <2>1. CASE b = q BY <2>1, <1>1
  <2>2. CASE b < q BY <2>2, <1>1, <1>2, <1>6, <1>7, Sizes
  <2>3. CASE b > q BY <2>3, <1>1, <1>2, <1>4, <1>5, Sizes
  <2> QED BY <2>1, <2>2, <2>3, <1>1
<1> QED BY <1>2, <1>8, <1>9 DEF q, r

\* the next place
LEMMA NextPlace ==
  ASSUME NEW n \in Nat
  PROVE  /\ (n + 1) % EDIT_BUF_SIZE = 0 =>
              /\ (n + 1) \div EDIT_BUF_SIZE = (n \div EDIT_BUF_SIZE) + 1
              /\ n % EDIT_BUF_SIZE = EDIT_BUF_SIZE - 1
         /\ (n + 1) % EDIT_BUF_SIZE # 0 =>
              /\ (n + 1) \div EDIT_BUF_SIZE = n \div EDIT_BUF_SIZE
              /\ (n + 1) % EDIT_BUF_SIZE = (n % EDIT_BUF_SIZE) + 1
<1> DEFINE q == n \div EDIT_BUF_SIZE
<1> DEFINE r == n % EDIT_BUF_SIZE
<1>1. /\ q \in Nat /\ r \in Nat /\ r < EDIT_BUF_SIZE
      /\ n = q * EDIT_BUF_SIZE + r
      /\ q * EDIT_BUF_SIZE \in Nat
  BY Sizes, Divided
<1>2. CASE r + 1 < EDIT_BUF_SIZE
  <2> HIDE DEF q, r
  <2>1. n + 1 = q * EDIT_BUF_SIZE + (r + 1) /\ r + 1 \in Nat
    BY <1>1
  <2>2. (n + 1) \div EDIT_BUF_SIZE = q /\ (n + 1) % EDIT_BUF_SIZE = r + 1
    BY <1>1, <1>2, <2>1, Sizes, DividedOnce
  <2> QED BY <1>1, <2>2 DEF q, r
<1>3. CASE r + 1 = EDIT_BUF_SIZE
  <2> HIDE DEF q, r
  <2>1. n + 1 = (q + 1) * EDIT_BUF_SIZE + 0 /\ q + 1 \in Nat
    <3>1. (q + 1) * EDIT_BUF_SIZE = q * EDIT_BUF_SIZE + EDIT_BUF_SIZE
      BY <1>1, Sizes
    <3> QED BY <1>1, <1>3, <3>1, Sizes
  <2>2. (n + 1) \div EDIT_BUF_SIZE = q + 1 /\ (n + 1) % EDIT_BUF_SIZE = 0
    <3>1. PICK z \in Nat : z = 0
      OBVIOUS
    <3>2. PICK s \in Nat : s = q + 1
      BY <2>1
    <3>3. n + 1 = s * EDIT_BUF_SIZE + z /\ z < EDIT_BUF_SIZE
      BY <2>1, <3>1, <3>2, Sizes
    <3>4. (n + 1) \div EDIT_BUF_SIZE = s /\ (n + 1) % EDIT_BUF_SIZE = z
      BY <3>3, Sizes, DividedOnce
    <3> QED BY <3>1, <3>2, <3>4
  <2> QED BY <1>1, <1>3, <2>2, Sizes DEF q, r
<1> QED BY <1>1, <1>2, <1>3, Sizes

\* two places apart differ in the block or in the place in it
LEMMA Apart ==
  ASSUME NEW m \in Nat, NEW n \in Nat, m # n
  PROVE  m \div EDIT_BUF_SIZE # n \div EDIT_BUF_SIZE \/ m % EDIT_BUF_SIZE # n % EDIT_BUF_SIZE
<1>1. m = (m \div EDIT_BUF_SIZE) * EDIT_BUF_SIZE + (m % EDIT_BUF_SIZE)
  BY Sizes, Divided
<1>2. n = (n \div EDIT_BUF_SIZE) * EDIT_BUF_SIZE + (n % EDIT_BUF_SIZE)
  BY Sizes, Divided
<1> QED BY <1>1, <1>2

(***************************************************************************)
(* What one routine leaves alone                                           *)
(***************************************************************************)

SameBlocks(e, d) ==
  /\ d.buffers1 = e.buffers1 /\ d.curs1 = e.curs1
  /\ d.buffers2 = e.buffers2 /\ d.curs2 = e.curs2
SameBefore(e, d) == d.buffers1 = e.buffers1 /\ d.curs1 = e.curs1
SameAfter(e, d) == d.buffers2 = e.buffers2 /\ d.curs2 = e.curs2
SameLines(e, d) == d.curs_line = e.curs_line /\ d.total_lines = e.total_lines
SameScreen(e, d) == d.start_display = e.start_display /\ d.start_line = e.start_line
SameCache(e, d) == d.valid = e.valid /\ d.numbers = e.numbers /\ d.offsets = e.offsets
SameMarks(e, d) == d.marks = e.marks /\ d.at = e.at
SameRules(e, d) == d.rule = e.rule /\ d.last = e.last /\ d.markers = e.markers
SameRest(e, d) ==
  /\ d.last_byte = e.last_byte
  /\ SameLines(e, d) /\ SameScreen(e, d) /\ SameCache(e, d)
  /\ SameMarks(e, d) /\ SameRules(e, d)

\* The fields of an editor and their types.
LEMMA EditFields ==
  ASSUME NEW e \in Edit
  PROVE  /\ e.buffers1 \in BlockRow /\ e.curs1 \in Nat
         /\ e.buffers2 \in BlockRow /\ e.curs2 \in Nat
         /\ e.last_byte \in Nat /\ e.curs_line \in Int /\ e.total_lines \in Int
         /\ e.start_display \in Int /\ e.start_line \in Int
         /\ e.valid \in BOOLEAN
         /\ e.numbers \in [0 .. N_LINE_CACHES - 1 -> Int]
         /\ e.offsets \in [0 .. N_LINE_CACHES - 1 -> Int]
         /\ e.marks \in Seq([line : Int, c : Colors \cup {"none"}]) /\ e.at \in Nat
         /\ e.rule \in Rule /\ e.last \in Int
         /\ e.markers \in Seq([offset : Int, rule : Rule])
BY DEF Edit, BlockRow

LEMMA NewBlockIs == NewBlock \in Block
BY Sizes DEF NewBlock, Block, Bytes

(***************************************************************************)
(* A byte put down                                                         *)
(***************************************************************************)

\* c is put at place k of the block of p, in a new block if the place fresh begins one
IsPut(blocks, fresh, p, k, c, to) ==
  LET new(b) == fresh % EDIT_BUF_SIZE = 0 /\ b = fresh \div EDIT_BUF_SIZE
      q == p \div EDIT_BUF_SIZE
  IN /\ to \in BlockRow /\ to[q] # NULL /\ to[q][k] = c
     /\ \A b \in 0 .. MAXBUFF :
          /\ (to[b] # NULL) <=> (blocks[b] # NULL \/ new(b))
          /\ b # q /\ ~new(b) => to[b] = blocks[b]
     /\ ~new(q) => \A j \in 0 .. EDIT_BUF_SIZE - 1 : j # k => to[q][j] = blocks[q][j]

\* A byte put down lies where it was put, and every other byte where it was.
LEMMA PutInto ==
  ASSUME NEW blocks \in BlockRow, NEW fresh \in 0 .. SIZE_LIMIT + 1, NEW p \in 0 .. SIZE_LIMIT + 1,
         NEW k \in 0 .. EDIT_BUF_SIZE - 1, NEW c \in Bytes,
         \/ blocks[p \div EDIT_BUF_SIZE] # NULL
         \/ fresh % EDIT_BUF_SIZE = 0 /\ p \div EDIT_BUF_SIZE = fresh \div EDIT_BUF_SIZE
  PROVE  IsPut(blocks, fresh, p, k, c, Put(blocks, fresh, p, k, c))
<1> DEFINE to == Put(blocks, fresh, p, k, c)
<1> DEFINE q == p \div EDIT_BUF_SIZE
<1> DEFINE f == fresh \div EDIT_BUF_SIZE
<1> DEFINE new == fresh % EDIT_BUF_SIZE = 0
<1> DEFINE with == IF new THEN [blocks EXCEPT ![f] = NewBlock] ELSE blocks
<1>1. q \in 0 .. MAXBUFF /\ f \in 0 .. MAXBUFF
  BY Where
<1>2. new \in BOOLEAN
  OBVIOUS
<1>3. blocks[q] # NULL \/ (new /\ q = f)
  OBVIOUS
<1>4. to = [with EXCEPT ![q] = [@ EXCEPT ![k] = c]]
  BY DEF Put
<1> HIDE DEF to
<1> HIDE DEF q, f, new
<1>5. NewBlock \in Block /\ NewBlock # NULL
  BY NewBlockIs, NullIsNoBlock
<1>6. with \in BlockRow
  BY <1>1, <1>2, <1>5 DEF BlockRow
<1>7. with[q] \in Block
  <2>1. CASE new /\ q = f
    BY <2>1, <1>1, <1>5 DEF BlockRow
  <2>2. CASE blocks[q] # NULL
    <3>1. blocks[q] \in Block
      BY <1>1, <2>2 DEF BlockRow
    <3> QED BY <3>1, <1>1, <1>2, <1>5 DEF BlockRow
  <2> QED BY <1>3, <2>1, <2>2
<1>8. ASSUME NEW b \in 0 .. MAXBUFF
      PROVE with[b] = IF new /\ b = f THEN NewBlock ELSE blocks[b]
  BY <1>1, <1>2 DEF BlockRow
<1> HIDE DEF with
<1>9. /\ [with[q] EXCEPT ![k] = c] \in Block
      /\ [with[q] EXCEPT ![k] = c][k] = c
      /\ \A j \in 0 .. EDIT_BUF_SIZE - 1 : j # k => [with[q] EXCEPT ![k] = c][j] = with[q][j]
  BY <1>7 DEF Block
<1>10. to \in BlockRow /\ to[q] = [with[q] EXCEPT ![k] = c]
       /\ \A b \in 0 .. MAXBUFF : b # q => to[b] = with[b]
  BY <1>1, <1>4, <1>6, <1>9 DEF BlockRow
<1>11. to[q] # NULL /\ to[q][k] = c
  BY <1>9, <1>10, NullIsNoBlock
<1>12. ASSUME NEW b \in 0 .. MAXBUFF
       PROVE /\ (to[b] # NULL) <=> (blocks[b] # NULL \/ (new /\ b = f))
             /\ b # q /\ ~(new /\ b = f) => to[b] = blocks[b]
  <2>1. CASE b = q
    BY <2>1, <1>3, <1>11
  <2>2. CASE b # q
    BY <2>2, <1>5, <1>8, <1>10
  <2> QED BY <2>1, <2>2
<1>13. ~(new /\ q = f) => \A j \in 0 .. EDIT_BUF_SIZE - 1 : j # k => to[q][j] = blocks[q][j]
  BY <1>1, <1>8, <1>9, <1>10
<1>14. IsPut(blocks, fresh, p, k, c, to)
  BY <1>10, <1>11, <1>12, <1>13 DEF IsPut, q, f, new
<1> QED BY <1>14 DEF to

\* A byte put down before the cursor is the last one there, in a block of its
\* own if need be.
LEMMA PutBeforeIs ==
  ASSUME NEW e \in Edit, Blocks(e), e.curs1 <= SIZE_LIMIT, NEW c \in Bytes
  PROVE  LET d == PutBefore(e, c)
         IN /\ d \in Edit /\ Blocks(d) /\ SameAfter(e, d) /\ SameRest(e, d)
            /\ d.curs1 = e.curs1 + 1
            /\ \A i \in 0 .. e.curs1 - 1 : FromStart(d, i) = FromStart(e, i)
            /\ FromStart(d, e.curs1) = c
<1> DEFINE n == e.curs1
<1> DEFINE to == Put(e.buffers1, n, n, n % EDIT_BUF_SIZE, c)
<1> DEFINE d == PutBefore(e, c)
<1>1. n \in Nat /\ n \in 0 .. SIZE_LIMIT + 1 /\ n + 1 \in 0 .. SIZE_LIMIT + 1 /\ n \in 0 .. SIZE_LIMIT
  BY EditFields, Sizes DEF Blocks
<1>2. /\ n \div EDIT_BUF_SIZE \in 0 .. MAXBUFF
      /\ n % EDIT_BUF_SIZE \in 0 .. EDIT_BUF_SIZE - 1
  BY <1>1, Where
<1>3. \A b \in 0 .. MAXBUFF : (e.buffers1[b] # NULL) <=> (b * EDIT_BUF_SIZE < n)
  BY DEF Blocks
<1> HIDE DEF n
<1>4. \A b \in 0 .. MAXBUFF :
        /\ b * EDIT_BUF_SIZE \in Nat
        /\ b * EDIT_BUF_SIZE <= n <=> b <= n \div EDIT_BUF_SIZE
        /\ b * EDIT_BUF_SIZE = n <=> b = n \div EDIT_BUF_SIZE /\ n % EDIT_BUF_SIZE = 0
  <2> TAKE b \in 0 .. MAXBUFF
  <2>1. b \in Nat BY Sizes
  <2> QED BY <1>1, <2>1, BlockBefore
<1>5. e.buffers1[n \div EDIT_BUF_SIZE] # NULL \/ n % EDIT_BUF_SIZE = 0
  BY <1>1, <1>2, <1>3, <1>4
<1>6. e.buffers1 \in BlockRow
  BY EditFields
<1>7. IsPut(e.buffers1, n, n, n % EDIT_BUF_SIZE, c, to)
  <2>1. n % EDIT_BUF_SIZE \in 0 .. EDIT_BUF_SIZE - 1 /\ n \in 0 .. SIZE_LIMIT + 1
    BY <1>1, <1>2
  <2> QED BY <1>5, <1>6, <2>1, PutInto, Zenon
<1>21. /\ to \in BlockRow
       /\ to[n \div EDIT_BUF_SIZE] # NULL
       /\ to[n \div EDIT_BUF_SIZE][n % EDIT_BUF_SIZE] = c
  BY <1>7, Zenon DEF IsPut
<1>22. ASSUME NEW b \in 0 .. MAXBUFF
       PROVE  /\ (to[b] # NULL) <=> (e.buffers1[b] # NULL \/ (n % EDIT_BUF_SIZE = 0 /\ b = n \div EDIT_BUF_SIZE))
              /\ b # n \div EDIT_BUF_SIZE => to[b] = e.buffers1[b]
  <2> HIDE DEF to
  <2> QED BY <1>7, Zenon DEF IsPut
<1>23. ASSUME n % EDIT_BUF_SIZE # 0, NEW j \in 0 .. EDIT_BUF_SIZE - 1, j # n % EDIT_BUF_SIZE
       PROVE to[n \div EDIT_BUF_SIZE][j] = e.buffers1[n \div EDIT_BUF_SIZE][j]
  BY <1>7, <1>23, Zenon DEF IsPut
<1> DEFINE m == n + 1
<1>8. d = [e EXCEPT !.buffers1 = to, !.curs1 = m] /\ m \in Nat
  BY <1>1 DEF PutBefore, n
<1> HIDE DEF to, d, m
<1>9. d \in Edit /\ d.buffers1 = to /\ d.curs1 = n + 1 /\ SameAfter(e, d) /\ SameRest(e, d)
  <2>1. d \in Edit /\ d.buffers1 = to /\ d.curs1 = m /\ SameAfter(e, d) /\ SameRest(e, d)
    BY <1>21, <1>8
       DEF Edit, BlockRow, SameAfter, SameRest, SameLines, SameScreen, SameCache, SameMarks, SameRules
  <2> QED BY <2>1 DEF m
<1>10. ASSUME NEW b \in 0 .. MAXBUFF
       PROVE (to[b] # NULL) <=> (b * EDIT_BUF_SIZE < n + 1)
  <2>1. b * EDIT_BUF_SIZE < n + 1 <=> b * EDIT_BUF_SIZE < n \/ b * EDIT_BUF_SIZE = n
    BY <1>1, <1>4
  <2>2. (e.buffers1[b] # NULL) <=> (b * EDIT_BUF_SIZE < n)
    BY <1>3
  <2>3. b * EDIT_BUF_SIZE = n <=> b = n \div EDIT_BUF_SIZE /\ n % EDIT_BUF_SIZE = 0
    BY <1>4
  <2>4. (to[b] # NULL) <=> (e.buffers1[b] # NULL \/ (n % EDIT_BUF_SIZE = 0 /\ b = n \div EDIT_BUF_SIZE))
    BY <1>22
  <2> QED BY <2>1, <2>2, <2>3, <2>4, Zenon
<1>11. Blocks(d)
  BY <1>1, <1>9, <1>10 DEF Blocks, SameAfter
<1>12. ASSUME NEW i \in 0 .. n - 1 PROVE FromStart(d, i) = FromStart(e, i)
  <2>1. i \in Nat /\ i # n /\ i \in 0 .. SIZE_LIMIT + 1
    BY <1>1, Sizes
  <2>2. i \div EDIT_BUF_SIZE # n \div EDIT_BUF_SIZE \/ i % EDIT_BUF_SIZE # n % EDIT_BUF_SIZE
    BY <1>1, <2>1, Apart
  <2>3. i \div EDIT_BUF_SIZE \in 0 .. MAXBUFF /\ i % EDIT_BUF_SIZE \in 0 .. EDIT_BUF_SIZE - 1
    BY <2>1, Where
  <2>4. CASE i \div EDIT_BUF_SIZE # n \div EDIT_BUF_SIZE
    BY <2>3, <2>4, <1>21, <1>22, <1>23, <1>9 DEF FromStart
  <2>5. CASE i \div EDIT_BUF_SIZE = n \div EDIT_BUF_SIZE
    <3>1. n % EDIT_BUF_SIZE # 0
      <4>1. i = (i \div EDIT_BUF_SIZE) * EDIT_BUF_SIZE + (i % EDIT_BUF_SIZE)
        BY <2>1, Where
      <4>2. n = (n \div EDIT_BUF_SIZE) * EDIT_BUF_SIZE + (n % EDIT_BUF_SIZE)
            /\ (n \div EDIT_BUF_SIZE) * EDIT_BUF_SIZE \in Nat
        BY <1>1, Where
      <4> QED BY <4>1, <4>2, <2>1, <2>3, <2>5, <1>1
    <3> QED BY <3>1, <2>2, <2>3, <2>5, <1>21, <1>22, <1>23, <1>9 DEF FromStart
  <2> QED BY <2>4, <2>5
<1>13. FromStart(d, n) = c
  BY <1>21, <1>22, <1>23, <1>9 DEF FromStart
<1> QED BY <1>9, <1>11, <1>12, <1>13 DEF n, d

\* A byte put down after the cursor is the first one there.
LEMMA PutAfterIs ==
  ASSUME NEW e \in Edit, Blocks(e), e.curs2 <= SIZE_LIMIT, NEW c \in Bytes
  PROVE  LET d == PutAfter(e, c)
         IN /\ d \in Edit /\ Blocks(d) /\ SameBefore(e, d) /\ SameRest(e, d)
            /\ d.curs2 = e.curs2 + 1
            /\ \A p \in 0 .. e.curs2 - 1 : FromEnd(d, p) = FromEnd(e, p)
            /\ FromEnd(d, e.curs2) = c
<1> DEFINE n == e.curs2
<1> DEFINE k == EDIT_BUF_SIZE - (n % EDIT_BUF_SIZE) - 1
<1> DEFINE to == Put(e.buffers2, n + 1, n, k, c)
<1> DEFINE d == PutAfter(e, c)
<1>1. n \in Nat /\ n \in 0 .. SIZE_LIMIT + 1 /\ n + 1 \in 0 .. SIZE_LIMIT + 1 /\ n + 1 \in Nat
  BY EditFields, Sizes DEF Blocks
<1>2. /\ n \div EDIT_BUF_SIZE \in 0 .. MAXBUFF
      /\ n % EDIT_BUF_SIZE \in 0 .. EDIT_BUF_SIZE - 1
      /\ (n + 1) \div EDIT_BUF_SIZE \in 0 .. MAXBUFF
  BY <1>1, Where
<1>3. \A b \in 0 .. MAXBUFF : (e.buffers2[b] # NULL) <=> (b * EDIT_BUF_SIZE <= n)
  BY DEF Blocks
<1>4. d = [e EXCEPT !.buffers2 = to, !.curs2 = n + 1]
  BY DEF PutAfter, n
<1> HIDE DEF n
<1>5. \A b \in 0 .. MAXBUFF :
        /\ b * EDIT_BUF_SIZE \in Nat
        /\ b * EDIT_BUF_SIZE <= n <=> b <= n \div EDIT_BUF_SIZE
        /\ b * EDIT_BUF_SIZE = n + 1 <=> b = (n + 1) \div EDIT_BUF_SIZE /\ (n + 1) % EDIT_BUF_SIZE = 0
  <2> TAKE b \in 0 .. MAXBUFF
  <2>1. b \in Nat BY Sizes
  <2> QED BY <1>1, <2>1, BlockBefore
<1>6. e.buffers2[n \div EDIT_BUF_SIZE] # NULL
  BY <1>1, <1>2, <1>3, <1>5
<1>7. e.buffers2 \in BlockRow /\ k \in 0 .. EDIT_BUF_SIZE - 1
  BY <1>2, EditFields, Sizes
<1>8. ~((n + 1) % EDIT_BUF_SIZE = 0 /\ (n + 1) \div EDIT_BUF_SIZE = n \div EDIT_BUF_SIZE)
  BY <1>1, <1>2, NextPlace
<1> HIDE DEF k
<1>9. IsPut(e.buffers2, n + 1, n, k, c, to)
  <2>1. ~((n + 1) % EDIT_BUF_SIZE = 0 /\ n \div EDIT_BUF_SIZE = (n + 1) \div EDIT_BUF_SIZE)
    BY <1>8
  <2> QED BY <1>1, <1>6, <1>7, <2>1, PutInto, Zenon
<1>21. /\ to \in BlockRow
       /\ to[n \div EDIT_BUF_SIZE] # NULL
       /\ to[n \div EDIT_BUF_SIZE][k] = c
  BY <1>9, Zenon DEF IsPut
<1>22. ASSUME NEW b \in 0 .. MAXBUFF
       PROVE  /\ (to[b] # NULL) <=> (e.buffers2[b] # NULL \/ ((n + 1) % EDIT_BUF_SIZE = 0 /\ b = (n + 1) \div EDIT_BUF_SIZE))
              /\ b # n \div EDIT_BUF_SIZE
                 /\ ~((n + 1) % EDIT_BUF_SIZE = 0 /\ b = (n + 1) \div EDIT_BUF_SIZE) => to[b] = e.buffers2[b]
  <2> HIDE DEF to
  <2> QED BY <1>9, Zenon DEF IsPut
<1>23. ASSUME NEW j \in 0 .. EDIT_BUF_SIZE - 1, j # k
       PROVE to[n \div EDIT_BUF_SIZE][j] = e.buffers2[n \div EDIT_BUF_SIZE][j]
  <2>1. ~((n + 1) % EDIT_BUF_SIZE = 0 /\ n \div EDIT_BUF_SIZE = (n + 1) \div EDIT_BUF_SIZE)
    BY <1>8
  <2> QED BY <1>9, <1>23, <2>1, Zenon DEF IsPut
<1> DEFINE m == n + 1
<1>20. d = [e EXCEPT !.buffers2 = to, !.curs2 = m] /\ m \in Nat
  BY <1>1, <1>4
<1> HIDE DEF to, d, m
<1>10. d \in Edit /\ d.buffers2 = to /\ d.curs2 = n + 1 /\ SameBefore(e, d) /\ SameRest(e, d)
  <2>1. d \in Edit /\ d.buffers2 = to /\ d.curs2 = m /\ SameBefore(e, d) /\ SameRest(e, d)
    BY <1>20, <1>21
       DEF Edit, BlockRow, SameBefore, SameRest, SameLines, SameScreen, SameCache, SameMarks, SameRules
  <2> QED BY <2>1 DEF m
<1>11. ASSUME NEW b \in 0 .. MAXBUFF
       PROVE (to[b] # NULL) <=> (b * EDIT_BUF_SIZE <= n + 1)
  <2>1. b * EDIT_BUF_SIZE <= n + 1 <=> b * EDIT_BUF_SIZE <= n \/ b * EDIT_BUF_SIZE = n + 1
    BY <1>1, <1>5
  <2>2. (e.buffers2[b] # NULL) <=> (b * EDIT_BUF_SIZE <= n)
    BY <1>3
  <2>3. b * EDIT_BUF_SIZE = n + 1 <=> b = (n + 1) \div EDIT_BUF_SIZE /\ (n + 1) % EDIT_BUF_SIZE = 0
    BY <1>5
  <2>4. (to[b] # NULL) <=> (e.buffers2[b] # NULL \/ ((n + 1) % EDIT_BUF_SIZE = 0 /\ b = (n + 1) \div EDIT_BUF_SIZE))
    BY <1>22
  <2> QED BY <2>1, <2>2, <2>3, <2>4, Zenon
<1>12. Blocks(d)
  BY <1>1, <1>10, <1>11 DEF Blocks, SameBefore
<1>13. ASSUME NEW p \in 0 .. n - 1 PROVE FromEnd(d, p) = FromEnd(e, p)
  <2>1. p \in Nat /\ p # n /\ p \in 0 .. SIZE_LIMIT + 1
    BY <1>1, Sizes
  <2>2. p \div EDIT_BUF_SIZE # n \div EDIT_BUF_SIZE \/ p % EDIT_BUF_SIZE # n % EDIT_BUF_SIZE
    BY <1>1, <2>1, Apart
  <2>3. p \div EDIT_BUF_SIZE \in 0 .. MAXBUFF /\ p % EDIT_BUF_SIZE \in 0 .. EDIT_BUF_SIZE - 1
    BY <2>1, Where
  <2>4. CASE p \div EDIT_BUF_SIZE # n \div EDIT_BUF_SIZE
    <3>1. (p \div EDIT_BUF_SIZE) * EDIT_BUF_SIZE <= p
      <4>1. p = (p \div EDIT_BUF_SIZE) * EDIT_BUF_SIZE + (p % EDIT_BUF_SIZE)
            /\ (p \div EDIT_BUF_SIZE) * EDIT_BUF_SIZE \in Nat
        BY <2>1, Where
      <4> QED BY <4>1, <2>3
    <3>2. ~((n + 1) % EDIT_BUF_SIZE = 0 /\ p \div EDIT_BUF_SIZE = (n + 1) \div EDIT_BUF_SIZE)
      BY <3>1, <2>1, <2>3, <1>1, <1>5
    <3>3. to[p \div EDIT_BUF_SIZE] = e.buffers2[p \div EDIT_BUF_SIZE]
      BY <2>3, <2>4, <3>2, <1>22
    <3> QED BY <3>3, <1>10 DEF FromEnd
  <2>5. CASE p \div EDIT_BUF_SIZE = n \div EDIT_BUF_SIZE
    <3>1. /\ EDIT_BUF_SIZE - (p % EDIT_BUF_SIZE) - 1 \in 0 .. EDIT_BUF_SIZE - 1
          /\ EDIT_BUF_SIZE - (p % EDIT_BUF_SIZE) - 1 # k
      BY <2>2, <2>3, <2>5, <1>2, Sizes DEF k
    <3> QED BY <3>1, <2>5, <1>23, <1>10 DEF FromEnd
  <2> QED BY <2>4, <2>5
<1>14. FromEnd(d, n) = c
  BY <1>21, <1>10 DEF FromEnd, k
<1> QED BY <1>10, <1>12, <1>13, <1>14 DEF n, d

\* a block that is given up holds no byte that is left
LEMMA DropBlock ==
  ASSUME NEW blocks \in BlockRow, NEW f \in 0 .. MAXBUFF
  PROVE  LET to == [blocks EXCEPT ![f] = NULL]
         IN to \in BlockRow /\ \A b \in 0 .. MAXBUFF : to[b] = IF b = f THEN NULL ELSE blocks[b]
BY DEF BlockRow

\* The last byte before the cursor is taken away, and its block if it is empty
\* then.
LEMMA TakeBeforeIs ==
  ASSUME NEW e \in Edit, Blocks(e), e.curs1 > 0
  PROVE  LET d == TakeBefore(e)
         IN /\ d \in Edit /\ Blocks(d) /\ SameAfter(e, d) /\ SameRest(e, d)
            /\ d.curs1 = e.curs1 - 1
            /\ \A i \in 0 .. e.curs1 - 2 : FromStart(d, i) = FromStart(e, i)
<1> DEFINE n == e.curs1
<1> DEFINE f == n \div EDIT_BUF_SIZE
<1> DEFINE empty == (n - 1) % EDIT_BUF_SIZE = 0
<1> DEFINE to == IF empty THEN [e.buffers1 EXCEPT ![f] = NULL] ELSE e.buffers1
<1> DEFINE d == TakeBefore(e)
<1>1. n \in Nat /\ n - 1 \in Nat /\ n \in 0 .. SIZE_LIMIT + 1 /\ n - 1 \in 0 .. SIZE_LIMIT + 1
  BY EditFields, Sizes DEF Blocks
<1>2. f \in 0 .. MAXBUFF
  BY <1>1, Where
<1>3. \A b \in 0 .. MAXBUFF : (e.buffers1[b] # NULL) <=> (b * EDIT_BUF_SIZE < n)
  BY DEF Blocks
<1>4. d = [e EXCEPT !.buffers1 = to, !.curs1 = n - 1]
  BY DEF TakeBefore, n
<1> HIDE DEF n
<1>5. \A b \in 0 .. MAXBUFF :
        /\ b * EDIT_BUF_SIZE \in Nat
        /\ b * EDIT_BUF_SIZE = n - 1 <=> b = (n - 1) \div EDIT_BUF_SIZE /\ (n - 1) % EDIT_BUF_SIZE = 0
  <2> TAKE b \in 0 .. MAXBUFF
  <2>1. b \in Nat BY Sizes
  <2> QED BY <1>1, <2>1, BlockBefore
<1>6. empty => f = (n - 1) \div EDIT_BUF_SIZE
  <2>1. n = (n - 1) + 1
    BY <1>1
  <2>2. (n - 1) % EDIT_BUF_SIZE # EDIT_BUF_SIZE - 1 => n \div EDIT_BUF_SIZE = (n - 1) \div EDIT_BUF_SIZE
    BY <1>1, <2>1, NextPlace
  <2> QED BY <2>2, Sizes
<1>7. to \in BlockRow /\ \A b \in 0 .. MAXBUFF : to[b] = IF empty /\ b = f THEN NULL ELSE e.buffers1[b]
  <2>1. e.buffers1 \in BlockRow
    BY EditFields
  <2> HIDE DEF f, empty
  <2>2. empty \in BOOLEAN
    BY DEF empty
  <2> QED BY <1>2, <2>1, <2>2, DropBlock
<1> DEFINE m == n - 1
<1>20. d = [e EXCEPT !.buffers1 = to, !.curs1 = m] /\ m \in Nat
  BY <1>1, <1>4
<1> HIDE DEF to, d, f, empty, m
<1>8. d \in Edit /\ d.buffers1 = to /\ d.curs1 = n - 1 /\ SameAfter(e, d) /\ SameRest(e, d)
  <2>1. d \in Edit /\ d.buffers1 = to /\ d.curs1 = m /\ SameAfter(e, d) /\ SameRest(e, d)
    BY <1>20, <1>7
       DEF Edit, BlockRow, SameAfter, SameRest, SameLines, SameScreen, SameCache, SameMarks, SameRules
  <2> QED BY <2>1 DEF m
<1>9. ASSUME NEW b \in 0 .. MAXBUFF
      PROVE (to[b] # NULL) <=> (b * EDIT_BUF_SIZE < n - 1)
  BY <1>1, <1>3, <1>5, <1>6, <1>7 DEF empty
<1>10. Blocks(d)
  BY <1>1, <1>8, <1>9 DEF Blocks, SameAfter
<1>11. ASSUME NEW i \in 0 .. n - 2 PROVE FromStart(d, i) = FromStart(e, i)
  <2>1. i \in Nat /\ i \in 0 .. SIZE_LIMIT + 1 /\ i < n - 1
    BY <1>1, Sizes
  <2>2. i \div EDIT_BUF_SIZE \in 0 .. MAXBUFF
    BY <2>1, Where
  <2>3. ~(empty /\ i \div EDIT_BUF_SIZE = f)
    <3>1. i = (i \div EDIT_BUF_SIZE) * EDIT_BUF_SIZE + (i % EDIT_BUF_SIZE)
          /\ i % EDIT_BUF_SIZE \in Nat /\ (i \div EDIT_BUF_SIZE) * EDIT_BUF_SIZE \in Nat
      BY <2>1, Where, Sizes
    <3> QED BY <3>1, <2>1, <2>2, <1>1, <1>5, <1>6 DEF empty
  <2> QED BY <2>2, <2>3, <1>7, <1>8 DEF FromStart
<1> QED BY <1>8, <1>10, <1>11 DEF n, d

\* The first byte after the cursor is taken away.
LEMMA TakeAfterIs ==
  ASSUME NEW e \in Edit, Blocks(e), e.curs2 > 0
  PROVE  LET d == TakeAfter(e)
         IN /\ d \in Edit /\ Blocks(d) /\ SameBefore(e, d) /\ SameRest(e, d)
            /\ d.curs2 = e.curs2 - 1
            /\ \A p \in 0 .. e.curs2 - 2 : FromEnd(d, p) = FromEnd(e, p)
<1> DEFINE n == e.curs2
<1> DEFINE f == n \div EDIT_BUF_SIZE
<1> DEFINE empty == n % EDIT_BUF_SIZE = 0
<1> DEFINE to == IF empty THEN [e.buffers2 EXCEPT ![f] = NULL] ELSE e.buffers2
<1> DEFINE d == TakeAfter(e)
<1>1. n \in Nat /\ n - 1 \in Nat /\ n \in 0 .. SIZE_LIMIT + 1 /\ n - 1 \in 0 .. SIZE_LIMIT + 1
  BY EditFields, Sizes DEF Blocks
<1>2. f \in 0 .. MAXBUFF
  BY <1>1, Where
<1>3. \A b \in 0 .. MAXBUFF : (e.buffers2[b] # NULL) <=> (b * EDIT_BUF_SIZE <= n)
  BY DEF Blocks
<1>4. d = [e EXCEPT !.buffers2 = to, !.curs2 = n - 1]
  BY DEF TakeAfter, n
<1> HIDE DEF n
<1>5. \A b \in 0 .. MAXBUFF :
        /\ b * EDIT_BUF_SIZE \in Nat
        /\ b * EDIT_BUF_SIZE = n <=> b = n \div EDIT_BUF_SIZE /\ n % EDIT_BUF_SIZE = 0
  <2> TAKE b \in 0 .. MAXBUFF
  <2>1. b \in Nat BY Sizes
  <2> QED BY <1>1, <2>1, BlockBefore
<1>7. to \in BlockRow /\ \A b \in 0 .. MAXBUFF : to[b] = IF empty /\ b = f THEN NULL ELSE e.buffers2[b]
  <2>1. e.buffers2 \in BlockRow
    BY EditFields
  <2> HIDE DEF f, empty
  <2>2. empty \in BOOLEAN
    BY DEF empty
  <2> QED BY <1>2, <2>1, <2>2, DropBlock
<1> DEFINE m == n - 1
<1>20. d = [e EXCEPT !.buffers2 = to, !.curs2 = m] /\ m \in Nat
  BY <1>1, <1>4
<1> HIDE DEF to, d, m
<1>8. d \in Edit /\ d.buffers2 = to /\ d.curs2 = n - 1 /\ SameBefore(e, d) /\ SameRest(e, d)
  <2>1. d \in Edit /\ d.buffers2 = to /\ d.curs2 = m /\ SameBefore(e, d) /\ SameRest(e, d)
    BY <1>20, <1>7
       DEF Edit, BlockRow, SameBefore, SameRest, SameLines, SameScreen, SameCache, SameMarks, SameRules
  <2> QED BY <2>1 DEF m
<1>9. ASSUME NEW b \in 0 .. MAXBUFF
      PROVE (to[b] # NULL) <=> (b * EDIT_BUF_SIZE <= n - 1)
  BY <1>1, <1>3, <1>5, <1>7
<1>10. Blocks(d)
  BY <1>1, <1>8, <1>9 DEF Blocks, SameBefore
<1>11. ASSUME NEW p \in 0 .. n - 2 PROVE FromEnd(d, p) = FromEnd(e, p)
  <2>1. p \in Nat /\ p \in 0 .. SIZE_LIMIT + 1 /\ p < n
    BY <1>1, Sizes
  <2>2. p \div EDIT_BUF_SIZE \in 0 .. MAXBUFF
    BY <2>1, Where
  <2>3. ~(empty /\ p \div EDIT_BUF_SIZE = f)
    <3>1. p = (p \div EDIT_BUF_SIZE) * EDIT_BUF_SIZE + (p % EDIT_BUF_SIZE)
          /\ p % EDIT_BUF_SIZE \in Nat /\ (p \div EDIT_BUF_SIZE) * EDIT_BUF_SIZE \in Nat
      BY <2>1, Where, Sizes
    <3> QED BY <3>1, <2>1, <2>2, <1>1, <1>5
  <2> QED BY <2>2, <2>3, <1>7, <1>8 DEF FromEnd
<1> QED BY <1>8, <1>10, <1>11 DEF n, d

(***************************************************************************)
(* The text the blocks hold                                                *)
(***************************************************************************)

\* d has c at place p where e has nothing
Grown(e, d, p, c) ==
  /\ p \in 0 .. Size(e) /\ Size(d) = Size(e) + 1
  /\ \A i \in Int : GetByte(d, i) = IF i < p THEN GetByte(e, i)
                                    ELSE IF i = p THEN c ELSE GetByte(e, i - 1)
SameText(e, d) == Size(d) = Size(e) /\ \A i \in Int : GetByte(d, i) = GetByte(e, i)

\* The size of the text.
LEMMA SizeIs == ASSUME NEW e \in Edit PROVE Size(e) \in Nat /\ Size(e) = e.curs1 + e.curs2
BY EditFields DEF Size

\* edit_get_byte reads the blocks before the cursor from the start, the others
\* from the end, and a newline outside.
LEMMA ByteBefore ==
  ASSUME NEW e \in Edit, NEW i \in 0 .. e.curs1 - 1
  PROVE  GetByte(e, i) = FromStart(e, i)
BY EditFields DEF GetByte, Size

LEMMA ByteAfter ==
  ASSUME NEW e \in Edit, NEW i \in e.curs1 .. Size(e) - 1
  PROVE  GetByte(e, i) = FromEnd(e, Size(e) - i - 1)
BY EditFields DEF GetByte, Size

LEMMA ByteOutside ==
  ASSUME NEW e \in Edit, NEW i \in Int, i < 0 \/ i >= Size(e)
  PROVE  GetByte(e, i) = Newline
BY DEF GetByte

\* It answers a byte wherever it is asked.
LEMMA ByteTyped ==
  ASSUME NEW e \in Edit, Blocks(e), NEW i \in Int
  PROVE  GetByte(e, i) \in Bytes
<1>1. e.curs1 \in Nat /\ e.curs2 \in Nat /\ e.curs1 \in 0 .. SIZE_LIMIT + 1 /\ e.curs2 \in 0 .. SIZE_LIMIT + 1
  BY EditFields DEF Blocks
<1>2. CASE i < 0 \/ i >= Size(e)
  BY <1>2, ByteOutside DEF Bytes, Newline
<1>3. CASE i \in 0 .. e.curs1 - 1
  <2>1. i \in 0 .. SIZE_LIMIT + 1
    BY <1>1, <1>3, Sizes
  <2>2. /\ i \div EDIT_BUF_SIZE \in 0 .. MAXBUFF /\ i % EDIT_BUF_SIZE \in 0 .. EDIT_BUF_SIZE - 1
        /\ i = (i \div EDIT_BUF_SIZE) * EDIT_BUF_SIZE + (i % EDIT_BUF_SIZE)
        /\ (i \div EDIT_BUF_SIZE) * EDIT_BUF_SIZE \in Nat
    BY <2>1, Where
  <2>3. (i \div EDIT_BUF_SIZE) * EDIT_BUF_SIZE < e.curs1
    BY <1>1, <1>3, <2>2
  <2>4. e.buffers1[i \div EDIT_BUF_SIZE] # NULL
    BY <2>2, <2>3 DEF Blocks
  <2>5. e.buffers1[i \div EDIT_BUF_SIZE] \in Block
    BY <2>2, <2>4, EditFields DEF BlockRow
  <2>6. FromStart(e, i) \in Bytes
    BY <2>2, <2>5 DEF FromStart, Block
  <2> QED BY <2>6, <1>3, ByteBefore
<1>4. CASE i \in e.curs1 .. Size(e) - 1
  <2> DEFINE p == Size(e) - i - 1
  <2>1. p \in 0 .. e.curs2 - 1 /\ p \in 0 .. SIZE_LIMIT + 1
    BY <1>1, <1>4, Sizes DEF Size
  <2> HIDE DEF p
  <2>2. /\ p \div EDIT_BUF_SIZE \in 0 .. MAXBUFF /\ p % EDIT_BUF_SIZE \in 0 .. EDIT_BUF_SIZE - 1
        /\ p = (p \div EDIT_BUF_SIZE) * EDIT_BUF_SIZE + (p % EDIT_BUF_SIZE)
        /\ (p \div EDIT_BUF_SIZE) * EDIT_BUF_SIZE \in Nat
    BY <2>1, Where
  <2>3. (p \div EDIT_BUF_SIZE) * EDIT_BUF_SIZE <= e.curs2
    BY <1>1, <2>1, <2>2
  <2>4. e.buffers2[p \div EDIT_BUF_SIZE] # NULL
    BY <2>2, <2>3 DEF Blocks
  <2>5. e.buffers2[p \div EDIT_BUF_SIZE] \in Block
    BY <2>2, <2>4, EditFields DEF BlockRow
  <2>6. EDIT_BUF_SIZE - (p % EDIT_BUF_SIZE) - 1 \in 0 .. EDIT_BUF_SIZE - 1
    BY <2>2, Sizes, SMTT(30)
  <2>7. FromEnd(e, p) \in Bytes
    BY <2>5, <2>6 DEF FromEnd, Block
  <2> QED BY <2>7, <1>4, ByteAfter DEF p
<1> QED BY <1>1, <1>2, <1>3, <1>4, SizeIs

LEMMA SameBlocksText ==
  ASSUME NEW e, NEW d, SameBlocks(e, d)
  PROVE  SameText(e, d)
<1>1. Size(d) = Size(e)
  BY DEF SameBlocks, Size
<1>2. ASSUME NEW i \in Int PROVE GetByte(d, i) = GetByte(e, i)
  BY <1>1 DEF SameBlocks, GetByte, FromStart, FromEnd
<1> QED BY <1>1, <1>2 DEF SameText

LEMMA SameFromEnd == ASSUME NEW e, NEW d, SameAfter(e, d) PROVE \A p : FromEnd(d, p) = FromEnd(e, p)
BY DEF SameAfter, FromEnd
LEMMA SameFromStart == ASSUME NEW e, NEW d, SameBefore(e, d) PROVE \A p : FromStart(d, p) = FromStart(e, p)
BY DEF SameBefore, FromStart

\* What the text is after a byte put down or taken away on one side.
LEMMA PutBeforeGrows ==
  ASSUME NEW e \in Edit, Blocks(e), e.curs1 <= SIZE_LIMIT, NEW c \in Bytes
  PROVE  Grown(e, PutBefore(e, c), e.curs1, c)
<1> DEFINE d == PutBefore(e, c)
<1> HIDE DEF d
<1>1. /\ d \in Edit /\ Blocks(d) /\ SameAfter(e, d)
      /\ d.curs1 = e.curs1 + 1
      /\ \A i \in 0 .. e.curs1 - 1 : FromStart(d, i) = FromStart(e, i)
      /\ FromStart(d, e.curs1) = c
  BY PutBeforeIs DEF d
<1>2. e.curs1 \in Nat /\ e.curs2 \in Nat /\ d.curs2 = e.curs2
  BY <1>1, EditFields DEF SameAfter
<1>3. Size(d) = Size(e) + 1 /\ Size(e) \in Nat /\ Size(e) = e.curs1 + e.curs2
  BY <1>1, <1>2, SizeIs DEF Size
<1>4. ASSUME NEW i \in Int
      PROVE GetByte(d, i) = IF i < e.curs1 THEN GetByte(e, i)
                            ELSE IF i = e.curs1 THEN c ELSE GetByte(e, i - 1)
  <2>1. CASE i < 0 BY <2>1, <1>1, <1>2, ByteOutside
  <2>2. CASE i \in 0 .. e.curs1 - 1
    <3>1. i \in 0 .. d.curs1 - 1
      BY <1>1, <1>2, <2>2
    <3> QED BY <2>2, <3>1, <1>1, <1>2, ByteBefore
  <2>3. CASE i = e.curs1
    <3>1. i \in 0 .. d.curs1 - 1
      BY <1>1, <1>2, <2>3
    <3> QED BY <2>3, <3>1, <1>1, <1>2, ByteBefore
  <2>4. CASE i > e.curs1 /\ i <= Size(e)
    <3>1. i \in d.curs1 .. Size(d) - 1 /\ i - 1 \in e.curs1 .. Size(e) - 1
      BY <1>1, <1>2, <1>3, <2>4
    <3>2. Size(d) - i - 1 = Size(e) - (i - 1) - 1
      BY <1>3
    <3>3. GetByte(d, i) = FromEnd(d, Size(d) - i - 1)
      BY <3>1, <1>1, ByteAfter
    <3>4. GetByte(e, i - 1) = FromEnd(e, Size(e) - (i - 1) - 1)
      BY <3>1, <1>1, ByteAfter
    <3>5. FromEnd(d, Size(d) - i - 1) = FromEnd(e, Size(d) - i - 1)
      BY <1>1, SameFromEnd
    <3> QED BY <2>4, <3>2, <3>3, <3>4, <3>5, <1>2
  <2>5. CASE i > Size(e)
    <3>1. GetByte(d, i) = Newline
      BY <2>5, <1>1, <1>3, ByteOutside
    <3>2. i - 1 \in Int /\ i - 1 >= Size(e)
      BY <2>5, <1>3
    <3>3. GetByte(e, i - 1) = Newline
      BY <3>2, ByteOutside
    <3> QED BY <2>5, <3>1, <3>3, <1>2, <1>3
  <2> QED BY <2>1, <2>2, <2>3, <2>4, <2>5, <1>2, <1>3
<1> QED BY <1>2, <1>3, <1>4 DEF Grown, d

LEMMA PutAfterGrows ==
  ASSUME NEW e \in Edit, Blocks(e), e.curs2 <= SIZE_LIMIT, NEW c \in Bytes
  PROVE  Grown(e, PutAfter(e, c), e.curs1, c)
<1> DEFINE d == PutAfter(e, c)
<1> HIDE DEF d
<1>1. /\ d \in Edit /\ Blocks(d) /\ SameBefore(e, d)
      /\ d.curs2 = e.curs2 + 1
      /\ \A p \in 0 .. e.curs2 - 1 : FromEnd(d, p) = FromEnd(e, p)
      /\ FromEnd(d, e.curs2) = c
  BY PutAfterIs DEF d
<1>2. e.curs1 \in Nat /\ e.curs2 \in Nat /\ d.curs1 = e.curs1
  BY <1>1, EditFields DEF SameBefore
<1>3. Size(d) = Size(e) + 1 /\ Size(e) \in Nat /\ Size(e) = e.curs1 + e.curs2
  BY <1>1, <1>2, SizeIs DEF Size
<1>4. ASSUME NEW i \in Int
      PROVE GetByte(d, i) = IF i < e.curs1 THEN GetByte(e, i)
                            ELSE IF i = e.curs1 THEN c ELSE GetByte(e, i - 1)
  <2>1. CASE i < 0 BY <2>1, <1>1, <1>2, ByteOutside
  <2>2. CASE i \in 0 .. e.curs1 - 1
    <3>1. i \in 0 .. d.curs1 - 1
      BY <1>1, <1>2, <2>2
    <3>2. FromStart(d, i) = FromStart(e, i)
      BY <1>1, SameFromStart
    <3> QED BY <2>2, <3>1, <3>2, <1>1, <1>2, ByteBefore
  <2>3. CASE i = e.curs1
    <3>1. i \in d.curs1 .. Size(d) - 1 /\ Size(d) - i - 1 = e.curs2
      BY <1>1, <1>2, <1>3, <2>3
    <3> QED BY <2>3, <3>1, <1>1, <1>2, ByteAfter
  <2>4. CASE i > e.curs1 /\ i <= Size(e)
    <3>1. i \in d.curs1 .. Size(d) - 1 /\ i - 1 \in e.curs1 .. Size(e) - 1
      BY <1>1, <1>2, <1>3, <2>4
    <3>2. Size(d) - i - 1 = Size(e) - (i - 1) - 1 /\ Size(d) - i - 1 \in 0 .. e.curs2 - 1
      BY <1>2, <1>3, <2>4
    <3>3. GetByte(d, i) = FromEnd(d, Size(d) - i - 1)
      BY <3>1, <1>1, ByteAfter
    <3>4. GetByte(e, i - 1) = FromEnd(e, Size(e) - (i - 1) - 1)
      BY <3>1, <1>1, ByteAfter
    <3>5. FromEnd(d, Size(d) - i - 1) = FromEnd(e, Size(d) - i - 1)
      BY <1>1, <3>2
    <3> QED BY <2>4, <3>2, <3>3, <3>4, <3>5, <1>2
  <2>5. CASE i > Size(e)
    <3>1. GetByte(d, i) = Newline
      BY <2>5, <1>1, <1>3, ByteOutside
    <3>2. i - 1 \in Int /\ i - 1 >= Size(e)
      BY <2>5, <1>3
    <3>3. GetByte(e, i - 1) = Newline
      BY <3>2, ByteOutside
    <3> QED BY <2>5, <3>1, <3>3, <1>2, <1>3
  <2> QED BY <2>1, <2>2, <2>3, <2>4, <2>5, <1>2, <1>3
<1> QED BY <1>2, <1>3, <1>4 DEF Grown, d

LEMMA TakeBeforeShrinks ==
  ASSUME NEW e \in Edit, Blocks(e), e.curs1 > 0
  PROVE  Grown(TakeBefore(e), e, e.curs1 - 1, GetByte(e, e.curs1 - 1))
<1> DEFINE d == TakeBefore(e)
<1> HIDE DEF d
<1>1. /\ d \in Edit /\ Blocks(d) /\ SameAfter(e, d)
      /\ d.curs1 = e.curs1 - 1
      /\ \A i \in 0 .. e.curs1 - 2 : FromStart(d, i) = FromStart(e, i)
  BY TakeBeforeIs DEF d
<1>2. e.curs1 \in Nat /\ e.curs2 \in Nat /\ d.curs2 = e.curs2 /\ d.curs1 \in Nat
  BY <1>1, EditFields DEF SameAfter
<1>3. Size(e) = Size(d) + 1 /\ Size(d) \in Nat /\ Size(d) = d.curs1 + d.curs2
  BY <1>1, <1>2, SizeIs DEF Size
<1>4. ASSUME NEW i \in Int
      PROVE GetByte(e, i) = IF i < d.curs1 THEN GetByte(d, i)
                            ELSE IF i = d.curs1 THEN GetByte(e, d.curs1) ELSE GetByte(d, i - 1)
  <2>1. CASE i < 0 BY <2>1, <1>1, <1>2, ByteOutside
  <2>2. CASE i \in 0 .. d.curs1 - 1
    <3>1. i \in 0 .. e.curs1 - 1 /\ i \in 0 .. e.curs1 - 2
      BY <1>1, <1>2, <2>2
    <3> QED BY <2>2, <3>1, <1>1, <1>2, ByteBefore
  <2>3. CASE i = d.curs1
    BY <2>3, <1>2
  <2>4. CASE i > d.curs1 /\ i <= Size(d)
    <3>1. i \in e.curs1 .. Size(e) - 1 /\ i - 1 \in d.curs1 .. Size(d) - 1
      BY <1>1, <1>2, <1>3, <2>4
    <3>2. Size(e) - i - 1 = Size(d) - (i - 1) - 1
      BY <1>3
    <3>3. GetByte(e, i) = FromEnd(e, Size(e) - i - 1)
      BY <3>1, <1>1, ByteAfter
    <3>4. GetByte(d, i - 1) = FromEnd(d, Size(d) - (i - 1) - 1)
      BY <3>1, <1>1, ByteAfter
    <3>5. FromEnd(d, Size(e) - i - 1) = FromEnd(e, Size(e) - i - 1)
      BY <1>1, SameFromEnd
    <3> QED BY <2>4, <3>2, <3>3, <3>4, <3>5, <1>2
  <2>5. CASE i > Size(d)
    <3>1. GetByte(e, i) = Newline
      BY <2>5, <1>1, <1>3, ByteOutside
    <3>2. i - 1 \in Int /\ i - 1 >= Size(d)
      BY <2>5, <1>3
    <3>3. GetByte(d, i - 1) = Newline
      BY <3>2, <1>1, ByteOutside
    <3> QED BY <2>5, <3>1, <3>3, <1>2, <1>3
  <2> QED BY <2>1, <2>2, <2>3, <2>4, <2>5, <1>2, <1>3
<1>5. Grown(d, e, d.curs1, GetByte(e, d.curs1))
  BY <1>2, <1>3, <1>4 DEF Grown
<1> QED BY <1>1, <1>5 DEF d

LEMMA TakeAfterShrinks ==
  ASSUME NEW e \in Edit, Blocks(e), e.curs2 > 0
  PROVE  Grown(TakeAfter(e), e, e.curs1, GetByte(e, e.curs1))
<1> DEFINE d == TakeAfter(e)
<1> HIDE DEF d
<1>1. /\ d \in Edit /\ Blocks(d) /\ SameBefore(e, d)
      /\ d.curs2 = e.curs2 - 1
      /\ \A p \in 0 .. e.curs2 - 2 : FromEnd(d, p) = FromEnd(e, p)
  BY TakeAfterIs DEF d
<1>2. e.curs1 \in Nat /\ e.curs2 \in Nat /\ d.curs1 = e.curs1 /\ d.curs2 \in Nat
  BY <1>1, EditFields DEF SameBefore
<1>3. Size(e) = Size(d) + 1 /\ Size(d) \in Nat /\ Size(d) = d.curs1 + d.curs2
  BY <1>1, <1>2, SizeIs DEF Size
<1>4. ASSUME NEW i \in Int
      PROVE GetByte(e, i) = IF i < e.curs1 THEN GetByte(d, i)
                            ELSE IF i = e.curs1 THEN GetByte(e, e.curs1) ELSE GetByte(d, i - 1)
  <2>1. CASE i < 0 BY <2>1, <1>1, <1>2, ByteOutside
  <2>2. CASE i \in 0 .. e.curs1 - 1
    <3>1. i \in 0 .. d.curs1 - 1
      BY <1>1, <1>2, <2>2
    <3>2. FromStart(d, i) = FromStart(e, i)
      BY <1>1, SameFromStart
    <3> QED BY <2>2, <3>1, <3>2, <1>1, <1>2, ByteBefore
  <2>3. CASE i = e.curs1
    BY <2>3, <1>2
  <2>4. CASE i > e.curs1 /\ i <= Size(d)
    <3>1. i \in e.curs1 .. Size(e) - 1 /\ i - 1 \in d.curs1 .. Size(d) - 1
      BY <1>1, <1>2, <1>3, <2>4
    <3>2. Size(e) - i - 1 = Size(d) - (i - 1) - 1 /\ Size(e) - i - 1 \in 0 .. e.curs2 - 2
      BY <1>1, <1>2, <1>3, <2>4
    <3>3. GetByte(e, i) = FromEnd(e, Size(e) - i - 1)
      BY <3>1, <1>1, ByteAfter
    <3>4. GetByte(d, i - 1) = FromEnd(d, Size(d) - (i - 1) - 1)
      BY <3>1, <1>1, ByteAfter
    <3>5. FromEnd(d, Size(e) - i - 1) = FromEnd(e, Size(e) - i - 1)
      BY <1>1, <3>2
    <3> QED BY <2>4, <3>2, <3>3, <3>4, <3>5, <1>2
  <2>5. CASE i > Size(d)
    <3>1. GetByte(e, i) = Newline
      BY <2>5, <1>1, <1>3, ByteOutside
    <3>2. i - 1 \in Int /\ i - 1 >= Size(d)
      BY <2>5, <1>3
    <3>3. GetByte(d, i - 1) = Newline
      BY <3>2, <1>1, ByteOutside
    <3> QED BY <2>5, <3>1, <3>3, <1>2, <1>3
  <2> QED BY <2>1, <2>2, <2>3, <2>4, <2>5, <1>2, <1>3
<1>5. Grown(d, e, e.curs1, GetByte(e, e.curs1))
  BY <1>2, <1>3, <1>4 DEF Grown
<1> QED BY <1>5 DEF d

(***************************************************************************)
(* Counting lines                                                          *)
(***************************************************************************)

\* the end of a line at k counts
Ends(e, k) == k \in 0 .. e.last_byte - 1 /\ GetByte(e, k) = Newline

\* The lines counted up to k + 1 are those up to k and one more if k ends a
\* line.
LEMMA CountStep ==
  ASSUME NEW e, NEW k \in Nat
  PROVE  /\ CountLines(e, 0, 0) = 0
         /\ CountLines(e, 0, k) \in Nat
         /\ CountLines(e, 0, k + 1) = CountLines(e, 0, k) + One(Ends(e, k))
<1> DEFINE S(n) == {i \in 0 .. n - 1 : i \in 0 .. e.last_byte - 1 /\ GetByte(e, i) = Newline}
<1>1. \A n : CountLines(e, 0, n) = Cardinality(S(n))
  BY DEF CountLines
<1>2. IsFiniteSet(S(k)) /\ Cardinality(S(k)) \in Nat
  <2>1. IsFiniteSet(0 .. k - 1)
    BY FS_Interval
  <2>2. S(k) \subseteq 0 .. k - 1
    OBVIOUS
  <2> HIDE DEF S
  <2> QED BY <2>1, <2>2, FS_Subset, FS_CardinalityType
<1>3. S(0) = {}
  OBVIOUS
<1>4. CASE Ends(e, k)
  <2>1. S(k + 1) = S(k) \cup {k} /\ k \notin S(k)
    BY <1>4 DEF Ends
  <2> HIDE DEF S
  <2>2. Cardinality(S(k + 1)) = Cardinality(S(k)) + 1
    BY <1>2, <2>1, FS_AddElement
  <2> QED BY <1>1, <1>2, <1>3, <1>4, <2>2, FS_EmptySet DEF One
<1>5. CASE ~Ends(e, k)
  <2>1. S(k + 1) = S(k)
    BY <1>5 DEF Ends
  <2> HIDE DEF S
  <2> QED BY <1>1, <1>2, <1>3, <1>5, <2>1, FS_EmptySet DEF One
<1> QED BY <1>4, <1>5

\* More bytes have no fewer lines.
LEMMA CountMono ==
  ASSUME NEW e, NEW k \in Nat, NEW m \in Nat, k <= m
  PROVE  /\ CountLines(e, 0, k) <= CountLines(e, 0, m)
         /\ (\A i \in k .. m - 1 : ~Ends(e, i)) => CountLines(e, 0, m) = CountLines(e, 0, k)
<1> DEFINE C(n) == CountLines(e, 0, n)
<1> DEFINE T == {n \in Nat : /\ C(k) <= C(k + n)
                             /\ (\A i \in k .. k + n - 1 : ~Ends(e, i)) => C(k + n) = C(k)}
<1>1. \A n \in Nat : C(n) \in Nat /\ C(n + 1) = C(n) + One(Ends(e, n))
  BY CountStep
<1> HIDE DEF C
<1>2. 0 \in T
  BY <1>1
<1>3. ASSUME NEW n \in Nat, n \in T PROVE n + 1 \in T
  <2>1. C(k + n) \in Nat /\ C(k) \in Nat /\ C(k + n + 1) = C(k + n) + One(Ends(e, k + n)) /\ k + (n + 1) = k + n + 1
    BY <1>1
  <2>2. C(k) <= C(k + n) /\ ((\A i \in k .. k + n - 1 : ~Ends(e, i)) => C(k + n) = C(k))
    BY <1>3
  <2>3. C(k) <= C(k + (n + 1))
    BY <2>1, <2>2 DEF One
  <2>4. ASSUME \A i \in k .. k + (n + 1) - 1 : ~Ends(e, i) PROVE C(k + (n + 1)) = C(k)
    <3>1. ~Ends(e, k + n) /\ \A i \in k .. k + n - 1 : ~Ends(e, i)
      BY <2>4
    <3> QED BY <3>1, <2>1, <2>2 DEF One
  <2> QED BY <2>3, <2>4
<1>4. m - k \in T
  <2>1. m - k \in Nat
    OBVIOUS
  <2> HIDE DEF T
  <2> QED BY <1>2, <1>3, <2>1, Induct
<1>5. k + (m - k) = m
  OBVIOUS
<1>6. /\ C(k) <= C(k + (m - k))
      /\ (\A i \in k .. k + (m - k) - 1 : ~Ends(e, i)) => C(k + (m - k)) = C(k)
  BY <1>4
<1> QED BY <1>5, <1>6 DEF C

\* the same text has the same lines
LEMMA CountSame ==
  ASSUME NEW e, NEW d, d.last_byte = e.last_byte, \A i \in Int : GetByte(d, i) = GetByte(e, i)
  PROVE  \A k : CountLines(d, 0, k) = CountLines(e, 0, k)
<1> TAKE k
<1>1. {i \in 0 .. k - 1 : i \in 0 .. d.last_byte - 1 /\ GetByte(d, i) = Newline}
        = {i \in 0 .. k - 1 : i \in 0 .. e.last_byte - 1 /\ GetByte(e, i) = Newline}
  OBVIOUS
<1> QED BY <1>1 DEF CountLines

\* a byte more, and a line more if it is a newline
LEMMA CountGrown ==
  ASSUME NEW e \in Edit, NEW d, NEW p, NEW c, Grown(e, d, p, c),
         e.last_byte = Size(e), d.last_byte = Size(d)
  PROVE  /\ \A k \in 0 .. p : CountLines(d, 0, k) = CountLines(e, 0, k)
         /\ \A k \in p .. Size(e) : CountLines(d, 0, k + 1) = CountLines(e, 0, k) + One(c = Newline)
<1>1. p \in Nat /\ Size(e) \in Nat /\ p <= Size(e) /\ d.last_byte = e.last_byte + 1 /\ e.last_byte \in Nat
  BY SizeIs DEF Grown
<1>2. \A i \in Int : GetByte(d, i) = IF i < p THEN GetByte(e, i) ELSE IF i = p THEN c ELSE GetByte(e, i - 1)
  BY DEF Grown
<1>3. ASSUME NEW k \in 0 .. p PROVE CountLines(d, 0, k) = CountLines(e, 0, k)
  <2>1. {i \in 0 .. k - 1 : i \in 0 .. d.last_byte - 1 /\ GetByte(d, i) = Newline}
          = {i \in 0 .. k - 1 : i \in 0 .. e.last_byte - 1 /\ GetByte(e, i) = Newline}
    <3>1. ASSUME NEW i \in 0 .. k - 1
          PROVE i \in 0 .. d.last_byte - 1 /\ i \in 0 .. e.last_byte - 1 /\ GetByte(d, i) = GetByte(e, i)
      BY <1>1, <1>2
    <3> QED BY <3>1
  <2> QED BY <2>1 DEF CountLines
<1>4. ASSUME NEW k \in p .. Size(e)
      PROVE  CountLines(d, 0, k + 1) = CountLines(e, 0, k) + One(c = Newline)
  <2> DEFINE Cd(n) == CountLines(d, 0, n)
  <2> DEFINE Ce(n) == CountLines(e, 0, n)
  <2> DEFINE T == {n \in Nat : Cd(p + n + 1) = Ce(p + n) + One(c = Newline)}
  <2>1. \A n \in Nat : Cd(n) \in Nat /\ Cd(n + 1) = Cd(n) + One(Ends(d, n))
    BY CountStep
  <2>2. \A n \in Nat : Ce(n) \in Nat /\ Ce(n + 1) = Ce(n) + One(Ends(e, n))
    BY CountStep
  <2>3. Cd(p) = Ce(p)
    BY <1>1, <1>3
  <2> HIDE DEF Cd, Ce
  <2>4. 0 \in T
    <3>1. Ends(d, p) <=> c = Newline
      BY <1>1, <1>2 DEF Ends
    <3>2. Cd(p + 1) = Cd(p) + One(Ends(d, p)) /\ Ce(p) \in Nat
      BY <1>1, <2>1, <2>2
    <3>3. One(Ends(d, p)) = One(c = Newline)
      BY <3>1 DEF One
    <3> QED BY <3>2, <3>3, <2>3, <1>1
  <2>5. ASSUME NEW n \in Nat, n \in T PROVE n + 1 \in T
    <3> DEFINE m == p + n
    <3>1. m \in Nat /\ m >= p /\ Cd(m + 1) = Ce(m) + One(c = Newline)
      BY <2>5, <1>1
    <3> HIDE DEF m
    <3>2. Ends(d, m + 1) <=> Ends(e, m)
      <4>1. GetByte(d, m + 1) = GetByte(e, m)
        BY <1>1, <1>2, <3>1
      <4> QED BY <4>1, <1>1, <3>1 DEF Ends
    <3>3. One(Ends(d, m + 1)) = One(Ends(e, m)) /\ One(c = Newline) \in Nat /\ One(Ends(e, m)) \in Nat
      BY <3>2 DEF One
    <3>4. Cd(m + 1 + 1) = Cd(m + 1) + One(Ends(d, m + 1)) /\ Ce(m + 1) = Ce(m) + One(Ends(e, m)) /\ Ce(m) \in Nat
      BY <3>1, <2>1, <2>2
    <3>5. Cd(m + 1 + 1) = Ce(m + 1) + One(c = Newline)
      BY <3>1, <3>3, <3>4
    <3>6. p + (n + 1) = m + 1 /\ p + (n + 1) + 1 = m + 1 + 1
      BY <1>1 DEF m
    <3> QED BY <3>5, <3>6
  <2>6. k - p \in T
    <3>1. k - p \in Nat
      BY <1>1
    <3> HIDE DEF T
    <3> QED BY <2>4, <2>5, <3>1, Induct
  <2>7. p + (k - p) = k /\ p + (k - p) + 1 = k + 1
    BY <1>1
  <2>8. Cd(p + (k - p) + 1) = Ce(p + (k - p)) + One(c = Newline)
    BY <2>6
  <2> QED BY <2>7, <2>8 DEF Cd, Ce
<1> QED BY <1>3, <1>4

(***************************************************************************)
(* Ends and beginnings of lines                                            *)
(***************************************************************************)

\* a line begins at o
LineStart(e, o) == o \in 0 .. e.last_byte /\ GetByte(e, o - 1) = Newline

\* edit_bol answers the beginning of the line.
LEMMA BolIs ==
  ASSUME NEW e \in Edit, NEW i \in Nat
  PROVE  /\ Bol(e, i) \in 0 .. i /\ GetByte(e, Bol(e, i) - 1) = Newline
         /\ \A k \in Bol(e, i) .. i - 1 : GetByte(e, k) # Newline
<1>1. CASE i = 0
  <2>1. Bol(e, i) = 0
    BY <1>1 DEF Bol
  <2>2. GetByte(e, 0 - 1) = Newline
    BY ByteOutside
  <2> QED BY <1>1, <2>1, <2>2
<1>2. CASE i > 0
  <2> DEFINE S == {j \in 0 .. i : GetByte(e, j - 1) = Newline}
  <2>1. S \in SUBSET Int /\ \A x \in S : x <= i
    OBVIOUS
  <2>2. 0 \in S
    BY ByteOutside
  <2>3. Bol(e, i) = Greatest(S)
    BY <1>2 DEF Bol
  <2>4. Greatest(S) \in S /\ \A y \in S : Greatest(S) >= y
    <3>1. S # {} /\ i \in Int
      BY <2>2
    <3> HIDE DEF S
    <3> QED BY <2>1, <3>1, GreatestIs
  <2>5. ASSUME NEW k \in Bol(e, i) .. i - 1 PROVE GetByte(e, k) # Newline
    <3>1. k + 1 \in 0 .. i /\ k + 1 > Greatest(S) /\ (k + 1) - 1 = k
      BY <2>3, <2>4
    <3>2. k + 1 \notin S
      <4>1. Greatest(S) \in Int
        BY <2>4
      <4> HIDE DEF S
      <4>2. ASSUME k + 1 \in S PROVE FALSE
        <5>1. Greatest(S) >= k + 1
          BY <4>2, <2>4
        <5> QED BY <5>1, <4>1, <3>1
      <4> QED BY <4>2
    <3> QED BY <3>1, <3>2
  <2> QED BY <2>3, <2>4, <2>5
<1> QED BY <1>1, <1>2

LEMMA BolInt ==
  ASSUME NEW e \in Edit, NEW i \in Int
  PROVE  Bol(e, i) \in Nat /\ (i <= 0 => Bol(e, i) = 0) /\ (i >= 0 => Bol(e, i) <= i)
<1>1. CASE i <= 0 BY <1>1 DEF Bol
<1>2. CASE i > 0
  <2>1. i \in Nat
    BY <1>2
  <2> QED BY <1>2, <2>1, BolIs
<1> QED BY <1>1, <1>2

LEMMA BolOfStart ==
  ASSUME NEW e \in Edit, NEW o, LineStart(e, o)
  PROVE  Bol(e, o) = o
<1>1. o \in Nat /\ GetByte(e, o - 1) = Newline
  BY EditFields DEF LineStart
<1>2. /\ Bol(e, o) \in 0 .. o
      /\ \A k \in Bol(e, o) .. o - 1 : GetByte(e, k) # Newline
  BY <1>1, BolIs
<1> QED BY <1>1, <1>2

\* No line ends between its beginning and a place in it.
LEMMA BolCount ==
  ASSUME NEW e \in Edit, NEW i \in 0 .. e.last_byte
  PROVE  LineStart(e, Bol(e, i)) /\ CountLines(e, 0, Bol(e, i)) = CountLines(e, 0, i)
<1>1. i \in Nat /\ e.last_byte \in Nat
  BY EditFields
<1>2. /\ Bol(e, i) \in 0 .. i /\ GetByte(e, Bol(e, i) - 1) = Newline
      /\ \A k \in Bol(e, i) .. i - 1 : GetByte(e, k) # Newline
  BY <1>1, BolIs
<1>3. \A k \in Bol(e, i) .. i - 1 : ~Ends(e, k)
  BY <1>2 DEF Ends
<1>4. Bol(e, i) \in Nat /\ Bol(e, i) <= i
  BY <1>2
<1> QED BY <1>1, <1>2, <1>3, <1>4, CountMono DEF LineStart

\* edit_eol answers the end of the line.
LEMMA EolIs ==
  ASSUME NEW e \in Edit, e.last_byte = Size(e), NEW i \in 0 .. e.last_byte
  PROVE  /\ Eol(e, i) \in i .. e.last_byte
         /\ \A k \in i .. Eol(e, i) - 1 : GetByte(e, k) # Newline
         /\ Eol(e, i) < e.last_byte => GetByte(e, Eol(e, i)) = Newline
<1>0. e.last_byte \in Nat
  BY EditFields
<1>1. CASE i = e.last_byte
  BY <1>0, <1>1 DEF Eol
<1>2. CASE i < e.last_byte
  <2> DEFINE S == {j \in i .. Size(e) : GetByte(e, j) = Newline}
  <2>1. S \in SUBSET Int /\ \A x \in S : x >= i
    OBVIOUS
  <2>2. Size(e) \in S
    BY <1>0, <1>2, ByteOutside
  <2>3. Eol(e, i) = Least(S)
    BY <1>0, <1>2 DEF Eol
  <2>4. Least(S) \in S /\ \A y \in S : Least(S) <= y
    <3> HIDE DEF S
    <3> QED BY <2>1, <2>2, LeastIs
  <2>5. ASSUME NEW k \in i .. Eol(e, i) - 1 PROVE GetByte(e, k) # Newline
    <3>1. k \in i .. Size(e) /\ k < Least(S)
      BY <2>3, <2>4, <1>0
    <3>2. k \notin S
      <4>1. Least(S) \in Int
        BY <2>4
      <4> HIDE DEF S
      <4>2. ASSUME k \in S PROVE FALSE
        <5>1. Least(S) <= k
          BY <4>2, <2>4
        <5> QED BY <5>1, <4>1, <3>1
      <4> QED BY <4>2
    <3> QED BY <3>1, <3>2
  <2> QED BY <2>3, <2>4, <2>5
<1> QED BY <1>0, <1>1, <1>2

LEMMA EolInt ==
  ASSUME NEW e \in Edit, e.last_byte = Size(e), NEW i \in Nat
  PROVE  Eol(e, i) \in 0 .. e.last_byte
<1>1. e.last_byte \in Nat
  BY EditFields
<1>2. CASE i >= e.last_byte BY <1>1, <1>2 DEF Eol
<1>3. CASE i < e.last_byte
  <2>1. i \in 0 .. e.last_byte
    BY <1>1, <1>3
  <2> QED BY <1>1, <2>1, EolIs
<1> QED BY <1>1, <1>2, <1>3

\* the next line, if there is one
LEMMA NextLine ==
  ASSUME NEW e \in Edit, e.last_byte = Size(e), NEW i \in 0 .. e.last_byte,
         CountLines(e, 0, i) < CountLines(e, 0, e.last_byte)
  PROVE  /\ Eol(e, i) + 1 <= e.last_byte /\ LineStart(e, Eol(e, i) + 1)
         /\ CountLines(e, 0, Eol(e, i) + 1) = CountLines(e, 0, i) + 1
<1> DEFINE j == Eol(e, i)
<1>1. /\ j \in i .. e.last_byte
      /\ \A k \in i .. j - 1 : GetByte(e, k) # Newline
      /\ j < e.last_byte => GetByte(e, j) = Newline
  BY EolIs
<1> HIDE DEF j
<1>2. j \in Nat /\ i \in Nat /\ i <= j /\ e.last_byte \in Nat
  BY <1>1, EditFields
<1>3. \A k \in i .. j - 1 : ~Ends(e, k)
  BY <1>1 DEF Ends
<1>4. CountLines(e, 0, j) = CountLines(e, 0, i)
  BY <1>2, <1>3, CountMono
<1>5. CountLines(e, 0, i) \in Nat /\ CountLines(e, 0, j + 1) = CountLines(e, 0, j) + One(Ends(e, j))
  BY <1>2, CountStep
<1>6. j < e.last_byte
  BY <1>1, <1>4, <1>5, EditFields
<1>7. GetByte(e, (j + 1) - 1) = Newline /\ Ends(e, j)
  BY <1>1, <1>2, <1>6 DEF Ends
<1> QED BY <1>2, <1>4, <1>5, <1>6, <1>7 DEF j, LineStart, One

\* Each step of edit_move_forward goes to the next beginning of a line.
LEMMA MoveForwardSteps ==
  ASSUME NEW e \in Edit, e.last_byte = Size(e), NEW i \in 0 .. e.last_byte, NEW lines \in Nat
  PROVE  \E g : /\ g[0] = i /\ MoveForward(e, i, lines) = g[lines]
                /\ \A n \in 1 .. lines : g[n] = IF Eol(e, g[n - 1]) + 1 > e.last_byte THEN g[n - 1]
                                                ELSE Eol(e, g[n - 1]) + 1
<1> DEFINE S == 0 .. e.last_byte
<1> DEFINE Then(x) == IF Eol(e, x) + 1 > e.last_byte THEN x ELSE Eol(e, x) + 1
<1> DEFINE F == [n \in 1 .. lines |-> [x \in S |-> Then(x)]]
<1>1. ASSUME NEW x \in S PROVE Then(x) \in S
  <2>1. Eol(e, x) \in 0 .. e.last_byte /\ e.last_byte \in Nat
    <3>1. x \in Nat
      OBVIOUS
    <3> QED BY <3>1, EolInt, EditFields
  <2> QED BY <2>1
<1>2. i \in S
  OBVIOUS
<1> HIDE DEF S, Then
<1>3. IsSteps(F, lines, S)
  BY <1>1 DEF IsSteps
<1>4. PICK g : IsRun(g, F, lines, S, i)
  <2> HIDE DEF F
  <2> QED BY <1>2, <1>3, Run
<1>5. g \in [0 .. lines -> S] /\ g[0] = i /\ \A k \in 1 .. lines : g[k] = Then(g[k - 1])
  <2>1. \A k \in 1 .. lines : \A x \in S : F[k][x] = Then(x)
    OBVIOUS
  <2> HIDE DEF F
  <2>2. g \in [0 .. lines -> S] /\ g[0] = i /\ \A k \in 1 .. lines : g[k] = F[k][g[k - 1]]
    BY <1>4 DEF IsRun
  <2>3. \A k \in 1 .. lines : g[k - 1] \in S
    BY <2>2
  <2> QED BY <2>1, <2>2, <2>3
<1> DEFINE H(f) == f = [n \in 0 .. lines |-> IF n = 0 THEN i ELSE Then(f[n - 1])]
<1> DEFINE go == CHOOSE f : H(f)
<1>6. H(g)
  BY <1>5
<1>7. H(go)
  <2> HIDE DEF H
  <2> QED BY <1>6
<1>8. MoveForward(e, i, lines) = go[lines]
  BY DEF MoveForward, Then
<1> HIDE DEF go
<1>9. go[0] = i /\ \A k \in 1 .. lines : go[k] = Then(go[k - 1])
  BY <1>7
<1> QED BY <1>8, <1>9 DEF Then

\* edit_move_forward ends at the line so many lines on.
LEMMA MoveForwardIs ==
  ASSUME NEW e \in Edit, e.last_byte = Size(e), NEW i \in 0 .. e.last_byte, NEW lines \in Nat,
         CountLines(e, 0, i) + lines <= CountLines(e, 0, e.last_byte)
  PROVE  LET j == MoveForward(e, i, lines)
         IN /\ j \in 0 .. e.last_byte
            /\ CountLines(e, 0, j) = CountLines(e, 0, i) + lines
            /\ LineStart(e, i) \/ lines > 0 => LineStart(e, j)
<1> DEFINE n == CountLines(e, 0, i)
<1>1. PICK g : /\ g[0] = i /\ MoveForward(e, i, lines) = g[lines]
               /\ \A k \in 1 .. lines : g[k] = IF Eol(e, g[k - 1]) + 1 > e.last_byte THEN g[k - 1]
                                               ELSE Eol(e, g[k - 1]) + 1
  BY MoveForwardSteps
<1>2. e.last_byte \in Nat /\ n \in Nat /\ CountLines(e, 0, e.last_byte) \in Nat
      /\ n + lines <= CountLines(e, 0, e.last_byte)
  <2>1. e.last_byte \in Nat
    BY EditFields
  <2>2. i \in Nat
    BY <2>1
  <2> QED BY <2>1, <2>2, CountStep
<1> HIDE DEF n
<1> DEFINE Good(k) == /\ g[k] \in 0 .. e.last_byte /\ CountLines(e, 0, g[k]) = n + k
                      /\ LineStart(e, i) \/ k > 0 => LineStart(e, g[k])
<1> DEFINE T == {k \in 0 .. lines : Good(k)}
<1>3. 0 \in T
  BY <1>1, <1>2 DEF n
<1>4. ASSUME NEW k \in 1 .. lines, k - 1 \in T PROVE k \in T
  <2>1. g[k - 1] \in 0 .. e.last_byte /\ CountLines(e, 0, g[k - 1]) = n + (k - 1)
    BY <1>4
  <2> DEFINE x == g[k - 1]
  <2>2. x \in 0 .. e.last_byte /\ CountLines(e, 0, x) < CountLines(e, 0, e.last_byte)
    BY <1>2, <2>1
  <2> HIDE DEF x
  <2>3. /\ Eol(e, x) + 1 <= e.last_byte /\ LineStart(e, Eol(e, x) + 1)
        /\ CountLines(e, 0, Eol(e, x) + 1) = CountLines(e, 0, x) + 1
    BY <2>2, NextLine
  <2>4. Eol(e, x) \in x .. e.last_byte
    BY <2>2, EolIs
  <2>5. g[k] = Eol(e, x) + 1
    <3>1. ~(Eol(e, x) + 1 > e.last_byte)
      BY <1>2, <2>2, <2>3, <2>4
    <3> QED BY <1>1, <3>1 DEF x
  <2>6. g[k] \in 0 .. e.last_byte
    BY <1>2, <2>2, <2>3, <2>4, <2>5
  <2>7. CountLines(e, 0, g[k]) = n + k
    BY <1>2, <2>1, <2>3, <2>5 DEF x
  <2>8. LineStart(e, g[k])
    BY <2>3, <2>5
  <2> QED BY <2>6, <2>7, <2>8
<1>5. lines \in T
  <2> HIDE DEF T
  <2>1. \A k \in 0 .. lines : k \in T
    BY <1>3, <1>4, Along
  <2> QED BY <2>1
<1> QED BY <1>1, <1>5 DEF n

LEMMA MoveBackwardSteps ==
  ASSUME NEW e \in Edit, NEW i \in Nat, NEW lines \in Nat
  PROVE  \E g : /\ g[0] = Bol(e, i) /\ MoveBackward(e, i, lines) = g[lines]
                /\ \A n \in 1 .. lines : g[n] = IF g[n - 1] = 0 THEN 0 ELSE Bol(e, g[n - 1] - 1)
<1> DEFINE Then(x) == IF x = 0 THEN 0 ELSE Bol(e, x - 1)
<1> DEFINE F == [n \in 1 .. lines |-> [x \in Nat |-> Then(x)]]
<1>1. ASSUME NEW x \in Nat PROVE Then(x) \in Nat
  <2>1. x - 1 \in Int
    OBVIOUS
  <2> QED BY <2>1, BolInt
<1>2. Bol(e, i) \in Nat
  BY BolInt
<1> HIDE DEF Then
<1>3. IsSteps(F, lines, Nat)
  BY <1>1 DEF IsSteps
<1>4. PICK g : IsRun(g, F, lines, Nat, Bol(e, i))
  <2> HIDE DEF F
  <2> QED BY <1>2, <1>3, Run
<1>5. g \in [0 .. lines -> Nat] /\ g[0] = Bol(e, i) /\ \A k \in 1 .. lines : g[k] = Then(g[k - 1])
  <2>1. \A k \in 1 .. lines : \A x \in Nat : F[k][x] = Then(x)
    OBVIOUS
  <2> HIDE DEF F
  <2>2. g \in [0 .. lines -> Nat] /\ g[0] = Bol(e, i) /\ \A k \in 1 .. lines : g[k] = F[k][g[k - 1]]
    BY <1>4 DEF IsRun
  <2>3. \A k \in 1 .. lines : g[k - 1] \in Nat
    BY <2>2
  <2> QED BY <2>1, <2>2, <2>3
<1> DEFINE H(f) == f = [n \in 0 .. lines |-> IF n = 0 THEN Bol(e, i) ELSE Then(f[n - 1])]
<1> DEFINE go == CHOOSE f : H(f)
<1>6. H(g)
  BY <1>5
<1>7. H(go)
  <2> HIDE DEF H
  <2> QED BY <1>6
<1>8. MoveBackward(e, i, lines) = go[lines]
  BY DEF MoveBackward, Then
<1> HIDE DEF go
<1>9. go[0] = Bol(e, i) /\ \A k \in 1 .. lines : go[k] = Then(go[k - 1])
  BY <1>7
<1> QED BY <1>8, <1>9 DEF Then

\* edit_move_backward ends at the line so many lines back.
LEMMA MoveBackwardIs ==
  ASSUME NEW e \in Edit, NEW i \in 0 .. e.last_byte, NEW lines \in Nat, lines <= CountLines(e, 0, i)
  PROVE  LET j == MoveBackward(e, i, lines)
         IN LineStart(e, j) /\ CountLines(e, 0, j) = CountLines(e, 0, i) - lines
<1> DEFINE n == CountLines(e, 0, i)
<1>0. i \in Nat /\ n \in Nat
  BY CountStep, EditFields
<1>1. PICK g : /\ g[0] = Bol(e, i) /\ MoveBackward(e, i, lines) = g[lines]
               /\ \A k \in 1 .. lines : g[k] = IF g[k - 1] = 0 THEN 0 ELSE Bol(e, g[k - 1] - 1)
  BY <1>0, MoveBackwardSteps
<1>2. lines <= n
  OBVIOUS
<1> HIDE DEF n
<1> DEFINE T == {k \in 0 .. lines : LineStart(e, g[k]) /\ CountLines(e, 0, g[k]) = n - k}
<1>3. 0 \in T
  BY <1>0, <1>1, BolCount DEF n
<1>4. ASSUME NEW k \in 1 .. lines, k - 1 \in T PROVE k \in T
  <2> DEFINE x == g[k - 1]
  <2>1. LineStart(e, x) /\ CountLines(e, 0, x) = n - (k - 1)
    BY <1>4
  <2>2. g[k] = IF x = 0 THEN 0 ELSE Bol(e, x - 1)
    BY <1>1
  <2> HIDE DEF x
  <2>3. x # 0
    <3>1. CountLines(e, 0, 0) = 0
      BY CountStep
    <3> QED BY <1>0, <1>2, <2>1, <3>1
  <2> DEFINE y == x - 1
  <2>4. x \in Nat /\ y \in 0 .. e.last_byte - 1 /\ GetByte(e, y) = Newline /\ e.last_byte \in Nat
    BY <2>1, <2>3, EditFields DEF LineStart
  <2>5. Ends(e, y) /\ y \in Nat /\ y \in 0 .. e.last_byte /\ y + 1 = x
    BY <2>4 DEF Ends
  <2> HIDE DEF y
  <2>6. CountLines(e, 0, y) \in Nat /\ CountLines(e, 0, y + 1) = CountLines(e, 0, y) + 1
    BY <2>5, CountStep DEF One
  <2>7. LineStart(e, Bol(e, y)) /\ CountLines(e, 0, Bol(e, y)) = CountLines(e, 0, y)
    BY <2>5, BolCount
  <2>8. g[k] = Bol(e, y)
    BY <2>2, <2>3 DEF y
  <2>9. CountLines(e, 0, y) = n - k
    BY <1>0, <2>1, <2>5, <2>6
  <2> QED BY <2>7, <2>8, <2>9
<1>5. lines \in T
  <2> HIDE DEF T
  <2>1. \A k \in 0 .. lines : k \in T
    BY <1>3, <1>4, Along
  <2> QED BY <2>1
<1> QED BY <1>1, <1>5 DEF n

(***************************************************************************)
(* What holds of the editor between two routines                           *)
(***************************************************************************)

Sound(e) == e \in Edit /\ Blocks(e) /\ e.last_byte = Size(e) /\ e.last_byte <= SIZE_LIMIT

Counted(e) ==
  /\ e.curs_line = CountLines(e, 0, e.curs1)
  /\ e.total_lines = CountLines(e, 0, e.last_byte)
  /\ e.start_display \in 0 .. e.last_byte
  /\ e.start_line = CountLines(e, 0, e.start_display)

\* what is remembered of line x
Known(e, x) == LineStart(e, e.offsets[x]) /\ e.numbers[x] = CountLines(e, 0, e.offsets[x])
Cached(e) == e.valid => \A x \in 0 .. N_LINE_CACHES - 1 : Known(e, x)

Sorted(marks) ==
  /\ \A p, q \in 1 .. Len(marks) : p < q => marks[p].line <= marks[q].line
  /\ \A p \in 1 .. Len(marks) : (marks[p].line = -1) <=> (p = 1)
  /\ marks[1].c = "none"
Marked(e) == e.marks # <<>> => e.at \in 1 .. Len(e.marks) /\ Sorted(e.marks)

True(e) == Sound(e) /\ Counted(e) /\ Cached(e) /\ Marked(e)

LEMMA SoundFields ==
  ASSUME NEW e, Sound(e)
  PROVE  /\ e \in Edit /\ Blocks(e) /\ e.last_byte = Size(e)
         /\ e.last_byte \in Nat /\ e.last_byte <= SIZE_LIMIT
         /\ e.curs1 \in 0 .. e.last_byte /\ e.curs2 \in 0 .. e.last_byte
         /\ e.last_byte = e.curs1 + e.curs2
         /\ \A k \in Nat : CountLines(e, 0, k) \in Nat
<1>1. e \in Edit
  BY DEF Sound
<1> QED BY <1>1, EditFields, CountStep DEF Sound, Size

\* The same text has the same lines, at the same places.
LEMMA SameTextLines ==
  ASSUME NEW e \in Edit, NEW d, SameText(e, d), d.last_byte = e.last_byte
  PROVE  /\ \A k : CountLines(d, 0, k) = CountLines(e, 0, k)
         /\ \A o : LineStart(d, o) <=> LineStart(e, o)
<1>1. \A i \in Int : GetByte(d, i) = GetByte(e, i)
  BY DEF SameText
<1>2. \A k : CountLines(d, 0, k) = CountLines(e, 0, k)
  BY <1>1, CountSame
<1>3. ASSUME NEW o PROVE LineStart(d, o) <=> LineStart(e, o)
  <2>1. CASE o \in 0 .. e.last_byte
    <3>1. o - 1 \in Int
      BY <2>1, EditFields
    <3> QED BY <2>1, <3>1, <1>1 DEF LineStart
  <2>2. CASE o \notin 0 .. e.last_byte
    BY <2>2 DEF LineStart
  <2> QED BY <2>1, <2>2
<1> QED BY <1>2, <1>3

(***************************************************************************)
(* Lines looked up                                                         *)
(***************************************************************************)

SameButCache(e, d) ==
  /\ SameBlocks(e, d) /\ d.last_byte = e.last_byte
  /\ SameLines(e, d) /\ SameScreen(e, d) /\ SameMarks(e, d) /\ SameRules(e, d)

\* d is e with these lines remembered
Recalled(e, d, v, N, O) == d = [e EXCEPT !.valid = v, !.numbers = N, !.offsets = O]

LEMMA RecalledIs ==
  ASSUME NEW e \in Edit, NEW d, NEW v \in BOOLEAN,
         NEW N \in [0 .. N_LINE_CACHES - 1 -> Int], NEW O \in [0 .. N_LINE_CACHES - 1 -> Int],
         Recalled(e, d, v, N, O)
  PROVE  d \in Edit /\ SameButCache(e, d) /\ d.numbers = N /\ d.offsets = O
<1>1. /\ d \in Edit /\ d.numbers = N /\ d.offsets = O
      /\ d.buffers1 = e.buffers1 /\ d.curs1 = e.curs1 /\ d.buffers2 = e.buffers2 /\ d.curs2 = e.curs2
      /\ d.last_byte = e.last_byte /\ d.curs_line = e.curs_line /\ d.total_lines = e.total_lines
      /\ d.start_display = e.start_display /\ d.start_line = e.start_line
      /\ d.marks = e.marks /\ d.at = e.at /\ d.rule = e.rule /\ d.last = e.last /\ d.markers = e.markers
  BY DEF Recalled, Edit
<1> QED
  BY <1>1 DEF SameButCache, SameBlocks, SameLines, SameScreen, SameMarks, SameRules

\* The cache that is filled in knows the truth of every line in it.
LEMMA FilledIs ==
  ASSUME NEW e, Sound(e), Counted(e), Cached(e)
  PROVE  LET d == Filled(e)
         IN d \in Edit /\ SameButCache(e, d) /\ \A x \in 0 .. N_LINE_CACHES - 1 : Known(d, x)
<1> DEFINE d == Filled(e)
<1> DEFINE X == 0 .. N_LINE_CACHES - 1
<1>0. e \in Edit /\ e.last_byte \in Nat /\ e.curs1 \in 0 .. e.last_byte /\ e.last_byte \in 0 .. e.last_byte
  BY SoundFields
<1>1. CASE e.valid
  <2>1. d = e
    BY <1>1 DEF Filled
  <2> QED BY <1>0, <1>1, <2>1
          DEF Cached, SameButCache, SameBlocks, SameLines, SameScreen, SameMarks, SameRules
<1>2. CASE ~e.valid
  <2> DEFINE N == [x \in X |-> IF x = 1 THEN e.curs_line ELSE IF x = 2 THEN e.total_lines ELSE 0]
  <2> DEFINE O == [x \in X |-> IF x = 1 THEN Bol(e, e.curs1) ELSE IF x = 2 THEN Bol(e, e.last_byte) ELSE 0]
  <2>1. DOMAIN e.numbers = X /\ DOMAIN e.offsets = X
    BY <1>0, EditFields
  <2>2. d = [e EXCEPT !.valid = TRUE, !.numbers = N, !.offsets = O]
    <3> DEFINE V(x) == CASE x = 1 -> <<e.curs_line, Bol(e, e.curs1)>>
                         [] x = 2 -> <<e.total_lines, Bol(e, e.last_byte)>>
                         [] OTHER -> <<0, 0>>
    <3>1. d = [e EXCEPT !.valid = TRUE, !.numbers = [x \in DOMAIN @ |-> V(x)[1]],
                        !.offsets = [x \in DOMAIN @ |-> V(x)[2]]]
      BY <1>2, Zenon DEF Filled
    <3>2. ASSUME NEW x \in X PROVE V(x)[1] = N[x] /\ V(x)[2] = O[x]
      <4>1. CASE x = 1 BY <4>1
      <4>2. CASE x = 2 BY <4>2
      <4>3. CASE x # 1 /\ x # 2 BY <4>3
      <4> QED BY <4>1, <4>2, <4>3
    <3> HIDE DEF V, d
    <3>3. N = [x \in X |-> V(x)[1]] /\ O = [x \in X |-> V(x)[2]]
      BY <3>2
    <3> HIDE DEF N, O
    <3> QED BY <2>1, <3>1, <3>3
  <2>3. e.curs_line \in Int /\ e.total_lines \in Int /\ Bol(e, e.curs1) \in Nat /\ Bol(e, e.last_byte) \in Nat
    <3>1. e.curs1 \in Int /\ e.last_byte \in Int
      BY <1>0
    <3> QED BY <1>0, <3>1, EditFields, BolInt
  <2>4. N \in [X -> Int] /\ O \in [X -> Int]
    BY <2>3
  <2>5. \A x \in X : LineStart(e, O[x]) /\ N[x] = CountLines(e, 0, O[x])
    <3>1. LineStart(e, Bol(e, e.curs1)) /\ CountLines(e, 0, Bol(e, e.curs1)) = e.curs_line
      BY <1>0, BolCount DEF Counted
    <3>2. LineStart(e, Bol(e, e.last_byte)) /\ CountLines(e, 0, Bol(e, e.last_byte)) = e.total_lines
      BY <1>0, BolCount DEF Counted
    <3>3. LineStart(e, 0) /\ CountLines(e, 0, 0) = 0
      BY <1>0, ByteOutside, CountStep DEF LineStart
    <3> QED BY <3>1, <3>2, <3>3
  <2> HIDE DEF N, O
  <2>6. Recalled(e, d, TRUE, N, O)
    BY <2>2, Zenon DEF Recalled
  <2> HIDE DEF d
  <2>7. d \in Edit /\ SameButCache(e, d) /\ d.numbers = N /\ d.offsets = O
    BY <1>0, <2>4, <2>6, RecalledIs
  <2>8. SameText(e, d) /\ d.last_byte = e.last_byte
    BY <2>7, SameBlocksText DEF SameButCache
  <2>9. \A x \in X : Known(d, x)
    <3> TAKE x \in X
    <3>1. LineStart(d, O[x]) /\ N[x] = CountLines(d, 0, O[x])
      BY <1>0, <2>5, <2>8, SameTextLines
    <3> QED BY <2>7, <3>1 DEF Known
  <2> QED BY <2>7, <2>9 DEF d
<1> QED BY <1>1, <1>2

LEMMA FindLineParts ==
  ASSUME NEW e, NEW line, NEW slot
  PROVE  LET k == Filled(e)
             j == Nearest(k, line)
             i == IF LinesTo(k, j, line) = 1 /\ j >= 3 THEN j ELSE slot
         IN FindLine(e, line, slot)
              = IF line >= e.total_lines \/ line <= 0 \/ LinesTo(k, j, line) = 0 THEN k
                ELSE [k EXCEPT !.offsets[i] = Reached(k, line, j), !.numbers[i] = line]
BY Zenon DEF FindLine

LEMMA NearestIs ==
  ASSUME NEW k \in Edit, NEW line \in Int
  PROVE  Nearest(k, line) \in 0 .. N_LINE_CACHES - 1
<1> DEFINE X == 0 .. N_LINE_CACHES - 1
<1> DEFINE S == {x \in X : \A y \in X : LinesTo(k, x, line) <= LinesTo(k, y, line)}
<1>1. \A x \in X : LinesTo(k, x, line) \in Nat
  <2>1. \A x \in X : k.numbers[x] \in Int
    BY EditFields
  <2> QED BY <2>1 DEF LinesTo
<1>2. Nearest(k, line) = Least(S)
  <2>1. DOMAIN k.numbers = X
    BY EditFields
  <2> QED BY <2>1 DEF Nearest
<1>3. S # {}
  <2> DEFINE D == {LinesTo(k, x, line) : x \in X}
  <2>1. D \in SUBSET Nat
    BY <1>1
  <2>2. D # {}
    <3>1. 0 \in X
      BY TextAssumption
    <3> QED BY <3>1
  <2>3. PICK m \in D : \A y \in D : m <= y
    <3> HIDE DEF D
    <3> QED BY <2>1, <2>2, LeastNat
  <2>4. PICK x \in X : m = LinesTo(k, x, line)
    BY <2>3
  <2>5. \A y \in X : LinesTo(k, y, line) \in D
    OBVIOUS
  <2> HIDE DEF D
  <2>6. x \in S
    BY <2>3, <2>4, <2>5
  <2> QED BY <2>6
<1>4. S \in SUBSET Int /\ \A x \in S : x >= 0
  OBVIOUS
<1>5. S \subseteq X
  OBVIOUS
<1> HIDE DEF S
<1>6. Least(S) \in S
  BY <1>3, <1>4, LeastIs
<1> QED BY <1>2, <1>5, <1>6

LEMMA OneChanged ==
  ASSUME NEW X, NEW f \in [X -> Int], NEW i \in X, NEW v \in Int
  PROVE  LET g == [f EXCEPT ![i] = v]
         IN g \in [X -> Int] /\ \A x \in X : g[x] = IF x = i THEN v ELSE f[x]
OBVIOUS

\* What edit_find_line leaves in the cache is true, whichever slot it takes.
LEMMA FindLineIs ==
  ASSUME NEW e, Sound(e), Counted(e), Cached(e),
         NEW line \in Nat, NEW slot \in 3 .. N_LINE_CACHES - 1
  PROVE  LET d == FindLine(e, line, slot)
         IN d \in Edit /\ SameButCache(e, d) /\ \A x \in 0 .. N_LINE_CACHES - 1 : Known(d, x)
<1> DEFINE k == Filled(e)
<1> DEFINE j == Nearest(k, line)
<1> DEFINE n == LinesTo(k, j, line)
<1> DEFINE i == IF n = 1 /\ j >= 3 THEN j ELSE slot
<1> DEFINE there == Reached(k, line, j)
<1> DEFINE X == 0 .. N_LINE_CACHES - 1
<1> DEFINE d == FindLine(e, line, slot)
<1>1. d = IF line >= e.total_lines \/ line <= 0 \/ n = 0 THEN k
          ELSE [k EXCEPT !.offsets[i] = there, !.numbers[i] = line]
  BY FindLineParts, Zenon
<1> HIDE DEF d
<1>2. k \in Edit /\ SameButCache(e, k) /\ \A x \in X : Known(k, x)
  BY FilledIs
<1> HIDE DEF k
<1>3. j \in X
  BY <1>2, NearestIs
<1> HIDE DEF j
<1>4. /\ LineStart(k, k.offsets[j]) /\ k.numbers[j] = CountLines(k, 0, k.offsets[j])
      /\ k.numbers[j] \in Int
  BY <1>2, <1>3, EditFields DEF Known
<1>5. e \in Edit /\ e.total_lines = CountLines(e, 0, e.last_byte) /\ e.last_byte = Size(e)
  BY DEF Sound, Counted
<1>6. k.last_byte = e.last_byte /\ SameText(e, k)
  BY <1>2, SameBlocksText DEF SameButCache
<1>7. k.last_byte = Size(k) /\ e.total_lines = CountLines(k, 0, k.last_byte)
  BY <1>5, <1>6, SameTextLines DEF SameText
<1> DEFINE o == k.offsets[j]
<1>8. o \in 0 .. k.last_byte
  BY <1>4 DEF LineStart
<1>9. k.last_byte \in Nat /\ CountLines(k, 0, o) \in Nat
  <2>1. o \in Nat
    BY <1>8, <1>2, EditFields
  <2> QED BY <2>1, <1>2, EditFields, CountStep
<1>10. CASE line >= e.total_lines \/ line <= 0 \/ n = 0
  <2>1. d = k
    BY <1>1, <1>10
  <2> QED BY <1>2, <2>1 DEF d
<1>11. CASE ~(line >= e.total_lines \/ line <= 0 \/ n = 0)
  <2>1. line < e.total_lines /\ line > 0 /\ e.total_lines \in Int
    BY <1>5, <1>11, EditFields
  <2>2. LineStart(k, there) /\ CountLines(k, 0, there) = line
    <3>1. CASE line > k.numbers[j]
      <4>1. n \in Nat /\ CountLines(k, 0, o) + n = line
        BY <1>4, <3>1 DEF LinesTo
      <4>2. there = MoveForward(k, o, n)
        BY <3>1 DEF Reached
      <4>3. LineStart(k, o)
        BY <1>4
      <4> HIDE DEF n, o, there
      <4>4. CountLines(k, 0, o) + n <= CountLines(k, 0, k.last_byte)
        BY <4>1, <2>1, <1>7
      <4> QED BY <1>2, <1>7, <1>8, <4>1, <4>2, <4>3, <4>4, MoveForwardIs
    <3>2. CASE ~(line > k.numbers[j])
      <4>1. n \in Nat /\ CountLines(k, 0, o) - n = line
        BY <1>4, <3>2 DEF LinesTo
      <4>2. there = MoveBackward(k, o, n)
        BY <3>2 DEF Reached
      <4> HIDE DEF n, o, there
      <4>3. n <= CountLines(k, 0, o)
        BY <1>9, <2>1, <4>1
      <4> QED BY <1>2, <1>8, <4>1, <4>2, <4>3, MoveBackwardIs
    <3> QED BY <3>1, <3>2
  <2>3. d = [k EXCEPT !.offsets[i] = there, !.numbers[i] = line]
    BY <1>1, <1>11
  <2>4. i \in X
    BY <1>3, TextAssumption
  <2>5. there \in Int
    BY <2>2, <1>9 DEF LineStart
  <2> HIDE DEF there, i
  <2> DEFINE N == [k.numbers EXCEPT ![i] = line]
  <2> DEFINE O == [k.offsets EXCEPT ![i] = there]
  <2>6. k.numbers \in [X -> Int] /\ k.offsets \in [X -> Int]
    BY <1>2, EditFields
  <2>7. /\ N \in [X -> Int] /\ O \in [X -> Int]
        /\ \A x \in X : N[x] = (IF x = i THEN line ELSE k.numbers[x])
        /\ \A x \in X : O[x] = (IF x = i THEN there ELSE k.offsets[x])
    <3>1. line \in Int
      OBVIOUS
    <3> HIDE DEF X
    <3> QED BY <2>4, <2>5, <2>6, <3>1, OneChanged
  <2>8. d = [k EXCEPT !.offsets = O, !.numbers = N]
    BY <2>3, <1>2 DEF Edit
  <2> HIDE DEF N, O
  <2>9. /\ d \in Edit /\ d.numbers = N /\ d.offsets = O
        /\ d.buffers1 = k.buffers1 /\ d.curs1 = k.curs1 /\ d.buffers2 = k.buffers2 /\ d.curs2 = k.curs2
        /\ d.last_byte = k.last_byte /\ d.curs_line = k.curs_line /\ d.total_lines = k.total_lines
        /\ d.start_display = k.start_display /\ d.start_line = k.start_line
        /\ d.marks = k.marks /\ d.at = k.at /\ d.rule = k.rule /\ d.last = k.last /\ d.markers = k.markers
    BY <1>2, <2>7, <2>8 DEF Edit
  <2>10. SameButCache(e, d) /\ SameBlocks(k, d)
    BY <2>9, <1>2 DEF SameButCache, SameBlocks, SameLines, SameScreen, SameMarks, SameRules
  <2>11. SameText(k, d)
    BY <2>10, SameBlocksText
  <2>12. \A x \in X : Known(d, x)
    <3> TAKE x \in X
    <3>1. LineStart(k, O[x]) /\ N[x] = CountLines(k, 0, O[x])
      BY <1>2, <2>2, <2>7 DEF Known
    <3>2. LineStart(d, O[x]) /\ N[x] = CountLines(d, 0, O[x])
      BY <1>2, <2>9, <2>11, <3>1, SameTextLines
    <3> QED BY <2>9, <3>2 DEF Known
  <2> QED BY <2>9, <2>10, <2>12 DEF d
<1> QED BY <1>10, <1>11

(***************************************************************************)
(* Sequences with an element more or less                                  *)
(***************************************************************************)

\* The elements of a sequence with one more, and with one less.
LEMMA InsertAtIs ==
  ASSUME NEW S, NEW s \in Seq(S), NEW x \in S, NEW i \in 1 .. Len(s) + 1
  PROVE  LET t == InsertAt(s, i, x)
         IN /\ t \in Seq(S) /\ Len(t) = Len(s) + 1
            /\ \A k \in 1 .. Len(s) + 1 : t[k] = IF k < i THEN s[k] ELSE IF k = i THEN x ELSE s[k - 1]
<1> DEFINE l == SubSeq(s, 1, i - 1)
<1> DEFINE r == SubSeq(s, i, Len(s))
<1>1. l \in Seq(S) /\ Len(l) = i - 1 /\ \A k \in 1 .. i - 1 : l[k] = s[k]
  OBVIOUS
<1>2. r \in Seq(S) /\ Len(r) = Len(s) - i + 1 /\ \A k \in 1 .. Len(s) - i + 1 : r[k] = s[k + i - 1]
  OBVIOUS
<1>3. InsertAt(s, i, x) = l \o <<x>> \o r
  BY DEF InsertAt
<1> HIDE DEF l, r
<1> DEFINE m == l \o <<x>>
<1>4. m \in Seq(S) /\ Len(m) = i /\ \A k \in 1 .. i : m[k] = IF k < i THEN s[k] ELSE x
  BY <1>1
<1> HIDE DEF m
<1>5. LET t == m \o r
      IN /\ t \in Seq(S) /\ Len(t) = Len(s) + 1
         /\ \A k \in 1 .. Len(s) + 1 : t[k] = IF k <= i THEN m[k] ELSE r[k - i]
  <2>1. Len(m) + Len(r) = Len(s) + 1
    BY <1>2, <1>4
  <2> QED BY <1>2, <1>4, <2>1, ConcatProperties
<1>6. \A k \in 1 .. Len(s) + 1 : k > i => r[k - i] = s[k - 1]
  BY <1>2
<1> QED BY <1>3, <1>4, <1>5, <1>6 DEF m

LEMMA RemoveAtIs ==
  ASSUME NEW S, NEW s \in Seq(S), NEW i \in 1 .. Len(s)
  PROVE  LET t == RemoveAt(s, i)
         IN /\ t \in Seq(S) /\ Len(t) = Len(s) - 1
            /\ \A k \in 1 .. Len(s) - 1 : t[k] = IF k < i THEN s[k] ELSE s[k + 1]
<1> DEFINE l == SubSeq(s, 1, i - 1)
<1> DEFINE r == SubSeq(s, i + 1, Len(s))
<1>1. l \in Seq(S) /\ Len(l) = i - 1 /\ \A k \in 1 .. i - 1 : l[k] = s[k]
  OBVIOUS
<1>2. r \in Seq(S) /\ Len(r) = Len(s) - i /\ \A k \in 1 .. Len(s) - i : r[k] = s[k + i]
  OBVIOUS
<1>3. RemoveAt(s, i) = l \o r
  BY DEF RemoveAt
<1> HIDE DEF l, r
<1> DEFINE t == l \o r
<1>4. /\ t \in Seq(S) /\ Len(t) = Len(s) - 1
      /\ \A k \in 1 .. Len(s) - 1 : t[k] = IF k < i THEN l[k] ELSE r[k - (i - 1)]
  <2>1. Len(l) + Len(r) = Len(s) - 1 /\ \A k \in 1 .. Len(s) - 1 : k <= Len(l) <=> k < i
    BY <1>1, <1>2
  <2>2. /\ t \in Seq(S) /\ Len(t) = Len(l) + Len(r)
        /\ \A k \in 1 .. Len(l) + Len(r) : t[k] = IF k <= Len(l) THEN l[k] ELSE r[k - Len(l)]
    BY <1>1, <1>2, ConcatProperties
  <2> HIDE DEF t
  <2> QED BY <1>1, <2>1, <2>2
<1>5. \A k \in 1 .. Len(s) - 1 : k >= i => r[k - (i - 1)] = s[k + 1]
  BY <1>2
<1> HIDE DEF t
<1>6. \A k \in 1 .. Len(s) - 1 : t[k] = IF k < i THEN s[k] ELSE s[k + 1]
  <2> TAKE k \in 1 .. Len(s) - 1
  <2>1. CASE k < i
    <3>1. k \in 1 .. i - 1
      BY <2>1
    <3> QED BY <2>1, <3>1, <1>1, <1>4
  <2>2. CASE ~(k < i)
    BY <2>2, <1>4, <1>5
  <2> QED BY <2>1, <2>2
<1> QED BY <1>3, <1>4, <1>6 DEF t

(***************************************************************************)
(* Bookmarks                                                               *)
(***************************************************************************)

Mark == [line : Int, c : Colors \cup {"none"}]
Dummy == [line |-> -1, c |-> "none"]

SameButMarks(e, d) ==
  /\ SameBlocks(e, d) /\ d.last_byte = e.last_byte
  /\ SameLines(e, d) /\ SameScreen(e, d) /\ SameCache(e, d) /\ SameRules(e, d)

\* d is e with these marks
Remarked(e, d, marks, at) == d = [e EXCEPT !.marks = marks, !.at = at]

LEMMA MarksPut ==
  ASSUME NEW e \in Edit, NEW marks \in Seq(Mark), NEW at \in Nat,
         NEW d, Remarked(e, d, marks, at)
  PROVE  d \in Edit /\ SameButMarks(e, d) /\ d.marks = marks /\ d.at = at
BY DEF Remarked, Edit, Mark, SameButMarks, SameBlocks, SameLines, SameScreen, SameCache, SameRules

\* A mark of the list has a line and a colour.
LEMMA MarksTyped ==
  ASSUME NEW e \in Edit
  PROVE  /\ e.marks \in Seq(Mark) /\ Len(e.marks) \in Nat
         /\ \A p \in 1 .. Len(e.marks) : e.marks[p] \in Mark /\ e.marks[p].line \in Int
<1>1. e.marks \in Seq([line : Int, c : Colors \cup {"none"}])
  BY EditFields
<1>2. e.marks \in Seq(Mark)
  BY <1>1, Zenon DEF Mark
<1>3. \A m \in Mark : m.line \in Int
  BY DEF Mark
<1> QED BY <1>2, <1>3

LEMMA SameButMarksTwice ==
  ASSUME NEW e, NEW m, NEW d, SameButMarks(e, m), SameButMarks(m, d)
  PROVE  SameButMarks(e, d)
BY DEF SameButMarks, SameBlocks, SameLines, SameScreen, SameCache, SameRules

\* f is the last mark on or before the line
LastBefore(marks, line, f) ==
  /\ f \in 1 .. Len(marks) /\ marks[f].line <= line
  /\ f < Len(marks) => marks[f + 1].line > line

LEMMA WithMarksIs ==
  ASSUME NEW e \in Edit, Marked(e)
  PROVE  LET d == WithMarks(e)
         IN /\ d \in Edit /\ SameButMarks(e, d) /\ Marked(d) /\ d.marks # <<>>
            /\ e.marks # <<>> => d = e
            /\ e.marks = <<>> => d.marks = <<Dummy>>
<1> DEFINE d == WithMarks(e)
<1>1. CASE e.marks # <<>>
  <2>1. d = e
    BY <1>1 DEF WithMarks
  <2> QED BY <1>1, <2>1 DEF SameButMarks, SameBlocks, SameLines, SameScreen, SameCache, SameRules
<1>2. CASE e.marks = <<>>
  <2>1. d = [e EXCEPT !.marks = <<Dummy>>, !.at = 1]
    BY <1>2 DEF WithMarks, Dummy
  <2>2. <<Dummy>> \in Seq(Mark) /\ 1 \in Nat
    BY DEF Dummy, Mark
  <2>3. d \in Edit /\ SameButMarks(e, d) /\ d.marks = <<Dummy>> /\ d.at = 1
    <3> DEFINE marks == <<Dummy>>
    <3> DEFINE at == 1
    <3> HIDE DEF marks, at
    <3>1. marks \in Seq(Mark) /\ at \in Nat /\ Remarked(e, d, marks, at)
      BY <2>1, <2>2 DEF marks, at, Remarked
    <3> HIDE DEF d
    <3>2. d \in Edit /\ SameButMarks(e, d) /\ d.marks = marks /\ d.at = at
      BY <3>1, MarksPut
    <3> QED BY <3>2 DEF marks, at
  <2>4. Marked(d)
    BY <2>3 DEF Marked, Sorted, Dummy
  <2> QED BY <1>2, <2>3, <2>4
<1> QED BY <1>1, <1>2

\* book_mark_find ends at the last mark on or before the line, from wherever it
\* starts.
LEMMA MarkFoundIs ==
  ASSUME NEW e \in Edit, Marked(e), e.marks # <<>>, NEW line \in Nat
  PROVE  LastBefore(e.marks, line, MarkFound(e, line))
<1> DEFINE n == Len(e.marks)
<1> DEFINE L(p) == e.marks[p].line
<1> DEFINE Beyond(p) == p = n \/ e.marks[p + 1].line > line
<1> DEFINE down == {p \in e.at .. n : Beyond(p) /\ \A q \in e.at .. p : e.marks[q].line <= line}
<1> DEFINE up == {p \in 1 .. e.at : e.marks[p].line <= line /\ \A q \in p .. e.at : Beyond(q)}
<1>1. MarkFound(e, line) = IF down # {} THEN Least(down) ELSE Greatest(up)
  BY DEF MarkFound
<1>2. /\ e.marks \in Seq(Mark) /\ n \in Nat /\ e.at \in 1 .. n
      /\ \A p, q \in 1 .. n : p < q => L(p) <= L(q)
      /\ L(1) = -1 /\ \A p \in 1 .. n : L(p) \in Int
  <2>1. e.marks \in Seq(Mark) /\ n \in Nat
    BY MarksTyped
  <2>2. e.at \in 1 .. n /\ Sorted(e.marks)
    BY DEF Marked
  <2>3. \A p, q \in 1 .. n : p < q => L(p) <= L(q)
    BY <2>2 DEF Sorted
  <2>4. L(1) = -1
    <3>1. 1 \in 1 .. n
      BY <2>1, <2>2
    <3> QED BY <2>2, <3>1 DEF Sorted
  <2>5. \A p \in 1 .. n : L(p) \in Int
    BY MarksTyped
  <2> QED BY <2>1, <2>2, <2>3, <2>4, <2>5
<1>3. \E f \in 1 .. n : L(f) <= line /\ Beyond(f)
  <2> DEFINE S == {p \in 1 .. n : L(p) <= line}
  <2>1. S \in SUBSET Int /\ (\A x \in S : x <= n) /\ 1 \in S
    BY <1>2
  <2>2. Greatest(S) \in S /\ \A y \in S : Greatest(S) >= y
    <3>1. n \in Int
      BY <1>2
    <3> HIDE DEF S, n
    <3> QED BY <2>1, <3>1, GreatestIs
  <2>3. PICK f \in S : \A y \in S : f >= y
    <3> HIDE DEF S
    <3> QED BY <2>2
  <2>4. f \in 1 .. n /\ L(f) <= line
    OBVIOUS
  <2>5. f + 1 \notin S
    <3> HIDE DEF S
    <3> QED BY <2>3, <2>4, <1>2
  <2>6. f < n => e.marks[f + 1].line > line
    BY <1>2, <2>4, <2>5
  <2> QED BY <1>2, <2>4, <2>6
<1>4. PICK f \in 1 .. n : L(f) <= line /\ Beyond(f)
  BY <1>3
<1> HIDE DEF n
<1>5. CASE L(e.at) <= line
  <2>1. e.at <= f
    <3> SUFFICES ASSUME f < e.at PROVE FALSE
      BY <1>2
    <3>1. f # n /\ e.marks[f + 1].line > line
      BY <1>2, <1>4
    <3>2. f + 1 \in 1 .. n /\ f + 1 <= e.at
      BY <1>2, <1>4
    <3>3. L(f + 1) <= L(e.at)
      BY <1>2, <3>2
    <3> QED BY <1>2, <1>5, <3>1, <3>2, <3>3, SMTT(30)
  <2>2. \A q \in e.at .. f : e.marks[q].line <= line
    <3> TAKE q \in e.at .. f
    <3>1. q \in 1 .. n /\ (q < f \/ q = f)
      BY <1>2, <1>4
    <3>2. L(q) <= L(f)
      BY <1>2, <3>1
    <3> QED BY <1>2, <1>4, <3>1, <3>2
  <2>3. f \in down
    BY <1>2, <1>4, <2>1, <2>2
  <2>4. down \in SUBSET Int /\ \A x \in down : x >= e.at
    BY <1>2
  <2>5. Least(down) \in down
    <3>1. e.at \in Int
      BY <1>2
    <3> HIDE DEF down
    <3> QED BY <2>3, <2>4, <3>1, LeastIs
  <2>6. PICK r \in down : MarkFound(e, line) = r
    <3> HIDE DEF down, up
    <3> QED BY <1>1, <2>3, <2>5
  <2>7. r \in e.at .. n /\ Beyond(r) /\ e.marks[r].line <= line
    BY <1>2
  <2>8. LastBefore(e.marks, line, r)
    BY <1>2, <2>7 DEF LastBefore, n
  <2> QED BY <2>6, <2>8
<1>6. CASE L(e.at) > line
  <2>1. down = {}
    BY <1>2, <1>6
  <2>2. f < e.at
    <3> SUFFICES ASSUME e.at <= f PROVE FALSE
      BY <1>2
    <3>1. L(e.at) <= L(f)
      BY <1>2
    <3> QED BY <1>2, <1>4, <1>6, <3>1
  <2>3. \A q \in f .. e.at : Beyond(q)
    <3> TAKE q \in f .. e.at
    <3>1. CASE q = n
      BY <3>1
    <3>2. CASE q < n
      <4>1. f # n /\ L(f + 1) > line /\ f + 1 \in 1 .. n /\ q + 1 \in 1 .. n
        BY <1>2, <1>4, <3>2
      <4>2. L(f + 1) <= L(q + 1)
        BY <1>2, <4>1, SMTT(30)
      <4> QED BY <1>2, <4>1, <4>2
    <3> QED BY <1>2, <3>1, <3>2
  <2>4. f \in up
    BY <1>2, <1>4, <2>2, <2>3
  <2>5. up \in SUBSET Int /\ \A x \in up : x <= e.at
    BY <1>2
  <2>6. Greatest(up) \in up
    <3>1. e.at \in Int
      BY <1>2
    <3> HIDE DEF up
    <3> QED BY <2>4, <2>5, <3>1, GreatestIs
  <2>7. PICK r \in up : MarkFound(e, line) = r
    <3> HIDE DEF down, up
    <3> QED BY <1>1, <2>1, <2>6
  <2>8. r \in 1 .. e.at /\ Beyond(r) /\ e.marks[r].line <= line
    BY <1>2
  <2>9. LastBefore(e.marks, line, r)
    BY <1>2, <2>8 DEF LastBefore, n
  <2> QED BY <2>7, <2>9
<1> QED BY <1>2, <1>5, <1>6

MarksOnly(e, d) == d \in Edit /\ SameButMarks(e, d) /\ Marked(d)

LEMMA MarkFindIs ==
  ASSUME NEW e \in Edit, Marked(e), NEW line \in Nat
  PROVE  LET d == MarkFind(e, line)
         IN /\ MarksOnly(e, d) /\ d.marks # <<>> /\ LastBefore(d.marks, line, d.at)
            /\ e.marks # <<>> => d.marks = e.marks
            /\ e.marks = <<>> => d.marks = <<Dummy>>
<1> DEFINE w == WithMarks(e)
<1> DEFINE d == MarkFind(e, line)
<1> DEFINE f == MarkFound(w, line)
<1>1. /\ w \in Edit /\ SameButMarks(e, w) /\ Marked(w) /\ w.marks # <<>>
      /\ e.marks # <<>> => w = e
      /\ e.marks = <<>> => w.marks = <<Dummy>>
  BY WithMarksIs
<1>2. d = [w EXCEPT !.at = f]
  BY DEF MarkFind
<1> HIDE DEF d, w
<1>3. LastBefore(w.marks, line, f)
  BY <1>1, MarkFoundIs
<1> HIDE DEF f
<1>4. w.marks \in Seq(Mark) /\ f \in Nat
  <2>1. f \in 1 .. Len(w.marks)
    BY <1>3 DEF LastBefore
  <2> QED BY <1>1, <2>1, MarksTyped
<1>5. Remarked(w, d, w.marks, f)
  BY <1>1, <1>2 DEF Remarked, Edit
<1>6. d \in Edit /\ SameButMarks(w, d) /\ d.marks = w.marks /\ d.at = f
  BY <1>1, <1>4, <1>5, MarksPut
<1>7. SameButMarks(e, d)
  BY <1>1, <1>6, SameButMarksTwice
<1>8. Marked(d)
  BY <1>1, <1>3, <1>6 DEF Marked, LastBefore
<1>9. /\ MarksOnly(e, d) /\ d.marks # <<>> /\ LastBefore(d.marks, line, d.at)
      /\ e.marks # <<>> => d.marks = e.marks
      /\ e.marks = <<>> => d.marks = <<Dummy>>
  BY <1>1, <1>3, <1>6, <1>7, <1>8 DEF MarksOnly
<1> QED BY <1>9 DEF d

\* The parts of a sorted list.
LEMMA SortedParts ==
  ASSUME NEW e \in Edit, Marked(e), e.marks # <<>>
  PROVE  /\ e.marks \in Seq(Mark) /\ Len(e.marks) \in Nat /\ 1 \in 1 .. Len(e.marks)
         /\ e.at \in 1 .. Len(e.marks)
         /\ \A p \in 1 .. Len(e.marks) : e.marks[p] \in Mark /\ e.marks[p].line \in Int
         /\ \A p, q \in 1 .. Len(e.marks) : p < q => e.marks[p].line <= e.marks[q].line
         /\ \A p \in 1 .. Len(e.marks) : (e.marks[p].line = -1) <=> (p = 1)
         /\ e.marks[1].c = "none"
<1>1. /\ e.marks \in Seq(Mark) /\ Len(e.marks) \in Nat
      /\ \A p \in 1 .. Len(e.marks) : e.marks[p] \in Mark /\ e.marks[p].line \in Int
  BY MarksTyped
<1>2. e.at \in 1 .. Len(e.marks) /\ Sorted(e.marks)
  BY DEF Marked
<1>3. 1 \in 1 .. Len(e.marks)
  BY <1>1, <1>2
<1> QED BY <1>1, <1>2, <1>3 DEF Sorted

\* every mark is found
LEMMA QueryFinds ==
  ASSUME NEW e \in Edit, Marked(e), e.marks # <<>>, NEW p \in 2 .. Len(e.marks)
  PROVE  MarkQuery(e, e.marks[p].line, e.marks[p].c)
<1> DEFINE n == Len(e.marks)
<1> DEFINE line == e.marks[p].line
<1>1. /\ n \in Nat /\ 1 \in 1 .. n
      /\ \A i \in 1 .. n : e.marks[i].line \in Int
      /\ \A i, j \in 1 .. n : i < j => e.marks[i].line <= e.marks[j].line
      /\ \A i \in 1 .. n : (e.marks[i].line = -1) <=> (i = 1)
  BY SortedParts
<1>2. p \in 1 .. n /\ p # 1
  OBVIOUS
<1>3. line \in Nat
  <2>1. e.marks[1].line <= line /\ e.marks[1].line = -1 /\ line # -1 /\ line \in Int
    BY <1>1, <1>2
  <2> QED BY <2>1
<1> HIDE DEF n
<1> DEFINE f == MarkFound(e, line)
<1>4. f \in 1 .. n /\ e.marks[f].line <= line /\ (f < n => e.marks[f + 1].line > line)
  <2>1. LastBefore(e.marks, line, f)
    <3> HIDE DEF line
    <3> QED BY <1>3, MarkFoundIs
  <2> QED BY <2>1 DEF LastBefore, n
<1> HIDE DEF f
<1>5. p <= f
  <2> SUFFICES ASSUME f < p PROVE FALSE
    BY <1>1, <1>2, <1>4
  <2>1. f + 1 \in 1 .. n /\ f < n /\ (f + 1 < p \/ f + 1 = p)
    BY <1>1, <1>2, <1>4
  <2>2. e.marks[f + 1].line <= line
    BY <1>1, <1>2, <2>1
  <2>3. e.marks[f + 1].line > line /\ e.marks[f + 1].line \in Int
    BY <1>1, <1>4, <2>1
  <2> QED BY <1>3, <2>2, <2>3
<1>6. ASSUME NEW q \in p .. f PROVE e.marks[q].line = line
  <2>1. q \in 1 .. n
    BY <1>1, <1>2, <1>4
  <2>2. e.marks[q].line >= line
    BY <1>1, <1>2, <2>1
  <2>3. e.marks[q].line <= line
    <3>1. e.marks[q].line <= e.marks[f].line
      BY <1>1, <1>4, <2>1
    <3> QED BY <1>1, <1>3, <1>4, <2>1, <3>1
  <2> QED BY <1>1, <1>3, <2>1, <2>2, <2>3
<1>7. p \in 1 .. f
  BY <1>1, <1>2, <1>4, <1>5
<1>8. MarkQuery(e, line, e.marks[p].c)
  BY <1>6, <1>7 DEF MarkQuery, f
<1> QED BY <1>8

\* A mark put in after the one found keeps the order.
LEMMA MarkInsertIs ==
  ASSUME NEW e \in Edit, Marked(e), NEW line \in Nat, NEW c \in Colors
  PROVE  MarksOnly(e, MarkInsert(e, line, c))
<1> DEFINE m == MarkFind(e, line)
<1> DEFINE d == MarkInsert(e, line, c)
<1> DEFINE x == [line |-> line, c |-> c]
<1> DEFINE i == m.at + 1
<1> DEFINE s == m.marks
<1> DEFINE t == InsertAt(s, i, x)
<1> DEFINE n == Len(s)
<1>1. MarksOnly(e, m) /\ s # <<>> /\ LastBefore(s, line, m.at)
  BY MarkFindIs
<1>2. d = [m EXCEPT !.marks = t]
  BY DEF MarkInsert
<1> HIDE DEF d, m
<1>3. m \in Edit /\ Marked(m) /\ SameButMarks(e, m)
  BY <1>1 DEF MarksOnly
<1>4. /\ s \in Seq(Mark) /\ n \in Nat /\ 1 \in 1 .. n /\ m.at \in 1 .. n
      /\ \A p \in 1 .. n : s[p].line \in Int
      /\ \A p, q \in 1 .. n : p < q => s[p].line <= s[q].line
      /\ \A p \in 1 .. n : (s[p].line = -1) <=> (p = 1)
      /\ s[1].c = "none"
  BY <1>1, <1>3, SortedParts
<1>5. x \in Mark /\ x.line = line
  BY DEF Mark
<1>6. s[m.at].line <= line /\ (m.at < n => s[m.at + 1].line > line)
  BY <1>1 DEF LastBefore
<1> HIDE DEF x
<1>7. i \in 2 .. n + 1 /\ m.at = i - 1
  BY <1>4
<1> HIDE DEF s
<1>8. /\ t \in Seq(Mark) /\ Len(t) = n + 1
      /\ \A k \in 1 .. n + 1 : t[k] = IF k < i THEN s[k] ELSE IF k = i THEN x ELSE s[k - 1]
  <2>1. i \in 1 .. Len(s) + 1
    BY <1>4, <1>7
  <2> HIDE DEF i
  <2> QED BY <1>4, <1>5, <2>1, InsertAtIs
<1> HIDE DEF t
<1>9. Remarked(m, d, t, m.at)
  BY <1>2, <1>3 DEF Remarked, Edit
<1>10. d \in Edit /\ SameButMarks(m, d) /\ d.marks = t /\ d.at = m.at
  <2>1. m.at \in Nat
    BY <1>4
  <2> QED BY <1>3, <1>8, <1>9, <2>1, MarksPut
<1> HIDE DEF i
<1>11. \A k \in 1 .. n + 1 : k < i => k \in 1 .. n /\ s[k].line <= line
  <2> TAKE k \in 1 .. n + 1
  <2>1. CASE k < m.at
    <3>1. k \in 1 .. n /\ s[k].line <= s[m.at].line
      BY <1>4, <2>1
    <3> QED BY <1>4, <1>6, <3>1
  <2> QED BY <1>4, <1>6, <1>7, <2>1
<1>12. \A k \in 1 .. n + 1 : k > i => k - 1 \in 1 .. n /\ s[k - 1].line > line
  <2> TAKE k \in 1 .. n + 1
  <2> HAVE k > i
  <2>1. i \in 1 .. n /\ s[i].line > line /\ k - 1 \in 1 .. n
    BY <1>4, <1>6, <1>7
  <2>2. s[i].line <= s[k - 1].line
    BY <1>4, <2>1, SMTT(30)
  <2> QED BY <1>4, <2>1, <2>2
<1>13. Sorted(t)
  <2>1. ASSUME NEW p \in 1 .. n + 1, NEW q \in 1 .. n + 1, p < q PROVE t[p].line <= t[q].line
    <3>1. CASE q < i
      <4>1. p \in 1 .. n /\ q \in 1 .. n /\ p < i
        BY <1>7, <1>11, <2>1, <3>1
      <4> QED BY <1>4, <1>8, <2>1, <3>1, <4>1
    <3>2. CASE q = i
      <4>1. p < i
        BY <1>7, <2>1, <3>2
      <4> QED BY <1>5, <1>7, <1>8, <1>11, <3>2, <4>1, SMTT(30)
    <3>3. CASE q > i /\ p < i
      <4>1. s[p].line <= line /\ s[q - 1].line > line /\ s[p].line \in Int /\ s[q - 1].line \in Int
        BY <1>4, <1>11, <1>12, <3>3
      <4> QED BY <1>7, <1>8, <3>3, <4>1, SMTT(30)
    <3>4. CASE q > i /\ p = i
      <4>1. s[q - 1].line > line /\ s[q - 1].line \in Int
        BY <1>4, <1>12, <3>4
      <4> QED BY <1>5, <1>7, <1>8, <3>4, <4>1, SMTT(30)
    <3>5. CASE q > i /\ p > i
      <4>1. p - 1 \in 1 .. n /\ q - 1 \in 1 .. n /\ p - 1 < q - 1
        BY <1>12, <2>1, <3>5
      <4>2. s[p - 1].line <= s[q - 1].line
        BY <1>4, <4>1
      <4> QED BY <1>7, <1>8, <3>5, <4>2
    <3> QED BY <1>7, <3>1, <3>2, <3>3, <3>4, <3>5
  <2>2. ASSUME NEW p \in 1 .. n + 1 PROVE (t[p].line = -1) <=> (p = 1)
    <3>1. CASE p < i
      BY <1>4, <1>8, <1>11, <3>1
    <3>2. CASE p = i
      BY <1>5, <1>7, <1>8, <3>2
    <3>3. CASE p > i
      <4>1. s[p - 1].line > line /\ s[p - 1].line \in Int /\ t[p] = s[p - 1] /\ p # 1
        BY <1>4, <1>7, <1>8, <1>12, <3>3
      <4> QED BY <4>1
    <3> QED BY <1>7, <3>1, <3>2, <3>3
  <2>3. t[1].c = "none"
    BY <1>4, <1>7, <1>8
  <2> QED BY <1>8, <2>1, <2>2, <2>3 DEF Sorted
<1>14. Marked(d)
  BY <1>4, <1>8, <1>10, <1>13 DEF Marked
<1>15. MarksOnly(e, d)
  BY <1>3, <1>10, <1>14, SameButMarksTwice DEF MarksOnly
<1> QED BY <1>15 DEF d

LEMMA NoMarks ==
  ASSUME NEW e \in Edit, NEW d, Remarked(e, d, <<>>, 0)
  PROVE  MarksOnly(e, d) /\ d.marks = <<>>
<1> DEFINE none == <<>>
<1> DEFINE zero == 0
<1>1. none \in Seq(Mark) /\ zero \in Nat
  OBVIOUS
<1>2. Remarked(e, d, none, zero)
  OBVIOUS
<1> HIDE DEF none, zero
<1>3. d \in Edit /\ SameButMarks(e, d) /\ d.marks = none
  BY <1>1, <1>2, MarksPut
<1> QED BY <1>3 DEF MarksOnly, Marked, none

\* A list of the dummy alone is given up.
LEMMA NoDummyIs ==
  ASSUME NEW e \in Edit, Marked(e)
  PROVE  MarksOnly(e, NoDummy(e))
<1>1. CASE Len(e.marks) = 1 /\ e.marks[1].line = -1
  <2>1. Remarked(e, NoDummy(e), <<>>, 0)
    BY <1>1 DEF Remarked, NoDummy
  <2> QED BY <2>1, NoMarks
<1>2. CASE ~(Len(e.marks) = 1 /\ e.marks[1].line = -1)
  <2>1. NoDummy(e) = e
    BY <1>2 DEF NoDummy
  <2>2. SameButMarks(e, e)
    BY DEF SameButMarks, SameBlocks, SameLines, SameScreen, SameCache, SameRules
  <2> QED BY <2>1, <2>2 DEF MarksOnly
<1> QED BY <1>1, <1>2

LEMMA MarksOnlyTwice ==
  ASSUME NEW e, NEW m, NEW d, MarksOnly(e, m), MarksOnly(m, d)
  PROVE  MarksOnly(e, d)
BY SameButMarksTwice DEF MarksOnly

LEMMA MarksOnlyItself ==
  ASSUME NEW e \in Edit, Marked(e)
  PROVE  MarksOnly(e, e)
BY DEF MarksOnly, SameButMarks, SameBlocks, SameLines, SameScreen, SameCache, SameRules

\* fewer of them, in the same order, the first among them
\* the first k marks of t are those of s at the places from, in the same order
PickedFrom(from, s, n, t, k) ==
  /\ \A p \in 1 .. n : s[p].line \in Int
  /\ \A p \in 1 .. k : from[p] \in 1 .. n /\ t[p] = s[from[p]]
  /\ \A p, q \in 1 .. k : p < q => from[p] < from[q]
  /\ from[1] = 1

\* Marks picked in their order stay in order.
LEMMA StaysSorted ==
  ASSUME NEW s, NEW t, NEW n \in Nat, NEW k \in Nat, NEW from,
         n = Len(s), k = Len(t), k > 0, Sorted(s), PickedFrom(from, s, n, t, k)
  PROVE  Sorted(t)
<1>0. /\ \A p \in 1 .. n : s[p].line \in Int
      /\ \A p \in 1 .. k : from[p] \in 1 .. n /\ t[p] = s[from[p]]
      /\ \A p, q \in 1 .. k : p < q => from[p] < from[q]
      /\ from[1] = 1
  BY DEF PickedFrom
<1> USE <1>0
<1>1. \A p, q \in 1 .. k : p < q => t[p].line <= t[q].line
  <2> TAKE p, q \in 1 .. k
  <2> HAVE p < q
  <2>1. from[p] \in 1 .. n /\ from[q] \in 1 .. n /\ from[p] < from[q]
    OBVIOUS
  <2>2. s[from[p]].line <= s[from[q]].line
    BY <2>1 DEF Sorted
  <2> QED BY <2>2
<1>2. \A p \in 1 .. k : (t[p].line = -1) <=> (p = 1)
  <2> TAKE p \in 1 .. k
  <2>1. from[p] \in 1 .. n /\ t[p] = s[from[p]]
    OBVIOUS
  <2>2. (s[from[p]].line = -1) <=> (from[p] = 1)
    BY <2>1 DEF Sorted
  <2>3. (from[p] = 1) <=> (p = 1)
    <3>1. CASE p = 1
      BY <3>1
    <3>2. CASE p # 1
      <4>1. 1 \in 1 .. k /\ 1 < p
        BY <3>2
      <4>2. from[1] < from[p]
        BY <4>1
      <4> QED BY <3>2, <4>2, <2>1
    <3> QED BY <3>1, <3>2
  <2> QED BY <2>1, <2>2, <2>3
<1>3. t[1].c = "none"
  BY DEF Sorted
<1> QED BY <1>1, <1>2, <1>3 DEF Sorted

\* A mark taken out keeps the order.
LEMMA MarkClearIs ==
  ASSUME NEW e \in Edit, Marked(e), NEW line \in Nat, NEW c
  PROVE  MarksOnly(e, MarkClear(e, line, c))
<1> DEFINE m == MarkFind(e, line)
<1> DEFINE on == {p \in 1 .. m.at : m.marks[p].line = line /\ m.marks[p].c = c}
<1> DEFINE p == Greatest(on)
<1> DEFINE d == MarkClear(e, line, c)
<1> DEFINE gone == [m EXCEPT !.marks = RemoveAt(@, p), !.at = p - 1]
<1>1. d = IF e.marks = <<>> THEN e ELSE IF on = {} THEN NoDummy(m) ELSE NoDummy(gone)
  BY Zenon DEF MarkClear
<1>2. MarksOnly(e, m) /\ m.marks # <<>>
  BY MarkFindIs
<1> HIDE DEF d, m
<1>3. m \in Edit /\ Marked(m)
  BY <1>2 DEF MarksOnly
<1>4. CASE e.marks = <<>>
  <2>1. d = e
    BY <1>1, <1>4
  <2> QED BY <2>1, MarksOnlyItself DEF d
<1>5. CASE e.marks # <<>> /\ on = {}
  <2>1. d = NoDummy(m)
    BY <1>1, <1>5
  <2>2. MarksOnly(m, NoDummy(m))
    BY <1>3, NoDummyIs
  <2>3. MarksOnly(e, d)
    BY <1>2, <2>1, <2>2, MarksOnlyTwice
  <2> QED BY <2>3 DEF d
<1>6. CASE e.marks # <<>> /\ on # {}
  <2>1. d = NoDummy(gone)
    BY <1>1, <1>6
  <2> DEFINE s == m.marks
  <2> DEFINE n == Len(s)
  <2>2. /\ s \in Seq(Mark) /\ n \in Nat /\ 1 \in 1 .. n /\ m.at \in 1 .. n
        /\ \A i \in 1 .. n : s[i].line \in Int
        /\ \A i \in 1 .. n : (s[i].line = -1) <=> (i = 1)
        /\ Sorted(s)
    <3>1. Sorted(s)
      BY <1>2, <1>3 DEF Marked
    <3> QED BY <1>2, <1>3, <3>1, SortedParts
  <2>3. p \in on
    <3>1. on \in SUBSET Int /\ m.at \in Int /\ \A x \in on : x <= m.at
      BY <2>2
    <3> HIDE DEF on
    <3> QED BY <1>6, <3>1, GreatestIs
  <2>4. p \in 2 .. n
    <3>1. p \in 1 .. m.at /\ s[p].line = line
      BY <2>3
    <3> HIDE DEF p
    <3>2. p \in 1 .. n /\ p # 1
      BY <2>2, <3>1
    <3> QED BY <3>2
  <2> HIDE DEF p
  <2> DEFINE t == RemoveAt(s, p)
  <2>5. /\ t \in Seq(Mark) /\ Len(t) = n - 1
        /\ \A k \in 1 .. n - 1 : t[k] = IF k < p THEN s[k] ELSE s[k + 1]
    <3>1. p \in 1 .. Len(s)
      BY <2>4
    <3> QED BY <2>2, <3>1, RemoveAtIs
  <2>6. Remarked(m, gone, t, p - 1)
    BY <1>3 DEF Remarked, Edit
  <2> HIDE DEF gone, t
  <2>7. p - 1 \in Nat /\ p - 1 \in 1 .. n - 1
    BY <2>2, <2>4
  <2>8. gone \in Edit /\ SameButMarks(m, gone) /\ gone.marks = t /\ gone.at = p - 1
    BY <1>3, <2>5, <2>6, <2>7, MarksPut
  <2>9. Sorted(t)
    <3> DEFINE from == [k \in 1 .. n - 1 |-> IF k < p THEN k ELSE k + 1]
    <3> DEFINE l == n - 1
    <3>1. l \in Nat /\ l > 0 /\ l = Len(t)
      BY <2>2, <2>4, <2>5
    <3>2. \A k \in 1 .. l : from[k] \in 1 .. n /\ t[k] = s[from[k]]
      BY <2>2, <2>4, <2>5
    <3>3. \A i, k \in 1 .. l : i < k => from[i] < from[k]
      BY <2>2, <2>4
    <3>4. from[1] = 1
      BY <2>2, <2>4
    <3> HIDE DEF from, l
    <3> DEFINE N == n
    <3>5. N = Len(s) /\ N \in Nat /\ (\A i \in 1 .. N : s[i].line \in Int) /\ \A k \in 1 .. l : from[k] \in 1 .. N /\ t[k] = s[from[k]]
      BY <2>2, <3>2
    <3> HIDE DEF N, s
    <3>6. PickedFrom(from, s, N, t, l)
      BY <3>3, <3>4, <3>5, Zenon DEF PickedFrom
    <3> QED BY <2>2, <3>1, <3>5, <3>6, StaysSorted
  <2>10. Marked(gone)
    BY <2>2, <2>5, <2>7, <2>8, <2>9 DEF Marked
  <2>11. MarksOnly(m, gone) /\ gone \in Edit
    BY <2>8, <2>10 DEF MarksOnly
  <2>12. MarksOnly(gone, NoDummy(gone))
    BY <2>10, <2>11, NoDummyIs
  <2>13. MarksOnly(e, d)
    BY <1>2, <2>1, <2>11, <2>12, MarksOnlyTwice
  <2> QED BY <2>13 DEF d
<1> QED BY <1>4, <1>5, <1>6

\* book_mark_inc and book_mark_dec keep the order, whatever the line.
LEMMA MarksMoveIs ==
  ASSUME NEW e \in Edit, Marked(e), NEW line \in Nat, NEW by \in {1, -1}
  PROVE  MarksOnly(e, MarksMove(e, line, by))
<1> DEFINE m == MarkFind(e, line)
<1> DEFINE s == m.marks
<1> DEFINE n == Len(s)
<1> DEFINE t == [p \in 1 .. n |-> IF p > m.at THEN Moved(s[p], by) ELSE s[p]]
<1> DEFINE d == MarksMove(e, line, by)
<1>1. CASE e.marks = <<>>
  <2>1. d = e
    BY <1>1 DEF MarksMove
  <2> QED BY <2>1, MarksOnlyItself
<1>2. CASE e.marks # <<>>
  <2>1. MarksOnly(e, m) /\ s # <<>> /\ LastBefore(s, line, m.at)
    BY MarkFindIs
  <2> DEFINE u == [p \in DOMAIN s |-> IF p > m.at THEN Moved(s[p], by) ELSE s[p]]
  <2>2. d = [m EXCEPT !.marks = u]
    BY <1>2, Zenon DEF MarksMove
  <2> HIDE DEF m, d
  <2>3. m \in Edit /\ Marked(m)
    BY <2>1 DEF MarksOnly
  <2>4. /\ s \in Seq(Mark) /\ n \in Nat /\ 1 \in 1 .. n /\ m.at \in 1 .. n
        /\ \A p \in 1 .. n : s[p] \in Mark /\ s[p].line \in Int
        /\ \A p, q \in 1 .. n : p < q => s[p].line <= s[q].line
        /\ \A p \in 1 .. n : (s[p].line = -1) <=> (p = 1)
        /\ s[1].c = "none"
    BY <2>1, <2>3, SortedParts
  <2>5. s[m.at].line <= line /\ (m.at < n => s[m.at + 1].line > line)
    BY <2>1 DEF LastBefore
  <2>6. DOMAIN s = 1 .. n
    BY <2>4
  <2>7. d = [m EXCEPT !.marks = t]
    <3>1. u = t
      BY <2>6
    <3> HIDE DEF u, t
    <3> QED BY <2>2, <3>1
  <2>8. ASSUME NEW p \in 1 .. n
        PROVE /\ t[p] \in Mark /\ t[p].c = s[p].c
              /\ t[p].line = IF p > m.at THEN s[p].line + by ELSE s[p].line
              /\ (p > m.at => s[p].line > line) /\ (p <= m.at => s[p].line <= line)
    <3>1. s[p] \in [line : Int, c : Colors \cup {"none"}]
      BY <2>4 DEF Mark
    <3>2. t[p] = IF p > m.at THEN Moved(s[p], by) ELSE s[p]
      OBVIOUS
    <3> DEFINE x == s[p]
    <3>3. t[p] \in Mark /\ t[p].c = x.c /\ t[p].line = IF p > m.at THEN x.line + by ELSE x.line
      <4> HIDE DEF x, t
      <4>1. x \in [line : Int, c : Colors \cup {"none"}] /\ by \in Int
        BY <3>1 DEF x
      <4>2. t[p] = IF p > m.at THEN Moved(x, by) ELSE x
        BY <3>2 DEF x
      <4> QED BY <4>1, <4>2 DEF Mark, Moved
    <3>4. p > m.at => s[p].line > line
      <4> HAVE p > m.at
      <4>1. m.at + 1 \in 1 .. n /\ (m.at + 1 < p \/ m.at + 1 = p) /\ m.at < n
        BY <2>4
      <4>2. s[m.at + 1].line <= s[p].line /\ s[m.at + 1].line \in Int /\ s[p].line \in Int
        BY <2>4, <4>1, SMTT(30)
      <4>3. s[m.at + 1].line > line
        BY <2>5, <4>1
      <4> QED BY <4>2, <4>3
    <3>5. p <= m.at => s[p].line <= line
      <4> HAVE p <= m.at
      <4>1. s[p].line <= s[m.at].line /\ s[p].line \in Int /\ s[m.at].line \in Int
        BY <2>4
      <4> QED BY <2>5, <4>1
    <3> QED BY <3>3, <3>4, <3>5
  <2>9. t \in Seq(Mark) /\ Len(t) = n
    <3>1. t \in [1 .. n -> Mark]
      BY <2>8
    <3> HIDE DEF t
    <3> QED BY <2>4, <3>1
  <2> HIDE DEF t
  <2>10. Sorted(t)
    <3>1. ASSUME NEW p \in 1 .. n, NEW q \in 1 .. n, p < q PROVE t[p].line <= t[q].line
      <4>1. s[p].line <= s[q].line /\ s[p].line \in Int /\ s[q].line \in Int
        BY <2>4, <3>1
      <4>2. CASE p <= m.at /\ q > m.at
        <5>1. t[p].line = s[p].line /\ t[q].line = s[q].line + by /\ s[p].line <= line /\ s[q].line > line
          BY <2>4, <2>8, <4>2
        <5> QED BY <4>1, <5>1
      <4>3. CASE q <= m.at
        <5>1. t[p].line = s[p].line /\ t[q].line = s[q].line
          BY <2>4, <2>8, <4>3, <3>1
        <5> QED BY <4>1, <5>1
      <4>4. CASE p > m.at
        <5>1. t[p].line = s[p].line + by /\ t[q].line = s[q].line + by
          BY <2>4, <2>8, <4>4, <3>1
        <5> QED BY <4>1, <5>1
      <4> QED BY <2>4, <4>2, <4>3, <4>4
    <3>2. ASSUME NEW p \in 1 .. n PROVE (t[p].line = -1) <=> (p = 1)
      <4>1. CASE p > m.at
        <5>1. t[p].line = s[p].line + by /\ s[p].line > line /\ s[p].line \in Int /\ p # 1
          BY <2>4, <2>8, <4>1
        <5> QED BY <5>1
      <4>2. CASE p <= m.at
        BY <2>4, <2>8, <4>2
      <4> QED BY <2>4, <4>1, <4>2
    <3>3. t[1].c = "none"
      BY <2>4, <2>8
    <3> QED BY <2>9, <3>1, <3>2, <3>3 DEF Sorted
  <2> HIDE DEF s, n
  <2>11. Remarked(m, d, t, m.at)
    BY <2>7, <2>3 DEF Remarked, Edit
  <2>12. d \in Edit /\ SameButMarks(m, d) /\ d.marks = t /\ d.at = m.at
    <3>1. m.at \in Nat
      BY <2>4
    <3> QED BY <2>3, <2>9, <2>11, <3>1, MarksPut
  <2>13. Marked(d)
    BY <2>4, <2>9, <2>10, <2>12 DEF Marked
  <2>14. MarksOnly(e, d)
    BY <2>1, <2>12, <2>13, MarksOnlyTwice DEF MarksOnly
  <2> QED BY <2>14 DEF d
<1> QED BY <1>1, <1>2

SparedBy(marks, c, g) ==
  /\ g[0] = <<>> /\ Spared(marks, c) = g[Len(marks)]
  /\ \A n \in 0 .. Len(marks) : g[n] \in Seq(Mark)
  /\ \A n \in 1 .. Len(marks) :
       g[n] = IF marks[n].c = c THEN g[n - 1] ELSE Append(g[n - 1], marks[n])

\* The marks of the other colours, one after the other.
LEMMA SparedSteps ==
  ASSUME NEW marks \in Seq(Mark), NEW c
  PROVE  \E g : SparedBy(marks, c, g)
<1> DEFINE l == Len(marks)
<1> DEFINE M == Seq(Mark)
<1> DEFINE Then(n, x) == IF marks[n].c = c THEN x ELSE Append(x, marks[n])
<1> DEFINE F == [n \in 1 .. l |-> [x \in M |-> Then(n, x)]]
<1>0. l \in Nat
  OBVIOUS
<1>1. ASSUME NEW n \in 1 .. l, NEW x \in M PROVE Then(n, x) \in M
  <2>1. marks[n] \in Mark
    OBVIOUS
  <2> QED BY <2>1
<1>2. <<>> \in M
  OBVIOUS
<1> HIDE DEF M, Then, l
<1>3. IsSteps(F, l, M)
  BY <1>1 DEF IsSteps
<1> DEFINE none == <<>>
<1> HIDE DEF none
<1>4. PICK g : IsRun(g, F, l, M, none)
  <2>1. none \in M
    BY <1>2 DEF none
  <2> HIDE DEF F
  <2> QED BY <1>0, <1>3, <2>1, Run
<1>5. g \in [0 .. l -> M] /\ g[0] = none /\ \A k \in 1 .. l : g[k] = Then(k, g[k - 1])
  <2>1. \A k \in 1 .. l : \A x \in M : F[k][x] = Then(k, x)
    OBVIOUS
  <2> HIDE DEF F
  <2>2. g \in [0 .. l -> M] /\ g[0] = none /\ \A k \in 1 .. l : g[k] = F[k][g[k - 1]]
    BY <1>4 DEF IsRun
  <2>3. \A k \in 1 .. l : g[k - 1] \in M
    BY <1>0, <2>2
  <2> QED BY <2>1, <2>2, <2>3
<1> DEFINE H(f) == f = [n \in 0 .. l |-> IF n = 0 THEN none ELSE Then(n, f[n - 1])]
<1> DEFINE to == CHOOSE f : H(f)
<1>6. H(g)
  BY <1>0, <1>5
<1>7. H(to)
  <2> HIDE DEF H
  <2> QED BY <1>6
<1>8. Spared(marks, c) = to[l]
  <2>1. Spared(marks, c) = (CHOOSE f : f = [n \in 0 .. l |-> IF n = 0 THEN none ELSE
           IF marks[n].c = c THEN f[n - 1] ELSE Append(f[n - 1], marks[n])])[l]
    BY Zenon DEF Spared, l, none
  <2> QED BY <2>1, Zenon DEF Then
<1> HIDE DEF to
<1>9. to[0] = none /\ \A k \in 1 .. l : to[k] = Then(k, to[k - 1])
  BY <1>0, <1>7
<1>10. \A k \in 0 .. l : to[k] \in M
  <2> DEFINE T == {k \in 0 .. l : to[k] \in M}
  <2>1. 0 \in T
    BY <1>0, <1>2, <1>9 DEF none
  <2>2. ASSUME NEW k \in 1 .. l, k - 1 \in T PROVE k \in T
    BY <1>0, <1>1, <1>9, <2>2
  <2>3. \A k \in 0 .. l : k \in T
    <3> HIDE DEF T
    <3> QED BY <1>0, <2>1, <2>2, Along
  <2> QED BY <2>3
<1>11. SparedBy(marks, c, to)
  BY <1>8, <1>9, <1>10 DEF Then, none, l, M, SparedBy
<1> QED BY <1>11

LEMMA SparedIs ==
  ASSUME NEW marks \in Seq(Mark), Sorted(marks), marks # <<>>, NEW c \in Colors
  PROVE  LET t == Spared(marks, c) IN t \in Seq(Mark) /\ Len(t) > 0 /\ Sorted(t)
<1> DEFINE l == Len(marks)
<1>0. PICK g : SparedBy(marks, c, g)
  BY SparedSteps
<1>1. /\ g[0] = <<>> /\ Spared(marks, c) = g[l]
      /\ \A n \in 0 .. l : g[n] \in Seq(Mark)
      /\ \A n \in 1 .. l :
           g[n] = IF marks[n].c = c THEN g[n - 1] ELSE Append(g[n - 1], marks[n])
  BY <1>0 DEF SparedBy
<1>2. /\ l \in Nat /\ 1 \in 1 .. l
      /\ \A p \in 1 .. l : marks[p] \in Mark /\ marks[p].line \in Int
      /\ \A p, q \in 1 .. l : p < q => marks[p].line <= marks[q].line
      /\ \A p \in 1 .. l : (marks[p].line = -1) <=> (p = 1)
      /\ marks[1].c = "none"
  <2>1. \A m \in Mark : m.line \in Int
    BY DEF Mark
  <2> QED BY <2>1 DEF Sorted
<1>3. c # "none"
  BY DEF Colors
<1> HIDE DEF l
<1> DEFINE Good(n) == /\ Len(g[n]) > 0 /\ Sorted(g[n])
                      /\ \A j \in 1 .. Len(g[n]) : g[n][j].line <= marks[n].line
<1> DEFINE T == {n \in 0 .. l : n > 0 => Good(n)}
<1>4. 0 \in T
  BY <1>2
<1>5. ASSUME NEW n \in 1 .. l, n - 1 \in T PROVE n \in T
  <2>1. CASE n = 1
    <3>1. g[1] = Append(<<>>, marks[1]) /\ marks[1] \in Mark
      <4>1. g[1] = IF marks[1].c = c THEN g[1 - 1] ELSE Append(g[1 - 1], marks[1])
        BY <1>1, <1>2
      <4>2. g[1 - 1] = <<>> /\ marks[1].c # c
        BY <1>1, <1>2, <1>3
      <4>3. marks[1] \in Mark
        BY <1>2
      <4> QED BY <4>1, <4>2, <4>3
    <3>2. Len(g[1]) = 1 /\ g[1][1] = marks[1]
      BY <3>1
    <3>3. Sorted(g[1])
      BY <1>2, <3>2 DEF Sorted
    <3> QED BY <1>2, <2>1, <3>2, <3>3
  <2>2. CASE n > 1
    <3> DEFINE m == n - 1
    <3> DEFINE s == g[m]
    <3>1. m \in 1 .. l /\ m < n
      BY <1>2, <2>2
    <3>2. s \in Seq(Mark)
      BY <1>1, <3>1
    <3>3. Good(m)
      BY <1>5, <3>1
    <3>4. g[n] = IF marks[n].c = c THEN s ELSE Append(s, marks[n])
      BY <1>1
    <3> HIDE DEF m
    <3>5. marks[m].line <= marks[n].line /\ marks[m].line \in Int /\ marks[n].line \in Int /\ marks[n].line # -1
      BY <1>2, <2>2, <3>1
    <3> DEFINE k == Len(s)
    <3>6. k \in Nat /\ k > 0 /\ Sorted(s) /\ \A j \in 1 .. k : s[j].line <= marks[n].line
      <4>1. \A j \in 1 .. k : s[j].line \in Int
        <5>1. \A x \in Mark : x.line \in Int
          BY DEF Mark
        <5>2. \A j \in 1 .. k : s[j] \in Mark
          BY <3>2
        <5> QED BY <5>1, <5>2
      <4> QED BY <3>2, <3>3, <3>5, <4>1
    <3>7. CASE marks[n].c = c
      BY <3>4, <3>6, <3>7
    <3>8. CASE marks[n].c # c
      <4> DEFINE t == g[n]
      <4>1. t = Append(s, marks[n])
        BY <3>4, <3>8
      <4>2. Len(t) = k + 1 /\ t[k + 1] = marks[n] /\ \A j \in 1 .. k : t[j] = s[j]
        BY <3>2, <4>1
      <4> HIDE DEF t, s, k
      <4>3. \A j \in 1 .. Len(t) : t[j].line <= marks[n].line
        BY <3>5, <3>6, <4>2
      <4>4. Sorted(t)
        <5>1. \A p, q \in 1 .. Len(t) : p < q => t[p].line <= t[q].line
          <6> TAKE p, q \in 1 .. Len(t)
          <6> HAVE p < q
          <6>1. CASE q = k + 1
            BY <3>6, <4>2, <4>3, <6>1
          <6>2. CASE q \in 1 .. k
            <7>1. p \in 1 .. k
              BY <3>6, <6>2
            <7>2. s[p].line <= s[q].line
              BY <3>6, <6>2, <7>1 DEF Sorted, k
            <7> QED BY <4>2, <6>2, <7>1, <7>2
          <6> QED BY <3>6, <4>2, <6>1, <6>2
        <5>2. \A p \in 1 .. Len(t) : (t[p].line = -1) <=> (p = 1)
          <6> TAKE p \in 1 .. Len(t)
          <6>1. CASE p = k + 1
            BY <3>5, <3>6, <4>2, <6>1
          <6>2. CASE p \in 1 .. k
            <7>1. (s[p].line = -1) <=> (p = 1)
              BY <3>6, <6>2 DEF Sorted, k
            <7> QED BY <4>2, <6>2, <7>1
          <6> QED BY <3>6, <4>2, <6>1, <6>2
        <5>3. t[1].c = "none"
          BY <3>6, <4>2 DEF Sorted
        <5> QED BY <5>1, <5>2, <5>3 DEF Sorted
      <4> QED BY <3>6, <4>2, <4>3, <4>4 DEF t
    <3> QED BY <3>7, <3>8
  <2> QED BY <1>2, <2>1, <2>2
<1>6. l \in T
  <2>1. \A n \in 0 .. l : n \in T
    <3> HIDE DEF T
    <3> QED BY <1>2, <1>4, <1>5, Along
  <2> QED BY <1>2, <2>1
<1> QED BY <1>1, <1>2, <1>6

\* book_mark_flush keeps the order and the dummy.
LEMMA MarkFlushIs ==
  ASSUME NEW e \in Edit, Marked(e), NEW c \in Colors
  PROVE  MarksOnly(e, MarkFlush(e, c))
<1> DEFINE t == Spared(e.marks, c)
<1> DEFINE d == [e EXCEPT !.marks = Spared(@, c), !.at = 1]
<1>1. CASE e.marks = <<>>
  <2>1. MarkFlush(e, c) = e
    BY <1>1 DEF MarkFlush
  <2> QED BY <2>1, MarksOnlyItself
<1>2. CASE e.marks # <<>>
  <2>1. MarkFlush(e, c) = NoDummy(d)
    BY <1>2 DEF MarkFlush
  <2>2. e.marks \in Seq(Mark) /\ Sorted(e.marks)
    BY <1>2, MarksTyped DEF Marked
  <2>3. t \in Seq(Mark) /\ Len(t) > 0 /\ Sorted(t)
    BY <1>2, <2>2, SparedIs
  <2> DEFINE one == 1
  <2>4. Remarked(e, d, t, one)
    BY DEF Remarked
  <2>5. one \in Nat
    OBVIOUS
  <2> HIDE DEF d, t, one
  <2>6. d \in Edit /\ SameButMarks(e, d) /\ d.marks = t /\ d.at = one
    BY <2>3, <2>4, <2>5, MarksPut
  <2>7. Marked(d)
    BY <2>3, <2>6 DEF Marked, one
  <2>8. MarksOnly(e, d) /\ MarksOnly(d, NoDummy(d))
    BY <2>6, <2>7, NoDummyIs DEF MarksOnly
  <2> QED BY <2>1, <2>8, MarksOnlyTwice
<1> QED BY <1>1, <1>2

\* The marks of every line a search finds are put in.
LEMMA MarkAllIs ==
  ASSUME NEW e \in Edit, Marked(e), NEW lines, e.total_lines \in Nat
  PROVE  MarksOnly(e, MarkAll(e, lines))
<1> DEFINE l == e.total_lines + 1
<1> DEFINE S == {d \in Edit : MarksOnly(e, d)}
<1> DEFINE Then(n, x) == IF n - 1 \in lines THEN MarkInsert(x, n - 1, "found") ELSE x
<1> DEFINE F == [n \in 1 .. l |-> [x \in S |-> Then(n, x)]]
<1>0. l \in Nat
  OBVIOUS
<1>1. ASSUME NEW n \in 1 .. l, NEW x \in S PROVE Then(n, x) \in S
  <2>1. x \in Edit /\ Marked(x) /\ MarksOnly(e, x)
    BY DEF MarksOnly
  <2> DEFINE m == n - 1
  <2> DEFINE found == "found"
  <2>2. m \in Nat /\ found \in Colors
    BY DEF Colors
  <2> HIDE DEF m, found
  <2>3. MarksOnly(x, MarkInsert(x, m, found))
    BY <2>1, <2>2, MarkInsertIs
  <2>4. MarksOnly(e, MarkInsert(x, m, found))
    BY <2>1, <2>3, MarksOnlyTwice
  <2>5. MarkInsert(x, n - 1, "found") \in S
    BY <2>4 DEF m, found, MarksOnly
  <2> QED BY <2>5
<1>2. e \in S
  BY MarksOnlyItself
<1> HIDE DEF S, Then, l
<1>3. IsSteps(F, l, S)
  BY <1>1 DEF IsSteps
<1>4. PICK g : IsRun(g, F, l, S, e)
  <2> HIDE DEF F
  <2> QED BY <1>0, <1>2, <1>3, Run
<1>5. g \in [0 .. l -> S] /\ g[0] = e /\ \A k \in 1 .. l : g[k] = Then(k, g[k - 1])
  <2>1. \A k \in 1 .. l : \A x \in S : F[k][x] = Then(k, x)
    OBVIOUS
  <2> HIDE DEF F
  <2>2. g \in [0 .. l -> S] /\ g[0] = e /\ \A k \in 1 .. l : g[k] = F[k][g[k - 1]]
    BY <1>4 DEF IsRun
  <2>3. \A k \in 1 .. l : g[k - 1] \in S
    BY <1>0, <2>2
  <2> QED BY <2>1, <2>2, <2>3
<1> DEFINE H(f) == f = [n \in 0 .. l |-> IF n = 0 THEN e ELSE Then(n, f[n - 1])]
<1> DEFINE to == CHOOSE f : H(f)
<1>6. H(g)
  BY <1>0, <1>5
<1>7. H(to)
  <2> HIDE DEF H
  <2> QED BY <1>6
<1>8. MarkAll(e, lines) = to[l]
  BY Zenon DEF MarkAll, Then, l
<1> HIDE DEF to
<1>9. to[0] = e /\ \A k \in 1 .. l : to[k] = Then(k, to[k - 1])
  BY <1>0, <1>7
<1>10. to[l] \in S
  <2> DEFINE T == {k \in 0 .. l : to[k] \in S}
  <2>1. 0 \in T
    BY <1>0, <1>2, <1>9
  <2>2. ASSUME NEW k \in 1 .. l, k - 1 \in T PROVE k \in T
    BY <1>0, <1>1, <1>9, <2>2
  <2>3. \A k \in 0 .. l : k \in T
    <3> HIDE DEF T
    <3> QED BY <1>0, <2>1, <2>2, Along
  <2> QED BY <1>0, <2>3
<1> QED BY <1>8, <1>10 DEF S

(***************************************************************************)
(* Highlighting                                                            *)
(***************************************************************************)

\* The contexts, and the rules that name them.
LEMMA ContextsAre ==
  /\ 0 \in DOMAIN Contexts /\ DOMAIN Contexts \subseteq Nat
  /\ \A c \in DOMAIN Contexts : Len(Contexts[c].words) \in Nat
<1> DEFINE D == DOMAIN Contexts
<1>1. IsFiniteSet(D) /\ D # {} /\ D = 0 .. Cardinality(D) - 1
      /\ \A c \in D : Contexts[c] \in Context
  BY TextAssumption
<1>2. Cardinality(D) \in Nat
  BY <1>1, FS_CardinalityType
<1>3. \A c \in D : Len(Contexts[c].words) \in Nat
  <2> TAKE c \in D
  <2>1. Contexts[c].words \in Seq([word : Seq(Bytes), notLeft : SUBSET Bytes, notRight : SUBSET Bytes])
    BY <1>1 DEF Context
  <2> QED BY <2>1
<1> HIDE DEF D
<1> DEFINE k == Cardinality(D)
<1>4. 0 \in D /\ D \subseteq Nat
  <2> HIDE DEF k
  <2>1. D # {} /\ D = 0 .. k - 1 /\ k \in Nat
    BY <1>1, <1>2 DEF k
  <2> QED BY <2>1
<1> QED BY <1>3, <1>4 DEF D

RuleRecord ==
  [keyword : Nat, end : 0 .. ByteSize - 1, context : DOMAIN Contexts,
   was : DOMAIN Contexts, border : {"none", "left", "right"}]

LEMMA RuleIs ==
  ASSUME NEW r
  PROVE  r \in Rule <=> r \in RuleRecord /\ r.keyword <= Len(Contexts[r.context].words)
BY DEF Rule, RuleRecord

Passing ==
  [old : Rule, closes : BOOLEAN, closed : BOOLEAN, found : [word : Nat, end : Int],
   atOnce : BOOLEAN, changed : BOOLEAN, rule : Rule]

LEMMA CompareInt ==
  ASSUME NEW e, NEW i \in Int, NEW word, Len(word) \in Nat, NEW l, NEW r, NEW line
  PROVE  Compare(e, i, word, l, r, line) \in Int
BY DEF Compare

LEMMA DelimiterEnds ==
  ASSUME NEW e, NEW i \in Int, NEW c \in DOMAIN Contexts
  PROVE  RightEnd(e, i, c) \in Int /\ LeftEnd(e, i, c) \in Int
<1>1. Contexts[c] \in Context
  BY TextAssumption
<1>2. Len(Contexts[c].right) \in Nat /\ Len(Contexts[c].left) \in Nat
  <2>1. Contexts[c].right \in Seq(Bytes) /\ Contexts[c].left \in Seq(Bytes)
    BY <1>1 DEF Context
  <2> QED BY <2>1
<1> QED BY <1>2, CompareInt DEF RightEnd, LeftEnd

\* The word found is one of its context.
LEMMA WordAtIs ==
  ASSUME NEW e, NEW i \in Int, NEW c \in DOMAIN Contexts
  PROVE  LET w == WordAt(e, i, c)
         IN w \in [word : Nat, end : Int] /\ w.word <= Len(Contexts[c].words)
<1> DEFINE words == Contexts[c].words
<1> DEFINE Stops(k) == Compare(e, i, words[k].word, words[k].notLeft, words[k].notRight, FALSE)
<1> DEFINE here == {k \in DOMAIN words : Stops(k) > 0}
<1>1. words \in Seq([word : Seq(Bytes), notLeft : SUBSET Bytes, notRight : SUBSET Bytes])
  BY TextAssumption DEF Context
<1>2. Len(words) \in Nat /\ DOMAIN words = 1 .. Len(words)
  BY <1>1
<1>3. \A k \in DOMAIN words : Stops(k) \in Int
  <2> TAKE k \in DOMAIN words
  <2>1. words[k] \in [word : Seq(Bytes), notLeft : SUBSET Bytes, notRight : SUBSET Bytes]
    <3> DEFINE R == [word : Seq(Bytes), notLeft : SUBSET Bytes, notRight : SUBSET Bytes]
    <3>1. k \in 1 .. Len(words) /\ words \in Seq(R)
      BY <1>1, <1>2
    <3> HIDE DEF words, R
    <3>2. words[k] \in R
      BY <3>1
    <3> QED BY <3>2 DEF R
  <2>2. Len(words[k].word) \in Nat
    <3>1. words[k].word \in Seq(Bytes)
      BY <2>1
    <3> QED BY <3>1
  <2> QED BY <2>2, CompareInt
<1>4. WordAt(e, i, c) = IF here = {} THEN [word |-> 0, end |-> 0]
                        ELSE [word |-> Least(here), end |-> Stops(Least(here))]
  BY DEF WordAt
<1>5. CASE here = {}
  <2>1. WordAt(e, i, c) = [word |-> 0, end |-> 0]
    BY <1>4, <1>5, Zenon
  <2> QED BY <1>2, <2>1
<1>6. CASE here # {}
  <2>1. Least(here) \in here
    <3>1. here \in SUBSET Int /\ \A x \in here : x >= 1
      <4>1. here \subseteq DOMAIN words
        OBVIOUS
      <4> HIDE DEF here
      <4> QED BY <1>2, <4>1
    <3> HIDE DEF here
    <3> QED BY <1>6, <3>1, LeastIs
  <2>2. PICK k \in DOMAIN words : k = Least(here)
    BY <2>1
  <2>3. WordAt(e, i, c) = [word |-> k, end |-> Stops(k)]
    BY <1>4, <1>6, <2>2, Zenon
  <2> HIDE DEF Stops, words
  <2> QED BY <1>2, <1>3, <2>3 DEF words
<1> QED BY <1>5, <1>6

LEMMA ByteRange ==
  ASSUME NEW x \in Int
  PROVE  x % ByteSize \in 0 .. ByteSize - 1
<1>1. ByteSize \in Nat \ {0}
  BY TextAssumption
<1> QED BY <1>1, Z3

LEMMA EndedIs ==
  ASSUME NEW r \in Rule, NEW x \in Int
  PROVE  /\ Ended(r, x) \in Rule /\ Ended(r, x).context = r.context
         /\ Ended(r, x).keyword = r.keyword
<1> DEFINE y == x % ByteSize
<1>1. y \in 0 .. ByteSize - 1
  BY ByteRange
<1>2. Ended(r, x) = [r EXCEPT !.end = y]
  BY DEF Ended
<1> HIDE DEF y
<1> QED BY <1>1, <1>2 DEF Rule

\* What each part of apply_rules_going_right leaves is a rule.
LEMMA KeywordOffIs ==
  ASSUME NEW e, NEW i \in Int, NEW rule \in Rule
  PROVE  KeywordOff(e, i, rule) \in Passing
<1> DEFINE r == IF rule.end = i % ByteSize \/ GetByte(e, i - 1) = Newline
                THEN [rule EXCEPT !.keyword = 0] ELSE rule
<1>1. r \in Rule
  <2>1. [rule EXCEPT !.keyword = 0] \in Rule
    BY ContextsAre DEF Rule
  <2> QED BY <2>1
<1>2. KeywordOff(e, i, rule) =
        [old |-> rule, closes |-> FALSE, closed |-> FALSE, found |-> NoWord,
         atOnce |-> FALSE, changed |-> FALSE, rule |-> r]
  BY DEF KeywordOff
<1>3. NoWord \in [word : Nat, end : Int]
  BY DEF NoWord
<1> HIDE DEF r
<1> QED BY <1>1, <1>2, <1>3 DEF Passing

LEMMA RuleMoved ==
  ASSUME NEW x \in Rule, x.keyword = 0, NEW c \in DOMAIN Contexts, NEW b \in {"none", "left", "right"}
  PROVE  [x EXCEPT !.border = b, !.context = c] \in Rule
<1> DEFINE y == [x EXCEPT !.border = b, !.context = c]
<1>1. x \in RuleRecord
  BY RuleIs
<1>2. y \in RuleRecord /\ y.keyword = 0 /\ y.context = c
  BY <1>1 DEF RuleRecord
<1>3. Len(Contexts[c].words) \in Nat
  BY ContextsAre
<1> HIDE DEF y
<1>4. y \in Rule
  BY <1>2, <1>3, RuleIs
<1> QED BY <1>4 DEF y

LEMMA ContextOffIs ==
  ASSUME NEW w \in Passing, NEW i \in Int, NEW end \in Int
  PROVE  ContextOff(w, i, end) \in Passing
<1> DEFINE in == w.rule.context # 0 /\ w.rule.keyword = 0
<1> DEFINE wordEnded == w.old.keyword # 0 /\ AtEnd(w, i)
<1> DEFINE c == IF Contexts[w.rule.context].between THEN 0 ELSE w.rule.context
<1> DEFINE k == IF w.old.border = "right" /\ ~wordEnded THEN 0 ELSE w.rule.context
<1> DEFINE r == [Ended(w.rule, end) EXCEPT !.border = "right", !.context = c]
<1> DEFINE s == [w.rule EXCEPT !.border = "none", !.context = k]
<1>1. w.rule \in Rule /\ 0 \in DOMAIN Contexts /\ w.rule.context \in DOMAIN Contexts
  BY ContextsAre DEF Passing, Rule
<1>2. c \in DOMAIN Contexts /\ k \in DOMAIN Contexts
  BY <1>1
<1> HIDE DEF c, k
<1>3. ASSUME in PROVE r \in Rule /\ s \in Rule
  <2>1. Ended(w.rule, end) \in Rule /\ Ended(w.rule, end).keyword = 0
    BY <1>1, <1>3, EndedIs
  <2>2. Len(Contexts[c].words) \in Nat /\ Len(Contexts[k].words) \in Nat
    BY <1>2, ContextsAre
  <2>3. r \in Rule
    <3> DEFINE x == Ended(w.rule, end)
    <3> HIDE DEF x
    <3>1. x \in Rule /\ x.keyword = 0
      BY <2>1 DEF x
    <3>2. [x EXCEPT !.border = "right", !.context = c] \in Rule
      BY <1>2, <3>1, RuleMoved, Zenon
    <3> QED BY <3>2 DEF x
  <2>4. s \in Rule
    <3> DEFINE x == w.rule
    <3>1. x \in Rule /\ x.keyword = 0
      BY <1>1, <1>3
    <3> HIDE DEF x
    <3>2. [x EXCEPT !.border = "none", !.context = k] \in Rule
      BY <1>2, <3>1, RuleMoved, Zenon
    <3> QED BY <3>2 DEF x
  <2> QED BY <2>3, <2>4
<1>4. CASE in /\ w.old.border # "right" /\ end > 0
  <2>1. ContextOff(w, i, end) = [w EXCEPT !.closes = TRUE, !.rule = r]
    BY <1>4 DEF ContextOff, c
  <2> HIDE DEF r
  <2> QED BY <1>3, <1>4, <2>1 DEF Passing
<1>5. CASE ~(in /\ w.old.border # "right" /\ end > 0) /\ in /\ AtEnd(w, i) /\ w.old.border # "none"
  <2>1. ContextOff(w, i, end) = [w EXCEPT !.closed = TRUE, !.rule = s]
    <3>1. ContextOff(w, i, end) = [w EXCEPT !.closed = TRUE, !.rule.border = "none", !.rule.context = k]
      BY <1>5 DEF ContextOff, k
    <3> QED BY <3>1, <1>1 DEF Passing, Rule
  <2> HIDE DEF s
  <2> QED BY <1>3, <1>5, <2>1 DEF Passing
<1>6. CASE ~(in /\ w.old.border # "right" /\ end > 0) /\ ~(in /\ AtEnd(w, i) /\ w.old.border # "none")
  BY <1>6 DEF ContextOff
<1> QED BY <1>4, <1>5, <1>6

LEMMA KeywordOnIs ==
  ASSUME NEW w \in Passing, NEW found \in [word : Nat, end : Int],
         found.word <= Len(Contexts[w.rule.context].words)
  PROVE  KeywordOn(w, found) \in Passing
<1>1. CASE w.rule.keyword # 0 \/ found.word = 0
  BY <1>1 DEF KeywordOn
<1>2. CASE ~(w.rule.keyword # 0 \/ found.word = 0)
  <2> DEFINE r == [Ended(w.rule, found.end) EXCEPT !.keyword = found.word]
  <2>1. w.rule \in Rule
    BY DEF Passing
  <2>2. Ended(w.rule, found.end) \in Rule /\ Ended(w.rule, found.end).context = w.rule.context
    BY <2>1, EndedIs
  <2>3. r \in Rule
    BY <2>2 DEF Rule
  <2>4. KeywordOn(w, found) = [w EXCEPT !.found = found, !.rule = r]
    BY <1>2 DEF KeywordOn
  <2> HIDE DEF r
  <2> QED BY <2>3, <2>4 DEF Passing
<1> QED BY <1>1, <1>2

IsStepsFrom(F, from, upto, S) == F \in [from + 1 .. upto -> [S -> S]]
IsRunFrom(g, F, from, upto, S, e) ==
  g \in [from .. upto -> S] /\ g[from] = e /\ \A k \in from + 1 .. upto : g[k] = F[k][g[k - 1]]

\* A run of a function from a number on.
LEMMA RunFrom ==
  ASSUME NEW S, NEW e \in S, NEW from \in Int, NEW upto \in Int, from <= upto,
         NEW F, IsStepsFrom(F, from, upto, S)
  PROVE  \E g : IsRunFrom(g, F, from, upto, S, e)
<1> DEFINE n == upto - from
<1> DEFINE G == [k \in 1 .. n |-> F[from + k]]
<1>1. n \in Nat /\ F \in [from + 1 .. upto -> [S -> S]]
  BY DEF IsStepsFrom
<1>2. IsSteps(G, n, S)
  <2>1. \A k \in 1 .. n : from + k \in from + 1 .. upto
    OBVIOUS
  <2>2. \A k \in 1 .. n : F[from + k] \in [S -> S]
    BY <1>1, <2>1
  <2> QED BY <2>2 DEF IsSteps
<1> HIDE DEF n
<1>3. PICK g : IsRun(g, G, n, S, e)
  <2> HIDE DEF G
  <2> QED BY <1>1, <1>2, Run
<1>4. g \in [0 .. n -> S] /\ g[0] = e /\ \A k \in 1 .. n : g[k] = G[k][g[k - 1]]
  <2> HIDE DEF G
  <2> QED BY <1>3 DEF IsRun
<1> DEFINE h == [i \in from .. upto |-> g[i - from]]
<1>5. h \in [from .. upto -> S] /\ h[from] = e
  <2>1. \A i \in from .. upto : i - from \in 0 .. n
    BY DEF n
  <2>2. from \in from .. upto /\ from - from = 0
    OBVIOUS
  <2> QED BY <1>4, <2>1, <2>2
<1>6. ASSUME NEW i \in from + 1 .. upto PROVE h[i] = F[i][h[i - 1]]
  <2> DEFINE k == i - from
  <2>1. k \in 1 .. n /\ from + k = i /\ i - 1 \in from .. upto /\ (i - 1) - from = k - 1 /\ i \in from .. upto
    BY DEF n
  <2>2. h[i] = g[k] /\ h[i - 1] = g[k - 1]
    BY <2>1
  <2>3. G[k] = F[i]
    BY <2>1
  <2>4. g[k] = G[k][g[k - 1]]
    <3> HIDE DEF k, G
    <3> QED BY <1>4, <2>1
  <2> QED BY <2>2, <2>3, <2>4
<1> HIDE DEF h
<1>7. IsRunFrom(h, F, from, upto, S, e)
  BY <1>5, <1>6 DEF IsRunFrom
<1> QED BY <1>7

LEMMA AlongFrom ==
  ASSUME NEW from \in Int, NEW upto \in Int, from <= upto, NEW T, from \in T,
         \A k \in from + 1 .. upto : k - 1 \in T => k \in T
  PROVE  \A k \in from .. upto : k \in T
<1> DEFINE n == upto - from
<1> DEFINE W == {k \in Nat : from + k \in T}
<1>1. n \in Nat /\ 0 \in W
  OBVIOUS
<1>2. ASSUME NEW k \in 1 .. n, k - 1 \in W PROVE k \in W
  <2> DEFINE m == from + k
  <2>1. m \in from + 1 .. upto /\ m - 1 = from + (k - 1) /\ k \in Nat
    OBVIOUS
  <2>2. m - 1 \in T
    BY <1>2, <2>1
  <2> HIDE DEF m
  <2>3. m \in T
    BY <2>1, <2>2
  <2> QED BY <2>1, <2>3 DEF m
<1>3. \A k \in 0 .. n : k \in W
  <2> HIDE DEF W, n
  <2> QED BY <1>1, <1>2, Along
<1>4. ASSUME NEW i \in from .. upto PROVE i \in T
  <2>1. i - from \in 0 .. n /\ from + (i - from) = i
    OBVIOUS
  <2>2. i - from \in W
    <3> HIDE DEF W, n
    <3> QED BY <1>3, <2>1
  <2> QED BY <2>1, <2>2
<1> QED BY <1>4

LEMMA ContextEnteredIs ==
  ASSUME NEW w \in Passing, NEW i \in Int, NEW end \in Int
  PROVE  ContextEntered(w, i, end) \in Passing
<1> DEFINE d == ContextEntered(w, i, end)
<1>0. /\ w.rule \in Rule /\ w.rule \in RuleRecord /\ w.rule.was \in DOMAIN Contexts
      /\ w.rule.context \in DOMAIN Contexts
      /\ w.rule.keyword <= Len(Contexts[w.rule.context].words)
  <2>1. w.rule \in Rule
    BY DEF Passing
  <2>2. w.rule \in RuleRecord /\ w.rule.keyword <= Len(Contexts[w.rule.context].words)
    BY <2>1, RuleIs
  <2> QED BY <2>1, <2>2 DEF RuleRecord
<1> DEFINE r == w.rule
<1>1. \A b \in {"none", "left", "right"} : [r EXCEPT !.border = b, !.keyword = 0] \in Rule
  <2> TAKE b \in {"none", "left", "right"}
  <2> DEFINE y == [r EXCEPT !.border = b, !.keyword = 0]
  <2>1. y \in RuleRecord /\ y.keyword = 0 /\ y.context = r.context
    BY <1>0 DEF RuleRecord
  <2>2. Len(Contexts[r.context].words) \in Nat
    BY <1>0, ContextsAre
  <2> HIDE DEF y
  <2>3. y \in Rule
    BY <2>1, <2>2, RuleIs
  <2> QED BY <2>3 DEF y
<1>2. [r EXCEPT !.border = "none"] \in Rule
  <2> DEFINE y == [r EXCEPT !.border = "none"]
  <2>1. y \in RuleRecord /\ y.keyword = r.keyword /\ y.context = r.context
    BY <1>0 DEF RuleRecord
  <2> HIDE DEF y
  <2>2. y \in Rule
    BY <1>0, <2>1, RuleIs
  <2> QED BY <2>2 DEF y
<1>3. [Ended(r, end) EXCEPT !.border = "right", !.keyword = 0] \in Rule
  <2> DEFINE x == Ended(r, end)
  <2> DEFINE y == [x EXCEPT !.border = "right", !.keyword = 0]
  <2>1. x \in RuleRecord /\ x.context = r.context
    BY <1>0, EndedIs, RuleIs
  <2> HIDE DEF x
  <2>2. y \in RuleRecord /\ y.keyword = 0 /\ y.context = r.context
    BY <2>1 DEF RuleRecord
  <2>3. Len(Contexts[r.context].words) \in Nat
    BY <1>0, ContextsAre
  <2> HIDE DEF y
  <2>4. y \in Rule
    BY <2>2, <2>3, RuleIs
  <2> QED BY <2>4 DEF y, x
<1>4. [r EXCEPT !.border = "none", !.context = r.was, !.keyword = 0] \in Rule
  <2> DEFINE y == [r EXCEPT !.border = "none", !.context = r.was, !.keyword = 0]
  <2>1. y \in RuleRecord /\ y.keyword = 0 /\ y.context = r.was
    BY <1>0 DEF RuleRecord
  <2>2. Len(Contexts[r.was].words) \in Nat
    BY <1>0, ContextsAre
  <2> HIDE DEF y
  <2>3. y \in Rule
    BY <2>1, <2>2, RuleIs
  <2> QED BY <2>3 DEF y
<1>5. CASE r.context # 0 \/ w.closed \/ ~AtEnd(w, i) \/ w.old.border = "none"
  <2>1. d = w
    BY <1>5 DEF ContextEntered
  <2> QED BY <2>1
<1>6. CASE ~(r.context # 0 \/ w.closed \/ ~AtEnd(w, i) \/ w.old.border = "none") /\ w.old.border = "right"
  <2> DEFINE y == [r EXCEPT !.border = "none", !.keyword = 0]
  <2>1. d = [w EXCEPT !.changed = TRUE, !.rule.border = "none", !.rule.keyword = 0]
    BY <1>6 DEF ContextEntered
  <2>2. d = [w EXCEPT !.changed = TRUE, !.rule = y]
    BY <2>1, <1>0 DEF Passing, RuleRecord
  <2>3. y \in Rule
    BY <1>1
  <2> HIDE DEF y, d
  <2>4. d \in Passing
    BY <2>2, <2>3 DEF Passing
  <2> QED BY <2>4 DEF d
<1>7. CASE /\ ~(r.context # 0 \/ w.closed \/ ~AtEnd(w, i) \/ w.old.border = "none") /\ w.old.border # "right"
           /\ ~Contexts[r.was].between
  <2> DEFINE y == [r EXCEPT !.border = "none"]
  <2>1. d = [w EXCEPT !.rule.border = "none"]
    BY <1>7 DEF ContextEntered
  <2>2. d = [w EXCEPT !.rule = y]
    BY <2>1, <1>0 DEF Passing, RuleRecord
  <2>3. y \in Rule
    BY <1>2
  <2> HIDE DEF y, d
  <2>4. d \in Passing
    BY <2>2, <2>3 DEF Passing
  <2> QED BY <2>4 DEF d
<1>8. CASE /\ ~(r.context # 0 \/ w.closed \/ ~AtEnd(w, i) \/ w.old.border = "none") /\ w.old.border # "right"
           /\ Contexts[r.was].between /\ end >= w.found.end
  <2> DEFINE y == [Ended(r, end) EXCEPT !.border = "right", !.keyword = 0]
  <2>1. d = [w EXCEPT !.changed = TRUE, !.atOnce = TRUE, !.rule = y]
    BY <1>8 DEF ContextEntered
  <2>2. y \in Rule
    BY <1>3
  <2> HIDE DEF y, d
  <2>3. d \in Passing
    BY <2>1, <2>2 DEF Passing
  <2> QED BY <2>3 DEF d
<1>9. CASE /\ ~(r.context # 0 \/ w.closed \/ ~AtEnd(w, i) \/ w.old.border = "none") /\ w.old.border # "right"
           /\ Contexts[r.was].between /\ ~(end >= w.found.end)
  <2> DEFINE y == [r EXCEPT !.border = "none", !.context = r.was, !.keyword = 0]
  <2>1. d = [w EXCEPT !.changed = TRUE, !.rule = y]
    BY <1>9 DEF ContextEntered
  <2>2. y \in Rule
    BY <1>4
  <2> HIDE DEF y, d
  <2>3. d \in Passing
    BY <2>1, <2>2 DEF Passing
  <2> QED BY <2>3 DEF d
<1> QED BY <1>5, <1>6, <1>7, <1>8, <1>9

LEMMA ContextOnIs ==
  ASSUME NEW e, NEW i \in Int, NEW w \in Passing, NEW none \in BOOLEAN
  PROVE  ContextOn(e, i, w, none) \in Passing
<1> DEFINE opens == IF none /\ ~w.closes /\ ~w.atOnce /\ (w.rule.keyword = 0 \/ w.found.word # 0)
                    THEN {c \in DOMAIN Contexts \ {0} : LeftEnd(e, i, c) >= w.found.end}
                    ELSE {}
<1> DEFINE c == Least(opens)
<1> DEFINE inside == ~Contexts[c].between /\ w.rule.keyword = 0
<1> DEFINE d == ContextOn(e, i, w, none)
<1> DEFINE x == Ended(w.rule, LeftEnd(e, i, c))
<1> DEFINE y == [x EXCEPT !.border = "left", !.was = c, !.context = IF inside THEN c ELSE w.rule.context]
<1>1. d = IF opens = {} THEN w ELSE [w EXCEPT !.changed = @ \/ inside, !.rule = y]
  BY DEF ContextOn
<1>2. opens \subseteq DOMAIN Contexts
  OBVIOUS
<1> HIDE DEF opens, d
<1>3. CASE opens = {}
  <2>1. d = w
    BY <1>1, <1>3
  <2> QED BY <2>1 DEF d
<1>4. CASE opens # {}
  <2>1. c \in DOMAIN Contexts
    <3>1. opens \in SUBSET Int /\ \A z \in opens : z >= 0
      BY <1>2, ContextsAre
    <3>2. Least(opens) \in opens
      BY <1>4, <3>1, LeastIs
    <3> QED BY <1>2, <3>2
  <2> HIDE DEF c
  <2>2. LeftEnd(e, i, c) \in Int
    BY <2>1, DelimiterEnds
  <2>3. w.rule \in Rule
    BY DEF Passing
  <2>4. x \in Rule /\ x.context = w.rule.context /\ x.keyword = w.rule.keyword
    BY <2>2, <2>3, EndedIs
  <2>5. inside => x.keyword = 0
    BY <2>4
  <2>6. inside \in BOOLEAN
    OBVIOUS
  <2> DEFINE to == IF inside THEN c ELSE w.rule.context
  <2>7. y = [x EXCEPT !.border = "left", !.was = c, !.context = to]
    OBVIOUS
  <2> HIDE DEF x, inside, y
  <2>8. x \in RuleRecord /\ x.keyword <= Len(Contexts[x.context].words)
    BY <2>4, RuleIs
  <2>9. to \in DOMAIN Contexts
    BY <2>1, <2>4, <2>8 DEF RuleRecord
  <2>10. x.keyword <= Len(Contexts[to].words)
    <3>1. CASE inside
      BY <2>1, <2>5, <3>1, ContextsAre
    <3>2. CASE ~inside
      BY <2>4, <2>8, <3>2
    <3> QED BY <3>1, <3>2
  <2> HIDE DEF to
  <2>11. y \in RuleRecord /\ y.keyword = x.keyword /\ y.context = to
    BY <2>1, <2>7, <2>8, <2>9 DEF RuleRecord
  <2>12. y \in Rule
    BY <2>10, <2>11, RuleIs
  <2>13. d = [w EXCEPT !.changed = w.changed \/ inside, !.rule = y]
    BY <1>1, <1>4
  <2> DEFINE b == w.changed \/ inside
  <2>14. b \in BOOLEAN /\ d = [w EXCEPT !.changed = b, !.rule = y]
    BY <2>13
  <2> HIDE DEF b
  <2>15. d \in Passing
    BY <2>12, <2>14 DEF Passing
  <2> QED BY <2>15 DEF d
<1> QED BY <1>3, <1>4

LEMMA KeywordInContextIs ==
  ASSUME NEW w \in Passing, NEW found \in [word : Nat, end : Int],
         found.word <= Len(Contexts[w.rule.context].words)
  PROVE  KeywordInContext(w, found) \in Rule
<1>1. w.rule \in Rule
  BY DEF Passing
<1> DEFINE x == Ended(w.rule, found.end)
<1> DEFINE y == [x EXCEPT !.keyword = found.word]
<1>2. x \in RuleRecord /\ x.context = w.rule.context
  BY <1>1, EndedIs, RuleIs
<1> HIDE DEF x
<1>3. y \in RuleRecord /\ y.keyword = found.word /\ y.context = w.rule.context
  BY <1>2 DEF RuleRecord
<1> HIDE DEF y
<1>4. y \in Rule
  BY <1>3, RuleIs
<1> QED BY <1>1, <1>4 DEF KeywordInContext, y, x

\* apply_rules_going_right makes a rule of a rule.
LEMMA ApplyIs ==
  ASSUME NEW e, NEW i \in Int, NEW rule \in Rule
  PROVE  Apply(e, i, rule) \in Rule
<1>0. \A w \in Passing : w.rule.context \in DOMAIN Contexts /\ w.rule.was \in DOMAIN Contexts
  <2> TAKE w \in Passing
  <2>1. w.rule \in RuleRecord
    <3>1. w.rule \in Rule
      BY DEF Passing
    <3> QED BY <3>1, RuleIs
  <2> QED BY <2>1 DEF RuleRecord
<1> DEFINE w1 == KeywordOff(e, i, rule)
<1> DEFINE w2 == ContextOff(w1, i, RightEnd(e, i, w1.rule.context))
<1> DEFINE w3 == KeywordOn(w2, WordAt(e, i, w2.rule.context))
<1> DEFINE w4 == ContextEntered(w3, i, RightEnd(e, i, w3.rule.was))
<1> DEFINE w5 == ContextOn(e, i, w4, w3.rule.context = 0)
<1> DEFINE r == KeywordInContext(w5, WordAt(e, i, w5.rule.context))
<1>1. Apply(e, i, rule) = IF GetByte(e, i) = 0 THEN rule ELSE r
  BY DEF Apply
<1>2. w1 \in Passing
  BY KeywordOffIs
<1> HIDE DEF w1
<1>3. w2 \in Passing
  BY <1>0, <1>2, DelimiterEnds, ContextOffIs
<1> HIDE DEF w2
<1>4. w3 \in Passing
  BY <1>0, <1>3, WordAtIs, KeywordOnIs
<1> HIDE DEF w3
<1>5. w4 \in Passing
  BY <1>0, <1>4, DelimiterEnds, ContextEnteredIs
<1> HIDE DEF w4
<1>6. w5 \in Passing
  <2>1. (w3.rule.context = 0) \in BOOLEAN
    OBVIOUS
  <2> QED BY <1>5, <2>1, ContextOnIs
<1> HIDE DEF w5
<1>7. r \in Rule
  BY <1>0, <1>6, WordAtIs, KeywordInContextIs
<1> HIDE DEF r
<1> QED BY <1>1, <1>7

\* The rule at every byte of a run is a rule.
LEMMA RulesTyped ==
  ASSUME NEW e, NEW from \in Int, NEW upto \in Int, from <= upto, NEW rule \in Rule
  PROVE  \A i \in from .. upto : Rules(e, from, rule, upto)[i] \in Rule
<1> DEFINE F == [i \in from + 1 .. upto |-> [x \in Rule |-> Apply(e, i, x)]]
<1>1. IsStepsFrom(F, from, upto, Rule)
  BY ApplyIs DEF IsStepsFrom
<1>2. PICK g : IsRunFrom(g, F, from, upto, Rule, rule)
  <2> HIDE DEF F
  <2> QED BY <1>1, RunFrom
<1>3. g \in [from .. upto -> Rule] /\ g[from] = rule /\ \A k \in from + 1 .. upto : g[k] = Apply(e, k, g[k - 1])
  <2>1. \A k \in from + 1 .. upto : \A x \in Rule : F[k][x] = Apply(e, k, x)
    OBVIOUS
  <2> HIDE DEF F
  <2>2. g \in [from .. upto -> Rule] /\ g[from] = rule /\ \A k \in from + 1 .. upto : g[k] = F[k][g[k - 1]]
    BY <1>2 DEF IsRunFrom
  <2>3. \A k \in from + 1 .. upto : g[k - 1] \in Rule
    <3>1. \A k \in from + 1 .. upto : k - 1 \in from .. upto
      OBVIOUS
    <3> QED BY <2>2, <3>1
  <2> QED BY <2>1, <2>2, <2>3
<1> DEFINE H(f) == f = [i \in from .. upto |-> IF i = from THEN rule ELSE Apply(e, i, f[i - 1])]
<1> DEFINE at == CHOOSE f : H(f)
<1>4. H(g)
  <2> DEFINE h == [i \in from .. upto |-> IF i = from THEN rule ELSE Apply(e, i, g[i - 1])]
  <2>1. \A i \in from .. upto : g[i] = h[i]
    <3> TAKE i \in from .. upto
    <3>1. CASE i = from
      BY <1>3, <3>1
    <3>2. CASE i # from
      <4>1. i \in from + 1 .. upto
        BY <3>2
      <4> QED BY <1>3, <3>2, <4>1
    <3> QED BY <3>1, <3>2
  <2>2. g = h
    BY <1>3, <2>1
  <2> QED BY <2>2
<1>5. H(at)
  <2> HIDE DEF H
  <2> QED BY <1>4
<1>6. Rules(e, from, rule, upto) = at
  BY DEF Rules
<1> HIDE DEF at
<1>7. at[from] = rule /\ \A k \in from + 1 .. upto : at[k] = Apply(e, k, at[k - 1])
  <2>1. from \in from .. upto /\ \A k \in from + 1 .. upto : k \in from .. upto /\ k # from
    OBVIOUS
  <2> QED BY <1>5, <2>1
<1> DEFINE T == {k \in from .. upto : at[k] \in Rule}
<1>8. from \in T
  BY <1>7
<1>9. ASSUME NEW k \in from + 1 .. upto, k - 1 \in T PROVE k \in T
  <2>1. k \in Int /\ k \in from .. upto
    OBVIOUS
  <2>2. at[k - 1] \in Rule
    BY <1>9
  <2>3. at[k] \in Rule
    BY <1>7, <2>1, <2>2, ApplyIs
  <2> QED BY <2>1, <2>3
<1>10. \A k \in from .. upto : k \in T
  <2> HIDE DEF T
  <2> QED BY <1>8, <1>9, AlongFrom
<1> QED BY <1>6, <1>10

ZeroIsRule == ZeroRule \in Rule

LEMMA ZeroTyped == ZeroIsRule
<1>1. ZeroRule \in RuleRecord /\ ZeroRule.keyword = 0 /\ ZeroRule.context = 0
  BY ContextsAre, TextAssumption DEF ZeroRule, RuleRecord
<1>2. Len(Contexts[0].words) \in Nat
  BY ContextsAre
<1>3. ZeroRule \in Rule
  BY <1>1, <1>2, RuleIs
<1> QED BY <1>3 DEF ZeroIsRule

SameButRules(e, d) ==
  /\ SameBlocks(e, d) /\ d.last_byte = e.last_byte
  /\ SameLines(e, d) /\ SameScreen(e, d) /\ SameCache(e, d) /\ SameMarks(e, d)

Marker == [offset : Int, rule : Rule]
Rerule(e, d, rule, last, markers) ==
  d = [e EXCEPT !.rule = rule, !.last = last, !.markers = markers]

LEMMA RulesPut ==
  ASSUME NEW e \in Edit, NEW rule \in Rule, NEW last \in Int, NEW markers \in Seq(Marker),
         NEW d, Rerule(e, d, rule, last, markers)
  PROVE  d \in Edit /\ SameButRules(e, d)
BY DEF Rerule, Edit, Marker, SameButRules, SameBlocks, SameLines, SameScreen, SameCache, SameMarks

LEMMA MarkersTyped ==
  ASSUME NEW e \in Edit
  PROVE  /\ e.markers \in Seq(Marker) /\ Len(e.markers) \in Nat
         /\ \A k \in 1 .. Len(e.markers) : e.markers[k].offset \in Int /\ e.markers[k].rule \in Rule
<1>1. e.markers \in Seq([offset : Int, rule : Rule])
  BY EditFields
<1>2. e.markers \in Seq(Marker)
  BY <1>1, Zenon DEF Marker
<1>3. \A m \in Marker : m.offset \in Int /\ m.rule \in Rule
  BY DEF Marker
<1> QED BY <1>2, <1>3

\* edit_get_rule leaves rules, whichever way it goes.
LEMMA GoRightIs ==
  ASSUME NEW e \in Edit, NEW upto \in Int, e.last < upto
  PROVE  \E rule \in Rule, markers \in Seq(Marker) : Rerule(e, GoRight(e, upto), rule, e.last, markers)
<1> DEFINE from == e.last
<1> DEFINE at == Rules(e, from, e.rule, upto)
<1> DEFINE M == Seq(Marker)
<1> DEFINE Distant(m, i) == i > (IF m = <<>> THEN 0 ELSE m[Len(m)].offset) + SYNTAX_MARKER_DENSITY
<1> DEFINE Then(i, m) == IF Distant(m, i) THEN Append(m, [offset |-> i, rule |-> at[i]]) ELSE m
<1> DEFINE F == [i \in from + 1 .. upto |-> [x \in M |-> Then(i, x)]]
<1> DEFINE H(f) == f = [i \in from .. upto |-> IF i = from THEN e.markers ELSE Then(i, f[i - 1])]
<1> DEFINE mark == CHOOSE f : H(f)
<1>0. from \in Int /\ from < upto /\ e.rule \in Rule /\ e.markers \in M
  BY EditFields, MarkersTyped
<1>1. \A i \in from .. upto : at[i] \in Rule
  BY <1>0, RulesTyped
<1>2. GoRight(e, upto) = [e EXCEPT !.rule = at[upto], !.markers = mark[upto]]
  BY Zenon DEF GoRight
<1> HIDE DEF at
<1>3. ASSUME NEW i \in from + 1 .. upto, NEW x \in M PROVE Then(i, x) \in M
  <2> DEFINE y == [offset |-> i, rule |-> at[i]]
  <2>1. i \in from .. upto /\ i \in Int
    BY <1>0
  <2>2. y \in Marker
    BY <1>1, <2>1 DEF Marker
  <2> HIDE DEF y
  <2>3. Append(x, y) \in M
    BY <2>2
  <2> QED BY <2>3 DEF y
<1> HIDE DEF Then, M, from
<1>4. IsStepsFrom(F, from, upto, M)
  BY <1>3 DEF IsStepsFrom
<1>5. PICK g : IsRunFrom(g, F, from, upto, M, e.markers)
  <2>1. from <= upto
    BY <1>0
  <2> HIDE DEF F
  <2> QED BY <1>0, <1>4, <2>1, RunFrom
<1>6. g \in [from .. upto -> M] /\ g[from] = e.markers /\ \A k \in from + 1 .. upto : g[k] = Then(k, g[k - 1])
  <2>1. \A k \in from + 1 .. upto : \A x \in M : F[k][x] = Then(k, x)
    OBVIOUS
  <2> HIDE DEF F
  <2>2. g \in [from .. upto -> M] /\ g[from] = e.markers /\ \A k \in from + 1 .. upto : g[k] = F[k][g[k - 1]]
    BY <1>5 DEF IsRunFrom
  <2>3. \A k \in from + 1 .. upto : g[k - 1] \in M
    <3>1. \A k \in from + 1 .. upto : k - 1 \in from .. upto
      BY <1>0
    <3> QED BY <2>2, <3>1
  <2> QED BY <2>1, <2>2, <2>3
<1>7. H(g)
  <2> DEFINE h == [i \in from .. upto |-> IF i = from THEN e.markers ELSE Then(i, g[i - 1])]
  <2>1. \A i \in from .. upto : g[i] = h[i]
    <3> TAKE i \in from .. upto
    <3>1. CASE i = from
      BY <1>6, <3>1
    <3>2. CASE i # from
      <4>1. i \in from + 1 .. upto
        BY <1>0, <3>2
      <4> QED BY <1>6, <3>2, <4>1
    <3> QED BY <3>1, <3>2
  <2>2. g = h
    BY <1>6, <2>1
  <2> QED BY <2>2
<1>8. H(mark)
  <2> HIDE DEF H
  <2> QED BY <1>7
<1> HIDE DEF mark
<1>9. mark[from] = e.markers /\ \A k \in from + 1 .. upto : mark[k] = Then(k, mark[k - 1])
  <2>1. from \in from .. upto /\ \A k \in from + 1 .. upto : k \in from .. upto /\ k # from
    BY <1>0
  <2> QED BY <1>8, <2>1
<1> DEFINE T == {k \in from .. upto : mark[k] \in M}
<1>10. from \in T
  BY <1>0, <1>9
<1>11. ASSUME NEW k \in from + 1 .. upto, k - 1 \in T PROVE k \in T
  <2>1. k \in from .. upto
    BY <1>0
  <2>2. mark[k - 1] \in M
    BY <1>11
  <2>3. mark[k] \in M
    BY <1>3, <1>9, <2>1, <2>2
  <2> QED BY <2>1, <2>3
<1>12. \A k \in from .. upto : k \in T
  <2>1. from <= upto
    BY <1>0
  <2> HIDE DEF T
  <2> QED BY <1>0, <1>10, <1>11, <2>1, AlongFrom
<1>13. mark[upto] \in M /\ at[upto] \in Rule
  <2>1. upto \in from .. upto
    BY <1>0
  <2> QED BY <1>1, <1>12, <2>1
<1> DEFINE rule == at[upto]
<1> DEFINE markers == mark[upto]
<1>14. rule \in Rule /\ markers \in M
  BY <1>13
<1>15. GoRight(e, upto) = [e EXCEPT !.rule = rule, !.markers = markers]
  BY <1>2
<1> HIDE DEF rule, markers
<1>16. Rerule(e, GoRight(e, upto), rule, e.last, markers)
  BY <1>15 DEF Rerule, Edit
<1> QED BY <1>14, <1>16 DEF M

LEMMA GoLeftIs ==
  ASSUME NEW e \in Edit, NEW upto \in Int, upto >= -2
  PROVE  \E rule \in Rule, markers \in Seq(Marker) : Rerule(e, GoLeft(e, upto), rule, e.last, markers)
<1> DEFINE s == e.markers
<1> DEFINE near == {k \in DOMAIN s : s[k].offset <= upto}
<1> DEFINE kept == IF near = {} THEN <<>> ELSE SubSeq(s, 1, Greatest(near))
<1> DEFINE m == kept[Len(kept)]
<1> DEFINE from == IF kept = <<>> THEN RuleFromStart(e, upto)
                   ELSE Rules(e, m.offset, m.rule, upto)[upto]
<1>1. GoLeft(e, upto) = [e EXCEPT !.rule = from, !.markers = kept]
  BY Zenon DEF GoLeft
<1>2. /\ s \in Seq(Marker) /\ Len(s) \in Nat /\ DOMAIN s = 1 .. Len(s)
      /\ \A k \in 1 .. Len(s) : s[k].offset \in Int /\ s[k].rule \in Rule
  BY MarkersTyped
<1>3. RuleFromStart(e, upto) \in Rule
  <2>1. upto \in -2 .. upto /\ -2 \in Int /\ -2 <= upto
    OBVIOUS
  <2>2. ZeroRule \in Rule
    BY ZeroTyped DEF ZeroIsRule
  <2> DEFINE low == -2
  <2>3. RuleFromStart(e, upto) = Rules(e, low, ZeroRule, upto)[upto]
    BY DEF RuleFromStart
  <2>4. low \in Int /\ low <= upto /\ upto \in low .. upto
    BY <2>1
  <2> HIDE DEF low
  <2> QED BY <2>2, <2>3, <2>4, RulesTyped
<1>4. kept \in Seq(Marker) /\ from \in Rule
  <2>1. CASE near = {}
    <3>1. kept = <<>> /\ from = RuleFromStart(e, upto)
      BY <2>1
    <3> HIDE DEF kept, from
    <3> QED BY <1>3, <3>1
  <2>2. CASE near # {}
    <3> DEFINE k == Greatest(near)
    <3>1. k \in near
      <4>1. near \in SUBSET Int /\ \A x \in near : x <= Len(s)
        <5> HIDE DEF s
        <5> QED BY <1>2
      <4> DEFINE n == Len(s)
      <4>2. n \in Int /\ \A x \in near : x <= n
        BY <1>2, <4>1
      <4> HIDE DEF near, n
      <4> QED BY <2>2, <4>1, <4>2, GreatestIs
    <3>2. k \in 1 .. Len(s) /\ s[k].offset <= upto
      BY <1>2, <3>1
    <3>3. kept = SubSeq(s, 1, k)
      BY <2>2
    <3> HIDE DEF k, near, kept, s
    <3>4. kept \in Seq(Marker) /\ Len(kept) = k /\ kept[k] = s[k] /\ kept # <<>>
      BY <1>2, <3>2, <3>3
    <3>5. from = Rules(e, s[k].offset, s[k].rule, upto)[upto]
      BY <3>4
    <3>6. s[k].offset \in Int /\ s[k].rule \in Rule /\ upto \in s[k].offset .. upto
      BY <1>2, <3>2
    <3> HIDE DEF from
    <3>7. s[k].offset <= upto /\ s[k].offset \in Int /\ s[k].rule \in Rule
      BY <3>2, <3>6
    <3> QED BY <3>4, <3>5, <3>6, <3>7, RulesTyped, Zenon
  <2> QED BY <2>1, <2>2, Zenon
<1> HIDE DEF kept, from
<1>5. Rerule(e, GoLeft(e, upto), from, e.last, kept)
  BY <1>1 DEF Rerule, Edit
<1> QED BY <1>4, <1>5

RulesOnly(e, d) == d \in Edit /\ SameButRules(e, d)

LEMMA GetRuleIs ==
  ASSUME NEW e \in Edit, NEW i \in Int, i >= -2
  PROVE  RulesOnly(e, GetRule(e, i))
<1>1. CASE ~opt.syntax \/ i >= e.last_byte \/ i = e.last
  <2>1. GetRule(e, i) = e
    BY <1>1 DEF GetRule
  <2> QED BY <2>1 DEF RulesOnly, SameButRules, SameBlocks, SameLines, SameScreen, SameCache, SameMarks
<1>2. CASE ~(~opt.syntax \/ i >= e.last_byte \/ i = e.last)
  <2> DEFINE g == IF i > e.last THEN GoRight(e, i) ELSE GoLeft(e, i)
  <2>1. GetRule(e, i) = [g EXCEPT !.last = i]
    BY <1>2 DEF GetRule
  <2>2. \E rule \in Rule, markers \in Seq(Marker) : Rerule(e, g, rule, e.last, markers)
    <3>1. CASE i > e.last
      BY <3>1, GoRightIs, EditFields
    <3>2. CASE ~(i > e.last)
      BY <3>2, GoLeftIs
    <3> QED BY <3>1, <3>2
  <2> HIDE DEF g
  <2>3. PICK rule \in Rule, markers \in Seq(Marker) : Rerule(e, g, rule, e.last, markers)
    BY <2>2
  <2>4. Rerule(e, GetRule(e, i), rule, i, markers)
    BY <2>1, <2>3 DEF Rerule, Edit
  <2> QED BY <2>4, RulesPut DEF RulesOnly
<1> QED BY <1>1, <1>2

(***************************************************************************)
(* The routines that change the text                                       *)
(***************************************************************************)

LEMMA OneIs == \A b : One(b) \in {0, 1}
BY DEF One

\* the top of the screen follows a byte put in, or taken away, before it
ScreenFollows(e, d, c, by) ==
  IF e.curs1 < e.start_display
  THEN d.start_display = e.start_display + by /\ d.start_line = e.start_line + by * One(c = Newline)
  ELSE d.start_display = e.start_display /\ d.start_line = e.start_line

\* The top of the screen follows the byte put in or taken away.
LEMMA ShownIs ==
  ASSUME NEW e \in Edit, NEW c, NEW by \in {1, -1}
  PROVE  LET d == Shown(e, c, by)
         IN /\ d \in Edit /\ SameBlocks(e, d) /\ d.last_byte = e.last_byte
            /\ SameLines(e, d) /\ SameCache(e, d) /\ SameMarks(e, d) /\ SameRules(e, d)
            /\ ScreenFollows(e, d, c, by)
<1> DEFINE d == Shown(e, c, by)
<1> DEFINE o == One(c = Newline)
<1> DEFINE x == e.start_display + by
<1> DEFINE y == e.start_line + by * o
<1>1. o \in {0, 1}
  BY OneIs
<1>2. CASE e.curs1 < e.start_display
  <2>1. d = [e EXCEPT !.start_display = x, !.start_line = y]
    BY <1>2 DEF Shown
  <2>2. x \in Int /\ y \in Int
    <3>1. e.start_display \in Int /\ e.start_line \in Int
      BY EditFields
    <3> HIDE DEF o
    <3>2. by * o \in Int
      BY <1>1
    <3> QED BY <3>1, <3>2
  <2> HIDE DEF d, x, y
  <2>3. /\ d \in Edit /\ SameBlocks(e, d) /\ d.last_byte = e.last_byte
        /\ SameLines(e, d) /\ SameCache(e, d) /\ SameMarks(e, d) /\ SameRules(e, d)
        /\ d.start_display = x /\ d.start_line = y
    BY <2>1, <2>2 DEF Edit, SameBlocks, SameLines, SameCache, SameMarks, SameRules
  <2> QED BY <1>2, <2>3 DEF ScreenFollows, d, x, y
<1>3. CASE ~(e.curs1 < e.start_display)
  <2>1. d = e
    BY <1>3 DEF Shown
  <2> QED BY <1>3, <2>1 DEF ScreenFollows, SameBlocks, SameLines, SameCache, SameMarks, SameRules
<1> QED BY <1>2, <1>3

\* A change lets the cache go and nothing else.
LEMMA ModifiedIs ==
  ASSUME NEW e \in Edit
  PROVE  LET d == Modified(e)
         IN /\ d \in Edit /\ SameBlocks(e, d) /\ d.last_byte = e.last_byte
            /\ SameLines(e, d) /\ SameScreen(e, d) /\ SameMarks(e, d) /\ SameRules(e, d)
            /\ ~d.valid
BY DEF Modified, Edit, SameBlocks, SameLines, SameScreen, SameMarks, SameRules

\* a line more, or less
LinesFollow(e, d, c, by) ==
  d.curs_line = e.curs_line /\ d.total_lines = e.total_lines + by * One(c = Newline)

LEMMA TotalMoved ==
  ASSUME NEW e \in Edit, NEW total \in Int
  PROVE  LET d == [e EXCEPT !.total_lines = total]
         IN /\ d \in Edit /\ SameBlocks(e, d) /\ d.last_byte = e.last_byte
            /\ SameScreen(e, d) /\ SameCache(e, d) /\ SameMarks(e, d) /\ SameRules(e, d)
            /\ d.curs_line = e.curs_line /\ d.total_lines = total
BY DEF Edit, SameBlocks, SameScreen, SameCache, SameMarks, SameRules

\* A line more is counted, and the marks behind it move.
LEMMA NewLineIs ==
  ASSUME NEW e \in Edit, Marked(e), e.curs_line \in Nat, NEW c
  PROVE  LET d == NewLine(e, c)
         IN /\ d \in Edit /\ SameBlocks(e, d) /\ d.last_byte = e.last_byte
            /\ SameScreen(e, d) /\ SameCache(e, d) /\ SameRules(e, d) /\ Marked(d)
            /\ LinesFollow(e, d, c, 1)
<1> DEFINE d == NewLine(e, c)
<1>1. CASE c # Newline
  <2>1. d = e /\ One(c = Newline) = 0
    BY <1>1 DEF NewLine, One
  <2> QED BY <2>1, EditFields
          DEF LinesFollow, SameBlocks, SameScreen, SameCache, SameRules
<1>2. CASE c = Newline
  <2> DEFINE by == 1
  <2> DEFINE m == MarksMove(e, e.curs_line, by)
  <2>1. d = [m EXCEPT !.total_lines = @ + 1]
    BY <1>2 DEF NewLine
  <2>2. MarksOnly(e, m)
    <3>1. by \in {1, -1}
      OBVIOUS
    <3> HIDE DEF by
    <3> QED BY <3>1, MarksMoveIs
  <2> HIDE DEF m, d
  <2>3. m \in Edit /\ Marked(m) /\ SameButMarks(e, m) /\ m.total_lines + 1 \in Int
    BY <2>2, EditFields DEF MarksOnly
  <2> DEFINE total == m.total_lines + 1
  <2>4. d = [m EXCEPT !.total_lines = total] /\ total \in Int
    BY <2>1, <2>3
  <2> HIDE DEF total
  <2>5. /\ d \in Edit /\ SameBlocks(m, d) /\ d.last_byte = m.last_byte
        /\ SameScreen(m, d) /\ SameCache(m, d) /\ SameMarks(m, d) /\ SameRules(m, d)
        /\ d.curs_line = m.curs_line /\ d.total_lines = total
    BY <2>3, <2>4 DEF Edit, SameBlocks, SameScreen, SameCache, SameMarks, SameRules
  <2>6. /\ SameBlocks(e, d) /\ d.last_byte = e.last_byte
        /\ SameScreen(e, d) /\ SameCache(e, d) /\ SameRules(e, d)
    BY <2>3, <2>5 DEF SameButMarks, SameBlocks, SameScreen, SameCache, SameRules
  <2>7. Marked(d)
    BY <2>3, <2>5 DEF Marked, SameMarks
  <2>8. LinesFollow(e, d, c, 1)
    <3>1. e.total_lines \in Int
      BY EditFields
    <3> QED BY <1>2, <2>3, <2>5, <3>1 DEF LinesFollow, SameButMarks, SameLines, total, One
  <2> QED BY <2>5, <2>6, <2>7, <2>8 DEF d
<1> QED BY <1>1, <1>2

\* A line less is counted, and the marks behind it move back.
LEMMA LineGoneIs ==
  ASSUME NEW e \in Edit, Marked(e), e.curs_line \in Nat, NEW c
  PROVE  LET d == LineGone(e, c)
         IN /\ d \in Edit /\ SameBlocks(e, d) /\ d.last_byte = e.last_byte
            /\ SameScreen(e, d) /\ SameCache(e, d) /\ SameRules(e, d) /\ Marked(d)
            /\ LinesFollow(e, d, c, -1)
<1> DEFINE d == LineGone(e, c)
<1>1. CASE c # Newline
  <2>1. d = e /\ One(c = Newline) = 0
    BY <1>1 DEF LineGone, One
  <2> QED BY <2>1, EditFields
          DEF LinesFollow, SameBlocks, SameScreen, SameCache, SameRules
<1>2. CASE c = Newline
  <2> DEFINE by == -1
  <2> DEFINE m == MarksMove(e, e.curs_line, by)
  <2>1. d = [m EXCEPT !.total_lines = @ - 1]
    BY <1>2 DEF LineGone
  <2>2. MarksOnly(e, m)
    <3>1. by \in {1, -1}
      OBVIOUS
    <3> HIDE DEF by
    <3> QED BY <3>1, MarksMoveIs
  <2> HIDE DEF m, d
  <2>3. m \in Edit /\ Marked(m) /\ SameButMarks(e, m) /\ m.total_lines - 1 \in Int
    BY <2>2, EditFields DEF MarksOnly
  <2> DEFINE total == m.total_lines - 1
  <2>4. d = [m EXCEPT !.total_lines = total] /\ total \in Int
    BY <2>1, <2>3
  <2> HIDE DEF total
  <2>5. /\ d \in Edit /\ SameBlocks(m, d) /\ d.last_byte = m.last_byte
        /\ SameScreen(m, d) /\ SameCache(m, d) /\ SameMarks(m, d) /\ SameRules(m, d)
        /\ d.curs_line = m.curs_line /\ d.total_lines = total
    BY <2>3, <2>4 DEF Edit, SameBlocks, SameScreen, SameCache, SameMarks, SameRules
  <2>6. /\ SameBlocks(e, d) /\ d.last_byte = e.last_byte
        /\ SameScreen(e, d) /\ SameCache(e, d) /\ SameRules(e, d)
    BY <2>3, <2>5 DEF SameButMarks, SameBlocks, SameScreen, SameCache, SameRules
  <2>7. Marked(d)
    BY <2>3, <2>5 DEF Marked, SameMarks
  <2>8. LinesFollow(e, d, c, -1)
    <3>1. e.total_lines \in Int
      BY EditFields
    <3> QED BY <1>2, <2>3, <2>5, <3>1 DEF LinesFollow, SameButMarks, SameLines, total, One
  <2> QED BY <2>5, <2>6, <2>7, <2>8 DEF d
<1> QED BY <1>1, <1>2

\* What was true of a text is true of it with a byte more, once all is counted.
LEMMA GrownTrue ==
  ASSUME NEW e, True(e), NEW d \in Edit, Blocks(d), NEW c, Grown(e, d, e.curs1, c),
         d.last_byte = e.last_byte + 1, d.last_byte <= SIZE_LIMIT,
         \/ d.curs1 = e.curs1 /\ d.curs_line = e.curs_line
         \/ d.curs1 = e.curs1 + 1 /\ d.curs_line = e.curs_line + One(c = Newline),
         d.total_lines = e.total_lines + One(c = Newline),
         ScreenFollows(e, d, c, 1), ~d.valid, Marked(d)
  PROVE  True(d)
<1> DEFINE p == e.curs1
<1> DEFINE o == One(c = Newline)
<1>1. /\ e \in Edit /\ e.last_byte = Size(e) /\ e.last_byte \in Nat /\ p \in 0 .. e.last_byte
      /\ \A k \in Nat : CountLines(e, 0, k) \in Nat
  BY SoundFields DEF True
<1>2. /\ e.curs_line = CountLines(e, 0, p) /\ e.total_lines = CountLines(e, 0, e.last_byte)
      /\ e.start_display \in 0 .. e.last_byte /\ e.start_line = CountLines(e, 0, e.start_display)
  BY DEF True, Counted
<1>3. d.last_byte = Size(d)
  BY <1>1 DEF Grown
<1>4. /\ \A k \in 0 .. p : CountLines(d, 0, k) = CountLines(e, 0, k)
      /\ \A k \in p .. e.last_byte : CountLines(d, 0, k + 1) = CountLines(e, 0, k) + o
  BY <1>1, <1>3, CountGrown
<1>5. o \in {0, 1}
  BY OneIs
<1> HIDE DEF o
<1>6. d.curs_line = CountLines(d, 0, d.curs1)
  <2>1. CASE d.curs1 = p /\ d.curs_line = e.curs_line
    BY <1>1, <1>2, <1>4, <2>1
  <2>2. CASE d.curs1 = p + 1 /\ d.curs_line = e.curs_line + o
    <3>1. CountLines(d, 0, p + 1) = CountLines(e, 0, p) + o
      BY <1>1, <1>4
    <3> QED BY <1>2, <2>2, <3>1
  <2> QED BY <2>1, <2>2 DEF o
<1>7. d.total_lines = CountLines(d, 0, d.last_byte)
  <2>1. CountLines(d, 0, e.last_byte + 1) = CountLines(e, 0, e.last_byte) + o
    BY <1>1, <1>4
  <2> QED BY <1>2, <2>1 DEF o
<1>8. d.start_display \in 0 .. d.last_byte /\ d.start_line = CountLines(d, 0, d.start_display)
  <2> DEFINE s == e.start_display
  <2>1. s \in Nat /\ s <= e.last_byte
    BY <1>1, <1>2
  <2>2. CASE p < s
    <3>1. d.start_display = s + 1 /\ d.start_line = e.start_line + 1 * o
      BY <2>2 DEF ScreenFollows, o
    <3>2. CountLines(d, 0, s + 1) = CountLines(e, 0, s) + o
      BY <1>1, <1>4, <2>1, <2>2
    <3>3. 1 * o = o
      BY <1>5
    <3> QED BY <1>1, <1>2, <2>1, <3>1, <3>2, <3>3
  <2>3. CASE ~(p < s)
    <3>1. d.start_display = s /\ d.start_line = e.start_line
      BY <2>3 DEF ScreenFollows
    <3>2. s \in 0 .. p
      BY <1>1, <2>1, <2>3
    <3> QED BY <1>1, <1>2, <1>4, <2>1, <3>1, <3>2
  <2> QED BY <2>2, <2>3
<1> QED BY <1>3, <1>6, <1>7, <1>8 DEF True, Sound, Counted, Cached

\* What was true of a text is true of it with a byte less, once all is counted.
LEMMA ShrunkTrue ==
  ASSUME NEW e, True(e), NEW d \in Edit, Blocks(d), NEW c, Grown(d, e, d.curs1, c),
         d.last_byte = e.last_byte - 1,
         \/ d.curs1 = e.curs1 /\ d.curs_line = e.curs_line
         \/ d.curs1 = e.curs1 - 1 /\ d.curs_line = e.curs_line - One(c = Newline),
         d.total_lines = e.total_lines - One(c = Newline),
         IF d.curs1 < e.start_display
         THEN d.start_display = e.start_display - 1 /\ d.start_line = e.start_line - One(c = Newline)
         ELSE d.start_display = e.start_display /\ d.start_line = e.start_line,
         ~d.valid, Marked(d)
  PROVE  True(d)
<1> DEFINE p == d.curs1
<1> DEFINE o == One(c = Newline)
<1>1. /\ e \in Edit /\ e.last_byte = Size(e) /\ e.last_byte \in Nat /\ e.curs1 \in 0 .. e.last_byte
      /\ e.last_byte <= SIZE_LIMIT
      /\ \A k \in Nat : CountLines(e, 0, k) \in Nat
  BY SoundFields DEF True
<1>2. /\ e.curs_line = CountLines(e, 0, e.curs1) /\ e.total_lines = CountLines(e, 0, e.last_byte)
      /\ e.start_display \in 0 .. e.last_byte /\ e.start_line = CountLines(e, 0, e.start_display)
  BY DEF True, Counted
<1>3. d.last_byte = Size(d) /\ Size(d) \in Nat /\ p \in 0 .. Size(d)
  <2>1. Size(d) \in Nat /\ Size(e) = Size(d) + 1 /\ p \in 0 .. Size(d)
    BY SizeIs DEF Grown
  <2> QED BY <1>1, <2>1
<1>4. /\ \A k \in 0 .. p : CountLines(e, 0, k) = CountLines(d, 0, k)
      /\ \A k \in p .. d.last_byte : CountLines(e, 0, k + 1) = CountLines(d, 0, k) + o
  BY <1>1, <1>3, CountGrown
<1>5. o \in {0, 1} /\ \A k \in Nat : CountLines(d, 0, k) \in Nat
  BY OneIs, CountStep
<1> HIDE DEF o
<1>6. d.curs_line = CountLines(d, 0, p)
  <2>1. CASE d.curs1 = e.curs1 /\ d.curs_line = e.curs_line
    BY <1>2, <1>3, <1>4, <2>1
  <2>2. CASE d.curs1 = e.curs1 - 1 /\ d.curs_line = e.curs_line - o
    <3>1. CountLines(e, 0, p + 1) = CountLines(d, 0, p) + o
      BY <1>3, <1>4
    <3>2. p + 1 = e.curs1
      BY <1>1, <2>2
    <3>3. CountLines(d, 0, p) \in Nat
      BY <1>3, <1>5
    <3> QED BY <1>2, <1>5, <2>2, <3>1, <3>2, <3>3
  <2> QED BY <2>1, <2>2 DEF o
<1>7. d.total_lines = CountLines(d, 0, d.last_byte)
  <2> DEFINE l == d.last_byte
  <2>1. CountLines(e, 0, l + 1) = CountLines(d, 0, l) + o /\ l + 1 = e.last_byte
    BY <1>1, <1>3, <1>4
  <2>2. CountLines(d, 0, l) \in Nat
    BY <1>3, <1>5
  <2>3. d.total_lines = e.total_lines - o
    BY DEF o
  <2> HIDE DEF l
  <2> QED BY <1>2, <1>5, <2>1, <2>2, <2>3 DEF l
<1>8. d.start_display \in 0 .. d.last_byte /\ d.start_line = CountLines(d, 0, d.start_display)
  <2> DEFINE s == e.start_display
  <2>1. s \in Nat /\ s <= e.last_byte
    BY <1>1, <1>2
  <2>2. CASE p < s
    <3> DEFINE t == s - 1
    <3>1. d.start_display = t /\ d.start_line = e.start_line - o
      BY <2>2 DEF o
    <3>2. t \in p .. d.last_byte /\ t \in Nat /\ t + 1 = s
      BY <1>1, <1>3, <2>1, <2>2
    <3> HIDE DEF t
    <3>3. CountLines(e, 0, t + 1) = CountLines(d, 0, t) + o
      BY <1>4, <3>2
    <3>4. CountLines(d, 0, t) \in Nat
      BY <1>5, <3>2
    <3>5. d.start_line = CountLines(d, 0, t)
      BY <1>2, <1>5, <3>1, <3>2, <3>3, <3>4
    <3> QED BY <1>3, <3>1, <3>2, <3>5
  <2>3. CASE ~(p < s)
    <3>1. d.start_display = s /\ d.start_line = e.start_line
      BY <2>3
    <3>2. s \in 0 .. p
      BY <1>3, <2>1, <2>3
    <3> QED BY <1>2, <1>3, <1>4, <2>1, <3>1, <3>2
  <2> QED BY <2>2, <2>3
<1>9. d.last_byte <= SIZE_LIMIT
  <2>1. SIZE_LIMIT \in Nat
    BY Sizes
  <2> QED BY <1>1, <2>1
<1> QED BY <1>3, <1>6, <1>7, <1>8, <1>9 DEF True, Sound, Counted, Cached

LEMMA OneMore ==
  ASSUME NEW x \in Int, NEW b
  PROVE  x + One(b) \in Int /\ x - One(b) \in Int
<1> DEFINE o == One(b)
<1>1. o \in {0, 1}
  BY OneIs
<1> HIDE DEF o
<1>2. x + o \in Int /\ x - o \in Int
  BY <1>1
<1> QED BY <1>2 DEF o

\* d is e with these numbers
Numbered(e, d, line, last, n) ==
  d = [e EXCEPT !.curs_line = line, !.last = last, !.last_byte = n]
Lengthened(e, d, last, n) == d = [e EXCEPT !.last = last, !.last_byte = n]

LEMMA NumberedIs ==
  ASSUME NEW e \in Edit, NEW line \in Int, NEW last \in Int, NEW n \in Nat,
         NEW d, Numbered(e, d, line, last, n)
  PROVE  /\ d \in Edit /\ SameBlocks(e, d) /\ SameScreen(e, d) /\ SameCache(e, d)
         /\ SameMarks(e, d) /\ d.total_lines = e.total_lines
         /\ d.curs_line = line /\ d.last_byte = n
BY DEF Numbered, Edit, SameBlocks, SameScreen, SameCache, SameMarks

LEMMA LengthenedIs ==
  ASSUME NEW e \in Edit, NEW last \in Int, NEW n \in Nat, NEW d, Lengthened(e, d, last, n)
  PROVE  /\ d \in Edit /\ SameBlocks(e, d) /\ SameScreen(e, d) /\ SameCache(e, d)
         /\ SameMarks(e, d) /\ SameLines(e, d) /\ d.last_byte = n
BY DEF Lengthened, Edit, SameBlocks, SameScreen, SameCache, SameMarks, SameLines

\* what Insert and InsertAhead do before the byte is put down
Prepared(e, m, c) ==
  /\ m \in Edit /\ SameBlocks(e, m) /\ m.last_byte = e.last_byte
  /\ ScreenFollows(e, m, c, 1) /\ ~m.valid /\ Marked(m)
  /\ m.curs_line = e.curs_line /\ m.total_lines = e.total_lines + One(c = Newline)

\* What the truth says of the single fields.
LEMMA TrueFields ==
  ASSUME NEW e, True(e)
  PROVE  /\ e \in Edit /\ Blocks(e) /\ Marked(e) /\ e.last_byte = Size(e)
         /\ e.last_byte = e.curs1 + e.curs2
         /\ e.curs1 \in Nat /\ e.curs2 \in Nat /\ e.last_byte \in Nat
         /\ e.last_byte <= SIZE_LIMIT /\ SIZE_LIMIT \in Nat
         /\ e.curs_line \in Nat /\ e.total_lines \in Nat /\ e.start_line \in Nat
         /\ e.start_display \in 0 .. e.last_byte
<1>1. Sound(e) /\ Counted(e) /\ Marked(e)
  BY DEF True
<1>2. /\ e \in Edit /\ Blocks(e) /\ e.last_byte = Size(e)
      /\ e.last_byte \in Nat /\ e.last_byte <= SIZE_LIMIT
      /\ e.curs1 \in 0 .. e.last_byte /\ e.curs2 \in 0 .. e.last_byte
      /\ e.last_byte = e.curs1 + e.curs2
      /\ \A k \in Nat : CountLines(e, 0, k) \in Nat
  BY <1>1, SoundFields
<1>3. e.start_display \in 0 .. e.last_byte
  BY <1>1 DEF Counted
<1>4. e.curs1 \in Nat /\ e.curs2 \in Nat /\ e.start_display \in Nat
  BY <1>2, <1>3
<1>5. e.curs_line \in Nat /\ e.total_lines \in Nat /\ e.start_line \in Nat
  BY <1>1, <1>2, <1>4 DEF Counted
<1> QED BY <1>1, <1>2, <1>3, <1>4, <1>5, Sizes

\* All that edit_insert and edit_insert_ahead count before the byte is there.
LEMMA PreparedIs ==
  ASSUME NEW e, True(e), NEW c
  PROVE  Prepared(e, NewLine(Modified(Shown(e, c, 1)), c), c)
<1> DEFINE one == 1
<1> DEFINE x == Shown(e, c, one)
<1> DEFINE y == Modified(x)
<1> DEFINE m == NewLine(y, c)
<1>0. e \in Edit /\ Marked(e) /\ e.curs_line \in Nat
  BY TrueFields
<1>1. /\ x \in Edit /\ SameBlocks(e, x) /\ x.last_byte = e.last_byte
      /\ SameLines(e, x) /\ SameMarks(e, x) /\ ScreenFollows(e, x, c, one)
  <2>1. one \in {1, -1}
    OBVIOUS
  <2> HIDE DEF one
  <2> QED BY <1>0, <2>1, ShownIs
<1> HIDE DEF x
<1>2. /\ y \in Edit /\ SameBlocks(x, y) /\ y.last_byte = x.last_byte
      /\ SameLines(x, y) /\ SameScreen(x, y) /\ SameMarks(x, y) /\ ~y.valid
  BY <1>1, ModifiedIs
<1> HIDE DEF y
<1>3. Marked(y) /\ y.curs_line \in Nat
  BY <1>0, <1>1, <1>2 DEF Marked, SameMarks, SameLines
<1>4. /\ m \in Edit /\ SameBlocks(y, m) /\ m.last_byte = y.last_byte
      /\ SameScreen(y, m) /\ SameCache(y, m) /\ Marked(m) /\ LinesFollow(y, m, c, one)
  BY <1>2, <1>3, NewLineIs
<1> HIDE DEF m
<1>5. one * One(c = Newline) = One(c = Newline)
  <2> DEFINE o == One(c = Newline)
  <2>1. o \in {0, 1}
    BY OneIs
  <2> HIDE DEF o
  <2>2. one * o = o
    BY <2>1
  <2> QED BY <2>2 DEF o
<1>6. m.curs_line = e.curs_line /\ m.total_lines = e.total_lines + One(c = Newline)
  BY <1>1, <1>2, <1>4, <1>5 DEF SameLines, LinesFollow
<1>7. SameBlocks(e, m) /\ m.last_byte = e.last_byte /\ ~m.valid
  BY <1>1, <1>2, <1>4 DEF SameBlocks, SameCache
<1>8. m.start_display = x.start_display /\ m.start_line = x.start_line
  BY <1>2, <1>4 DEF SameScreen
<1>9. ScreenFollows(e, m, c, one)
  BY <1>1, <1>8 DEF ScreenFollows
<1> QED BY <1>4, <1>6, <1>7, <1>9 DEF Prepared, m, y, x

\* the blocks are e's own
LEMMA OwnBlocks ==
  ASSUME NEW e, NEW d, SameBlocks(e, d)
  PROVE  /\ Blocks(e) <=> Blocks(d)
         /\ d.curs1 = e.curs1 /\ d.curs2 = e.curs2
         /\ \A x, p, c : (Grown(e, x, p, c) <=> Grown(d, x, p, c)) /\ (Grown(x, e, p, c) <=> Grown(x, d, p, c))
<1>1. Size(d) = Size(e) /\ \A i \in Int : GetByte(d, i) = GetByte(e, i)
  BY SameBlocksText DEF SameText
<1>2. Blocks(e) <=> Blocks(d)
  BY DEF SameBlocks, Blocks
<1>3. ASSUME NEW x, NEW p, NEW c
      PROVE  Grown(e, x, p, c) <=> Grown(d, x, p, c)
  <2>1. CASE p \in Int
    <3>1. \A i \in Int : i - 1 \in Int
      OBVIOUS
    <3>2. \A i \in Int : GetByte(d, i - 1) = GetByte(e, i - 1)
      BY <1>1, <3>1
    <3> QED BY <1>1, <3>2 DEF Grown
  <2>2. CASE ~(p \in Int)
    BY <2>2 DEF Grown
  <2> QED BY <2>1, <2>2
<1>4. ASSUME NEW x, NEW p, NEW c
      PROVE  Grown(x, e, p, c) <=> Grown(x, d, p, c)
  BY <1>1 DEF Grown
<1> QED BY <1>2, <1>3, <1>4 DEF SameBlocks

\* edit_insert puts its byte down before the cursor, and all stays true.
LEMMA InsertIs ==
  ASSUME NEW e, True(e), e.last_byte < SIZE_LIMIT, NEW c \in Bytes
  PROVE  LET d == Insert(e, c)
         IN True(d) /\ Grown(e, d, e.curs1, c) /\ d.curs1 = e.curs1 + 1
<1> DEFINE m == NewLine(Modified(Shown(e, c, 1)), c)
<1> DEFINE line == m.curs_line + One(c = Newline)
<1> DEFINE last == m.last + One(m.last > e.curs1)
<1> DEFINE n == m.last_byte + 1
<1> DEFINE y == [m EXCEPT !.curs_line = line, !.last = last, !.last_byte = n]
<1> DEFINE d == PutBefore(y, c)
<1>0. /\ e \in Edit /\ Blocks(e) /\ e.last_byte = e.curs1 + e.curs2 /\ e.curs1 \in Nat /\ e.curs2 \in Nat
      /\ e.last_byte \in Nat /\ SIZE_LIMIT \in Nat
  BY TrueFields
<1>1. Insert(e, c) = d
  <2>1. ~(e.last_byte >= SIZE_LIMIT)
    BY <1>0
  <2> QED BY <2>1 DEF Insert
<1>2. Prepared(e, m, c)
  BY PreparedIs
<1> HIDE DEF m
<1>3. m \in Edit /\ SameBlocks(e, m) /\ m.last_byte = e.last_byte /\ m.last \in Int /\ m.curs_line \in Int
  BY <1>2, EditFields DEF Prepared
<1>4. Numbered(m, y, line, last, n)
  BY DEF Numbered
<1>5. line \in Int /\ last \in Int /\ n \in Nat
  BY <1>0, <1>3, OneMore
<1> HIDE DEF y, last, n, line
<1>6. /\ y \in Edit /\ SameBlocks(m, y) /\ SameScreen(m, y) /\ SameCache(m, y)
      /\ SameMarks(m, y) /\ y.total_lines = m.total_lines
      /\ y.curs_line = line /\ y.last_byte = n
  BY <1>3, <1>4, <1>5, NumberedIs
<1>7. SameBlocks(e, y)
  BY <1>3, <1>6 DEF SameBlocks
<1>8. Blocks(y) /\ y.curs1 = e.curs1
  BY <1>0, <1>7, OwnBlocks
<1>9. y.curs1 <= SIZE_LIMIT
  BY <1>0, <1>8
<1>10. d \in Edit /\ Blocks(d) /\ SameAfter(y, d) /\ SameRest(y, d) /\ d.curs1 = y.curs1 + 1
  BY <1>6, <1>8, <1>9, PutBeforeIs
<1>11. Grown(y, d, y.curs1, c)
  BY <1>6, <1>8, <1>9, PutBeforeGrows
<1> HIDE DEF d
<1>12. Grown(e, d, e.curs1, c)
  BY <1>7, <1>8, <1>11, OwnBlocks
<1>13. d.last_byte = e.last_byte + 1
  BY <1>3, <1>6, <1>10 DEF SameRest, n
<1>14. d.last_byte <= SIZE_LIMIT
  BY <1>0, <1>13
<1>15. d.curs1 = e.curs1 + 1 /\ d.curs_line = e.curs_line + One(c = Newline)
  BY <1>2, <1>6, <1>8, <1>10 DEF SameRest, SameLines, Prepared, line
<1>16. d.total_lines = e.total_lines + One(c = Newline)
  BY <1>2, <1>6, <1>10 DEF SameRest, SameLines, Prepared
<1>17. d.start_display = m.start_display /\ d.start_line = m.start_line
  BY <1>6, <1>10 DEF SameRest, SameScreen
<1>18. ScreenFollows(e, d, c, 1)
  BY <1>2, <1>17 DEF ScreenFollows, Prepared
<1>19. ~d.valid /\ Marked(d)
  BY <1>2, <1>6, <1>10 DEF SameRest, SameCache, SameMarks, Marked, Prepared
<1>20. True(d)
  BY <1>10, <1>12, <1>13, <1>14, <1>15, <1>16, <1>18, <1>19, GrownTrue
<1> QED BY <1>1, <1>12, <1>15, <1>20

\* edit_insert_ahead puts its byte down after the cursor, and all stays true.
LEMMA InsertAheadIs ==
  ASSUME NEW e, True(e), e.last_byte < SIZE_LIMIT, NEW c \in Bytes
  PROVE  LET d == InsertAhead(e, c)
         IN True(d) /\ Grown(e, d, e.curs1, c) /\ d.curs1 = e.curs1
<1> DEFINE m == NewLine(Modified(Shown(e, c, 1)), c)
<1> DEFINE last == m.last + One(m.last >= e.curs1)
<1> DEFINE n == m.last_byte + 1
<1> DEFINE y == [m EXCEPT !.last = last, !.last_byte = n]
<1> DEFINE d == PutAfter(y, c)
<1>0. /\ e \in Edit /\ Blocks(e) /\ e.last_byte = e.curs1 + e.curs2 /\ e.curs1 \in Nat /\ e.curs2 \in Nat
      /\ e.last_byte \in Nat /\ SIZE_LIMIT \in Nat
  BY TrueFields
<1>1. InsertAhead(e, c) = d
  <2>1. ~(e.last_byte >= SIZE_LIMIT)
    BY <1>0
  <2> QED BY <2>1 DEF InsertAhead
<1>2. Prepared(e, m, c)
  BY PreparedIs
<1> HIDE DEF m
<1>3. m \in Edit /\ SameBlocks(e, m) /\ m.last_byte = e.last_byte /\ m.last \in Int
  BY <1>2, EditFields DEF Prepared
<1>4. Lengthened(m, y, last, n)
  BY DEF Lengthened
<1>5. last \in Int /\ n \in Nat
  BY <1>0, <1>3, OneMore
<1> HIDE DEF y, last, n
<1>6. /\ y \in Edit /\ SameBlocks(m, y) /\ SameScreen(m, y) /\ SameCache(m, y)
      /\ SameMarks(m, y) /\ SameLines(m, y) /\ y.last_byte = n
  BY <1>3, <1>4, <1>5, LengthenedIs
<1>7. SameBlocks(e, y)
  BY <1>3, <1>6 DEF SameBlocks
<1>8. Blocks(y) /\ y.curs1 = e.curs1 /\ y.curs2 = e.curs2
  BY <1>0, <1>7, OwnBlocks
<1>9. y.curs2 <= SIZE_LIMIT
  BY <1>0, <1>8
<1>10. d \in Edit /\ Blocks(d) /\ SameBefore(y, d) /\ SameRest(y, d)
  BY <1>6, <1>8, <1>9, PutAfterIs
<1>11. Grown(y, d, y.curs1, c)
  BY <1>6, <1>8, <1>9, PutAfterGrows
<1> HIDE DEF d
<1>12. Grown(e, d, e.curs1, c)
  BY <1>7, <1>8, <1>11, OwnBlocks
<1>13. d.last_byte = e.last_byte + 1
  BY <1>3, <1>6, <1>10 DEF SameRest, n
<1>14. d.last_byte <= SIZE_LIMIT
  BY <1>0, <1>13
<1>15. d.curs1 = e.curs1 /\ d.curs_line = e.curs_line
  BY <1>2, <1>6, <1>8, <1>10 DEF SameRest, SameLines, Prepared, SameBefore
<1>16. d.total_lines = e.total_lines + One(c = Newline)
  BY <1>2, <1>6, <1>10 DEF SameRest, SameLines, Prepared
<1>17. d.start_display = m.start_display /\ d.start_line = m.start_line
  BY <1>6, <1>10 DEF SameRest, SameScreen
<1>18. ScreenFollows(e, d, c, 1)
  BY <1>2, <1>17 DEF ScreenFollows, Prepared
<1>19. ~d.valid /\ Marked(d)
  BY <1>2, <1>6, <1>10 DEF SameRest, SameCache, SameMarks, Marked, Prepared
<1>20. True(d)
  BY <1>10, <1>12, <1>13, <1>14, <1>15, <1>16, <1>18, <1>19, GrownTrue
<1> QED BY <1>1, <1>12, <1>15, <1>20

LEMMA LessOne ==
  ASSUME NEW b
  PROVE  (-1) * One(b) = 0 - One(b) /\ \A x \in Int : x + (0 - One(b)) = x - One(b)
<1> DEFINE o == One(b)
<1>1. o \in {0, 1}
  BY OneIs
<1> HIDE DEF o
<1>2. (-1) * o = 0 - o /\ \A x \in Int : x + (0 - o) = x - o
  BY <1>1
<1> QED BY <1>2 DEF o

LEMMA LineGoneModified ==
  ASSUME NEW g \in Edit, Marked(g), g.curs_line \in Nat, NEW c
  PROVE  LET m == LineGone(Modified(g), c)
         IN /\ m \in Edit /\ SameBlocks(g, m) /\ m.last_byte = g.last_byte
            /\ SameScreen(g, m) /\ ~m.valid /\ Marked(m)
            /\ m.curs_line = g.curs_line /\ m.total_lines = g.total_lines - One(c = Newline)
<1> DEFINE by == -1
<1> DEFINE y == Modified(g)
<1> DEFINE m == LineGone(y, c)
<1>1. /\ y \in Edit /\ SameBlocks(g, y) /\ y.last_byte = g.last_byte
      /\ SameLines(g, y) /\ SameScreen(g, y) /\ SameMarks(g, y) /\ ~y.valid
  BY ModifiedIs
<1> HIDE DEF y
<1>2. Marked(y) /\ y.curs_line \in Nat
  BY <1>1 DEF Marked, SameMarks, SameLines
<1>3. /\ m \in Edit /\ SameBlocks(y, m) /\ m.last_byte = y.last_byte
      /\ SameScreen(y, m) /\ SameCache(y, m) /\ Marked(m) /\ LinesFollow(y, m, c, by)
  BY <1>1, <1>2, LineGoneIs
<1> HIDE DEF m
<1>4. y.total_lines \in Int
  BY <1>1, EditFields
<1>5. by * One(c = Newline) = 0 - One(c = Newline)
  BY LessOne
<1>6. m.total_lines = y.total_lines - One(c = Newline)
  <2>1. m.total_lines = y.total_lines + by * One(c = Newline)
    BY <1>3 DEF LinesFollow
  <2>2. y.total_lines + (0 - One(c = Newline)) = y.total_lines - One(c = Newline)
    BY <1>4, LessOne
  <2> HIDE DEF by
  <2> QED BY <1>5, <2>1, <2>2
<1>7. SameBlocks(g, m) /\ m.last_byte = g.last_byte /\ SameScreen(g, m) /\ ~m.valid
      /\ m.curs_line = g.curs_line /\ y.total_lines = g.total_lines
  BY <1>1, <1>3 DEF SameBlocks, SameScreen, SameCache, LinesFollow, SameLines
<1> QED BY <1>3, <1>6, <1>7 DEF m, y

LEMMA ShownLess ==
  ASSUME NEW m \in Edit, NEW c
  PROVE  LET d == Shown(m, c, -1)
         IN /\ d \in Edit /\ SameBlocks(m, d) /\ d.last_byte = m.last_byte
            /\ SameLines(m, d) /\ SameCache(m, d) /\ SameMarks(m, d)
            /\ IF m.curs1 < m.start_display
               THEN /\ d.start_display = m.start_display - 1
                    /\ d.start_line = m.start_line - One(c = Newline)
               ELSE d.start_display = m.start_display /\ d.start_line = m.start_line
<1> DEFINE by == -1
<1> DEFINE d == Shown(m, c, by)
<1>1. /\ d \in Edit /\ SameBlocks(m, d) /\ d.last_byte = m.last_byte
      /\ SameLines(m, d) /\ SameCache(m, d) /\ SameMarks(m, d) /\ ScreenFollows(m, d, c, by)
  <2>1. by \in {1, -1}
    OBVIOUS
  <2> HIDE DEF by
  <2> QED BY <2>1, ShownIs
<1> HIDE DEF d
<1>2. m.start_display \in Int /\ m.start_line \in Int
  BY EditFields
<1>3. m.start_display + by = m.start_display - 1
  BY <1>2
<1>4. m.start_line + by * One(c = Newline) = m.start_line - One(c = Newline)
  <2>1. by * One(c = Newline) = 0 - One(c = Newline)
    BY LessOne
  <2>2. m.start_line + (0 - One(c = Newline)) = m.start_line - One(c = Newline)
    BY <1>2, LessOne
  <2> HIDE DEF by
  <2> QED BY <2>1, <2>2
<1>5. IF m.curs1 < m.start_display
      THEN d.start_display = m.start_display - 1 /\ d.start_line = m.start_line - One(c = Newline)
      ELSE d.start_display = m.start_display /\ d.start_line = m.start_line
  <2> HIDE DEF by
  <2> QED BY <1>1, <1>3, <1>4 DEF ScreenFollows
<1> QED BY <1>1, <1>5 DEF d

\* edit_delete takes the byte after the cursor away, and all stays true.
LEMMA DeleteIs ==
  ASSUME NEW e, True(e), e.curs2 > 0
  PROVE  LET d == Delete(e)
         IN True(d) /\ Grown(d, e, e.curs1, GetByte(e, e.curs1)) /\ d.curs1 = e.curs1
<1> DEFINE c == FromEnd(e, e.curs2 - 1)
<1> DEFINE last == e.last - One(e.last > e.curs1)
<1> DEFINE n == e.last_byte - 1
<1> DEFINE y == [e EXCEPT !.last = last, !.last_byte = n]
<1> DEFINE g == TakeAfter(y)
<1> DEFINE m == LineGone(Modified(g), c)
<1> DEFINE d == Shown(m, c, -1)
<1>0. /\ e \in Edit /\ Blocks(e) /\ e.last_byte = e.curs1 + e.curs2 /\ e.curs1 \in Nat /\ e.curs2 \in Nat
      /\ e.last_byte \in Nat /\ Marked(e) /\ e.curs_line \in Nat
  BY TrueFields
<1>1. Delete(e) = d
  <2>1. e.curs2 # 0
    BY <1>0
  <2> QED BY <2>1 DEF Delete
<1>2. c = GetByte(e, e.curs1)
  <2>1. Size(e) = e.curs1 + e.curs2 /\ e.curs1 \in e.curs1 .. Size(e) - 1
    BY <1>0, SizeIs
  <2>2. GetByte(e, e.curs1) = FromEnd(e, Size(e) - e.curs1 - 1)
    BY <1>0, <2>1, ByteAfter
  <2>3. Size(e) - e.curs1 - 1 = e.curs2 - 1
    BY <1>0, <2>1
  <2> QED BY <2>2, <2>3
<1> HIDE DEF c
<1>3. Lengthened(e, y, last, n)
  BY DEF Lengthened
<1>4. last \in Int /\ n \in Nat
  <2>1. e.last \in Int
    BY <1>0, EditFields
  <2>2. last \in Int
    BY <2>1, OneMore
  <2>3. n \in Nat
    BY <1>0
  <2> QED BY <2>2, <2>3
<1> HIDE DEF y, last, n
<1>5. /\ y \in Edit /\ SameBlocks(e, y) /\ SameScreen(e, y)
      /\ SameMarks(e, y) /\ SameLines(e, y) /\ y.last_byte = n
  BY <1>0, <1>3, <1>4, LengthenedIs
<1>6. Blocks(y) /\ y.curs1 = e.curs1 /\ y.curs2 = e.curs2 /\ y.curs2 > 0
  BY <1>0, <1>5, OwnBlocks
<1>7. g \in Edit /\ Blocks(g) /\ SameBefore(y, g) /\ SameRest(y, g)
  BY <1>5, <1>6, TakeAfterIs
<1>8. Grown(g, y, y.curs1, GetByte(y, y.curs1))
  BY <1>5, <1>6, TakeAfterShrinks
<1> HIDE DEF g
<1>9. Marked(g) /\ g.curs_line = e.curs_line /\ g.curs_line \in Nat
  BY <1>0, <1>5, <1>7 DEF SameRest, SameMarks, SameLines, Marked
<1>10. /\ m \in Edit /\ SameBlocks(g, m) /\ m.last_byte = g.last_byte
       /\ SameScreen(g, m) /\ ~m.valid /\ Marked(m)
       /\ m.curs_line = g.curs_line /\ m.total_lines = g.total_lines - One(c = Newline)
  BY <1>7, <1>9, LineGoneModified
<1> HIDE DEF m
<1>11. /\ d \in Edit /\ SameBlocks(m, d) /\ d.last_byte = m.last_byte
       /\ SameLines(m, d) /\ SameCache(m, d) /\ SameMarks(m, d)
       /\ IF m.curs1 < m.start_display
          THEN d.start_display = m.start_display - 1 /\ d.start_line = m.start_line - One(c = Newline)
          ELSE d.start_display = m.start_display /\ d.start_line = m.start_line
  BY <1>10, ShownLess
<1> HIDE DEF d
<1>12. SameBlocks(g, d)
  BY <1>10, <1>11 DEF SameBlocks
<1>13. Blocks(d) /\ d.curs1 = e.curs1
  BY <1>6, <1>7, <1>12, OwnBlocks DEF SameBefore
<1>14. Grown(d, e, e.curs1, c)
  <2>1. GetByte(y, y.curs1) = c
    BY <1>0, <1>2, <1>5, <1>6, SameBlocksText DEF SameText
  <2>2. Grown(g, y, e.curs1, c)
    BY <1>6, <1>8, <2>1
  <2>3. Grown(g, e, e.curs1, c)
    BY <1>5, <2>2, OwnBlocks
  <2> QED BY <1>12, <2>3, OwnBlocks
<1>15. d.last_byte = e.last_byte - 1
  BY <1>5, <1>7, <1>10, <1>11 DEF SameRest, n
<1>16. d.curs_line = e.curs_line /\ d.total_lines = e.total_lines - One(c = Newline)
  BY <1>5, <1>7, <1>10, <1>11 DEF SameRest, SameLines
<1>17. m.start_display = e.start_display /\ m.start_line = e.start_line /\ m.curs1 = d.curs1
  BY <1>5, <1>7, <1>10, <1>11 DEF SameRest, SameScreen, SameBlocks
<1>18. IF d.curs1 < e.start_display
       THEN d.start_display = e.start_display - 1 /\ d.start_line = e.start_line - One(c = Newline)
       ELSE d.start_display = e.start_display /\ d.start_line = e.start_line
  BY <1>11, <1>17
<1>19. ~d.valid /\ Marked(d)
  BY <1>10, <1>11 DEF SameCache, SameMarks, Marked
<1>20. True(d)
  BY <1>11, <1>13, <1>14, <1>15, <1>16, <1>18, <1>19, ShrunkTrue
<1> QED BY <1>1, <1>2, <1>13, <1>14, <1>20

LEMMA LinePut ==
  ASSUME NEW e \in Edit, NEW line \in Int, NEW d, d = [e EXCEPT !.curs_line = line]
  PROVE  /\ d \in Edit /\ SameBlocks(e, d) /\ d.last_byte = e.last_byte /\ SameScreen(e, d)
         /\ SameCache(e, d) /\ SameMarks(e, d) /\ SameRules(e, d)
         /\ d.total_lines = e.total_lines /\ d.curs_line = line
BY DEF Edit, SameBlocks, SameScreen, SameCache, SameMarks, SameRules

\* edit_backspace takes the byte before the cursor away, and all stays true.
LEMMA BackspaceIs ==
  ASSUME NEW e, True(e), e.curs1 > 0
  PROVE  LET d == Backspace(e)
         IN True(d) /\ Grown(d, e, e.curs1 - 1, GetByte(e, e.curs1 - 1)) /\ d.curs1 = e.curs1 - 1
<1> DEFINE c == FromStart(e, e.curs1 - 1)
<1> DEFINE last == e.last - One(e.last >= e.curs1)
<1> DEFINE n == e.last_byte - 1
<1> DEFINE y == [e EXCEPT !.last = last, !.last_byte = n]
<1> DEFINE g == TakeBefore(y)
<1> DEFINE k == LineGone(Modified(g), c)
<1> DEFINE line == k.curs_line - One(c = Newline)
<1> DEFINE m == [k EXCEPT !.curs_line = line]
<1> DEFINE d == Shown(m, c, -1)
<1>0. /\ e \in Edit /\ Blocks(e) /\ e.last_byte = e.curs1 + e.curs2 /\ e.curs1 \in Nat /\ e.curs2 \in Nat
      /\ e.last_byte \in Nat /\ Marked(e) /\ e.curs_line \in Nat
  BY TrueFields
<1>1. Backspace(e) = d
  <2>1. e.curs1 # 0
    BY <1>0
  <2> QED BY <2>1 DEF Backspace
<1>2. c = GetByte(e, e.curs1 - 1)
  <2>1. e.curs1 - 1 \in 0 .. e.curs1 - 1
    BY <1>0
  <2> QED BY <1>0, <2>1, ByteBefore
<1> HIDE DEF c
<1>3. Lengthened(e, y, last, n)
  BY DEF Lengthened
<1>4. last \in Int /\ n \in Nat
  <2>1. e.last \in Int
    BY <1>0, EditFields
  <2>2. last \in Int
    BY <2>1, OneMore
  <2>3. n \in Nat
    BY <1>0
  <2> QED BY <2>2, <2>3
<1> HIDE DEF y, last, n
<1>5. /\ y \in Edit /\ SameBlocks(e, y) /\ SameScreen(e, y)
      /\ SameMarks(e, y) /\ SameLines(e, y) /\ y.last_byte = n
  BY <1>0, <1>3, <1>4, LengthenedIs
<1>6. Blocks(y) /\ y.curs1 = e.curs1 /\ y.curs2 = e.curs2 /\ y.curs1 > 0
  BY <1>0, <1>5, OwnBlocks
<1>7. g \in Edit /\ Blocks(g) /\ SameAfter(y, g) /\ SameRest(y, g) /\ g.curs1 = y.curs1 - 1
  BY <1>5, <1>6, TakeBeforeIs
<1>8. Grown(g, y, y.curs1 - 1, GetByte(y, y.curs1 - 1))
  BY <1>5, <1>6, TakeBeforeShrinks
<1> HIDE DEF g
<1>9. Marked(g) /\ g.curs_line = e.curs_line /\ g.curs_line \in Nat
  BY <1>0, <1>5, <1>7 DEF SameRest, SameMarks, SameLines, Marked
<1>10. /\ k \in Edit /\ SameBlocks(g, k) /\ k.last_byte = g.last_byte
       /\ SameScreen(g, k) /\ ~k.valid /\ Marked(k)
       /\ k.curs_line = g.curs_line /\ k.total_lines = g.total_lines - One(c = Newline)
  BY <1>7, <1>9, LineGoneModified
<1> HIDE DEF k
<1>11. line \in Int
  BY <1>9, <1>10, OneMore
<1> HIDE DEF line
<1>12. /\ m \in Edit /\ SameBlocks(k, m) /\ m.last_byte = k.last_byte /\ SameScreen(k, m)
       /\ SameCache(k, m) /\ SameMarks(k, m)
       /\ m.total_lines = k.total_lines /\ m.curs_line = line
  BY <1>10, <1>11, LinePut
<1> HIDE DEF m
<1>13. /\ d \in Edit /\ SameBlocks(m, d) /\ d.last_byte = m.last_byte
       /\ SameLines(m, d) /\ SameCache(m, d) /\ SameMarks(m, d)
       /\ IF m.curs1 < m.start_display
          THEN d.start_display = m.start_display - 1 /\ d.start_line = m.start_line - One(c = Newline)
          ELSE d.start_display = m.start_display /\ d.start_line = m.start_line
  BY <1>12, ShownLess
<1> HIDE DEF d
<1>14. SameBlocks(g, d)
  BY <1>10, <1>12, <1>13 DEF SameBlocks
<1>15. Blocks(d) /\ d.curs1 = e.curs1 - 1
  BY <1>6, <1>7, <1>14, OwnBlocks
<1>16. Grown(d, e, d.curs1, c)
  <2>0. e.curs1 - 1 \in Int
    BY <1>0
  <2>1. GetByte(y, y.curs1 - 1) = c
    BY <1>2, <1>5, <1>6, <2>0, SameBlocksText DEF SameText
  <2>2. Grown(g, y, d.curs1, c)
    BY <1>6, <1>8, <1>15, <2>1
  <2>3. Grown(g, e, d.curs1, c)
    BY <1>5, <2>2, OwnBlocks
  <2> QED BY <1>14, <2>3, OwnBlocks
<1>17. d.last_byte = e.last_byte - 1
  BY <1>5, <1>7, <1>10, <1>12, <1>13 DEF SameRest, n
<1>18. d.curs_line = e.curs_line - One(c = Newline) /\ d.total_lines = e.total_lines - One(c = Newline)
  BY <1>5, <1>7, <1>10, <1>12, <1>13 DEF SameRest, SameLines, line
<1>19. m.start_display = e.start_display /\ m.start_line = e.start_line /\ m.curs1 = d.curs1
  BY <1>5, <1>7, <1>10, <1>12, <1>13 DEF SameRest, SameScreen, SameBlocks
<1>20. IF d.curs1 < e.start_display
       THEN d.start_display = e.start_display - 1 /\ d.start_line = e.start_line - One(c = Newline)
       ELSE d.start_display = e.start_display /\ d.start_line = e.start_line
  BY <1>13, <1>19
<1>21. ~d.valid /\ Marked(d)
  BY <1>10, <1>12, <1>13 DEF SameCache, SameMarks, Marked
<1>22. True(d)
  BY <1>13, <1>15, <1>16, <1>17, <1>18, <1>20, <1>21, ShrunkTrue
<1> QED BY <1>1, <1>2, <1>15, <1>16, <1>22

(***************************************************************************)
(* The cursor moves                                                        *)
(***************************************************************************)

\* d tells the truth of the text as e does
LEMMA StaysTrue ==
  ASSUME NEW e, True(e), NEW d \in Edit, Blocks(d), SameText(e, d), d.last_byte = e.last_byte,
         d.curs_line = CountLines(e, 0, d.curs1), d.total_lines = e.total_lines,
         d.start_display \in 0 .. e.last_byte,
         d.start_line = CountLines(e, 0, d.start_display),
         SameCache(e, d) \/ Cached(d), Marked(d)
  PROVE  True(d)
<1>1. e \in Edit /\ e.last_byte = Size(e) /\ e.last_byte <= SIZE_LIMIT
  BY TrueFields
<1>2. /\ \A k : CountLines(d, 0, k) = CountLines(e, 0, k)
      /\ \A o : LineStart(d, o) <=> LineStart(e, o)
  BY <1>1, SameTextLines
<1>3. Sound(d)
  BY <1>1 DEF Sound, SameText
<1>4. Counted(d)
  <2>1. e.total_lines = CountLines(e, 0, e.last_byte)
    BY DEF True, Counted
  <2> QED BY <1>2, <2>1 DEF Counted
<1>5. Cached(d)
  <2>1. CASE SameCache(e, d)
    <3>1. Cached(e)
      BY DEF True
    <3>2. \A x : Known(e, x) => Known(d, x)
      BY <1>2, <2>1 DEF Known, SameCache
    <3> QED BY <2>1, <3>1, <3>2 DEF Cached, SameCache
  <2> QED BY <2>1
<1> QED BY <1>3, <1>4, <1>5 DEF True

\* a byte put down on one side of the cursor and taken away on the other
LEMMA InAndOut ==
  ASSUME NEW e \in Edit, NEW x \in Edit, NEW y \in Edit, NEW p \in Nat, p > 0, NEW c,
         Grown(e, x, p, c), Grown(y, x, p - 1, c), GetByte(e, p - 1) = c
  PROVE  SameText(e, y)
<1>1. Size(y) = Size(e)
  BY SizeIs DEF Grown
<1>2. ASSUME NEW i \in Int
      PROVE  GetByte(y, i) = GetByte(e, i)
  <2>1. CASE i < p - 1
    <3>1. GetByte(x, i) = GetByte(e, i)
      BY <2>1 DEF Grown
    <3>2. GetByte(x, i) = GetByte(y, i)
      BY <2>1 DEF Grown
    <3> QED BY <3>1, <3>2
  <2>2. CASE i >= p - 1
    <3> DEFINE j == i + 1
    <3>1. j \in Int /\ j - 1 = i /\ ~(j < p - 1) /\ j # p - 1 /\ ~(j < p)
      BY <2>2
    <3> HIDE DEF j
    <3>2. GetByte(x, j) = GetByte(y, i)
      BY <3>1 DEF Grown
    <3>3. CASE j = p
      <4>1. GetByte(x, j) = c
        BY <3>1, <3>3 DEF Grown
      <4> QED BY <3>1, <3>2, <3>3, <4>1
    <3>4. CASE j # p
      <4>1. GetByte(x, j) = GetByte(e, i)
        BY <3>1, <3>4 DEF Grown
      <4> QED BY <3>2, <4>1
    <3> QED BY <3>3, <3>4
  <2> QED BY <2>1, <2>2
<1> QED BY <1>1, <1>2 DEF SameText

LEMMA SameSymmetric ==
  ASSUME NEW e, NEW d, SameText(e, d)
  PROVE  SameText(d, e)
BY DEF SameText

LEMMA SameTextTwice ==
  ASSUME NEW e, NEW m, NEW d, SameText(e, m), SameText(m, d)
  PROVE  SameText(e, d)
BY DEF SameText

\* d is e with the cursor at p
At(e, d, p) ==
  /\ True(d) /\ SameText(e, d) /\ d.last_byte = e.last_byte /\ d.curs1 = p
  /\ SameScreen(e, d) /\ SameMarks(e, d) /\ d.total_lines = e.total_lines

\* the byte before place k ends a line
LEMMA LineBefore ==
  ASSUME NEW e, True(e), NEW k \in Nat, k < e.last_byte
  PROVE  /\ CountLines(e, 0, k) \in Nat
         /\ CountLines(e, 0, k + 1) = CountLines(e, 0, k) + One(GetByte(e, k) = Newline)
<1>1. e.last_byte \in Nat
  BY TrueFields
<1>2. k \in 0 .. e.last_byte - 1
  BY <1>1
<1>3. Ends(e, k) <=> GetByte(e, k) = Newline
  BY <1>2 DEF Ends
<1>4. One(Ends(e, k)) = One(GetByte(e, k) = Newline)
  BY <1>3 DEF One
<1> QED BY <1>4, CountStep

\* One step of the cursor to the left changes no byte.
LEMMA MoveLeftIs ==
  ASSUME NEW e, True(e), e.curs1 > 0
  PROVE  At(e, MoveLeft(e), e.curs1 - 1)
<1> DEFINE c == GetByte(e, e.curs1 - 1)
<1> DEFINE x == PutAfter(e, c)
<1> DEFINE y == TakeBefore(x)
<1> DEFINE line == y.curs_line - One(c = Newline)
<1> DEFINE d == [y EXCEPT !.curs_line = line]
<1> DEFINE p == e.curs1 - 1
<1>0. /\ e \in Edit /\ Blocks(e) /\ e.last_byte = e.curs1 + e.curs2 /\ e.curs1 \in Nat /\ e.curs2 \in Nat
      /\ e.last_byte \in Nat /\ Marked(e) /\ e.curs_line \in Nat /\ e.last_byte <= SIZE_LIMIT
      /\ SIZE_LIMIT \in Nat /\ p \in Nat
  BY TrueFields
<1>1. MoveLeft(e) = d
  <2>1. p \in 0 .. e.curs1 - 1
    BY <1>0
  <2>2. FromStart(e, p) = c
    BY <1>0, <2>1, ByteBefore
  <2>3. e.curs1 # 0
    BY <1>0
  <2> QED BY <2>2, <2>3 DEF MoveLeft
<1>2. c \in Bytes
  BY <1>0, ByteTyped
<1> HIDE DEF c
<1>3. e.curs2 <= SIZE_LIMIT
  BY <1>0
<1>4. x \in Edit /\ Blocks(x) /\ SameBefore(e, x) /\ SameRest(e, x)
  BY <1>0, <1>2, <1>3, PutAfterIs
<1>5. Grown(e, x, e.curs1, c)
  BY <1>0, <1>2, <1>3, PutAfterGrows
<1> HIDE DEF x
<1>6. x.curs1 = e.curs1 /\ x.curs1 > 0
  BY <1>4 DEF SameBefore
<1>7. y \in Edit /\ Blocks(y) /\ SameRest(x, y) /\ y.curs1 = x.curs1 - 1
  BY <1>4, <1>6, TakeBeforeIs
<1>8. Grown(y, x, x.curs1 - 1, GetByte(x, x.curs1 - 1))
  BY <1>4, <1>6, TakeBeforeShrinks
<1> HIDE DEF y
<1>9. Grown(y, x, p, c)
  <2>1. p \in Int /\ p < e.curs1
    BY <1>0
  <2>2. GetByte(x, p) = c
    BY <1>5, <2>1 DEF Grown, c
  <2> QED BY <1>6, <1>8, <2>2
<1>10. SameText(e, y)
  BY <1>0, <1>4, <1>5, <1>7, <1>9, InAndOut DEF c
<1>11. line \in Int /\ y.curs_line = e.curs_line
  BY <1>4, <1>7, EditFields, OneMore DEF SameRest, SameLines
<1> HIDE DEF line
<1>12. /\ d \in Edit /\ SameBlocks(y, d) /\ d.last_byte = y.last_byte /\ SameScreen(y, d)
       /\ SameCache(y, d) /\ SameMarks(y, d)
       /\ d.total_lines = y.total_lines /\ d.curs_line = line
  BY <1>7, <1>11, LinePut
<1> HIDE DEF d
<1>13. Blocks(d) /\ d.curs1 = p
  BY <1>6, <1>7, <1>12, OwnBlocks
<1>14. SameText(e, d)
  BY <1>10, <1>12, SameBlocksText, SameTextTwice
<1>15. /\ d.last_byte = e.last_byte /\ SameScreen(e, d) /\ SameCache(e, d) /\ SameMarks(e, d)
       /\ d.total_lines = e.total_lines
  BY <1>4, <1>7, <1>12 DEF SameRest, SameLines, SameScreen, SameCache, SameMarks
<1>16. d.curs_line = CountLines(e, 0, p)
  <2> DEFINE o == One(c = Newline)
  <2>1. p + 1 = e.curs1 /\ p < e.last_byte
    BY <1>0
  <2>2. CountLines(e, 0, p + 1) = CountLines(e, 0, p) + o /\ CountLines(e, 0, p) \in Nat
    BY <1>0, <2>1, LineBefore DEF c
  <2>3. e.curs_line = CountLines(e, 0, e.curs1)
    BY DEF True, Counted
  <2>4. d.curs_line = e.curs_line - o
    BY <1>11, <1>12 DEF line
  <2>5. o \in {0, 1}
    BY OneIs
  <2> HIDE DEF o
  <2> QED BY <2>1, <2>2, <2>3, <2>4, <2>5
<1>17. Marked(d)
  BY <1>0, <1>15 DEF SameMarks, Marked
<1>18. /\ d.start_display \in 0 .. e.last_byte
       /\ d.start_line = CountLines(e, 0, d.start_display)
  BY <1>15 DEF SameScreen, True, Counted
<1>19. True(d)
  BY <1>12, <1>13, <1>14, <1>15, <1>16, <1>17, <1>18, StaysTrue
<1> QED BY <1>1, <1>13, <1>14, <1>15, <1>19 DEF At

\* One step of the cursor to the right changes no byte.
LEMMA MoveRightIs ==
  ASSUME NEW e, True(e), e.curs2 > 0
  PROVE  At(e, MoveRight(e), e.curs1 + 1)
<1> DEFINE c == GetByte(e, e.curs1)
<1> DEFINE x == PutBefore(e, c)
<1> DEFINE y == TakeAfter(x)
<1> DEFINE line == y.curs_line + One(c = Newline)
<1> DEFINE d == [y EXCEPT !.curs_line = line]
<1> DEFINE p == e.curs1 + 1
<1>0. /\ e \in Edit /\ Blocks(e) /\ e.last_byte = e.curs1 + e.curs2 /\ e.curs1 \in Nat /\ e.curs2 \in Nat
      /\ e.last_byte \in Nat /\ Marked(e) /\ e.curs_line \in Nat /\ e.last_byte <= SIZE_LIMIT
      /\ SIZE_LIMIT \in Nat /\ p \in Nat /\ p > 0 /\ p - 1 = e.curs1
  BY TrueFields
<1>1. MoveRight(e) = d
  <2>1. Size(e) = e.curs1 + e.curs2 /\ e.curs1 \in e.curs1 .. Size(e) - 1
    BY <1>0, SizeIs
  <2>2. GetByte(e, e.curs1) = FromEnd(e, Size(e) - e.curs1 - 1)
    BY <1>0, <2>1, ByteAfter
  <2>3. Size(e) - e.curs1 - 1 = e.curs2 - 1 /\ e.curs2 # 0
    BY <1>0, <2>1
  <2> QED BY <2>2, <2>3 DEF MoveRight
<1>2. c \in Bytes
  BY <1>0, ByteTyped
<1> HIDE DEF c
<1>3. e.curs1 <= SIZE_LIMIT
  BY <1>0
<1>4. x \in Edit /\ Blocks(x) /\ SameAfter(e, x) /\ SameRest(e, x) /\ x.curs1 = p
  BY <1>0, <1>2, <1>3, PutBeforeIs
<1>5. Grown(e, x, e.curs1, c)
  BY <1>0, <1>2, <1>3, PutBeforeGrows
<1> HIDE DEF x
<1>6. x.curs2 > 0
  BY <1>4 DEF SameAfter
<1>7. y \in Edit /\ Blocks(y) /\ SameRest(x, y) /\ SameBefore(x, y)
  BY <1>4, <1>6, TakeAfterIs
<1>8. Grown(y, x, x.curs1, GetByte(x, x.curs1))
  BY <1>4, <1>6, TakeAfterShrinks
<1> HIDE DEF y
<1>9. Grown(y, x, p, c)
  <2>1. p \in Int /\ ~(p < e.curs1) /\ p # e.curs1
    BY <1>0
  <2>2. GetByte(x, p) = c
    BY <1>0, <1>5, <2>1 DEF Grown, c
  <2> QED BY <1>4, <1>8, <2>2
<1>10. SameText(e, y)
  <2>1. GetByte(y, p - 1) = c
    <3>1. p - 1 \in Int /\ p - 1 < p
      BY <1>0
    <3>2. GetByte(x, p - 1) = GetByte(y, p - 1)
      BY <1>9, <3>1 DEF Grown
    <3>3. ~(e.curs1 < e.curs1) /\ e.curs1 \in Int
      BY <1>0
    <3>4. GetByte(x, e.curs1) = c
      BY <1>5, <3>3 DEF Grown
    <3> QED BY <1>0, <3>2, <3>4
  <2>2. Grown(e, x, p - 1, c)
    BY <1>0, <1>5
  <2>3. SameText(y, e)
    BY <1>0, <1>4, <1>7, <1>9, <2>1, <2>2, InAndOut
  <2> QED BY <2>3, SameSymmetric
<1>11. line \in Int /\ y.curs_line = e.curs_line
  BY <1>4, <1>7, EditFields, OneMore DEF SameRest, SameLines
<1> HIDE DEF line
<1>12. /\ d \in Edit /\ SameBlocks(y, d) /\ d.last_byte = y.last_byte /\ SameScreen(y, d)
       /\ SameCache(y, d) /\ SameMarks(y, d)
       /\ d.total_lines = y.total_lines /\ d.curs_line = line
  BY <1>7, <1>11, LinePut
<1> HIDE DEF d
<1>13. Blocks(d) /\ d.curs1 = p
  BY <1>4, <1>7, <1>12, OwnBlocks DEF SameBefore
<1>14. SameText(e, d)
  BY <1>10, <1>12, SameBlocksText, SameTextTwice
<1>15. /\ d.last_byte = e.last_byte /\ SameScreen(e, d) /\ SameCache(e, d) /\ SameMarks(e, d)
       /\ d.total_lines = e.total_lines
  BY <1>4, <1>7, <1>12 DEF SameRest, SameLines, SameScreen, SameCache, SameMarks
<1>16. d.curs_line = CountLines(e, 0, p)
  <2>1. e.curs1 < e.last_byte
    BY <1>0
  <2>2. CountLines(e, 0, p) = CountLines(e, 0, e.curs1) + One(c = Newline)
    BY <1>0, <2>1, LineBefore DEF c
  <2>3. e.curs_line = CountLines(e, 0, e.curs1)
    BY DEF True, Counted
  <2> QED BY <1>11, <1>12, <2>2, <2>3 DEF line
<1>17. Marked(d)
  BY <1>0, <1>15 DEF SameMarks, Marked
<1>18. /\ d.start_display \in 0 .. e.last_byte
       /\ d.start_line = CountLines(e, 0, d.start_display)
  BY <1>15 DEF SameScreen, True, Counted
<1>19. True(d)
  BY <1>12, <1>13, <1>14, <1>15, <1>16, <1>17, <1>18, StaysTrue
<1> QED BY <1>1, <1>13, <1>14, <1>15, <1>19 DEF At

LEMMA AtTwice ==
  ASSUME NEW e, NEW m, NEW d, NEW p, NEW q, At(e, m, p), At(m, d, q)
  PROVE  At(e, d, q)
<1>1. SameText(e, d)
  BY SameTextTwice DEF At
<1> QED BY <1>1 DEF At, SameScreen, SameMarks

LEMMA AtItself ==
  ASSUME NEW e, True(e)
  PROVE  At(e, e, e.curs1)
BY DEF At, SameText, SameScreen, SameMarks

\* a move that does nothing where it cannot go
LEMMA MoveTrue ==
  ASSUME NEW e, True(e)
  PROVE  True(MoveLeft(e)) /\ True(MoveRight(e))
<1>1. e.curs1 \in Nat /\ e.curs2 \in Nat
  BY TrueFields
<1>2. True(MoveLeft(e))
  <2>1. CASE e.curs1 = 0
    BY <2>1 DEF MoveLeft
  <2>2. CASE e.curs1 > 0
    BY <2>2, MoveLeftIs DEF At
  <2> QED BY <1>1, <2>1, <2>2
<1>3. True(MoveRight(e))
  <2>1. CASE e.curs2 = 0
    BY <2>1 DEF MoveRight
  <2>2. CASE e.curs2 > 0
    BY <2>2, MoveRightIs DEF At
  <2> QED BY <1>1, <2>1, <2>2
<1> QED BY <1>2, <1>3

\* the editor after each step
StepsLeftOf(e, l) == CHOOSE f : f = [k \in 0 .. l |-> IF k = 0 THEN e ELSE MoveLeft(f[k - 1])]

\* edit_cursor_move goes as far to the left as it is told, or to the start.
LEMMA StepsLeft ==
  ASSUME NEW e, True(e), NEW l \in Nat, l <= e.curs1, NEW to, to = StepsLeftOf(e, l)
  PROVE  At(e, to[l], e.curs1 - l)
<1> DEFINE S == {d \in Edit : True(d)}
<1> DEFINE F == [n \in 1 .. l |-> [x \in S |-> MoveLeft(x)]]
<1>0. /\ e \in Edit /\ e.curs1 \in Nat /\ e.curs2 \in Nat
      /\ e.last_byte = e.curs1 + e.curs2
  BY TrueFields
<1>1. ASSUME NEW x \in S PROVE MoveLeft(x) \in S
  <2>1. True(x)
    OBVIOUS
  <2>2. True(MoveLeft(x))
    BY <2>1, MoveTrue
  <2>3. MoveLeft(x) \in Edit
    BY <2>2, TrueFields
  <2> QED BY <2>2, <2>3
<1>2. e \in S
  BY <1>0
<1> HIDE DEF S
<1>3. IsSteps(F, l, S)
  BY <1>1 DEF IsSteps
<1>4. PICK g : IsRun(g, F, l, S, e)
  <2> HIDE DEF F
  <2> QED BY <1>2, <1>3, Run
<1>5. g \in [0 .. l -> S] /\ g[0] = e /\ \A k \in 1 .. l : g[k] = MoveLeft(g[k - 1])
  <2>1. \A k \in 1 .. l : \A x \in S : F[k][x] = MoveLeft(x)
    OBVIOUS
  <2> HIDE DEF F
  <2>2. g \in [0 .. l -> S] /\ g[0] = e /\ \A k \in 1 .. l : g[k] = F[k][g[k - 1]]
    BY <1>4 DEF IsRun
  <2>3. \A k \in 1 .. l : g[k - 1] \in S
    BY <2>2
  <2> QED BY <2>1, <2>2, <2>3
<1> DEFINE H(f) == f = [k \in 0 .. l |-> IF k = 0 THEN e ELSE MoveLeft(f[k - 1])]
<1>6. H(g)
  BY <1>5
<1>7. H(to)
  <2>1. to = CHOOSE f : H(f)
    BY DEF StepsLeftOf
  <2> HIDE DEF H
  <2> QED BY <1>6, <2>1
<1> HIDE DEF F
<1>8. to[0] = e /\ \A k \in 1 .. l : to[k] = MoveLeft(to[k - 1])
  <2> DEFINE G(k) == IF k = 0 THEN e ELSE MoveLeft(to[k - 1])
  <2>1. to = [k \in 0 .. l |-> G(k)]
    BY <1>7
  <2>2. \A k \in 1 .. l : G(k) = MoveLeft(to[k - 1])
    OBVIOUS
  <2>3. G(0) = e
    OBVIOUS
  <2> HIDE DEF G
  <2>4. \A k \in 0 .. l : to[k] = G(k)
    BY <2>1
  <2> QED BY <2>2, <2>3, <2>4
<1> HIDE DEF H
<1> DEFINE T == {k \in 0 .. l : At(e, to[k], e.curs1 - k)}
<1>9. 0 \in T
  <2>1. e.curs1 - 0 = e.curs1
    BY <1>0
  <2>2. At(e, to[0], e.curs1 - 0)
    BY <1>8, <2>1, AtItself
  <2> QED BY <2>2
<1>10. ASSUME NEW k \in 1 .. l, k - 1 \in T
       PROVE  k \in T
  <2> DEFINE x == to[k - 1]
  <2>1. At(e, x, e.curs1 - (k - 1))
    BY <1>10
  <2>2. to[k] = MoveLeft(x)
    BY <1>8
  <2> HIDE DEF x
  <2>3. True(x) /\ x.curs1 = e.curs1 - (k - 1) /\ x.last_byte = e.last_byte
    BY <2>1 DEF At
  <2>4. x.curs1 + x.curs2 = x.last_byte /\ x.curs2 \in Nat
    BY <2>3, TrueFields
  <2>5. x.curs1 > 0
    BY <1>0, <2>3, <2>4
  <2>6. At(x, MoveLeft(x), x.curs1 - 1)
    BY <2>3, <2>5, MoveLeftIs
  <2>7. x.curs1 - 1 = e.curs1 - k
    BY <1>0, <2>3
  <2>8. At(e, to[k], e.curs1 - k)
    BY <2>1, <2>2, <2>6, <2>7, AtTwice
  <2> QED BY <2>8
<1>11. \A k \in 0 .. l : k \in T
  <2> HIDE DEF T
  <2> QED BY <1>9, <1>10, Along
<1>12. l \in T
  <2>1. l \in 0 .. l
    OBVIOUS
  <2> QED BY <1>11, <2>1
<1> QED BY <1>12

\* the editor after each step
StepsRightOf(e, l) == CHOOSE f : f = [k \in 0 .. l |-> IF k = 0 THEN e ELSE MoveRight(f[k - 1])]

\* edit_cursor_move goes as far to the right as it is told, or to the end.
LEMMA StepsRight ==
  ASSUME NEW e, True(e), NEW l \in Nat, l <= e.curs2, NEW to, to = StepsRightOf(e, l)
  PROVE  At(e, to[l], e.curs1 + l)
<1> DEFINE S == {d \in Edit : True(d)}
<1> DEFINE F == [n \in 1 .. l |-> [x \in S |-> MoveRight(x)]]
<1>0. /\ e \in Edit /\ e.curs1 \in Nat /\ e.curs2 \in Nat
      /\ e.last_byte = e.curs1 + e.curs2
  BY TrueFields
<1>1. ASSUME NEW x \in S PROVE MoveRight(x) \in S
  <2>1. True(x)
    OBVIOUS
  <2>2. True(MoveRight(x))
    BY <2>1, MoveTrue
  <2>3. MoveRight(x) \in Edit
    BY <2>2, TrueFields
  <2> QED BY <2>2, <2>3
<1>2. e \in S
  BY <1>0
<1> HIDE DEF S
<1>3. IsSteps(F, l, S)
  BY <1>1 DEF IsSteps
<1>4. PICK g : IsRun(g, F, l, S, e)
  <2> HIDE DEF F
  <2> QED BY <1>2, <1>3, Run
<1>5. g \in [0 .. l -> S] /\ g[0] = e /\ \A k \in 1 .. l : g[k] = MoveRight(g[k - 1])
  <2>1. \A k \in 1 .. l : \A x \in S : F[k][x] = MoveRight(x)
    OBVIOUS
  <2> HIDE DEF F
  <2>2. g \in [0 .. l -> S] /\ g[0] = e /\ \A k \in 1 .. l : g[k] = F[k][g[k - 1]]
    BY <1>4 DEF IsRun
  <2>3. \A k \in 1 .. l : g[k - 1] \in S
    BY <2>2
  <2> QED BY <2>1, <2>2, <2>3
<1> DEFINE H(f) == f = [k \in 0 .. l |-> IF k = 0 THEN e ELSE MoveRight(f[k - 1])]
<1>6. H(g)
  BY <1>5
<1>7. H(to)
  <2>1. to = CHOOSE f : H(f)
    BY DEF StepsRightOf
  <2> HIDE DEF H
  <2> QED BY <1>6, <2>1
<1> HIDE DEF F
<1>8. to[0] = e /\ \A k \in 1 .. l : to[k] = MoveRight(to[k - 1])
  <2> DEFINE G(k) == IF k = 0 THEN e ELSE MoveRight(to[k - 1])
  <2>1. to = [k \in 0 .. l |-> G(k)]
    BY <1>7
  <2>2. \A k \in 1 .. l : G(k) = MoveRight(to[k - 1])
    OBVIOUS
  <2>3. G(0) = e
    OBVIOUS
  <2> HIDE DEF G
  <2>4. \A k \in 0 .. l : to[k] = G(k)
    BY <2>1
  <2> QED BY <2>2, <2>3, <2>4
<1> HIDE DEF H
<1> DEFINE T == {k \in 0 .. l : At(e, to[k], e.curs1 + k)}
<1>9. 0 \in T
  <2>1. e.curs1 + 0 = e.curs1
    BY <1>0
  <2>2. At(e, to[0], e.curs1 + 0)
    BY <1>8, <2>1, AtItself
  <2> QED BY <2>2
<1>10. ASSUME NEW k \in 1 .. l, k - 1 \in T
       PROVE  k \in T
  <2> DEFINE x == to[k - 1]
  <2>1. At(e, x, e.curs1 + (k - 1))
    BY <1>10
  <2>2. to[k] = MoveRight(x)
    BY <1>8
  <2> HIDE DEF x
  <2>3. True(x) /\ x.curs1 = e.curs1 + (k - 1) /\ x.last_byte = e.last_byte
    BY <2>1 DEF At
  <2>4. x.curs1 + x.curs2 = x.last_byte /\ x.curs2 \in Nat
    BY <2>3, TrueFields
  <2>5. x.curs2 > 0
    BY <1>0, <2>3, <2>4
  <2>6. At(x, MoveRight(x), x.curs1 + 1)
    BY <2>3, <2>5, MoveRightIs
  <2>7. x.curs1 + 1 = e.curs1 + k
    BY <1>0, <2>3
  <2>8. At(e, to[k], e.curs1 + k)
    BY <2>1, <2>2, <2>6, <2>7, AtTwice
  <2> QED BY <2>8
<1>11. \A k \in 0 .. l : k \in T
  <2> HIDE DEF T
  <2> QED BY <1>9, <1>10, Along
<1>12. l \in T
  <2>1. l \in 0 .. l
    OBVIOUS
  <2> QED BY <1>11, <2>1
<1> QED BY <1>12

\* edit_cursor_move ends where it is told.
LEMMA CursorMoveIs ==
  ASSUME NEW e, True(e), NEW i \in 0 .. e.last_byte
  PROVE  At(e, CursorMove(e, i - e.curs1), i)
<1> DEFINE n == i - e.curs1
<1>0. /\ e.curs1 \in Nat /\ e.curs2 \in Nat /\ e.last_byte = e.curs1 + e.curs2
      /\ i \in Nat /\ i <= e.last_byte /\ n \in Int
  BY TrueFields
<1>1. CASE n < 0
  <2> DEFINE l == -n
  <2> DEFINE to == StepsLeftOf(e, l)
  <2>1. CursorMove(e, n) = to[l]
    <3> HIDE DEF n
    <3> QED BY <1>1, Zenon DEF CursorMove, StepsLeftOf
  <2>2. l \in Nat /\ l <= e.curs1 /\ e.curs1 - l = i
    BY <1>0, <1>1
  <2> HIDE DEF l
  <2>3. At(e, to[l], e.curs1 - l)
    BY <2>2, StepsLeft
  <2> QED BY <2>1, <2>2, <2>3
<1>2. CASE ~(n < 0)
  <2> DEFINE to == StepsRightOf(e, n)
  <2>1. CursorMove(e, n) = to[n]
    <3> HIDE DEF n
    <3> QED BY <1>2, Zenon DEF CursorMove, StepsRightOf
  <2>2. n \in Nat /\ n <= e.curs2 /\ e.curs1 + n = i
    BY <1>0, <1>2
  <2> HIDE DEF n
  <2>3. At(e, to[n], e.curs1 + n)
    BY <2>2, StepsRight
  <2> QED BY <2>1, <2>2, <2>3 DEF n
<1> QED BY <1>1, <1>2

(***************************************************************************)
(* The screen                                                              *)
(***************************************************************************)

\* d is e with another top of the screen
OnScreen(e, d, display, line) == d = [e EXCEPT !.start_line = line, !.start_display = display]

LEMMA OnScreenIs ==
  ASSUME NEW e \in Edit, NEW display \in Int, NEW line \in Int, NEW d, OnScreen(e, d, display, line)
  PROVE  /\ d \in Edit /\ SameBlocks(e, d) /\ d.last_byte = e.last_byte /\ SameLines(e, d)
         /\ SameCache(e, d) /\ SameMarks(e, d) /\ SameRules(e, d)
         /\ d.start_display = display /\ d.start_line = line
BY DEF OnScreen, Edit, SameBlocks, SameLines, SameCache, SameMarks, SameRules

Scrolled(e, d) ==
  /\ True(d) /\ SameBlocks(e, d) /\ d.last_byte = e.last_byte /\ SameLines(e, d) /\ SameMarks(e, d)

LEMMA ScrolledItself ==
  ASSUME NEW e, True(e)
  PROVE  Scrolled(e, e)
BY DEF Scrolled, SameBlocks, SameLines, SameMarks

LEMMA ScrolledTwice ==
  ASSUME NEW e, NEW m, NEW d, Scrolled(e, m), Scrolled(m, d)
  PROVE  Scrolled(e, d)
BY DEF Scrolled, SameBlocks, SameLines, SameMarks

LEMMA ScrolledTo ==
  ASSUME NEW e, True(e), NEW display \in 0 .. e.last_byte, NEW line \in Nat,
         line = CountLines(e, 0, display), NEW d, OnScreen(e, d, display, line)
  PROVE  Scrolled(e, d)
<1>0. e \in Edit /\ e.last_byte \in Nat /\ Blocks(e) /\ Marked(e)
  BY TrueFields
<1>1. /\ d \in Edit /\ SameBlocks(e, d) /\ d.last_byte = e.last_byte /\ SameLines(e, d)
      /\ SameCache(e, d) /\ SameMarks(e, d) /\ SameRules(e, d)
      /\ d.start_display = display /\ d.start_line = line
  BY <1>0, OnScreenIs
<1>2. Blocks(d) /\ d.curs1 = e.curs1 /\ SameText(e, d)
  BY <1>0, <1>1, OwnBlocks, SameBlocksText
<1>3. d.curs_line = CountLines(e, 0, d.curs1) /\ d.total_lines = e.total_lines
  BY <1>1, <1>2 DEF True, Counted, SameLines
<1>4. Marked(d)
  BY <1>0, <1>1 DEF Marked, SameMarks
<1>5. True(d)
  BY <1>1, <1>2, <1>3, <1>4, StaysTrue
<1> QED BY <1>1, <1>5 DEF Scrolled

\* The top of the screen stays a line, its number the one counted.
LEMMA ScrollUpIs ==
  ASSUME NEW e, True(e), NEW lines \in Int
  PROVE  Scrolled(e, ScrollUp(e, lines))
<1> DEFINE i == IF lines > e.start_line THEN e.start_line ELSE lines
<1>0. e \in Edit /\ e.start_line \in Nat /\ e.last_byte \in Nat /\ e.start_display \in 0 .. e.last_byte
  BY TrueFields
<1>1. i \in Int /\ i <= e.start_line
  BY <1>0
<1>2. CASE i <= 0
  <2>1. ScrollUp(e, lines) = e
    BY <1>2 DEF ScrollUp
  <2> QED BY <2>1, ScrolledItself
<1>3. CASE ~(i <= 0)
  <2> DEFINE line == e.start_line - i
  <2> DEFINE display == MoveBackward(e, e.start_display, i)
  <2>1. OnScreen(e, ScrollUp(e, lines), display, line)
    BY <1>3, Zenon DEF ScrollUp, OnScreen
  <2> HIDE DEF i
  <2>2. line \in Nat /\ i \in Nat
    BY <1>0, <1>1, <1>3
  <2>3. e.start_line = CountLines(e, 0, e.start_display)
    BY DEF True, Counted
  <2>4. LineStart(e, display) /\ CountLines(e, 0, display) = CountLines(e, 0, e.start_display) - i
    BY <1>0, <1>1, <2>2, <2>3, MoveBackwardIs
  <2> HIDE DEF display
  <2>5. display \in 0 .. e.last_byte /\ line = CountLines(e, 0, display)
    BY <2>3, <2>4 DEF LineStart
  <2> HIDE DEF line
  <2> QED BY <2>1, <2>2, <2>5, ScrolledTo
<1> QED BY <1>2, <1>3

LEMMA ScrollDownIs ==
  ASSUME NEW e, True(e), NEW lines \in Int
  PROVE  Scrolled(e, ScrollDown(e, lines))
<1> DEFINE below == e.total_lines - e.start_line - (Height - 1)
<1> DEFINE i == IF lines > below THEN below ELSE lines
<1>0. /\ e \in Edit /\ e.start_line \in Nat /\ e.total_lines \in Nat /\ e.last_byte \in Nat
      /\ e.last_byte = Size(e) /\ e.start_display \in 0 .. e.last_byte /\ Height \in Nat /\ Height > 0
  BY TrueFields, TextAssumption
<1>1. below \in Int /\ below <= e.total_lines - e.start_line
  BY <1>0
<1>2. i \in Int /\ i <= e.total_lines - e.start_line
  <2> HIDE DEF below
  <2> QED BY <1>0, <1>1
<1>3. CASE i <= 0
  <2>1. ScrollDown(e, lines) = e
    BY <1>3 DEF ScrollDown
  <2> QED BY <2>1, ScrolledItself
<1>4. CASE ~(i <= 0)
  <2> DEFINE line == e.start_line + i
  <2> DEFINE display == MoveForward(e, e.start_display, i)
  <2>1. OnScreen(e, ScrollDown(e, lines), display, line)
    BY <1>4, Zenon DEF ScrollDown, OnScreen
  <2> HIDE DEF i
  <2>2. line \in Nat /\ i \in Nat
    BY <1>0, <1>2, <1>4
  <2>3. e.start_line = CountLines(e, 0, e.start_display) /\ e.total_lines = CountLines(e, 0, e.last_byte)
    BY DEF True, Counted
  <2>4. CountLines(e, 0, e.start_display) + i <= CountLines(e, 0, e.last_byte)
    BY <1>0, <1>2, <2>3
  <2>5. display \in 0 .. e.last_byte /\ CountLines(e, 0, display) = CountLines(e, 0, e.start_display) + i
    BY <1>0, <2>2, <2>4, MoveForwardIs
  <2> HIDE DEF display
  <2>6. line = CountLines(e, 0, display)
    BY <2>3, <2>5
  <2> HIDE DEF line
  <2> QED BY <2>1, <2>2, <2>5, <2>6, ScrolledTo
<1> QED BY <1>3, <1>4

LEMMA ScrollOverIs ==
  ASSUME NEW e, True(e)
  PROVE  Scrolled(e, ScrollOver(e))
<1> DEFINE row == e.curs_line - e.start_line
<1>0. e.start_line \in Nat /\ e.curs_line \in Nat /\ Height \in Nat
  BY TrueFields, TextAssumption
<1>1. row \in Int
  BY <1>0
<1> HIDE DEF row
<1>2. ScrollOver(e) = IF row >= Height THEN ScrollDown(e, row - Height + 1)
                      ELSE IF row < 0 THEN ScrollUp(e, -row) ELSE e
  BY DEF ScrollOver, row
<1> DEFINE x == row - Height + 1
<1> DEFINE y == -row
<1>3. x \in Int /\ y \in Int
  BY <1>0, <1>1
<1> HIDE DEF x, y
<1>4. Scrolled(e, ScrollDown(e, x)) /\ Scrolled(e, ScrollUp(e, y)) /\ Scrolled(e, e)
  BY <1>3, ScrollDownIs, ScrollUpIs, ScrolledItself
<1> QED BY <1>2, <1>4 DEF x, y

(***************************************************************************)
(* A text loaded                                                           *)
(***************************************************************************)

Place(n, b, k) ==
  IF b = n \div EDIT_BUF_SIZE THEN k - (EDIT_BUF_SIZE - (n % EDIT_BUF_SIZE)) + 1
  ELSE (n % EDIT_BUF_SIZE) + ((n \div EDIT_BUF_SIZE) - 1 - b) * EDIT_BUF_SIZE + k + 1

CellOf(t, b, k) ==
  IF Place(Len(t), b, k) \in 1 .. Len(t) THEN t[Place(Len(t), b, k)] ELSE 0

LEMMA TextBlocksParts ==
  ASSUME NEW t
  PROVE  TextBlocks(t) = [b \in 0 .. MAXBUFF |->
                            IF b <= Len(t) \div EDIT_BUF_SIZE
                            THEN [k \in 0 .. EDIT_BUF_SIZE - 1 |-> CellOf(t, b, k)] ELSE NULL]
BY Zenon DEF TextBlocks, CellOf, Place

\* the byte p places before the end of n is the one at n - p
LEMMA PlaceOf ==
  ASSUME NEW n \in Nat, NEW p \in Nat, p < n
  PROVE  /\ p \div EDIT_BUF_SIZE <= n \div EDIT_BUF_SIZE
         /\ Place(n, p \div EDIT_BUF_SIZE, EDIT_BUF_SIZE - (p % EDIT_BUF_SIZE) - 1) = n - p
<1> DEFINE s == EDIT_BUF_SIZE
<1> DEFINE top == n \div s
<1> DEFINE first == n % s
<1> DEFINE b == p \div s
<1> DEFINE r == p % s
<1>1. s \in Nat /\ s > 0 /\ s \in Nat \ {0}
  BY Sizes
<1> DEFINE ts == top * s
<1> DEFINE bs == b * s
<1>2. /\ top \in Nat /\ first \in Nat /\ first < s /\ ts \in Nat /\ n = ts + first
      /\ b \in Nat /\ r \in Nat /\ r < s /\ bs \in Nat /\ p = bs + r
  <2> HIDE DEF s
  <2> QED BY <1>1, Divided
<1> HIDE DEF top, first, b, r
<1>3. b <= top
  <2>1. CASE b >= top + 1
    <3>1. (top + 1) * s <= b * s
      BY <1>1, <1>2, <2>1, Times
    <3>2. (top + 1) * s = ts + s
      BY <1>1, <1>2
    <3> HIDE DEF s, ts, bs
    <3>3. ts + s <= bs
      BY <3>1, <3>2 DEF bs
    <3> QED BY <1>1, <1>2, <3>3
  <2> QED BY <1>2, <2>1
<1>4. Place(n, b, s - r - 1) = n - p
  <2>0. Place(n, b, s - r - 1) = IF b = top THEN (s - r - 1) - (s - first) + 1
                                 ELSE first + (top - 1 - b) * s + (s - r - 1) + 1
    BY DEF Place, top, first
  <2>1. CASE b = top
    <3>1. Place(n, b, s - r - 1) = (s - r - 1) - (s - first) + 1 /\ bs = ts
      BY <2>0, <2>1
    <3> HIDE DEF s, ts, bs
    <3> QED BY <1>1, <1>2, <3>1
  <2>2. CASE b # top
    <3>1. Place(n, b, s - r - 1) = first + (top - 1 - b) * s + (s - r - 1) + 1
      BY <2>0, <2>2
    <3>2. (top - 1 - b) * s = ts - s - bs
      <4> HIDE DEF s
      <4> QED BY <1>1, <1>2
    <3> HIDE DEF s, ts, bs
    <3> QED BY <1>1, <1>2, <3>1, <3>2
  <2> QED BY <2>1, <2>2
<1> QED BY <1>3, <1>4 DEF b, top, r

LEMMA TextBlocksAre ==
  ASSUME NEW t \in Seq(Bytes), Len(t) <= SIZE_LIMIT
  PROVE  /\ TextBlocks(t) \in BlockRow
         /\ \A b \in 0 .. MAXBUFF : (TextBlocks(t)[b] # NULL) <=> (b * EDIT_BUF_SIZE <= Len(t))
<1> DEFINE n == Len(t)
<1> DEFINE Made(b) == [k \in 0 .. EDIT_BUF_SIZE - 1 |-> CellOf(t, b, k)]
<1>1. ASSUME NEW b PROVE Made(b) \in Block
  <2>1. \A k : CellOf(t, b, k) \in Bytes
    <3> SUFFICES ASSUME NEW k PROVE CellOf(t, b, k) \in Bytes
      OBVIOUS
    <3> DEFINE p == Place(Len(t), b, k)
    <3>1. CellOf(t, b, k) = IF p \in 1 .. Len(t) THEN t[p] ELSE 0
      BY DEF CellOf
    <3> HIDE DEF p
    <3>2. 0 \in Bytes
      BY DEF Bytes
    <3> QED BY <3>1, <3>2
  <2> QED BY <2>1 DEF Block
<1> HIDE DEF Made
<1>2. TextBlocks(t) = [b \in 0 .. MAXBUFF |-> IF b <= n \div EDIT_BUF_SIZE THEN Made(b) ELSE NULL]
  BY TextBlocksParts DEF Made
<1>3. TextBlocks(t) \in BlockRow
  BY <1>1, <1>2 DEF BlockRow
<1>4. ASSUME NEW b \in 0 .. MAXBUFF
      PROVE  (TextBlocks(t)[b] # NULL) <=> (b * EDIT_BUF_SIZE <= n)
  <2>1. n \in Nat /\ b \in Nat
    OBVIOUS
  <2>2. (b * EDIT_BUF_SIZE <= n) <=> (b <= n \div EDIT_BUF_SIZE)
    BY <2>1, BlockBefore
  <2>3. Made(b) # NULL
    BY <1>1, NullIsNoBlock
  <2> HIDE DEF n
  <2>4. TextBlocks(t)[b] = IF b <= n \div EDIT_BUF_SIZE THEN Made(b) ELSE NULL
    BY <1>2
  <2> QED BY <2>2, <2>3, <2>4
<1> QED BY <1>3, <1>4

\* the bytes are those of the text
LEMMA TextBlocksHold ==
  ASSUME NEW t \in Seq(Bytes), Len(t) <= SIZE_LIMIT, NEW e, e.buffers2 = TextBlocks(t),
         NEW p \in 0 .. Len(t) - 1
  PROVE  FromEnd(e, p) = t[Len(t) - p]
<1> DEFINE n == Len(t)
<1> DEFINE b == p \div EDIT_BUF_SIZE
<1> DEFINE k == EDIT_BUF_SIZE - (p % EDIT_BUF_SIZE) - 1
<1>1. n \in Nat /\ p \in Nat /\ p < n
  OBVIOUS
<1>2. p \in 0 .. SIZE_LIMIT + 1
  BY <1>1, Sizes
<1>3. b \in 0 .. MAXBUFF /\ k \in 0 .. EDIT_BUF_SIZE - 1
  <2>1. p % EDIT_BUF_SIZE \in 0 .. EDIT_BUF_SIZE - 1 /\ p \div EDIT_BUF_SIZE \in 0 .. MAXBUFF
    BY <1>2, Where
  <2> DEFINE r == p % EDIT_BUF_SIZE
  <2> HIDE DEF r
  <2>2. r \in 0 .. EDIT_BUF_SIZE - 1
    BY <2>1 DEF r
  <2>3. EDIT_BUF_SIZE - r - 1 \in 0 .. EDIT_BUF_SIZE - 1
    BY <2>2, Sizes
  <2> QED BY <2>1, <2>3 DEF r
<1>4. b <= n \div EDIT_BUF_SIZE /\ Place(n, b, k) = n - p
  BY <1>1, PlaceOf
<1>5. FromEnd(e, p) = TextBlocks(t)[b][k]
  BY DEF FromEnd
<1> HIDE DEF b, k
<1>6. TextBlocks(t)[b] = [j \in 0 .. EDIT_BUF_SIZE - 1 |-> CellOf(t, b, j)]
  BY <1>3, <1>4, TextBlocksParts
<1>7. TextBlocks(t)[b][k] = CellOf(t, b, k)
  BY <1>3, <1>6
<1>8. n - p \in 1 .. n
  BY <1>1
<1>9. CellOf(t, b, k) = t[n - p]
  BY <1>4, <1>8 DEF CellOf
<1> QED BY <1>5, <1>7, <1>9

\* the editor before its lines are counted
Unread(t) ==
  [buffers1 |-> [b \in 0 .. MAXBUFF |-> NULL], curs1 |-> 0,
   buffers2 |-> TextBlocks(t), curs2 |-> Len(t),
   last_byte |-> Len(t), curs_line |-> 0, total_lines |-> 0,
   start_display |-> 0, start_line |-> 0, valid |-> FALSE,
   numbers |-> [x \in 0 .. N_LINE_CACHES - 1 |-> 0],
   offsets |-> [x \in 0 .. N_LINE_CACHES - 1 |-> 0],
   marks |-> <<>>, at |-> 0, rule |-> ZeroRule, last |-> 0, markers |-> <<>>]

LEMMA UnreadIs ==
  ASSUME NEW t \in Seq(Bytes), Len(t) <= SIZE_LIMIT
  PROVE  /\ Unread(t) \in Edit /\ Blocks(Unread(t))
         /\ Unread(t).curs1 = 0 /\ Unread(t).curs2 = Len(t) /\ Unread(t).last_byte = Len(t)
         /\ Unread(t).buffers2 = TextBlocks(t)
         /\ Unread(t).curs_line = 0 /\ Unread(t).start_display = 0 /\ Unread(t).start_line = 0
         /\ ~Unread(t).valid /\ Unread(t).marks = <<>>
<1> DEFINE none == [b \in 0 .. MAXBUFF |-> NULL]
<1> DEFINE zero == [x \in 0 .. N_LINE_CACHES - 1 |-> 0]
<1> DEFINE full == TextBlocks(t)
<1> DEFINE n == Len(t)
<1> DEFINE u == Unread(t)
<1>1. /\ full \in BlockRow
      /\ \A b \in 0 .. MAXBUFF : (full[b] # NULL) <=> (b * EDIT_BUF_SIZE <= n)
  BY TextBlocksAre
<1>2. none \in BlockRow /\ \A b \in 0 .. MAXBUFF : none[b] = NULL
  BY DEF BlockRow
<1>3. zero \in [0 .. N_LINE_CACHES - 1 -> Int]
  OBVIOUS
<1>4. n \in Nat /\ ZeroRule \in Rule /\ n <= SIZE_LIMIT
  BY ZeroTyped DEF ZeroIsRule
<1> DEFINE marks == <<>>
<1> DEFINE markers == <<>>
<1>5. marks \in Seq([line : Int, c : Colors \cup {"none"}]) /\ markers \in Seq([offset : Int, rule : Rule])
  OBVIOUS
<1>6. u = [buffers1 |-> none, curs1 |-> 0, buffers2 |-> full, curs2 |-> n,
           last_byte |-> n, curs_line |-> 0, total_lines |-> 0,
           start_display |-> 0, start_line |-> 0, valid |-> FALSE,
           numbers |-> zero, offsets |-> zero,
           marks |-> marks, at |-> 0, rule |-> ZeroRule, last |-> 0, markers |-> markers]
  BY DEF Unread
<1> HIDE DEF none, zero, full, n, u, marks, markers
<1>7. u \in Edit
  BY <1>1, <1>2, <1>3, <1>4, <1>5, <1>6 DEF Edit, BlockRow
<1>8. /\ u.buffers1 = none /\ u.curs1 = 0 /\ u.buffers2 = full /\ u.curs2 = n /\ u.last_byte = n
      /\ u.curs_line = 0 /\ u.start_display = 0 /\ u.start_line = 0
      /\ ~u.valid /\ u.marks = marks
  BY <1>6
<1>9. Blocks(u)
  <2>0. SIZE_LIMIT \in Nat /\ EDIT_BUF_SIZE \in Nat /\ MAXBUFF \in Nat
    BY Sizes
  <2>1. u.curs1 \in 0 .. SIZE_LIMIT + 1 /\ u.curs2 \in 0 .. SIZE_LIMIT + 1
    BY <1>4, <1>8, <2>0
  <2>2. ASSUME NEW b \in 0 .. MAXBUFF
        PROVE  /\ (u.buffers1[b] # NULL) <=> (b * EDIT_BUF_SIZE < u.curs1)
               /\ (u.buffers2[b] # NULL) <=> (b * EDIT_BUF_SIZE <= u.curs2)
    <3> DEFINE m == b * EDIT_BUF_SIZE
    <3>1. m \in Nat
      BY <2>0
    <3> HIDE DEF m
    <3>2. ~(m < 0)
      BY <3>1
    <3>3. u.buffers1[b] = NULL
      BY <1>2, <1>8
    <3>4. (u.buffers2[b] # NULL) <=> (m <= n)
      BY <1>1, <1>8 DEF m
    <3> QED BY <1>8, <3>2, <3>3, <3>4 DEF m
  <2> QED BY <2>1, <2>2 DEF Blocks
<1> QED BY <1>7, <1>8, <1>9 DEF u, n, full, marks

\* A text loaded is there byte for byte, with the truth told of it.
LEMMA LoadedIs ==
  ASSUME NEW t \in Texts
  PROVE  LET d == Loaded(t)
         IN /\ True(d) /\ d.curs1 = 0 /\ Size(d) = Len(t)
            /\ \A i \in 1 .. Len(t) : GetByte(d, i - 1) = t[i]
            /\ t \in Seq(Bytes)
<1> DEFINE u == Unread(t)
<1> DEFINE total == CountLines(u, 0, Len(t))
<1> DEFINE x == [u EXCEPT !.total_lines = total]
<1> DEFINE before == -1
<1> DEFINE d == GetRule(x, before)
<1>0. t \in Seq(Bytes) /\ Len(t) <= SIZE_LIMIT /\ Len(t) \in Nat
  BY TextAssumption
<1>1. Loaded(t) = d
  BY Zenon DEF Loaded, Unread
<1>2. /\ u \in Edit /\ Blocks(u)
      /\ u.curs1 = 0 /\ u.curs2 = Len(t) /\ u.last_byte = Len(t)
      /\ u.buffers2 = TextBlocks(t)
      /\ u.curs_line = 0 /\ u.start_display = 0 /\ u.start_line = 0
      /\ ~u.valid /\ u.marks = <<>>
  BY <1>0, UnreadIs
<1> HIDE DEF u
<1>3. total \in Nat /\ CountLines(u, 0, 0) = 0
  BY <1>0, CountStep
<1>4. total \in Int
  BY <1>3
<1> HIDE DEF total
<1>5. /\ x \in Edit /\ SameBlocks(u, x) /\ x.last_byte = u.last_byte
      /\ SameScreen(u, x) /\ SameCache(u, x) /\ SameMarks(u, x) /\ SameRules(u, x)
      /\ x.curs_line = u.curs_line /\ x.total_lines = total
  BY <1>2, <1>4, TotalMoved
<1> HIDE DEF x
<1>6. RulesOnly(x, d)
  <2>1. before \in Int /\ before >= -2
    OBVIOUS
  <2> HIDE DEF before
  <2> QED BY <1>5, <2>1, GetRuleIs
<1> HIDE DEF d, before
<1>7. /\ d \in Edit /\ SameBlocks(u, d) /\ d.last_byte = Len(t)
      /\ d.curs_line = 0 /\ d.total_lines = total /\ d.start_display = 0 /\ d.start_line = 0
      /\ ~d.valid /\ d.marks = <<>>
  BY <1>2, <1>5, <1>6
     DEF RulesOnly, SameButRules, SameBlocks, SameLines, SameScreen, SameCache, SameMarks
<1>8. Blocks(d) /\ d.curs1 = 0 /\ d.curs2 = Len(t) /\ SameText(u, d)
  BY <1>2, <1>7, OwnBlocks, SameBlocksText
<1>9. Size(d) = Len(t) /\ Size(u) = Len(t)
  BY <1>0, <1>2, <1>8 DEF Size
<1>10. \A k : CountLines(d, 0, k) = CountLines(u, 0, k)
  BY <1>2, <1>7, <1>8, SameTextLines
<1>11. True(d)
  <2>1. Sound(d)
    BY <1>0, <1>7, <1>8, <1>9 DEF Sound
  <2>2. Counted(d)
    BY <1>0, <1>3, <1>7, <1>8, <1>10 DEF Counted, total
  <2> QED BY <1>7, <2>1, <2>2 DEF True, Cached, Marked
<1>12. ASSUME NEW i \in 1 .. Len(t)
       PROVE  GetByte(d, i - 1) = t[i]
  <2> DEFINE j == i - 1
  <2>1. j \in u.curs1 .. Size(u) - 1 /\ j \in Int /\ Size(u) - j - 1 \in 0 .. Len(t) - 1
        /\ Len(t) - (Size(u) - j - 1) = i
    BY <1>0, <1>2, <1>9
  <2> HIDE DEF j
  <2>2. GetByte(u, j) = FromEnd(u, Size(u) - j - 1)
    BY <1>2, <2>1, ByteAfter
  <2> DEFINE p == Size(u) - j - 1
  <2> HIDE DEF p
  <2>3. p \in 0 .. Len(t) - 1 /\ Len(t) - p = i
    BY <2>1 DEF p
  <2>4. FromEnd(u, p) = t[Len(t) - p]
    BY <1>0, <1>2, <2>3, TextBlocksHold
  <2>5. GetByte(u, j) = t[i]
    BY <2>2, <2>3, <2>4 DEF p
  <2>6. GetByte(d, j) = GetByte(u, j)
    BY <1>8, <2>1 DEF SameText
  <2> QED BY <2>5, <2>6 DEF j
<1> QED BY <1>0, <1>1, <1>8, <1>9, <1>11, <1>12

(***************************************************************************)
(* What leaves the text alone                                              *)
(***************************************************************************)

Kept(e, d) == True(d) /\ SameText(e, d)

LEMMA Beside ==
  ASSUME NEW e, True(e), NEW d \in Edit, SameBlocks(e, d), d.last_byte = e.last_byte,
         SameLines(e, d), SameScreen(e, d), SameCache(e, d) \/ Cached(d), Marked(d)
  PROVE  Kept(e, d)
<1>0. e \in Edit /\ Blocks(e)
  BY TrueFields
<1>1. Blocks(d) /\ d.curs1 = e.curs1 /\ SameText(e, d)
  BY <1>0, OwnBlocks, SameBlocksText
<1>2. d.curs_line = CountLines(e, 0, d.curs1) /\ d.total_lines = e.total_lines
  BY <1>1 DEF True, Counted, SameLines
<1>3. d.start_display \in 0 .. e.last_byte /\ d.start_line = CountLines(e, 0, d.start_display)
  BY DEF True, Counted, SameScreen
<1>4. True(d)
  BY <1>1, <1>2, <1>3, StaysTrue
<1> QED BY <1>1, <1>4 DEF Kept

LEMMA MarksKeep ==
  ASSUME NEW e, True(e), NEW d, MarksOnly(e, d)
  PROVE  Kept(e, d) /\ SameLines(e, d) /\ SameScreen(e, d) /\ d.curs1 = e.curs1 /\ d.last_byte = e.last_byte
<1>1. d \in Edit /\ SameButMarks(e, d) /\ Marked(d)
  BY DEF MarksOnly
<1>2. /\ SameBlocks(e, d) /\ d.last_byte = e.last_byte
      /\ SameLines(e, d) /\ SameScreen(e, d) /\ SameCache(e, d)
  BY <1>1 DEF SameButMarks
<1>3. Kept(e, d)
  BY <1>1, <1>2, Beside
<1> QED BY <1>2, <1>3 DEF SameBlocks

LEMMA RulesKeep ==
  ASSUME NEW e, True(e), NEW d, RulesOnly(e, d)
  PROVE  Kept(e, d) /\ d.marks = e.marks /\ d.last_byte = e.last_byte
<1>1. d \in Edit /\ SameButRules(e, d) /\ Marked(e)
  BY DEF RulesOnly, True
<1>2. /\ SameBlocks(e, d) /\ d.last_byte = e.last_byte
      /\ SameLines(e, d) /\ SameScreen(e, d) /\ SameCache(e, d) /\ SameMarks(e, d)
  BY <1>1 DEF SameButRules
<1>3. Marked(d)
  BY <1>1, <1>2 DEF Marked, SameMarks
<1>4. Kept(e, d)
  BY <1>1, <1>2, <1>3, Beside
<1> QED BY <1>2, <1>4 DEF SameMarks

LEMMA ScrolledKeep ==
  ASSUME NEW e, NEW d, Scrolled(e, d)
  PROVE  /\ Kept(e, d) /\ d.curs1 = e.curs1 /\ d.last_byte = e.last_byte
         /\ d.marks = e.marks /\ d.curs_line = e.curs_line
BY SameBlocksText DEF Scrolled, Kept, SameBlocks, SameMarks, SameLines

LEMMA KeptTwice ==
  ASSUME NEW e, NEW m, NEW d, Kept(e, m), Kept(m, d)
  PROVE  Kept(e, d)
BY SameTextTwice DEF Kept

LEMMA KeptItself == ASSUME NEW e, True(e) PROVE Kept(e, e)
BY DEF Kept, SameText

\* What a look leaves: the text, and all that is true of it.
LEMMA FindLineKeeps ==
  ASSUME NEW e, True(e), NEW line \in Nat, NEW slot \in 3 .. N_LINE_CACHES - 1
  PROVE  Kept(e, FindLine(e, line, slot))
<1> DEFINE d == FindLine(e, line, slot)
<1>1. Sound(e) /\ Counted(e) /\ Cached(e) /\ Marked(e)
  BY DEF True
<1>2. d \in Edit /\ SameButCache(e, d) /\ \A x \in 0 .. N_LINE_CACHES - 1 : Known(d, x)
  BY <1>1, FindLineIs
<1> HIDE DEF d
<1>3. /\ SameBlocks(e, d) /\ d.last_byte = e.last_byte
      /\ SameLines(e, d) /\ SameScreen(e, d) /\ SameMarks(e, d)
  BY <1>2 DEF SameButCache
<1>4. Marked(d) /\ Cached(d)
  BY <1>1, <1>2, <1>3 DEF Marked, SameMarks, Cached
<1>5. Kept(e, d)
  BY <1>2, <1>3, <1>4, Beside
<1> QED BY <1>5 DEF d

LEMMA ToBottom ==
  ASSUME NEW e, True(e)
  PROVE  LET there == CursorMove(e, Bol(e, e.last_byte) - e.curs1)
         IN Kept(e, ScrollUp([there EXCEPT !.start_line = there.total_lines,
                                           !.start_display = there.last_byte], Height - 1))
<1> DEFINE i == Bol(e, e.last_byte)
<1> DEFINE there == CursorMove(e, i - e.curs1)
<1> DEFINE x == [there EXCEPT !.start_line = there.total_lines, !.start_display = there.last_byte]
<1> DEFINE up == Height - 1
<1>0. e \in Edit /\ e.last_byte \in Nat
  BY TrueFields
<1>1. i \in 0 .. e.last_byte
  BY <1>0, BolIs
<1> HIDE DEF i
<1>2. At(e, there, i)
  BY <1>1, CursorMoveIs
<1> HIDE DEF there
<1>3. True(there) /\ SameText(e, there)
  BY <1>2 DEF At
<1>4. /\ there.last_byte \in Nat /\ there.total_lines \in Nat
      /\ there.total_lines = CountLines(there, 0, there.last_byte)
  BY <1>3, TrueFields DEF True, Counted
<1>5. OnScreen(there, x, there.last_byte, there.total_lines)
  BY Zenon DEF OnScreen
<1> HIDE DEF x
<1>6. there.last_byte \in 0 .. there.last_byte
  BY <1>4
<1>7. Scrolled(there, x)
  BY <1>3, <1>4, <1>5, <1>6, ScrolledTo
<1>8. up \in Int
  BY TextAssumption
<1> HIDE DEF up
<1>9. True(x)
  BY <1>7 DEF Scrolled
<1>10. Scrolled(x, ScrollUp(x, up))
  BY <1>8, <1>9, ScrollUpIs
<1>11. Kept(there, ScrollUp(x, up))
  BY <1>7, <1>10, ScrolledTwice, ScrolledKeep
<1>12. Kept(e, there)
  BY <1>3 DEF Kept
<1>13. Kept(e, ScrollUp(x, up))
  BY <1>11, <1>12, KeptTwice
<1> QED BY <1>13 DEF x, up, there, i

LEMMA MoveForwardInside ==
  ASSUME NEW e \in Edit, e.last_byte = Size(e), NEW i \in 0 .. e.last_byte, NEW lines \in Nat
  PROVE  MoveForward(e, i, lines) \in 0 .. e.last_byte
<1>0. e.last_byte \in Nat
  BY EditFields
<1>1. PICK g : /\ g[0] = i /\ MoveForward(e, i, lines) = g[lines]
               /\ \A n \in 1 .. lines : g[n] = IF Eol(e, g[n - 1]) + 1 > e.last_byte THEN g[n - 1]
                                               ELSE Eol(e, g[n - 1]) + 1
  BY MoveForwardSteps
<1> DEFINE T == {n \in 0 .. lines : g[n] \in 0 .. e.last_byte}
<1>2. 0 \in T
  BY <1>1
<1>3. ASSUME NEW n \in 1 .. lines, n - 1 \in T PROVE n \in T
  <2>1. g[n - 1] \in 0 .. e.last_byte
    BY <1>3
  <2>2. Eol(e, g[n - 1]) \in g[n - 1] .. e.last_byte
    BY <2>1, EolIs
  <2>3. g[n] = IF Eol(e, g[n - 1]) + 1 > e.last_byte THEN g[n - 1] ELSE Eol(e, g[n - 1]) + 1
    BY <1>1
  <2>4. g[n] \in 0 .. e.last_byte
    BY <1>0, <2>1, <2>2, <2>3
  <2> QED BY <2>4
<1>4. \A n \in 0 .. lines : n \in T
  <2> HIDE DEF T
  <2> QED BY <1>2, <1>3, Along
<1>5. lines \in T
  <2>1. lines \in 0 .. lines
    OBVIOUS
  <2> QED BY <1>4, <2>1
<1> QED BY <1>1, <1>5

\* some place has that many lines before it
LEMMA PlaceOfLine ==
  ASSUME NEW e, True(e), NEW target \in 0 .. e.total_lines
  PROVE  Bol(e, Least({i \in 0 .. Size(e) : CountLines(e, 0, i) = target})) \in 0 .. e.last_byte
<1> DEFINE S == {i \in 0 .. Size(e) : CountLines(e, 0, i) = target}
<1> DEFINE j == MoveForward(e, 0, target)
<1>0. /\ e \in Edit /\ e.last_byte = Size(e) /\ e.last_byte \in Nat /\ e.total_lines \in Nat
      /\ e.total_lines = CountLines(e, 0, e.last_byte)
  BY TrueFields DEF True, Counted
<1>1. CountLines(e, 0, 0) = 0 /\ 0 \in 0 .. e.last_byte /\ target \in Nat
  BY <1>0, CountStep
<1>2. CountLines(e, 0, 0) + target <= CountLines(e, 0, e.last_byte)
  BY <1>0, <1>1
<1> DEFINE zero == 0
<1>3. j \in 0 .. e.last_byte /\ CountLines(e, 0, j) = CountLines(e, 0, 0) + target
  <2>1. zero \in 0 .. e.last_byte /\ CountLines(e, 0, zero) + target <= CountLines(e, 0, e.last_byte)
    BY <1>1, <1>2
  <2> HIDE DEF zero
  <2>2. MoveForward(e, zero, target) \in 0 .. e.last_byte
        /\ CountLines(e, 0, MoveForward(e, zero, target)) = CountLines(e, 0, zero) + target
    BY <1>0, <1>1, <2>1, MoveForwardIs
  <2> QED BY <2>2 DEF zero
<1> HIDE DEF j
<1>4. j \in S
  BY <1>0, <1>1, <1>3
<1>5. Least(S) \in S
  <2>1. S \in SUBSET Int /\ S # {}
    BY <1>0, <1>4
  <2>2. \A x \in S : x >= zero
    BY <1>0
  <2>3. zero \in Int
    OBVIOUS
  <2> HIDE DEF S, zero
  <2> QED BY <2>1, <2>2, <2>3, LeastIs
<1> DEFINE least == Least(S)
<1>6. least \in 0 .. e.last_byte /\ least \in Nat
  BY <1>0, <1>5
<1> HIDE DEF least
<1>7. Bol(e, least) \in 0 .. least
  BY <1>0, <1>6, BolIs
<1>8. Bol(e, least) \in 0 .. e.last_byte
  BY <1>0, <1>6, <1>7
<1> QED BY <1>8 DEF least

LEMMA ToMarkKeeps ==
  ASSUME NEW e, True(e), NEW p, e.marks[p].line \in Nat
  PROVE  Kept(e, ToMark(e, p))
<1> DEFINE line == e.marks[p].line
<1> DEFINE target == IF line > e.total_lines THEN e.total_lines ELSE line
<1> DEFINE start == Bol(e, Least({i \in 0 .. Size(e) : CountLines(e, 0, i) = target}))
<1> DEFINE up == e.start_line - (line - (Height \div 2))
<1> DEFINE down == line - (Height \div 2) - e.start_line
<1> DEFINE seen == IF line >= e.start_line /\ line < e.start_line + Height THEN e
                   ELSE IF line - (Height \div 2) < e.start_line
                   THEN ScrollUp(e, up) ELSE ScrollDown(e, down)
<1>0. /\ e.total_lines \in Nat /\ e.start_line \in Nat /\ e.curs1 \in Nat /\ e.last_byte \in Nat
      /\ Height \in Nat /\ line \in Nat
  BY TrueFields, TextAssumption
<1>1. ToMark(e, p) = IF target = e.curs_line THEN seen
                     ELSE ScrollOver(CursorMove(seen, start - e.curs1))
  BY Zenon DEF ToMark
<1>2. target \in 0 .. e.total_lines
  BY <1>0
<1> HIDE DEF target
<1>3. start \in 0 .. e.last_byte
  BY <1>2, PlaceOfLine
<1> HIDE DEF start
<1>4. up \in Int /\ down \in Int
  <2>1. Height \div 2 \in Int
    BY <1>0
  <2> DEFINE half == Height \div 2
  <2> HIDE DEF half, line
  <2>2. e.start_line - (line - half) \in Int /\ line - half - e.start_line \in Int
    BY <1>0, <2>1 DEF half
  <2> QED BY <2>2 DEF half, line
<1> HIDE DEF up, down
<1>5. Scrolled(e, seen)
  <2>1. Scrolled(e, e) /\ Scrolled(e, ScrollUp(e, up)) /\ Scrolled(e, ScrollDown(e, down))
    BY <1>4, ScrolledItself, ScrollUpIs, ScrollDownIs
  <2> QED BY <2>1
<1> HIDE DEF seen
<1>6. Kept(e, seen) /\ seen.curs1 = e.curs1 /\ seen.last_byte = e.last_byte /\ True(seen)
  BY <1>5, ScrolledKeep DEF Kept
<1> DEFINE moved == CursorMove(seen, start - e.curs1)
<1>7. At(seen, moved, start)
  BY <1>3, <1>6, CursorMoveIs
<1> HIDE DEF moved
<1>8. Kept(seen, moved) /\ True(moved)
  BY <1>7 DEF At, Kept
<1>9. Kept(moved, ScrollOver(moved))
  BY <1>8, ScrollOverIs, ScrolledKeep
<1>10. Kept(e, ScrollOver(moved))
  BY <1>6, <1>8, <1>9, KeptTwice
<1> QED BY <1>1, <1>6, <1>10 DEF moved

LEMMA DrawKeeps ==
  ASSUME NEW e, True(e), NEW b \in 0 .. e.last_byte, NEW row \in Int, NEW n \in Nat,
         e.start_line + row \in Nat
  PROVE  Kept(e, Draw(e, b, row, n))
<1> DEFINE end == Eol(e, MoveForward(e, b, n - 1))
<1> DEFINE upto == IF end >= e.last_byte THEN e.last_byte - 1 ELSE end
<1> DEFINE before == b - 1
<1> DEFINE i == IF e.last_byte = 0 THEN before ELSE upto
<1> DEFINE x == GetRule(e, before)
<1> DEFINE drawn == GetRule(x, i)
<1> DEFINE last == e.start_line + row + n - 1
<1>0. e \in Edit /\ e.last_byte \in Nat /\ e.last_byte = Size(e) /\ e.start_line \in Nat
  BY TrueFields
<1>1. CASE n = 0
  <2>1. Draw(e, b, row, n) = e
    BY <1>1 DEF Draw
  <2> QED BY <2>1, KeptItself
<1>2. CASE n # 0
  <2>1. Draw(e, b, row, n) = IF e.marks = <<>> THEN drawn ELSE MarkFind(drawn, last)
    BY <1>2, Zenon DEF Draw
  <2>2. n - 1 \in Nat
    BY <1>2
  <2>3. end \in 0 .. e.last_byte
    <3> DEFINE to == MoveForward(e, b, n - 1)
    <3>1. to \in 0 .. e.last_byte
      BY <1>0, <2>2, MoveForwardInside
    <3>2. to \in Nat
      BY <1>0, <3>1
    <3> HIDE DEF to
    <3>3. Eol(e, to) \in 0 .. e.last_byte
      BY <1>0, <3>2, EolInt
    <3> QED BY <3>3 DEF to
  <2> HIDE DEF end
  <2>4. before \in Int /\ before >= -2 /\ i \in Int /\ i >= -2
    BY <1>0, <2>3
  <2> HIDE DEF before, i
  <2>5. Kept(e, x) /\ x.marks = e.marks
    BY <1>0, <2>4, GetRuleIs, RulesKeep
  <2> HIDE DEF x
  <2>6. True(x) /\ x \in Edit
    BY <2>5, TrueFields DEF Kept
  <2>7. Kept(x, drawn) /\ drawn.marks = e.marks
    BY <2>4, <2>5, <2>6, GetRuleIs, RulesKeep
  <2> HIDE DEF drawn
  <2>8. True(drawn) /\ Kept(e, drawn)
    BY <2>5, <2>7, KeptTwice DEF Kept
  <2>9. last \in Nat
    <3> DEFINE y == e.start_line + row
    <3>1. last = y + n - 1 /\ y \in Nat
      OBVIOUS
    <3> HIDE DEF y, last
    <3> QED BY <2>2, <3>1
  <2> HIDE DEF last
  <2>10. Kept(e, MarkFind(drawn, last))
    <3>1. drawn \in Edit /\ Marked(drawn)
      BY <2>8, TrueFields
    <3>2. MarksOnly(drawn, MarkFind(drawn, last))
      BY <2>9, <3>1, MarkFindIs
    <3>3. Kept(drawn, MarkFind(drawn, last))
      BY <2>8, <3>2, MarksKeep
    <3> QED BY <2>8, <3>3, KeptTwice
  <2> QED BY <2>1, <2>8, <2>10
<1> QED BY <1>1, <1>2

(***************************************************************************)
(* The text                                                                *)
(***************************************************************************)

TextOf(e) == [i \in 1 .. Size(e) |-> GetByte(e, i - 1)]

\* t is s with c at place q
Longer(s, t, q, c) ==
  /\ q \in 1 .. Len(s) + 1 /\ Len(t) = Len(s) + 1
  /\ \A i \in 1 .. Len(s) + 1 : t[i] = IF i < q THEN s[i] ELSE IF i = q THEN c ELSE s[i - 1]

LEMMA Inserted ==
  ASSUME NEW S, NEW s \in Seq(S), NEW t \in Seq(S), NEW c \in S, NEW q, Longer(s, t, q, c)
  PROVE  t = InsertAt(s, q, c) /\ s = RemoveAt(t, q)
<1>a. /\ q \in 1 .. Len(s) + 1 /\ Len(t) = Len(s) + 1
      /\ \A i \in 1 .. Len(s) + 1 : t[i] = IF i < q THEN s[i] ELSE IF i = q THEN c ELSE s[i - 1]
  BY DEF Longer
<1>0. Len(s) \in Nat
  OBVIOUS
<1>1. t = InsertAt(s, q, c)
  <2> DEFINE u == InsertAt(s, q, c)
  <2>1. /\ u \in Seq(S) /\ Len(u) = Len(s) + 1
        /\ \A k \in 1 .. Len(s) + 1 : u[k] = IF k < q THEN s[k] ELSE IF k = q THEN c ELSE s[k - 1]
    BY <1>a, InsertAtIs
  <2> HIDE DEF u
  <2>2. Len(t) = Len(u) /\ \A i \in 1 .. Len(t) : t[i] = u[i]
    BY <1>a, <2>1
  <2>3. t = u
    BY <2>1, <2>2, SeqEqual
  <2> QED BY <2>3 DEF u
<1>2. s = RemoveAt(t, q)
  <2> DEFINE u == RemoveAt(t, q)
  <2>1. q \in 1 .. Len(t) /\ Len(t) - 1 = Len(s)
    BY <1>0, <1>a
  <2>2. /\ u \in Seq(S) /\ Len(u) = Len(t) - 1
        /\ \A k \in 1 .. Len(t) - 1 : u[k] = IF k < q THEN t[k] ELSE t[k + 1]
    BY <2>1, RemoveAtIs
  <2> HIDE DEF u
  <2>3. ASSUME NEW i \in 1 .. Len(s) PROVE s[i] = u[i]
    <3>1. u[i] = IF i < q THEN t[i] ELSE t[i + 1]
      BY <2>1, <2>2
    <3>2. CASE i < q
      <4>1. i \in 1 .. Len(s) + 1
        BY <1>0
      <4>2. t[i] = s[i]
        BY <1>a, <3>2, <4>1
      <4> QED BY <3>1, <3>2, <4>2
    <3>3. CASE ~(i < q)
      <4> DEFINE k == i + 1
      <4>1. k \in 1 .. Len(s) + 1 /\ ~(k < q) /\ k # q /\ k - 1 = i
        BY <1>0, <1>a, <3>3
      <4> HIDE DEF k
      <4>2. t[k] = s[k - 1]
        BY <1>a, <4>1
      <4> QED BY <3>1, <3>3, <4>1, <4>2 DEF k
    <3> QED BY <3>2, <3>3
  <2>4. Len(s) = Len(u) /\ \A i \in 1 .. Len(s) : s[i] = u[i]
    BY <1>a, <2>1, <2>2, <2>3
  <2>5. s = u
    BY <2>2, <2>4, SeqEqual
  <2> QED BY <2>5 DEF u
<1> QED BY <1>1, <1>2

\* The text the blocks hold, as the sequence of Text.
LEMMA TextTyped ==
  ASSUME NEW e \in Edit, Blocks(e)
  PROVE  /\ TextOf(e) \in Seq(Bytes) /\ Len(TextOf(e)) = Size(e) /\ Size(e) \in Nat
         /\ \A i \in 1 .. Size(e) : TextOf(e)[i] = GetByte(e, i - 1)
<1>1. Size(e) \in Nat
  BY SizeIs
<1>2. \A i \in 1 .. Size(e) : GetByte(e, i - 1) \in Bytes
  <2> SUFFICES ASSUME NEW i \in 1 .. Size(e) PROVE GetByte(e, i - 1) \in Bytes
    OBVIOUS
  <2> DEFINE j == i - 1
  <2>1. j \in Int
    BY <1>1
  <2> HIDE DEF j
  <2>2. GetByte(e, j) \in Bytes
    BY <2>1, ByteTyped
  <2> QED BY <2>2 DEF j
<1> DEFINE n == Size(e)
<1> DEFINE text == TextOf(e)
<1>3. text \in [1 .. n -> Bytes] /\ \A i \in 1 .. n : text[i] = GetByte(e, i - 1)
  BY <1>2 DEF TextOf
<1> HIDE DEF n, text
<1>4. n \in Nat
  BY <1>1 DEF n
<1>5. text \in Seq(Bytes) /\ Len(text) = n
  BY <1>3, <1>4
<1> QED BY <1>3, <1>4, <1>5 DEF n, text

LEMMA TextSame ==
  ASSUME NEW e \in Edit, NEW d, SameText(e, d)
  PROVE  TextOf(d) = TextOf(e)
<1>1. Size(e) \in Nat
  BY SizeIs
<1>2. \A i \in 1 .. Size(e) : i - 1 \in Int
  BY <1>1
<1>3. \A i \in 1 .. Size(e) : GetByte(d, i - 1) = GetByte(e, i - 1)
  BY <1>2 DEF SameText
<1> QED BY <1>3 DEF TextOf, SameText

\* A byte more in the blocks is an element more in the sequence.
LEMMA TextGrown ==
  ASSUME NEW e \in Edit, Blocks(e), NEW d \in Edit, Blocks(d), NEW p, NEW c \in Bytes, Grown(e, d, p, c)
  PROVE  /\ TextOf(d) = InsertAt(TextOf(e), p + 1, c)
         /\ TextOf(e) = RemoveAt(TextOf(d), p + 1)
<1> DEFINE s == TextOf(e)
<1> DEFINE t == TextOf(d)
<1> DEFINE n == Size(e)
<1> DEFINE q == p + 1
<1>1. s \in Seq(Bytes) /\ Len(s) = n /\ n \in Nat /\ \A i \in 1 .. n : s[i] = GetByte(e, i - 1)
  BY TextTyped
<1>2. Size(d) = n + 1 /\ p \in 0 .. n
  BY DEF Grown
<1>3. t \in Seq(Bytes) /\ Len(t) = n + 1 /\ \A i \in 1 .. n + 1 : t[i] = GetByte(d, i - 1)
  BY <1>2, TextTyped
<1> HIDE DEF s, t, n
<1>4. q \in 1 .. n + 1 /\ q = p + 1 /\ p \in Nat /\ p \in Int
  BY <1>1, <1>2
<1> HIDE DEF q
<1>5. \A i \in 1 .. n + 1 : t[i] = IF i < q THEN s[i] ELSE IF i = q THEN c ELSE s[i - 1]
  <2> SUFFICES ASSUME NEW i \in 1 .. n + 1
               PROVE  t[i] = IF i < q THEN s[i] ELSE IF i = q THEN c ELSE s[i - 1]
    OBVIOUS
  <2> DEFINE j == i - 1
  <2>1. j \in Int /\ (j < p <=> i < q) /\ (j = p <=> i = q) /\ i \in Nat
    BY <1>1, <1>4
  <2>2. t[i] = GetByte(d, j)
    BY <1>3
  <2>3. CASE i < q
    <3>1. i \in 1 .. n
      BY <1>1, <1>4, <2>1, <2>3
    <3>2. s[i] = GetByte(e, j)
      BY <1>1, <3>1
    <3> HIDE DEF j
    <3>3. GetByte(d, j) = GetByte(e, j)
      BY <2>1, <2>3 DEF Grown
    <3> QED BY <2>2, <2>3, <3>2, <3>3
  <2>4. CASE i = q
    <3> HIDE DEF j
    <3>1. GetByte(d, j) = c
      BY <1>4, <2>1, <2>4 DEF Grown
    <3>2. ~(i < q)
      BY <1>4, <2>4
    <3> QED BY <2>2, <2>4, <3>1, <3>2
  <2>5. CASE ~(i < q) /\ i # q
    <3>1. j \in 1 .. n
      BY <1>1, <1>4, <2>1, <2>5
    <3>2. s[j] = GetByte(e, j - 1)
      BY <1>1, <3>1
    <3>3. s[i - 1] = s[j]
      OBVIOUS
    <3> HIDE DEF j
    <3>4. GetByte(d, j) = GetByte(e, j - 1)
      BY <2>1, <2>5 DEF Grown
    <3> QED BY <2>2, <2>5, <3>2, <3>3, <3>4
  <2> QED BY <2>3, <2>4, <2>5
<1>6. q \in 1 .. Len(s) + 1 /\ Len(t) = Len(s) + 1
  BY <1>1, <1>3, <1>4
<1>7. \A i \in 1 .. Len(s) + 1 : t[i] = IF i < q THEN s[i] ELSE IF i = q THEN c ELSE s[i - 1]
  BY <1>1, <1>5
<1>8. s \in Seq(Bytes) /\ t \in Seq(Bytes) /\ c \in Bytes
  BY <1>1, <1>3
<1>9. Longer(s, t, q, c)
  BY <1>6, <1>7, Zenon DEF Longer
<1>10. t = InsertAt(s, q, c) /\ s = RemoveAt(t, q)
  BY <1>8, <1>9, Inserted
<1> QED BY <1>10 DEF s, t, q

(***************************************************************************)
(* The steps                                                               *)
(***************************************************************************)

IInv == opt \in Settings /\ True(edit) /\ undrawn \in 0 .. Nowhere

\* a step of the text, or none
TextStep == Buffer!Next \/ UNCHANGED Buffer!vars

LEMMA SettingIs ==
  ASSUME opt \in Settings
  PROVE  opt.chars \subseteq Chars /\ Chars \subseteq Bytes
BY TextAssumption DEF Setting

\* a byte more, or less, between the two parts of a text
LEMMA Parted ==
  ASSUME NEW s, NEW i \in Nat, NEW c
  PROVE  /\ InsertAt(s, i + 1, c) = SubSeq(s, 1, i) \o <<c>> \o SubSeq(s, i + 1, Len(s))
         /\ RemoveAt(s, i + 1) = SubSeq(s, 1, i) \o SubSeq(s, i + 2, Len(s))
         /\ RemoveAt(s, i) = SubSeq(s, 1, i - 1) \o SubSeq(s, i + 1, Len(s))
<1>1. (i + 1) - 1 = i /\ (i + 1) + 1 = i + 2
  OBVIOUS
<1>2. SubSeq(s, 1, (i + 1) - 1) = SubSeq(s, 1, i) /\ SubSeq(s, (i + 1) + 1, Len(s)) = SubSeq(s, i + 2, Len(s))
  BY <1>1, Zenon
<1> QED BY <1>2, Zenon DEF InsertAt, RemoveAt

\* What leaves the text alone is a move of Text.
LEMMA KeptStep ==
  ASSUME True(edit), NEW d, Kept(edit, d), edit' = d
  PROVE  True(edit)' /\ TextStep
<1>1. True(d) /\ SameText(edit, d)
  BY DEF Kept
<1>2. edit \in Edit /\ Blocks(edit)
  BY TrueFields
<1>3. TextOf(d) = TextOf(edit) /\ Len(TextOf(edit)) = Size(edit)
  BY <1>1, <1>2, TextSame, TextTyped
<1>4. d.curs1 \in 0 .. Size(edit)
  BY <1>1, TrueFields DEF SameText
<1>5. Buffer!Move
  BY <1>3, <1>4 DEF Buffer!Move, TextOf
<1> QED BY <1>1, <1>5 DEF TextStep, Buffer!Next

\* Each change is the step of Text it is named for.
LEMMA InsertStep ==
  ASSUME True(edit), NEW c \in Chars, edit' = Insert(edit, c)
  PROVE  True(edit)' /\ TextStep
<1> DEFINE d == Insert(edit, c)
<1>0. /\ edit \in Edit /\ Blocks(edit) /\ edit.last_byte = Size(edit) /\ edit.last_byte \in Nat
      /\ SIZE_LIMIT \in Nat
  BY TrueFields
<1>1. CASE edit.last_byte >= SIZE_LIMIT
  <2>1. edit' = edit
    BY <1>1 DEF Insert
  <2> QED BY <2>1, KeptItself, KeptStep
<1>2. CASE edit.last_byte < SIZE_LIMIT
  <2>0. c \in Bytes
    BY TextAssumption
  <2>1. True(d) /\ Grown(edit, d, edit.curs1, c) /\ d.curs1 = edit.curs1 + 1
    BY <1>2, <2>0, InsertIs
  <2>2. edit' = d
    OBVIOUS
  <2> HIDE DEF d
  <2>3. d \in Edit /\ Blocks(d)
    BY <2>1, TrueFields
  <2>4. TextOf(d) = InsertAt(TextOf(edit), edit.curs1 + 1, c) /\ Len(TextOf(edit)) = Size(edit)
    BY <1>0, <2>0, <2>1, <2>3, TextGrown, TextTyped
  <2>5. edit.curs1 \in Nat
    BY TrueFields
  <2>6. TextOf(d) = SubSeq(TextOf(edit), 1, edit.curs1) \o <<c>>
                      \o SubSeq(TextOf(edit), edit.curs1 + 1, Len(TextOf(edit)))
    BY <2>4, <2>5, Parted
  <2>7. Buffer!Insert(c)
    BY <1>0, <1>2, <2>1, <2>2, <2>4, <2>6 DEF Buffer!Insert, Buffer!Before, Buffer!After, TextOf
  <2> QED BY <2>1, <2>2, <2>7 DEF TextStep, Buffer!Next
<1> QED BY <1>0, <1>1, <1>2

LEMMA InsertAheadStep ==
  ASSUME True(edit), NEW c \in Chars, edit' = InsertAhead(edit, c)
  PROVE  True(edit)' /\ TextStep
<1> DEFINE d == InsertAhead(edit, c)
<1>0. /\ edit \in Edit /\ Blocks(edit) /\ edit.last_byte = Size(edit) /\ edit.last_byte \in Nat
      /\ SIZE_LIMIT \in Nat
  BY TrueFields
<1>1. CASE edit.last_byte >= SIZE_LIMIT
  <2>1. edit' = edit
    BY <1>1 DEF InsertAhead
  <2> QED BY <2>1, KeptItself, KeptStep
<1>2. CASE edit.last_byte < SIZE_LIMIT
  <2>0. c \in Bytes
    BY TextAssumption
  <2>1. True(d) /\ Grown(edit, d, edit.curs1, c) /\ d.curs1 = edit.curs1
    BY <1>2, <2>0, InsertAheadIs
  <2>2. edit' = d
    OBVIOUS
  <2> HIDE DEF d
  <2>3. d \in Edit /\ Blocks(d)
    BY <2>1, TrueFields
  <2>4. TextOf(d) = InsertAt(TextOf(edit), edit.curs1 + 1, c) /\ Len(TextOf(edit)) = Size(edit)
    BY <1>0, <2>0, <2>1, <2>3, TextGrown, TextTyped
  <2>5. edit.curs1 \in Nat
    BY TrueFields
  <2>6. TextOf(d) = SubSeq(TextOf(edit), 1, edit.curs1) \o <<c>>
                      \o SubSeq(TextOf(edit), edit.curs1 + 1, Len(TextOf(edit)))
    BY <2>4, <2>5, Parted
  <2>7. Buffer!InsertAhead(c)
    BY <1>0, <1>2, <2>1, <2>2, <2>4, <2>6 DEF Buffer!InsertAhead, Buffer!Before, Buffer!After, TextOf
  <2> QED BY <2>1, <2>2, <2>7 DEF TextStep, Buffer!Next
<1> QED BY <1>0, <1>1, <1>2

LEMMA DeleteStep ==
  ASSUME True(edit), edit.curs2 > 0, edit' = Delete(edit)
  PROVE  True(edit)' /\ TextStep
<1> DEFINE d == Delete(edit)
<1> DEFINE p == edit.curs1
<1> DEFINE c == GetByte(edit, p)
<1>0. /\ edit \in Edit /\ Blocks(edit) /\ edit.last_byte = Size(edit)
      /\ edit.last_byte = edit.curs1 + edit.curs2 /\ edit.curs1 \in Nat /\ edit.curs2 \in Nat
  BY TrueFields
<1>1. c \in Bytes
  <2>1. p \in Int
    BY <1>0
  <2> HIDE DEF p
  <2> QED BY <1>0, <2>1, ByteTyped
<1>2. True(d) /\ Grown(d, edit, p, c) /\ d.curs1 = edit.curs1
  BY DeleteIs
<1>3. edit' = d
  OBVIOUS
<1> HIDE DEF d, c
<1>4. d \in Edit /\ Blocks(d)
  BY <1>2, TrueFields
<1>5. TextOf(d) = RemoveAt(TextOf(edit), p + 1) /\ Len(TextOf(edit)) = Size(edit)
  BY <1>0, <1>1, <1>2, <1>4, TextGrown, TextTyped
<1>6. edit.curs1 < Size(edit)
  BY <1>0
<1>7. Buffer!Delete
  BY <1>0, <1>2, <1>3, <1>5, <1>6, Parted DEF Buffer!Delete, Buffer!Before, TextOf
<1> QED BY <1>2, <1>3, <1>7 DEF TextStep, Buffer!Next

LEMMA BackspaceStep ==
  ASSUME True(edit), edit.curs1 > 0, edit' = Backspace(edit)
  PROVE  True(edit)' /\ TextStep
<1> DEFINE d == Backspace(edit)
<1> DEFINE p == edit.curs1 - 1
<1> DEFINE c == GetByte(edit, p)
<1>0. /\ edit \in Edit /\ Blocks(edit) /\ edit.last_byte = Size(edit)
      /\ edit.last_byte = edit.curs1 + edit.curs2 /\ edit.curs1 \in Nat /\ edit.curs2 \in Nat
  BY TrueFields
<1>1. p \in Int /\ p + 1 = edit.curs1
  BY <1>0
<1>2. True(d) /\ Grown(d, edit, p, c) /\ d.curs1 = p
  BY BackspaceIs
<1>3. edit' = d
  OBVIOUS
<1> HIDE DEF d, p
<1>4. c \in Bytes
  BY <1>0, <1>1, ByteTyped
<1> HIDE DEF c
<1>5. d \in Edit /\ Blocks(d)
  BY <1>2, TrueFields
<1>6. TextOf(d) = RemoveAt(TextOf(edit), edit.curs1)
  <2>1. TextOf(d) = RemoveAt(TextOf(edit), p + 1)
    BY <1>0, <1>2, <1>4, <1>5, TextGrown
  <2> QED BY <1>1, <2>1
<1>7. Buffer!Backspace
  BY <1>0, <1>2, <1>3, <1>6, Parted DEF Buffer!Backspace, Buffer!After, TextOf, p
<1> QED BY <1>2, <1>3, <1>7 DEF TextStep, Buffer!Next

\* a change, or a look, leaves the editor with the truth of the text
LEMMA ChangeSteps ==
  ASSUME IInv, InsertByte \/ InsertByteAhead \/ DeleteByte \/ BackspaceByte
  PROVE  True(edit)' /\ TextStep
<1>1. True(edit) /\ opt.chars \subseteq Chars
  BY SettingIs DEF IInv
<1>2. CASE InsertByte
  <2>1. PICK c \in opt.chars : Change(Insert(edit, c), edit.curs1)
    BY <1>2 DEF InsertByte
  <2>2. c \in Chars /\ edit' = Insert(edit, c)
    BY <1>1, <2>1 DEF Change
  <2> QED BY <1>1, <2>2, InsertStep
<1>3. CASE InsertByteAhead
  <2>1. PICK c \in opt.chars : Change(InsertAhead(edit, c), edit.curs1)
    BY <1>3 DEF InsertByteAhead
  <2>2. c \in Chars /\ edit' = InsertAhead(edit, c)
    BY <1>1, <2>1 DEF Change
  <2> QED BY <1>1, <2>2, InsertAheadStep
<1>4. CASE DeleteByte
  BY <1>1, <1>4, DeleteStep DEF DeleteByte, Change
<1>5. CASE BackspaceByte
  BY <1>1, <1>5, BackspaceStep DEF BackspaceByte, Change
<1> QED BY <1>2, <1>3, <1>4, <1>5

\* The moves and looks keep the truth and move in Text.
LEMMA CursorSteps ==
  ASSUME IInv, MoveCursor \/ MoveToBottom \/ ScrollTo \/ LookUp
  PROVE  True(edit)' /\ TextStep
<1>1. True(edit) /\ edit.last_byte = Size(edit) /\ edit.start_line \in Nat /\ edit.total_lines \in Nat
  BY TrueFields DEF IInv
<1>2. CASE MoveCursor
  <2>1. PICK i \in (0 .. Size(edit)) \ {edit.curs1} : Look(CursorMove(edit, i - edit.curs1))
    BY <1>2 DEF MoveCursor
  <2> DEFINE d == CursorMove(edit, i - edit.curs1)
  <2>2. At(edit, d, i)
    BY <1>1, CursorMoveIs
  <2>3. edit' = d
    BY <2>1 DEF Look
  <2> HIDE DEF d
  <2>4. Kept(edit, d)
    BY <2>2 DEF At, Kept
  <2> QED BY <1>1, <2>3, <2>4, KeptStep
<1>3. CASE MoveToBottom
  <2> DEFINE there == CursorMove(edit, Bol(edit, edit.last_byte) - edit.curs1)
  <2> DEFINE d == ScrollUp([there EXCEPT !.start_line = there.total_lines,
                                         !.start_display = there.last_byte], Height - 1)
  <2>1. edit' = d
    BY <1>3 DEF MoveToBottom, Look
  <2>2. Kept(edit, d)
    BY <1>1, ToBottom
  <2> HIDE DEF d
  <2> QED BY <1>1, <2>1, <2>2, KeptStep
<1>4. CASE ScrollTo
  <2>1. PICK line \in 0 .. edit.total_lines :
          Look(IF line < edit.start_line THEN ScrollUp(edit, edit.start_line - line)
               ELSE ScrollDown(edit, line - edit.start_line))
    BY <1>4 DEF ScrollTo
  <2> DEFINE up == edit.start_line - line
  <2> DEFINE down == line - edit.start_line
  <2>2. edit' = IF line < edit.start_line THEN ScrollUp(edit, up) ELSE ScrollDown(edit, down)
    BY <2>1 DEF Look
  <2>3. up \in Int /\ down \in Int
    BY <1>1
  <2> HIDE DEF up, down
  <2>4. Kept(edit, ScrollUp(edit, up)) /\ Kept(edit, ScrollDown(edit, down))
    BY <1>1, <2>3, ScrollUpIs, ScrollDownIs, ScrolledKeep
  <2>5. CASE edit' = ScrollUp(edit, up)
    BY <1>1, <2>4, <2>5, KeptStep
  <2>6. CASE edit' = ScrollDown(edit, down)
    BY <1>1, <2>4, <2>6, KeptStep
  <2> QED BY <2>2, <2>5, <2>6
<1>5. CASE LookUp
  <2>1. PICK line \in 0 .. edit.total_lines + 1, slot \in 3 .. N_LINE_CACHES - 1 :
          Look(FindLine(edit, line, slot))
    BY <1>5 DEF LookUp
  <2>2. line \in Nat
    BY <1>1
  <2> DEFINE d == FindLine(edit, line, slot)
  <2>3. Kept(edit, d)
    BY <1>1, <2>2, FindLineKeeps
  <2>4. edit' = d
    BY <2>1 DEF Look
  <2> HIDE DEF d
  <2> QED BY <1>1, <2>3, <2>4, KeptStep
<1> QED BY <1>2, <1>3, <1>4, <1>5

\* So do the routines of bookmark.c.
LEMMA MarkFoundKeeps ==
  ASSUME NEW e, True(e), NEW line \in Nat
  PROVE  LET d == MarkFind(e, line)
         IN /\ MarksOnly(e, d) /\ Kept(e, d) /\ True(d) /\ d \in Edit /\ Marked(d)
            /\ d.marks # <<>> /\ LastBefore(d.marks, line, d.at)
<1> DEFINE d == MarkFind(e, line)
<1>0. e \in Edit /\ Marked(e)
  BY TrueFields
<1>1. MarksOnly(e, d) /\ d.marks # <<>> /\ LastBefore(d.marks, line, d.at)
  BY <1>0, MarkFindIs
<1> HIDE DEF d
<1>2. Kept(e, d)
  BY <1>1, MarksKeep
<1> QED BY <1>1, <1>2, TrueFields DEF Kept, d

LEMMA ToggleSteps ==
  ASSUME IInv, ToggleBookmark
  PROVE  True(edit)' /\ TextStep
<1> DEFINE line == edit.curs_line
<1> DEFINE e == MarkClear(edit, line, "found")
<1> DEFINE m == MarkFind(e, line)
<1> DEFINE book == "book"
<1> DEFINE x == MarkClear(m, line, book)
<1> DEFINE y == MarkInsert(e, line, book)
<1>1. True(edit) /\ edit \in Edit /\ Marked(edit) /\ line \in Nat
  BY TrueFields DEF IInv
<1>2. edit' = x \/ edit' = y
  BY DEF ToggleBookmark, Look
<1>0. book \in Colors
  BY DEF Colors
<1> HIDE DEF line, book
<1>3. Kept(edit, e) /\ True(e)
  BY <1>1, MarkClearIs, MarksKeep DEF Kept
<1> HIDE DEF e
<1>4. e \in Edit /\ Marked(e)
  BY <1>3, TrueFields
<1>5. Kept(e, m) /\ True(m) /\ m \in Edit /\ Marked(m)
  BY <1>1, <1>3, MarkFoundKeeps
<1> HIDE DEF m
<1>6. Kept(m, x) /\ Kept(e, y)
  BY <1>0, <1>1, <1>3, <1>4, <1>5, MarkClearIs, MarkInsertIs, MarksKeep
<1> HIDE DEF x, y
<1>7. Kept(edit, x) /\ Kept(edit, y)
  BY <1>3, <1>5, <1>6, KeptTwice
<1>8. CASE edit' = x
  BY <1>1, <1>7, <1>8, KeptStep
<1>9. CASE edit' = y
  BY <1>1, <1>7, <1>9, KeptStep
<1> QED BY <1>2, <1>8, <1>9

LEMMA FindAllSteps ==
  ASSUME IInv, FindAll
  PROVE  True(edit)' /\ TextStep
<1> DEFINE bare == [edit EXCEPT !.marks = <<>>, !.at = 0]
<1>1. True(edit) /\ edit \in Edit
  BY TrueFields DEF IInv
<1>2. PICK lines \in SUBSET (0 .. edit.total_lines) : Look(MarkAll(bare, lines))
  BY DEF FindAll
<1>3. Remarked(edit, bare, <<>>, 0)
  BY DEF Remarked
<1> HIDE DEF bare
<1>4. MarksOnly(edit, bare)
  BY <1>1, <1>3, NoMarks
<1>5. Kept(edit, bare) /\ True(bare)
  BY <1>1, <1>4, MarksKeep DEF Kept
<1>6. bare \in Edit /\ Marked(bare) /\ bare.total_lines \in Nat
  BY <1>5, TrueFields
<1> DEFINE d == MarkAll(bare, lines)
<1>7. MarksOnly(bare, d)
  BY <1>6, MarkAllIs
<1>8. edit' = d
  BY <1>2 DEF Look
<1> HIDE DEF d
<1>9. Kept(edit, d)
  BY <1>5, <1>7, MarksKeep, KeptTwice
<1> QED BY <1>1, <1>8, <1>9, KeptStep

LEMMA FlushSteps ==
  ASSUME IInv, FlushBookmarks
  PROVE  True(edit)' /\ TextStep
<1> DEFINE book == "book"
<1> DEFINE found == "found"
<1> DEFINE e == MarkFlush(edit, book)
<1> DEFINE d == MarkFlush(e, found)
<1>1. True(edit) /\ edit \in Edit /\ Marked(edit)
  BY TrueFields DEF IInv
<1>2. edit' = d
  BY DEF FlushBookmarks, Look
<1>3. book \in Colors /\ found \in Colors
  BY DEF Colors
<1> HIDE DEF book, found
<1>4. Kept(edit, e) /\ True(e)
  BY <1>1, <1>3, MarkFlushIs, MarksKeep DEF Kept
<1> HIDE DEF e
<1>5. e \in Edit /\ Marked(e)
  BY <1>4, TrueFields
<1>6. Kept(e, d)
  BY <1>3, <1>4, <1>5, MarkFlushIs, MarksKeep
<1> HIDE DEF d
<1>7. Kept(edit, d)
  BY <1>4, <1>6, KeptTwice
<1> QED BY <1>1, <1>2, <1>7, KeptStep

LEMMA NextBookmarkSteps ==
  ASSUME IInv, NextBookmark
  PROVE  True(edit)' /\ TextStep
<1> DEFINE line == edit.curs_line
<1> DEFINE m == MarkFind(edit, line)
<1> DEFINE p == m.at + 1
<1>1. True(edit) /\ line \in Nat
  BY TrueFields DEF IInv
<1>2. edit' = IF m.at = Len(m.marks) THEN m ELSE ToMark(m, p)
  BY DEF NextBookmark, Look
<1> HIDE DEF line
<1>3. /\ Kept(edit, m) /\ True(m) /\ m \in Edit /\ Marked(m)
      /\ m.marks # <<>> /\ LastBefore(m.marks, line, m.at)
  BY <1>1, MarkFoundKeeps
<1> HIDE DEF m
<1>4. CASE m.at = Len(m.marks)
  BY <1>1, <1>2, <1>3, <1>4, KeptStep
<1>5. CASE m.at # Len(m.marks)
  <2>1. /\ Len(m.marks) \in Nat /\ 1 \in 1 .. Len(m.marks)
        /\ \A q \in 1 .. Len(m.marks) : m.marks[q].line \in Int
        /\ \A q, r \in 1 .. Len(m.marks) : q < r => m.marks[q].line <= m.marks[r].line
        /\ \A q \in 1 .. Len(m.marks) : (m.marks[q].line = -1) <=> (q = 1)
    BY <1>3, SortedParts
  <2>2. p \in 1 .. Len(m.marks) /\ p # 1 /\ 1 < p
    BY <1>3, <1>5, <2>1 DEF LastBefore
  <2> HIDE DEF p
  <2>3. m.marks[p].line # -1 /\ m.marks[1].line = -1 /\ m.marks[1].line <= m.marks[p].line
        /\ m.marks[p].line \in Int
    BY <2>1, <2>2
  <2>4. m.marks[p].line \in Nat
    BY <2>3
  <2>5. Kept(m, ToMark(m, p))
    BY <1>3, <2>4, ToMarkKeeps
  <2>6. Kept(edit, ToMark(m, p))
    BY <1>3, <2>5, KeptTwice
  <2>7. edit' = ToMark(m, p)
    BY <1>2, <1>5
  <2> QED BY <1>1, <2>6, <2>7, KeptStep
<1> QED BY <1>4, <1>5

LEMMA PrevBookmarkSteps ==
  ASSUME IInv, PrevBookmark
  PROVE  True(edit)' /\ TextStep
<1> DEFINE line == edit.curs_line
<1> DEFINE m == MarkFind(edit, line)
<1> DEFINE p == Greatest({q \in 1 .. m.at : m.marks[q].line # edit.curs_line})
<1>1. True(edit) /\ line \in Nat
  BY TrueFields DEF IInv
<1>2. edit' = IF m.marks[p].line < 0 THEN m ELSE ToMark(m, p)
  BY DEF PrevBookmark, Look
<1> DEFINE S == {q \in 1 .. m.at : m.marks[q].line # line}
<1>3. p = Greatest(S)
  OBVIOUS
<1> HIDE DEF line, p, S
<1>4. /\ Kept(edit, m) /\ True(m) /\ m \in Edit /\ Marked(m)
      /\ m.marks # <<>> /\ LastBefore(m.marks, line, m.at)
  BY <1>1, MarkFoundKeeps
<1> HIDE DEF m
<1>5. /\ Len(m.marks) \in Nat /\ 1 \in 1 .. Len(m.marks)
      /\ \A q \in 1 .. Len(m.marks) : m.marks[q].line \in Int
      /\ \A q \in 1 .. Len(m.marks) : (m.marks[q].line = -1) <=> (q = 1)
      /\ m.at \in 1 .. Len(m.marks)
  BY <1>4, SortedParts DEF LastBefore
<1>6. p \in 1 .. Len(m.marks)
  <2> DEFINE one == 1
  <2> DEFINE high == m.at
  <2>1. S \in SUBSET Int /\ (\A q \in S : q <= high) /\ high \in Int
    BY <1>5 DEF S
  <2>2. one \in S
    <3>1. m.marks[one].line = -1 /\ line # -1
      BY <1>1, <1>5
    <3>2. one \in 1 .. m.at
      BY <1>5
    <3> QED BY <3>1, <3>2 DEF S
  <2> HIDE DEF high
  <2>3. Greatest(S) \in S
    BY <2>1, <2>2, GreatestIs
  <2> QED BY <1>3, <1>5, <2>3 DEF S
<1>7. CASE m.marks[p].line < 0
  BY <1>1, <1>2, <1>4, <1>7, KeptStep
<1>8. CASE ~(m.marks[p].line < 0)
  <2>1. m.marks[p].line \in Nat
    BY <1>5, <1>6, <1>8
  <2>2. Kept(m, ToMark(m, p))
    BY <1>4, <2>1, ToMarkKeeps
  <2>3. Kept(edit, ToMark(m, p))
    BY <1>4, <2>2, KeptTwice
  <2>4. edit' = ToMark(m, p)
    BY <1>2, <1>8
  <2> QED BY <1>1, <2>3, <2>4, KeptStep
<1> QED BY <1>7, <1>8

\* So does the drawing.
LEMMA UpdateSteps ==
  ASSUME IInv, Update
  PROVE  True(edit)' /\ TextStep
<1> DEFINE e == ScrollOver(edit)
<1> DEFINE line == Bol(e, e.curs1)
<1> DEFINE row == e.curs_line - e.start_line
<1> DEFINE above == MoveBackward(e, line, 1)
<1>1. True(edit)
  BY DEF IInv
<1>2. PICK n \in 0 .. Height,
           from \in {<<e.start_display, 0>>, <<line, row>>}
                    \cup (IF row > 0 THEN {<<above, row - 1>>} ELSE {}) :
        edit' = Draw(e, from[1], from[2], n)
  BY Zenon DEF Update
<1>3. Kept(edit, e) /\ True(e)
  BY <1>1, ScrollOverIs, ScrolledKeep DEF Kept
<1> HIDE DEF e
<1>4. /\ e \in Edit /\ e.curs1 \in Nat /\ e.curs2 \in Nat /\ e.last_byte = e.curs1 + e.curs2
      /\ e.last_byte \in Nat /\ e.start_display \in 0 .. e.last_byte
      /\ e.curs_line \in Nat /\ e.start_line \in Nat
      /\ e.curs_line = CountLines(e, 0, e.curs1)
  BY <1>3, TrueFields DEF True, Counted
<1>5. e.curs1 \in 0 .. e.last_byte
  BY <1>4
<1>6. LineStart(e, line) /\ CountLines(e, 0, line) = e.curs_line
  BY <1>4, <1>5, BolCount
<1>7. line \in 0 .. e.last_byte
  BY <1>6 DEF LineStart
<1> HIDE DEF line
<1> DEFINE b == from[1]
<1> DEFINE r == from[2]
<1>8. b \in 0 .. e.last_byte /\ r \in Int /\ e.start_line + r \in Nat
  <2>1. CASE from = <<e.start_display, 0>>
    BY <1>4, <2>1
  <2>2. CASE from = <<line, row>>
    BY <1>4, <1>7, <2>2
  <2>3. CASE row > 0 /\ from = <<above, row - 1>>
    <3> DEFINE one == 1
    <3>1. one \in Nat /\ one <= CountLines(e, 0, line)
      BY <1>4, <1>6, <2>3
    <3> HIDE DEF one
    <3>2. LineStart(e, MoveBackward(e, line, one))
      BY <1>4, <1>7, <3>1, MoveBackwardIs
    <3>3. above \in 0 .. e.last_byte
      BY <3>2 DEF LineStart, one
    <3> HIDE DEF above
    <3>4. b = above /\ r = row - 1
      BY <2>3
    <3> QED BY <1>4, <2>3, <3>3, <3>4
  <2> QED BY <1>2, <2>1, <2>2, <2>3
<1>9. n \in Nat
  BY TextAssumption
<1> DEFINE d == Draw(e, b, r, n)
<1>10. edit' = d
  BY <1>2
<1> HIDE DEF b, r
<1>11. Kept(e, d)
  BY <1>3, <1>8, <1>9, DrawKeeps
<1> HIDE DEF d
<1>12. Kept(edit, d)
  BY <1>3, <1>11, KeptTwice
<1> QED BY <1>1, <1>10, <1>12, KeptStep

\* Every step keeps the invariant and is a step of Text, or none.
LEMMA Inductive ==
  IInv /\ [Next]_vars => IInv' /\ TextStep
<1> SUFFICES ASSUME IInv, [Next]_vars PROVE IInv' /\ TextStep
  OBVIOUS
<1>0. True(edit) /\ opt \in Settings /\ undrawn \in 0 .. Nowhere
  BY DEF IInv
<1>1. CASE UNCHANGED vars
  <2>1. edit' = edit /\ opt' = opt /\ undrawn' = undrawn
    BY <1>1 DEF vars
  <2>2. True(edit)' /\ TextStep
    BY <1>0, <2>1, KeptItself, KeptStep
  <2> QED BY <1>0, <2>1, <2>2 DEF IInv
<1>2. CASE InsertByte \/ InsertByteAhead \/ DeleteByte \/ BackspaceByte
  <2>1. True(edit)' /\ TextStep
    BY <1>2, ChangeSteps
  <2>2. opt' = opt /\ \E at \in {edit.curs1, edit.curs1 - 1} :
                        at \in Nat /\ undrawn' = IF at < undrawn THEN at ELSE undrawn
    <3>1. edit.curs1 \in Nat
      BY <1>0, TrueFields
    <3> QED BY <1>2, <3>1 DEF InsertByte, InsertByteAhead, DeleteByte, BackspaceByte, Change, Step
  <2>3. undrawn' \in 0 .. Nowhere
    <3>1. Nowhere \in Nat
      BY Sizes DEF Nowhere
    <3> QED BY <1>0, <2>2, <3>1
  <2> QED BY <1>0, <2>1, <2>2, <2>3 DEF IInv
<1>3. CASE \/ MoveCursor \/ MoveToBottom \/ ScrollTo \/ LookUp
           \/ ToggleBookmark \/ FindAll \/ FlushBookmarks \/ NextBookmark \/ PrevBookmark
  <2>1. True(edit)' /\ TextStep
    BY <1>3, CursorSteps, ToggleSteps, FindAllSteps, FlushSteps, NextBookmarkSteps, PrevBookmarkSteps
  <2>2. opt' = opt /\ undrawn' = undrawn
    BY <1>3 DEF MoveCursor, MoveToBottom, ScrollTo, LookUp, ToggleBookmark, FindAll,
                FlushBookmarks, NextBookmark, PrevBookmark, Look, Step
  <2> QED BY <1>0, <2>1, <2>2 DEF IInv
<1>4. CASE Update
  <2>1. True(edit)' /\ TextStep
    BY <1>4, UpdateSteps
  <2>2. opt' = opt /\ undrawn' \in {Nowhere, undrawn}
    BY <1>4 DEF Update, Step
  <2>3. Nowhere \in 0 .. Nowhere
    BY Sizes DEF Nowhere
  <2> QED BY <1>0, <2>1, <2>2, <2>3 DEF IInv
<1> QED BY <1>1, <1>2, <1>3, <1>4 DEF Next

\* A text loaded begins both.
LEMMA Begins ==
  Init => IInv /\ Buffer!Init
<1> SUFFICES ASSUME Init PROVE IInv /\ Buffer!Init
  OBVIOUS
<1>1. PICK t \in Texts : edit = Loaded(t)
  BY DEF Init
<1>2. /\ True(edit) /\ edit.curs1 = 0 /\ Size(edit) = Len(t)
      /\ \A i \in 1 .. Len(t) : GetByte(edit, i - 1) = t[i]
      /\ t \in Seq(Bytes)
  BY <1>1, LoadedIs
<1>3. TextOf(edit) = t
  <2>1. /\ TextOf(edit) \in Seq(Bytes) /\ Len(TextOf(edit)) = Size(edit)
        /\ \A i \in 1 .. Size(edit) : TextOf(edit)[i] = GetByte(edit, i - 1)
    BY <1>2, TrueFields, TextTyped
  <2> DEFINE s == TextOf(edit)
  <2> HIDE DEF s
  <2>2. s \in Seq(Bytes) /\ Len(s) = Len(t) /\ \A i \in 1 .. Len(s) : s[i] = t[i]
    BY <1>2, <2>1 DEF s
  <2>3. s = t
    BY <1>2, <2>2, SeqEqual
  <2> QED BY <2>3 DEF s
<1>4. Buffer!Init
  BY <1>2, <1>3 DEF Buffer!Init, TextOf
<1>5. opt \in Settings /\ undrawn \in 0 .. Nowhere
  BY Sizes DEF Init, Nowhere
<1> QED BY <1>2, <1>4, <1>5 DEF IInv

\* Between two routines the editor tells the truth of its text: the blocks and
\* the counts of bytes agree, and so do the lines counted, the lines remembered
\* and the bookmarks, with any settings.
THEOREM Invariant == Spec => []IInv
<1>1. Init => IInv
  BY Begins
<1>2. IInv /\ [Next]_vars => IInv'
  BY Inductive
<1> QED BY <1>1, <1>2, PTL DEF Spec

\* The variables keep their types: a block is there exactly when a byte on its
\* side of the cursor may need it, and last_byte is the number of bytes, never
\* above SIZE_LIMIT, after any routine of edit.c.
THEOREM TypeCorrect == Spec => []TypeOK
<1>1. IInv => TypeOK
  <2> SUFFICES ASSUME IInv PROVE TypeOK
    OBVIOUS
  <2>1. /\ edit \in Edit /\ Blocks(edit) /\ edit.last_byte = Size(edit)
        /\ edit.last_byte <= SIZE_LIMIT
    BY TrueFields DEF IInv
  <2>2. \A b \in 0 .. MAXBUFF :
          /\ (edit.buffers1[b] # NULL) = (b * EDIT_BUF_SIZE < edit.curs1)
          /\ (edit.buffers2[b] # NULL) = (b * EDIT_BUF_SIZE <= edit.curs2)
    <3> SUFFICES ASSUME NEW b \in 0 .. MAXBUFF
                 PROVE  /\ (edit.buffers1[b] # NULL) = (b * EDIT_BUF_SIZE < edit.curs1)
                        /\ (edit.buffers2[b] # NULL) = (b * EDIT_BUF_SIZE <= edit.curs2)
      OBVIOUS
    <3>1. /\ (edit.buffers1[b] # NULL) <=> (b * EDIT_BUF_SIZE < edit.curs1)
          /\ (edit.buffers2[b] # NULL) <=> (b * EDIT_BUF_SIZE <= edit.curs2)
      BY <2>1 DEF Blocks
    <3> QED BY <3>1
  <2> QED BY <2>1, <2>2 DEF IInv, TypeOK
<1> QED BY <1>1, Invariant, PTL

\* curs_line, total_lines, start_line and every line of the cache of
\* edit_find_line are the numbers that counting newlines from the first byte
\* gives, though each routine of edit.c only adds or takes away what it changed.
THEOREM LinesAreTrue == Spec => []LinesTrue
<1>1. IInv => LinesTrue
  <2> SUFFICES ASSUME IInv PROVE LinesTrue
    OBVIOUS
  <2>1. edit \in Edit /\ Counted(edit) /\ Cached(edit)
    BY TrueFields DEF IInv, True
  <2>2. edit.valid => \A x \in DOMAIN edit.numbers :
          /\ edit.offsets[x] = Bol(edit, edit.offsets[x])
          /\ edit.numbers[x] = CountLines(edit, 0, edit.offsets[x])
    <3> SUFFICES ASSUME edit.valid, NEW x \in DOMAIN edit.numbers
                 PROVE  /\ edit.offsets[x] = Bol(edit, edit.offsets[x])
                        /\ edit.numbers[x] = CountLines(edit, 0, edit.offsets[x])
      OBVIOUS
    <3>1. x \in 0 .. N_LINE_CACHES - 1
      <4>1. edit.numbers \in [0 .. N_LINE_CACHES - 1 -> Int]
        BY <2>1, EditFields
      <4> QED BY <4>1
    <3>2. Known(edit, x)
      BY <2>1, <3>1 DEF Cached
    <3>3. LineStart(edit, edit.offsets[x]) /\ edit.numbers[x] = CountLines(edit, 0, edit.offsets[x])
      BY <3>2 DEF Known
    <3>4. Bol(edit, edit.offsets[x]) = edit.offsets[x]
      BY <2>1, <3>3, BolOfStart
    <3> QED BY <3>3, <3>4
  <2> QED BY <2>1, <2>2 DEF Counted, LinesTrue
<1> QED BY <1>1, Invariant, PTL

\* The list of bookmark.c stays in the order of its lines behind its one dummy,
\* its place is one of them, and book_mark_query finds every mark from wherever
\* the search before it ended.
THEOREM MarksAreFound == Spec => []MarksFound
<1>1. IInv => MarksFound
  <2> SUFFICES ASSUME IInv, edit.marks # <<>>
               PROVE  /\ edit.at \in DOMAIN edit.marks
                      /\ \A p, q \in DOMAIN edit.marks : p < q => edit.marks[p].line <= edit.marks[q].line
                      /\ \A p \in DOMAIN edit.marks : (edit.marks[p].line = -1) = (p = 1)
                      /\ \A p \in DOMAIN edit.marks \ {1} :
                           MarkQuery(edit, edit.marks[p].line, edit.marks[p].c)
    BY DEF MarksFound
  <2>1. edit \in Edit /\ Marked(edit)
    BY TrueFields DEF IInv
  <2>2. /\ edit.marks \in Seq(Mark) /\ Len(edit.marks) \in Nat
        /\ edit.at \in 1 .. Len(edit.marks)
        /\ \A p, q \in 1 .. Len(edit.marks) : p < q => edit.marks[p].line <= edit.marks[q].line
        /\ \A p \in 1 .. Len(edit.marks) : (edit.marks[p].line = -1) <=> (p = 1)
    BY <2>1, SortedParts
  <2>3. DOMAIN edit.marks = 1 .. Len(edit.marks)
    BY <2>2
  <2>4. \A p \in 1 .. Len(edit.marks) : (edit.marks[p].line = -1) = (p = 1)
    BY <2>2
  <2>5. ASSUME NEW p \in DOMAIN edit.marks \ {1}
        PROVE  MarkQuery(edit, edit.marks[p].line, edit.marks[p].c)
    <3>1. p \in 2 .. Len(edit.marks)
      BY <2>2, <2>3, <2>5
    <3> QED BY <2>1, <3>1, QueryFinds
  <2> QED BY <2>2, <2>3, <2>4, <2>5
<1> QED BY <1>1, Invariant, PTL

\* The blocks on the two sides of the cursor implement a text with a cursor in
\* it: edit_insert, edit_insert_ahead, edit_delete, edit_backspace and
\* edit_cursor_move each make one step of Text, every other routine none.
THEOREM TextImplemented == Spec => ImplementsText
<1>1. Init => Buffer!Init
  BY Begins
<1>2. IInv /\ [Next]_vars => [Buffer!Next]_(Buffer!vars)
  BY Inductive DEF TextStep
<1> QED BY <1>1, <1>2, Invariant, PTL DEF Spec, ImplementsText, Buffer!Spec

(***************************************************************************)
(* The ring of changes to undo                                             *)
(***************************************************************************)
USE RingAssumption DEF Cells

\* Both neighbours of a cell are cells of the ring.
LEMMA Neighbours ==
  ASSUME NEW r, r \in Ring, r.size > 3, NEW i \in Nat, i < r.size
  PROVE  /\ Succ(r, i) \in Nat /\ Succ(r, i) < r.size
         /\ Pred(r, i) \in Nat /\ Pred(r, i) < r.size
         /\ Pred(r, Succ(r, i)) = i /\ Succ(r, Pred(r, i)) = i
         /\ Succ(r, i) # i /\ Pred(r, i) # i /\ Pred(r, Pred(r, i)) # i
<1>1. r.size \in Nat
  BY DEF Ring
<1> QED  BY <1>1 DEF Succ, Pred

\* The parts of a well-formed ring.
LEMMA Parts ==
  ASSUME NEW r, WellFormed(r)
  PROVE  /\ r \in Ring /\ r.cells \in [Cells -> Int]
         /\ r.size \in Nat /\ r.size > 3 /\ r.size - 1 <= LastCell
         /\ r.ptr \in Nat /\ r.ptr < r.size
         /\ r.bottom \in Nat /\ r.bottom < r.size
<1>1. r \in Ring /\ r.size > 3 /\ r.size - 1 <= LastCell /\ r.ptr < r.size /\ r.bottom < r.size
  BY DEF WellFormed
<1>2. r.cells \in [Cells -> Int] /\ r.size \in Nat /\ r.ptr \in Nat /\ r.bottom \in Nat
  BY <1>1 DEF Ring
<1> QED  BY <1>1, <1>2

\* A number below the size is a cell.
LEMMA IsCell ==
  ASSUME NEW r, WellFormed(r), NEW i \in Nat, i < r.size
  PROVE  i \in Cells
<1>1. r.size \in Nat /\ r.size - 1 <= LastCell
  BY Parts
<1> QED  BY <1>1

\* The loop that moves bottom forward stops, inside the ring, at a key press or
\* at ptr.
LEMMA NextPressStops ==
  ASSUME NEW r, r \in Ring, r.ptr < r.size, r.bottom < r.size,
         r.size - 1 <= LastCell
  PROVE  /\ NextPress(r) \in Nat /\ NextPress(r) < r.size
         /\ r.cells[NextPress(r)] >= KEY_PRESS \/ NextPress(r) = r.ptr
<1> DEFINE stops == {i \in 0 .. r.size - 1 : r.cells[i] >= KEY_PRESS \/ i = r.ptr}
           ways == {Above(r, i) : i \in stops}
<1>1. r.ptr \in stops
  BY DEF Ring
<1>2. ways \subseteq Nat
  BY DEF Ring, Above
<1>3. Above(r, r.ptr) \in ways
  BY <1>1
<1>5. PICK w \in ways : \A v \in ways : w <= v
  <2> HIDE DEF ways
  <2> QED  BY <1>2, <1>3, LeastNat
<1>6. PICK i \in stops : w = Above(r, i)
  BY <1>5
<1>7. \E k \in stops : \A j \in stops : Above(r, k) <= Above(r, j)
  BY <1>5, <1>6
<1>8. NextPress(r) \in stops
  <2> HIDE DEF stops
  <2>1. NextPress(r) = CHOOSE k \in stops : \A j \in stops : Above(r, k) <= Above(r, j)
    BY DEF NextPress, stops
  <2> QED  BY <1>7, <2>1
<1> QED  BY <1>8 DEF Ring

\* Growing keeps a ring well formed, and its cells and ends.
LEMMA GrowKeeps ==
  ASSUME NEW r, WellFormed(r), NEW max \in Nat
  PROVE  /\ WellFormed(Grow(r, max))
         /\ Grow(r, max).ptr = r.ptr /\ Grow(r, max).bottom = r.bottom
         /\ Grow(r, max).cells = r.cells
<1> DEFINE g == [r EXCEPT !.size = 2 * r.size]
<1>1. r \in Ring /\ r.size \in Nat /\ r.size > 3 /\ r.ptr \in Nat /\ r.bottom \in Nat
  BY Parts
<1>2. /\ g \in Ring /\ g.ptr = r.ptr /\ g.bottom = r.bottom
      /\ g.cells = r.cells /\ g.size = 2 * r.size
  BY <1>1, SMTT(30) DEF Ring
<1>3. g.size - 1 <= LastCell => WellFormed(g)
  <2> HIDE DEF g
  <2> QED  BY <1>1, <1>2 DEF WellFormed, IsEmpty
<1>4. Grow(r, max) = r \/ (Grow(r, max) = g /\ g.size - 1 <= LastCell)
  BY <1>2 DEF Grow
<1> HIDE DEF g
<1> QED  BY <1>2, <1>3, <1>4

\* A ring with one cell changed keeps the other cells and its ends.
LEMMA CellChange ==
  ASSUME NEW r, r \in Ring, NEW i \in Cells, NEW x \in Int,
         NEW s, s = [r EXCEPT !.cells[i] = x]
  PROVE  /\ s \in Ring /\ s.ptr = r.ptr /\ s.bottom = r.bottom /\ s.size = r.size
         /\ s.cells[i] = x /\ \A j \in Cells \ {i} : s.cells[j] = r.cells[j]
<1> DEFINE cs == [r.cells EXCEPT ![i] = x]
<1>1. /\ cs \in [Cells -> Int] /\ cs[i] = x
      /\ \A j \in Cells \ {i} : cs[j] = r.cells[j]
  BY DEF Ring
<1>2. s = [r EXCEPT !.cells = cs]
  OBVIOUS
<1> HIDE DEF cs
<1> QED  BY <1>1, <1>2 DEF Ring

\* Whatever is stored, a ring that is trimmed and looked at again is well formed.
LEMMA StoreKeeps ==
  ASSUME NEW r, WellFormed(r), NEW x \in Int
  PROVE  WellFormed(Reinit(Trim(Store(r, x))))
<1> DEFINE c == [r EXCEPT !.cells[r.ptr] = x]
           s == Store(r, x)
           t == Trim(s)
           e == Emptied(t)
<1>1. c \in Ring /\ c.ptr = r.ptr /\ c.bottom = r.bottom /\ c.size = r.size
  <2>1. r \in Ring /\ r.ptr \in Cells
    BY Parts, IsCell
  <2> QED  BY <2>1, CellChange
<1>2. s = [c EXCEPT !.ptr = Succ(r, r.ptr)]
  BY DEF Store
<1>3. Succ(r, r.ptr) \in Nat /\ Succ(r, r.ptr) < r.size
  BY Parts, Neighbours
<1>4. /\ s \in Ring /\ s.size = r.size /\ s.bottom = r.bottom
      /\ s.ptr < s.size
  <2> HIDE DEF c, s
  <2> QED  BY <1>1, <1>2, <1>3 DEF Ring
<1>5. t \in Ring /\ t.size = r.size /\ t.ptr < t.size /\ t.bottom < t.size
  <2>1. NextPress(s) \in Nat /\ NextPress(s) < s.size
    <3>1. s.size - 1 <= LastCell /\ s.bottom < s.size
      BY <1>4, Parts
    <3> HIDE DEF s
    <3> QED  BY <1>4, <3>1, NextPressStops
  <2> HIDE DEF s
  <2>2. s.bottom < s.size
    BY <1>4, Parts
  <2> QED  BY <1>4, <2>1, <2>2 DEF Trim, Ring
<1> HIDE DEF t
<1>6. t.size \in Nat /\ t.size > 3 /\ t.size - 1 <= LastCell
  BY <1>5, Parts
<1>7. e \in Ring /\ e.ptr = 0 /\ e.bottom = 0 /\ e.size = t.size
  BY <1>5 DEF Emptied, Ring
<1>8. WellFormed(e)
  <2> HIDE DEF e
  <2> QED  BY <1>6, <1>7 DEF WellFormed, IsEmpty
<1>9. ~(~IsEmpty(t) /\ t.cells[t.bottom] < KEY_PRESS) => WellFormed(t)
  <2>1. t.bottom \in Cells
    BY <1>5, <1>6 DEF Ring
  <2>2. t.cells[t.bottom] \in Int
    BY <1>5, <2>1 DEF Ring
  <2> QED  BY <1>5, <1>6, <2>2 DEF WellFormed, KEY_PRESS
<1> QED  BY <1>8, <1>9 DEF Reinit, t, e

\* A new ring is well formed.
THEOREM EmptyWellFormed == WellFormed(EmptyRing)
  BY DEF WellFormed, Ring, EmptyRing, IsEmpty

\* edit_push_undo_action and edit_push_redo_action: whatever action is pushed
\* on a well-formed ring, counted, stored or erased for space, the oldest
\* action kept is the start of a key press.
THEOREM PushWellFormed ==
  ASSUME NEW ring, WellFormed(ring), NEW c \in Nat, NEW max \in Nat
  PROVE  WellFormed(Push(ring, c, max))
<1> DEFINE r == Grow(ring, max)
<1>1. WellFormed(r)
  BY GrowKeeps
<1> HIDE DEF r
<1>2. CASE IsRepeat(r, c) /\ c < KEY_PRESS /\ r.cells[Top(r)] < 0
  <2>1. Top(r) \in Nat /\ Top(r) < r.size /\ Top(r) # r.bottom
    BY <1>1, <1>2, Parts, Neighbours DEF IsRepeat, MayCompress, Top
  <2>2. r \in Ring /\ Top(r) \in Cells /\ r.bottom \in Cells
    BY <1>1, <2>1, Parts, IsCell
  <2>3. /\ Count(r) \in Ring /\ Count(r).ptr = r.ptr
        /\ Count(r).bottom = r.bottom /\ Count(r).size = r.size
        /\ Count(r).cells[r.bottom] = r.cells[r.bottom]
    <3>1. r.cells[Top(r)] - 1 \in Int
      BY <2>2 DEF Ring
    <3> QED  BY <2>1, <2>2, <3>1, CellChange DEF Count
  <2>4. WellFormed(Count(r))
    BY <1>1, <2>3 DEF WellFormed, IsEmpty
  <2> QED  BY <1>2, <2>4 DEF Push, r, KEY_PRESS
<1>3. CASE ~(IsRepeat(r, c) /\ c < KEY_PRESS /\ r.cells[Top(r)] < 0)
  <2>1. Push(ring, c, max) \in
          {r, Reinit(Trim(Store(r, -2))), Reinit(Trim(Store(r, c)))}
    BY <1>3 DEF Push, r, KEY_PRESS
  <2> QED  BY <1>1, <2>1, StoreKeeps
<1> QED  BY <1>2, <1>3

\* edit_pop_undo_action and edit_pop_redo_action keep a ring well formed.
THEOREM PopWellFormed ==
  ASSUME NEW r, WellFormed(r)
  PROVE  WellFormed(Pop(r))
<1> DEFINE down == [r EXCEPT !.ptr = Top(r)]
           less == [r EXCEPT !.cells[Top(r)] = @ + 1]
<1>1. Top(r) \in Nat /\ Top(r) < r.size /\ Top(r) \in Cells /\ r.bottom \in Cells
  BY Parts, Neighbours, IsCell DEF Top
<1>2. ASSUME ~IsEmpty(r)
      PROVE  WellFormed(down)
  <2>1. /\ down \in Ring /\ down.ptr = Top(r) /\ down.cells = r.cells
        /\ down.bottom = r.bottom /\ down.size = r.size
    BY <1>1, Parts, SMTT(30) DEF Ring
  <2>2. ~IsEmpty(r) => r.cells[r.bottom] >= KEY_PRESS
    BY DEF WellFormed
  <2> HIDE DEF down
  <2> QED  BY <1>1, <1>2, <2>1, <2>2, Parts DEF WellFormed, IsEmpty
<1>3. ASSUME Top(r) # r.bottom
      PROVE  WellFormed(less)
  <2>1. r \in Ring /\ r.cells[Top(r)] + 1 \in Int
    BY <1>1, Parts
  <2>2. /\ less \in Ring /\ less.ptr = r.ptr
        /\ less.bottom = r.bottom /\ less.size = r.size
        /\ less.cells[r.bottom] = r.cells[r.bottom]
    BY <1>1, <1>3, <2>1, CellChange
  <2> HIDE DEF less
  <2> QED  BY <2>2 DEF WellFormed, IsEmpty
<1>4. \/ Pop(r) = r
      \/ ~IsEmpty(r) /\ Pop(r) = down
      \/ Top(r) # r.bottom /\ Pop(r) = less
  <2>1. r.cells[Top(r)] \in Int
    BY <1>1, Parts
  <2> QED  BY <2>1 DEF Pop, Readable
<1> HIDE DEF down, less
<1> QED  BY <1>2, <1>3, <1>4

\* What storing leaves, unless it empties the ring: the stored value on top and
\* the cells below as they were.
LEMMA StoreShape ==
  ASSUME NEW r, WellFormed(r), NEW x \in Int,
         NEW f, f = Reinit(Trim(Store(r, x))), ~IsEmpty(f)
  PROVE  /\ f.ptr = Succ(r, r.ptr) /\ f.size = r.size
         /\ Top(f) = r.ptr /\ Under(f) = Top(r)
         /\ f.cells[r.ptr] = x /\ f.cells[Top(r)] = r.cells[Top(r)]
         /\ f.cells[f.bottom] >= KEY_PRESS
<1> DEFINE c == [r EXCEPT !.cells[r.ptr] = x]
           s == Store(r, x)
           t == Trim(s)
<1>0. r.ptr \in Cells /\ Top(r) \in Cells \ {r.ptr}
  BY Parts, Neighbours, IsCell DEF Top
<1>1. /\ c \in Ring /\ c.size = r.size
      /\ c.cells[r.ptr] = x /\ c.cells[Top(r)] = r.cells[Top(r)]
  BY <1>0, Parts, CellChange
<1>2. s = [c EXCEPT !.ptr = Succ(r, r.ptr)]
  BY DEF Store
<1>3. /\ s.ptr = Succ(r, r.ptr) /\ s.cells = c.cells /\ s.size = c.size
  <2> HIDE DEF c, s
  <2> QED  BY <1>1, <1>2 DEF Ring
<1>4. t.ptr = s.ptr /\ t.cells = s.cells /\ t.size = s.size
  <2>1. s \in Ring
    <3>1. Succ(r, r.ptr) \in Nat
      BY Parts, Neighbours
    <3> HIDE DEF c, s
    <3> QED  BY <1>1, <1>2, <3>1 DEF Ring
  <2> HIDE DEF s
  <2> QED  BY <2>1 DEF Trim, Ring
<1>5. f = t
  <2>1. IsEmpty(Emptied(t))
    <3>1. t \in Ring
      <4>1. WellFormed(f) /\ f = Reinit(t)
        BY StoreKeeps
      <4>2. f = t \/ f = Emptied(t)
        BY <4>1 DEF Reinit
      <4>3. CASE f = t
        BY <4>1, <4>3, Parts
      <4>4. CASE f = Emptied(t)
        <5> HIDE DEF t
        <5>1. f.ptr = 0 /\ f.bottom = 0
          BY <4>4 DEF Emptied
        <5> QED  BY <5>1 DEF IsEmpty
      <4> QED  BY <4>2, <4>3, <4>4
    <3> HIDE DEF t
    <3> QED  BY <3>1 DEF Emptied, IsEmpty, Ring
  <2> HIDE DEF t
  <2>2. f = Reinit(t)
    BY DEF t
  <2> QED  BY <2>1, <2>2 DEF Reinit
<1>6. f.ptr = Succ(r, r.ptr) /\ f.size = r.size /\ f.cells = c.cells
  BY <1>1, <1>3, <1>4, <1>5
<1>7. Top(f) = r.ptr /\ Under(f) = Top(r)
  <2>1. Pred(f, f.ptr) = Pred(r, Succ(r, r.ptr)) /\ Pred(f, r.ptr) = Pred(r, r.ptr)
    <3> HIDE DEF c
    <3> QED  BY <1>6 DEF Pred
  <2>2. Pred(r, Succ(r, r.ptr)) = r.ptr
    BY Parts, Neighbours
  <2> QED  BY <2>1, <2>2 DEF Top, Under
<1>8. WellFormed(f)
  BY StoreKeeps
<1>9. f.cells[f.bottom] >= KEY_PRESS
  BY <1>8 DEF WellFormed
<1> HIDE DEF c, s, t
<1> QED  BY <1>1, <1>6, <1>7, <1>9

\* The action pushed last is the one popped next, whether it was stored,
\* doubled or counted, and whatever was erased for space: unless the push left
\* nothing to undo (edit_push_undo_action, edit_pop_undo_action).
THEOREM LastInFirstOut ==
  ASSUME NEW ring, WellFormed(ring), NEW c \in Nat, c < KEY_PRESS, NEW max \in Nat,
         ~IsEmpty(Push(ring, c, max))
  PROVE  Peek(Push(ring, c, max)) = c
<1> DEFINE r == Grow(ring, max)
           f == Push(ring, c, max)
<1>1. WellFormed(r)
  BY GrowKeeps
<1> HIDE DEF r
<1>2. /\ Top(r) \in Cells /\ Under(r) \in Cells
      /\ Top(r) # r.ptr /\ Under(r) # Top(r)
      /\ r.cells[Top(r)] \in Int
  <2>1. Top(r) \in Nat /\ Top(r) < r.size /\ Top(r) # r.ptr
    BY <1>1, Parts, Neighbours DEF Top
  <2>2. Under(r) \in Nat /\ Under(r) < r.size /\ Under(r) # Top(r)
    BY <1>1, <2>1, Parts, Neighbours DEF Under
  <2> QED  BY <1>1, <2>1, <2>2, Parts, IsCell
<1>3. CASE IsRepeat(r, c) /\ r.cells[Top(r)] < 0
  <2>1. f = Count(r)
    BY <1>3 DEF Push, r, KEY_PRESS
  <2>2. r \in Ring /\ r.cells[Top(r)] - 1 \in Int /\ Under(r) \in Cells \ {Top(r)}
    BY <1>1, <1>2, Parts
  <2>3. /\ f.ptr = r.ptr /\ f.bottom = r.bottom /\ f.size = r.size
        /\ f.cells[Top(r)] = r.cells[Top(r)] - 1
        /\ f.cells[Under(r)] = r.cells[Under(r)]
    BY <1>2, <2>1, <2>2, CellChange DEF Count
  <2> HIDE DEF f
  <2>4. Top(f) = Top(r) /\ Under(f) = Under(r)
    BY <2>3 DEF Top, Under, Pred
  <2>5. Top(r) # r.bottom /\ r.cells[Under(r)] = c
    BY <1>3 DEF IsRepeat, MayCompress
  <2>6. f.cells[Top(f)] < 0
    BY <1>2, <1>3, <2>3, <2>4
  <2>7. ~IsEmpty(f)
    BY DEF f
  <2>8. Readable(f)
    BY <2>3, <2>4, <2>5, <2>7 DEF Readable
  <2>9. f.cells[Under(f)] = c
    BY <2>3, <2>4, <2>5
  <2>10. ~(f.cells[Top(f)] >= 0)
    BY <1>2, <1>3, <2>3, <2>4
  <2>11. Peek(f) = c
    BY <2>8, <2>9, <2>10 DEF Peek
  <2> QED  BY <2>11 DEF f
<1>4. CASE IsRepeat(r, c) /\ ~(r.cells[Top(r)] < 0)
  <2>1. f = Reinit(Trim(Store(r, -2)))
    BY <1>4 DEF Push, r, KEY_PRESS
  <2>2. r.cells[Top(r)] = c
    BY <1>4 DEF IsRepeat
  <2> HIDE DEF f
  <2>3. ~IsEmpty(f)
    BY DEF f
  <2>4. /\ Top(f) = r.ptr /\ Under(f) = Top(r) /\ f.cells[r.ptr] = -2
        /\ f.cells[Top(r)] = c /\ f.cells[f.bottom] >= KEY_PRESS
    BY <1>1, <2>1, <2>2, <2>3, StoreShape
  <2>5. Readable(f)
    BY <2>3, <2>4 DEF Readable, KEY_PRESS
  <2>6. Peek(f) = c
    BY <2>4, <2>5 DEF Peek
  <2> QED  BY <2>6 DEF f
<1>5. CASE ~IsRepeat(r, c)
  <2>1. f = Reinit(Trim(Store(r, c)))
    BY <1>5 DEF Push, r
  <2> HIDE DEF f
  <2>2. ~IsEmpty(f)
    BY DEF f
  <2>3. Top(f) = r.ptr /\ f.cells[r.ptr] = c
    BY <1>1, <2>1, <2>2, StoreShape
  <2>4. Readable(f) /\ f.cells[Top(f)] >= 0
    BY <2>2, <2>3 DEF Readable
  <2>5. Peek(f) = c
    BY <2>3, <2>4 DEF Peek
  <2> QED  BY <2>5 DEF f
<1> QED  BY <1>3, <1>4, <1>5
=============================================================================
