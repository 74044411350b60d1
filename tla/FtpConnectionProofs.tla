------------------------ MODULE FtpConnectionProofs ------------------------
(***************************************************************************)
(* Theorems about the FTP client, for any servers, any file sizes, and any *)
(* number of operations and failures.                                      *)
(*                                                                         *)
(* Shape is the invariant about the call stack: which function waits for   *)
(* which.  Owed says, for every place the running function can be at, what *)
(* the server still owes: nothing, one reply, the two replies of a         *)
(* transfer, or the two of a transfer that is aborted.                     *)
(***************************************************************************)
EXTENDS FtpConnection, SequenceTheorems, TLAPS

Places == {"home", "sub"}

-----------------------------------------------------------------------------
(* The call stack                                                           *)

\* g is where the routine is that waits for a command to be answered; "-" says
\* that it is the last call of an operation
Awaits(cmd, g) ==
  \/ cmd = "USER" /\ g = "named"
  \/ cmd = "PASS" /\ g = "passed"
  \/ cmd = "PWD" /\ g = "pwd"
  \/ cmd = "QUIT" /\ g = "close"
  \/ cmd = "ABOR" /\ g = "aborting"
  \/ cmd \in {"DELE", "RNTO"} /\ g = "-"
  \/ cmd = "RNFR" /\ g = "renamed"
  \/ cmd \in {"PASV", "EPSV", "PORT", "EPRT"} /\ g = "agreed"
  \/ cmd \in {"TYPE I", "TYPE A"} /\ g = "typed"
  \/ cmd \in {"CWD home", "CWD sub"} /\ g = "chdired"
  \/ cmd \in Transfers /\ g = "prelim"

\* f can run while g waits for it
Fits(f, g) ==
  \/ /\ f.at \in {"command", "again", "retried"} /\ Awaits(f.arg, g)
     /\ f.wait = "none" <=> f.arg \in {"PWD", "QUIT", "ABOR"}
     /\ f.at = "retried" \/ f.wait = "string" => f.arg \in {"PASV", "EPSV"}
  \/ /\ f.at = "reply"
     /\ \/ Awaits(f.arg, g) /\ f.arg \notin {"PWD", "QUIT", "ABOR"}
        \/ /\ f.arg = "-" /\ f.wait = "-"
           /\ g \in {"greeted", "pwd_reply", "ended", "fail", "listed", "stored",
                     "aborted", "closeread"}
     /\ f.wait = "string" => f.arg \in {"PASV", "EPSV"}
  \/ f.at \in {"reconnect", "rechdir"} /\ g \in {"again", "retried", "fail", "closeread"}
  \/ /\ f.at = "relogged" /\ g \in {"again", "retried", "fail", "closeread"}
     /\ f.arg \in Places \cup {"none"}
  \/ f.at \in {"login", "greeted", "named", "passed"} /\ g \in {"relogged", "connected"}
  \/ /\ f.at \in {"connect", "connected", "pwd", "pwd_reply"}
     /\ g \in {"list", "command", "read", "store"}
  \/ f.at \in {"quit", "close", "store", "storing", "closewrite", "stored", "renamed"} /\ g = "-"
  \/ f.at \in {"chdir", "chdired"} /\ f.arg \in Places /\ g \in {"rechdir", "there"}
  \/ f.at = "agreed" /\ f.arg \in {"PASV", "EPSV", "PORT", "EPRT"} /\ g = "type"
  \/ /\ f.at \in {"type", "typed"} /\ f.arg \in Transfers /\ f.wait \in {"yes", "no"}
     /\ g \in {"started", "listing", "storing"}
  \/ f.at = "prelim" /\ g \in {"started", "listing", "storing"}
  \/ f.at \in {"start", "started"} /\ g = "first"
  \/ f.at \in {"read", "first", "ended"} /\ g = "got"
  \/ f.at = "fail" /\ g \in {"got", "-"}
  \/ f.at \in {"abort", "aborting", "aborted"} /\ g \in {"fail", "closeread"}
  \/ f.at = "got" /\ g = "closeread"
  \/ f.at = "closeread" /\ g \in {"closewrite", "-"}
  \/ f.at \in {"list", "there", "listing", "listed"} /\ f.arg \in Places /\ g = "-"

\* where the caller of the i-th function on the stack is
Caller(s, i) == IF i < Len(s) THEN s[i + 1].at ELSE "-"
\* where the caller of the running function is
Beneath(s) == Caller(s, 1)

\* where the first function called is
Bottom(s) == s[Len(s)].at

\* every function runs for one that can wait for it
Chain(s) ==
  /\ s \in Seq(Frames)
  /\ \A i \in 1 .. Len(s) : Fits(s[i], Caller(s, i))

\* The data of a file are coming only where it is read or closed; the connection
\* is made only where there is none.
Shape ==
  /\ Chain(stack)
  /\ rd = "open" => stack # <<>> /\ Top.at \in {"read", "first", "got", "closeread", "abort"}
  /\ stack # <<>> /\ Top.at = "connect" => sup.sock # "open"
  /\ net.reset => ~net.up

-----------------------------------------------------------------------------
(* What the server owes                                                     *)

NoneDue == net.cmds = <<>> /\ net.reps = <<>> /\ srv.at = "idle"

\* the reply that ends a transfer
EndReply(r) == r.to = "transfer" /\ (r.class = TRANSIENT => r.code = "426")
AborReply(r) == r.to = "ABOR" /\ r.class # TRANSIENT

\* it alone is due
EndDue ==
  /\ net.cmds = <<>>
  /\ \/ srv.at \in {"send", "recv"} /\ net.reps = <<>>
     \/ srv.at = "idle" /\ \E r \in {net.reps[1]} : net.reps = <<r>> /\ EndReply(r)

\* one reply is due
OneDue ==
  \/ /\ srv.at = "idle" /\ net.reps = <<>>
     /\ \E c \in {net.cmds[1]} : net.cmds = <<c>> /\ c \notin Transfers
  \/ srv.at \in {"greet", "send", "recv"} /\ net.cmds = <<>> /\ net.reps = <<>>
  \/ srv.at = "idle" /\ net.cmds = <<>> /\ \E r \in {net.reps[1]} : net.reps = <<r>>

\* the answer to ABOR is due
AborDue ==
  /\ srv.at = "idle"
  /\ \/ net.cmds = <<"ABOR">> /\ net.reps = <<>>
     \/ net.cmds = <<>> /\ \E r \in {net.reps[1]} : net.reps = <<r>> /\ AborReply(r)

\* and before it that of the transfer
BothDue ==
  \/ srv.at \in {"send", "recv"} /\ net.cmds = <<"ABOR">> /\ net.reps = <<>>
  \/ /\ srv.at = "idle" /\ net.cmds = <<"ABOR">>
     /\ \E r \in {net.reps[1]} : net.reps = <<r>> /\ EndReply(r)
  \/ /\ srv.at = "idle" /\ net.cmds = <<>>
     /\ \E r \in {net.reps[1]}, q \in {net.reps[2]} :
          net.reps = <<r, q>> /\ EndReply(r) /\ AborReply(q)

\* a command that begins a transfer has been sent: one reply is due, and a
\* second one if it is accepted
TransferDue ==
  \/ /\ srv.at = "idle" /\ net.reps = <<>>
     /\ \E c \in {net.cmds[1]} : net.cmds = <<c>> /\ c \in Transfers
  \/ /\ net.cmds = <<>> /\ srv.at = "idle"
     /\ \E r \in {net.reps[1]} : net.reps = <<r>> /\ r.class # PRELIM
  \/ /\ net.cmds = <<>> /\ srv.at \in {"send", "recv"}
     /\ \E r \in {net.reps[1]} : net.reps = <<r>> /\ r.class = PRELIM
  \/ /\ net.cmds = <<>> /\ srv.at = "idle"
     /\ \E r \in {net.reps[1]}, q \in {net.reps[2]} :
          net.reps = <<r, q>> /\ r.class = PRELIM /\ EndReply(q)

\* the connection stands, no reply was left behind, and nothing is copied from
\* the server to itself
Live == "copy" \notin opt.ops /\ net.up /\ ~late /\ sup.sock = "open"

\* what is due at the place where the running function is
Due ==
  LET at == Top.at
      If(p, q) == (p => q) /\ (~p => NoneDue)
  IN CASE at = "reply" /\ Top.arg \in Transfers -> TransferDue
       [] at = "reply" /\ Beneath(stack) = "aborted" -> AborDue \/ BothDue
       [] at = "reply" /\ Top.arg \notin Transfers /\ Beneath(stack) # "aborted" -> OneDue
       [] at = "login" -> OneDue
       [] at = "pwd" -> If(ret = COMPLETE, OneDue)
       [] at = "prelim" -> If(ret = PRELIM, EndDue)
       [] at \in {"started", "listing", "storing"} -> If(ret = 1, EndDue)
       [] at = "closewrite" -> EndDue
       [] at \in {"read", "first", "got", "closeread", "abort"} -> If(rd = "open", EndDue)
       [] at = "command" -> NoneDue \/ (Top.arg = "ABOR" /\ EndDue)
       [] at = "aborting" -> If(ret = COMPLETE, AborDue \/ BothDue)
       [] at = "aborted" ->
            \/ sup.from = "transfer" /\ (ret = TRANSIENT => sup.code = "426") /\ AborDue
            \/ sup.from = "ABOR" /\ ret # TRANSIENT /\ NoneDue
       [] at \in {"reconnect", "connect", "close"} -> TRUE
       [] OTHER -> NoneDue

\* a file is being written where its data and its last reply are still to come,
\* and none is open for reading when that begins or ends
Writing ==
  /\ stack # <<>> /\ Bottom(stack) \in {"store", "storing"} => rd = "none"
  /\ stack # <<>> /\ Bottom(stack) = "closewrite" => Top.at = "closewrite"
  /\ wr = "stream" => /\ stack # <<>>
                      /\ \/ Top.at = "storing" /\ ret = 1
                         \/ Top.at \in {"closewrite", "stored"}
                         \/ Top.at = "reply" /\ Beneath(stack) = "stored"
  /\ wr # "broken"

Owed ==
  /\ "copy" \notin opt.ops => Writing
  /\ Live => (IF stack = <<>> THEN NoneDue ELSE Due)

-----------------------------------------------------------------------------
(* Lemmas about the call stack                                              *)

\* The head of a sequence that is not empty is its first element.
LEMMA SeqHead == ASSUME NEW S, NEW q \in Seq(S), q # <<>>
  PROVE /\ Head(q) = q[1] /\ Head(q) \in S /\ Len(q) \in Nat /\ Len(q) >= 1
        /\ \A i \in 1 .. Len(q) : q[i] \in S
  OBVIOUS

\* The tail of a sequence is the rest of it, moved up by one.
LEMMA SeqTail == ASSUME NEW S, NEW q \in Seq(S), q # <<>>
  PROVE /\ Tail(q) \in Seq(S) /\ Len(Tail(q)) = Len(q) - 1
        /\ \A i \in 1 .. Len(q) - 1 : Tail(q)[i] = q[i + 1]
  OBVIOUS

\* One element before a sequence.
LEMMA SeqCons == ASSUME NEW S, NEW q \in Seq(S), NEW f \in S
  PROVE /\ <<f>> \o q \in Seq(S) /\ Len(<<f>> \o q) = Len(q) + 1
        /\ (<<f>> \o q)[1] = f /\ Head(<<f>> \o q) = f
        /\ \A i \in 1 .. Len(q) : (<<f>> \o q)[i + 1] = q[i]
        /\ <<f>> \o q # <<>>
  OBVIOUS

\* The empty sequence is the one of length zero.
LEMMA SeqEmpty == ASSUME NEW S, NEW q \in Seq(S)
  PROVE (q = <<>> <=> Len(q) = 0) /\ Len(q) \in Nat
  OBVIOUS

\* The running function has a place, and may run while its caller waits.
LEMMA TopFits ==
  ASSUME NEW s, Chain(s), s # <<>>
  PROVE  /\ s \in Seq(Frames) /\ Tail(s) \in Seq(Frames)
         /\ Head(s) \in Frames /\ Head(s) = s[1] /\ Fits(Head(s), Beneath(s))
         /\ Len(s) \in Nat /\ Len(s) >= 1
<1>1. s \in Seq(Frames)
  BY DEF Chain
<1>2. Len(s) \in Nat /\ Len(s) >= 1 /\ Head(s) = s[1] /\ Head(s) \in Frames
  BY <1>1, SeqHead
<1>3. Fits(s[1], Caller(s, 1))
  <2>1. 1 \in 1 .. Len(s)
    BY <1>2
  <2> QED  BY <2>1 DEF Chain
<1> QED  BY <1>1, <1>2, <1>3, SeqTail DEF Beneath

\* A function waits somewhere, so that "-" is beneath the first one called only.
LEMMA AtIsNotEmpty ==
  ASSUME NEW f \in Frames, NEW g, Fits(f, g)
  PROVE  f.at # "-"
  BY DEF Fits

\* No function runs.
LEMMA NobodyWaits == Chain(<<>>)
<1>1. <<>> \in Seq(Frames) /\ Len(<<>>) = 0
  OBVIOUS
<1> QED  BY <1>1 DEF Chain

\* A function returns to its caller.
LEMMA PopFits ==
  ASSUME NEW s, Chain(s), s # <<>>
  PROVE  /\ Chain(Tail(s))
         /\ Tail(s) = <<>> <=> Beneath(s) = "-"
         /\ Tail(s) # <<>> =>
              /\ Head(Tail(s)).at = Beneath(s)
              /\ Tail(s)[Len(Tail(s))] = s[Len(s)]
<1> DEFINE q == Tail(s)
<1>1. /\ s \in Seq(Frames) /\ Len(s) \in Nat /\ Len(s) >= 1
      /\ q \in Seq(Frames) /\ Len(q) = Len(s) - 1
      /\ \A i \in 1 .. Len(s) - 1 : q[i] = s[i + 1]
  BY TopFits, SeqTail
<1>2. \A i \in 1 .. Len(s) : Fits(s[i], Caller(s, i))
  BY DEF Chain
<1> HIDE DEF q
<1>3. \A i \in 1 .. Len(q) : q[i] = s[i + 1] /\ Caller(q, i) = Caller(s, i + 1)
  <2> TAKE i \in 1 .. Len(q)
  <2>1. i + 1 \in 1 .. Len(s) /\ i \in 1 .. Len(s) - 1
    BY <1>1
  <2>2. i < Len(q) <=> i + 1 < Len(s)
    BY <1>1
  <2>3. i < Len(q) => q[i + 1] = s[(i + 1) + 1]
    <3> SUFFICES ASSUME i < Len(q) PROVE q[i + 1] = s[(i + 1) + 1]
      OBVIOUS
    <3>1. i + 1 \in 1 .. Len(s) - 1
      BY <1>1
    <3> QED  BY <1>1, <3>1
  <2> QED  BY <1>1, <2>1, <2>2, <2>3 DEF Caller
<1>4. Chain(q)
  <2>1. \A i \in 1 .. Len(q) : i + 1 \in 1 .. Len(s)
    BY <1>1
  <2> QED  BY <1>1, <1>2, <1>3, <2>1 DEF Chain
<1>5. Len(s) > 1 => s[1 + 1].at # "-"
  <2> SUFFICES ASSUME Len(s) > 1 PROVE s[1 + 1].at # "-"
    OBVIOUS
  <2>1. 1 + 1 \in 1 .. Len(s)
    BY <1>1
  <2>2. s[1 + 1] \in Frames
    BY <1>1, <2>1, SeqHead
  <2>3. Fits(s[1 + 1], Caller(s, 1 + 1))
    BY <1>2, <2>1
  <2> QED  BY <2>2, <2>3, AtIsNotEmpty
<1>6. q = <<>> <=> Len(s) = 1
  BY <1>1, SeqEmpty
<1>7. q = <<>> <=> Beneath(s) = "-"
  <2>1. CASE Len(s) > 1
    <3>1. Beneath(s) = s[1 + 1].at
      BY <1>1, <2>1 DEF Beneath, Caller
    <3>2. q # <<>>
      BY <1>1, <1>6, <2>1
    <3> QED  BY <1>5, <2>1, <3>1, <3>2
  <2>2. CASE ~(Len(s) > 1)
    <3>1. Beneath(s) = "-"
      BY <1>1, <2>2 DEF Beneath, Caller
    <3>2. q = <<>>
      BY <1>1, <1>6, <2>2
    <3> QED  BY <3>1, <3>2
  <2> QED  BY <2>1, <2>2
<1>8. q # <<>> => Head(q).at = Beneath(s) /\ q[Len(q)] = s[Len(s)]
  <2> SUFFICES ASSUME q # <<>> PROVE Head(q).at = Beneath(s) /\ q[Len(q)] = s[Len(s)]
    OBVIOUS
  <2>1. /\ Len(q) \in 1 .. Len(s) - 1 /\ 1 \in 1 .. Len(s) - 1
        /\ Len(q) + 1 = Len(s) /\ 1 < Len(s)
    BY <1>1, <1>6
  <2>2. q[1] = s[1 + 1] /\ q[Len(q)] = s[Len(q) + 1] /\ Head(q) = q[1]
    BY <1>1, <2>1, SeqHead
  <2> QED  BY <2>1, <2>2 DEF Beneath, Caller
<1> QED  BY <1>4, <1>7, <1>8 DEF q

\* where the first function of a stack is
At(s) == IF s = <<>> THEN "-" ELSE Head(s).at

\* The function f becomes the running one, called by the first of s.
LEMMA PushFits ==
  ASSUME NEW s, Chain(s), NEW f \in Frames, Fits(f, At(s))
  PROVE  /\ Chain(<<f>> \o s) /\ <<f>> \o s # <<>>
         /\ Head(<<f>> \o s) = f /\ At(<<f>> \o s) = f.at /\ Beneath(<<f>> \o s) = At(s)
         /\ s # <<>> => (<<f>> \o s)[Len(<<f>> \o s)] = s[Len(s)]
         /\ s = <<>> => (<<f>> \o s)[Len(<<f>> \o s)] = f
<1> DEFINE q == <<f>> \o s
<1>1. s \in Seq(Frames)
  BY DEF Chain
<1>2. /\ q \in Seq(Frames) /\ Len(q) = Len(s) + 1 /\ q # <<>>
      /\ q[1] = f /\ Head(q) = f
      /\ \A i \in 1 .. Len(s) : q[i + 1] = s[i]
      /\ (s = <<>> <=> Len(s) = 0) /\ Len(s) \in Nat
  BY <1>1, SeqCons, SeqEmpty
<1>3. \A i \in 1 .. Len(s) : Fits(s[i], Caller(s, i))
  BY DEF Chain
<1> HIDE DEF q
<1>4. Caller(q, 1) = At(s)
  <2>1. CASE s = <<>>
    <3>1. At(s) = "-"
      BY <2>1 DEF At
    <3>2. ~(1 < Len(q))
      BY <1>2, <2>1
    <3>3. Caller(q, 1) = "-"
      BY <3>2 DEF Caller
    <3> QED  BY <3>1, <3>3
  <2>2. CASE s # <<>>
    <3>1. 1 \in 1 .. Len(s) /\ 1 < Len(q)
      BY <1>2, <2>2
    <3>2. q[1 + 1] = s[1] /\ Head(s) = s[1]
      BY <1>1, <1>2, <2>2, <3>1, SeqHead
    <3> QED  BY <2>2, <3>1, <3>2 DEF At, Caller
  <2> QED  BY <2>1, <2>2
<1>5. \A j \in 1 .. Len(s) : q[j + 1] = s[j] /\ Caller(q, j + 1) = Caller(s, j)
  <2> TAKE j \in 1 .. Len(s)
  <2>1. j + 1 < Len(q) <=> j < Len(s)
    BY <1>2
  <2>2. j < Len(s) => q[(j + 1) + 1] = s[j + 1]
    <3> SUFFICES ASSUME j < Len(s) PROVE q[(j + 1) + 1] = s[j + 1]
      OBVIOUS
    <3>1. j + 1 \in 1 .. Len(s)
      BY <1>2
    <3> QED  BY <1>2, <3>1
  <2> QED  BY <1>2, <2>1, <2>2 DEF Caller
<1>6. Chain(q)
  <2>1. ASSUME NEW i \in 1 .. Len(q) PROVE Fits(q[i], Caller(q, i))
    <3>1. CASE i = 1
      BY <1>2, <1>4, <3>1
    <3>2. CASE i # 1
      <4>1. PICK j \in 1 .. Len(s) : i = j + 1
        <5>1. i - 1 \in 1 .. Len(s) /\ i = (i - 1) + 1
          BY <1>2, <3>2
        <5> QED  BY <5>1
      <4> QED  BY <1>3, <1>5, <4>1
    <3> QED  BY <3>1, <3>2
  <2> QED  BY <1>2, <2>1 DEF Chain
<1>7. s # <<>> => q[Len(q)] = s[Len(s)]
  <2> SUFFICES ASSUME s # <<>> PROVE q[Len(q)] = s[Len(s)]
    OBVIOUS
  <2>1. Len(s) \in 1 .. Len(s) /\ Len(q) = Len(s) + 1
    BY <1>2
  <2>2. q[Len(s) + 1] = s[Len(s)]
    BY <1>2, <2>1
  <2> QED  BY <2>1, <2>2
<1>8. s = <<>> => q[Len(q)] = f
  BY <1>2
<1>9. At(q) = f.at
  BY <1>2 DEF At
<1> QED  BY <1>2, <1>4, <1>6, <1>7, <1>8, <1>9 DEF q, Beneath

\* Stacks with one, two, three and four functions before the others.
Over1(a, s) == <<a>> \o s
Over2(a, b, s) == <<a, b>> \o s
Over3(a, b, c, s) == <<a, b, c>> \o s
Over4(a, b, c, d, s) == <<a, b, c, d>> \o s

\* Two functions before a stack are one before the others.
LEMMA Before2 == ASSUME NEW s \in Seq(Frames), NEW a \in Frames, NEW b \in Frames
  PROVE Over2(a, b, s) = Over1(a, Over1(b, s))
<1> DEFINE q == <<a, b>> \o s
           t == <<b>> \o s
           u == <<a>> \o t
<1>1. /\ q \in Seq(Frames) /\ Len(q) = Len(s) + 2 /\ Len(s) \in Nat
      /\ q[1] = a /\ q[2] = b
      /\ \A i \in 1 .. Len(s) : q[i + 2] = s[i]
  OBVIOUS
<1>2. /\ t \in Seq(Frames) /\ Len(t) = Len(s) + 1
      /\ t[1] = b
      /\ \A i \in 1 .. Len(s) : t[i + 1] = s[i]
  OBVIOUS
<1>3. u \in Seq(Frames) /\ Len(u) = Len(t) + 1 /\ u[1] = a /\ \A i \in 1 .. Len(t) : u[i + 1] = t[i]
  <2> HIDE DEF t
  <2> QED  BY <1>2, SeqCons
<1> HIDE DEF q, t, u
<1>4. ASSUME NEW i \in 1 .. Len(q) PROVE q[i] = u[i]
  <2>1. CASE i = 1
    BY <1>1, <1>3, <2>1
  <2>2. CASE i = 2
    <3>1. 1 \in 1 .. Len(t)
      BY <1>1, <1>2
    <3>2. u[1 + 1] = t[1]
      BY <1>3, <3>1
    <3> QED  BY <1>1, <1>2, <2>2, <3>2
  <2>3. CASE i # 1 /\ i # 2
    <3>1. i \in Int /\ i > 2 /\ i <= Len(s) + 2
      BY <1>1, <2>3
    <3>2. /\ i - 2 \in 1 .. Len(s) /\ i - 1 \in 1 .. Len(t)
          /\ i = (i - 2) + 2 /\ i = (i - 1) + 1 /\ i - 1 = (i - 2) + 1
      BY <1>1, <1>2, <3>1
    <3>3. u[(i - 1) + 1] = t[i - 1]
      BY <1>3, <3>2
    <3>4. t[(i - 2) + 1] = s[i - 2] /\ q[(i - 2) + 2] = s[i - 2]
      BY <1>1, <1>2, <3>2
    <3> QED  BY <3>2, <3>3, <3>4
  <2> QED  BY <2>1, <2>2, <2>3
<1>5. q = u
  BY <1>1, <1>2, <1>3, <1>4, SeqEqual
<1> QED  BY <1>5 DEF q, t, u, Over1, Over2

\* Three functions before a stack are one before the others.
LEMMA Before3 == ASSUME NEW s \in Seq(Frames), NEW a \in Frames, NEW b \in Frames, NEW c \in Frames
  PROVE Over3(a, b, c, s) = Over1(a, Over2(b, c, s))
<1> DEFINE q == <<a, b, c>> \o s
           t == <<b, c>> \o s
           u == <<a>> \o t
<1>1. /\ q \in Seq(Frames) /\ Len(q) = Len(s) + 3 /\ Len(s) \in Nat
      /\ q[1] = a /\ q[2] = b /\ q[3] = c
      /\ \A i \in 1 .. Len(s) : q[i + 3] = s[i]
  OBVIOUS
<1>2. /\ t \in Seq(Frames) /\ Len(t) = Len(s) + 2
      /\ t[1] = b /\ t[2] = c
      /\ \A i \in 1 .. Len(s) : t[i + 2] = s[i]
  OBVIOUS
<1>3. u \in Seq(Frames) /\ Len(u) = Len(t) + 1 /\ u[1] = a /\ \A i \in 1 .. Len(t) : u[i + 1] = t[i]
  <2> HIDE DEF t
  <2> QED  BY <1>2, SeqCons
<1> HIDE DEF q, t, u
<1>4. ASSUME NEW i \in 1 .. Len(q) PROVE q[i] = u[i]
  <2>1. CASE i = 1
    BY <1>1, <1>3, <2>1
  <2>2. CASE i = 2
    <3>1. 1 \in 1 .. Len(t)
      BY <1>1, <1>2
    <3>2. u[1 + 1] = t[1]
      BY <1>3, <3>1
    <3> QED  BY <1>1, <1>2, <2>2, <3>2
  <2>3. CASE i = 3
    <3>1. 2 \in 1 .. Len(t)
      BY <1>1, <1>2
    <3>2. u[2 + 1] = t[2]
      BY <1>3, <3>1
    <3> QED  BY <1>1, <1>2, <2>3, <3>2
  <2>4. CASE i # 1 /\ i # 2 /\ i # 3
    <3>1. i \in Int /\ i > 3 /\ i <= Len(s) + 3
      BY <1>1, <2>4
    <3>2. /\ i - 3 \in 1 .. Len(s) /\ i - 1 \in 1 .. Len(t)
          /\ i = (i - 3) + 3 /\ i = (i - 1) + 1 /\ i - 1 = (i - 3) + 2
      BY <1>1, <1>2, <3>1
    <3>3. u[(i - 1) + 1] = t[i - 1]
      BY <1>3, <3>2
    <3>4. t[(i - 3) + 2] = s[i - 3] /\ q[(i - 3) + 3] = s[i - 3]
      BY <1>1, <1>2, <3>2
    <3> QED  BY <3>2, <3>3, <3>4
  <2> QED  BY <2>1, <2>2, <2>3, <2>4
<1>5. q = u
  BY <1>1, <1>2, <1>3, <1>4, SeqEqual
<1> QED  BY <1>5 DEF q, t, u, Over1, Over3, Over2

\* Four functions before a stack are one before the others.
LEMMA Before4 ==
  ASSUME NEW s \in Seq(Frames), NEW a \in Frames, NEW b \in Frames,
         NEW c \in Frames, NEW d \in Frames
  PROVE Over4(a, b, c, d, s) = Over1(a, Over3(b, c, d, s))
<1> DEFINE q == <<a, b, c, d>> \o s
           t == <<b, c, d>> \o s
           u == <<a>> \o t
<1>1. /\ q \in Seq(Frames) /\ Len(q) = Len(s) + 4 /\ Len(s) \in Nat
      /\ q[1] = a /\ q[2] = b /\ q[3] = c /\ q[4] = d
      /\ \A i \in 1 .. Len(s) : q[i + 4] = s[i]
  OBVIOUS
<1>2. /\ t \in Seq(Frames) /\ Len(t) = Len(s) + 3
      /\ t[1] = b /\ t[2] = c /\ t[3] = d
      /\ \A i \in 1 .. Len(s) : t[i + 3] = s[i]
  OBVIOUS
<1>3. u \in Seq(Frames) /\ Len(u) = Len(t) + 1 /\ u[1] = a /\ \A i \in 1 .. Len(t) : u[i + 1] = t[i]
  <2> HIDE DEF t
  <2> QED  BY <1>2, SeqCons
<1> HIDE DEF q, t, u
<1>4. ASSUME NEW i \in 1 .. Len(q) PROVE q[i] = u[i]
  <2>1. CASE i = 1
    BY <1>1, <1>3, <2>1
  <2>2. CASE i = 2
    <3>1. 1 \in 1 .. Len(t)
      BY <1>1, <1>2
    <3>2. u[1 + 1] = t[1]
      BY <1>3, <3>1
    <3> QED  BY <1>1, <1>2, <2>2, <3>2
  <2>3. CASE i = 3
    <3>1. 2 \in 1 .. Len(t)
      BY <1>1, <1>2
    <3>2. u[2 + 1] = t[2]
      BY <1>3, <3>1
    <3> QED  BY <1>1, <1>2, <2>3, <3>2
  <2>4. CASE i = 4
    <3>1. 3 \in 1 .. Len(t)
      BY <1>1, <1>2
    <3>2. u[3 + 1] = t[3]
      BY <1>3, <3>1
    <3> QED  BY <1>1, <1>2, <2>4, <3>2
  <2>5. CASE i # 1 /\ i # 2 /\ i # 3 /\ i # 4
    <3>1. i \in Int /\ i > 4 /\ i <= Len(s) + 4
      BY <1>1, <2>5
    <3>2. /\ i - 4 \in 1 .. Len(s) /\ i - 1 \in 1 .. Len(t)
          /\ i = (i - 4) + 4 /\ i = (i - 1) + 1 /\ i - 1 = (i - 4) + 3
      BY <1>1, <1>2, <3>1
    <3>3. u[(i - 1) + 1] = t[i - 1]
      BY <1>3, <3>2
    <3>4. t[(i - 4) + 3] = s[i - 4] /\ q[(i - 4) + 4] = s[i - 4]
      BY <1>1, <1>2, <3>2
    <3> QED  BY <3>2, <3>3, <3>4
  <2> QED  BY <2>1, <2>2, <2>3, <2>4, <2>5
<1>5. q = u
  BY <1>1, <1>2, <1>3, <1>4, SeqEqual
<1> QED  BY <1>5 DEF q, t, u, Over1, Over4, Over3

\* Three at once, and four.
LEMMA Three ==
  ASSUME NEW s \in Seq(Frames), NEW a \in Frames, NEW b \in Frames, NEW c \in Frames
  PROVE  Over3(a, b, c, s) = Over1(a, Over1(b, Over1(c, s)))
  BY Before2, Before3

\* Four functions before a stack, one by one.
LEMMA Four ==
  ASSUME NEW s \in Seq(Frames), NEW a \in Frames, NEW b \in Frames,
         NEW c \in Frames, NEW d \in Frames
  PROVE  Over4(a, b, c, d, s) = Over1(a, Over1(b, Over1(c, Over1(d, s))))
  BY Before4, Three

\* One function after three others.
LEMMA AfterThree ==
  ASSUME NEW a \in Frames, NEW b \in Frames, NEW c \in Frames, NEW d \in Frames
  PROVE  <<a, b, c>> \o <<d>> = <<a, b, c, d>>
<1> DEFINE q == <<a, b, c>> \o <<d>>
           u == <<a, b, c, d>>
<1>1. q \in Seq(Frames) /\ Len(q) = 4 /\ q[1] = a /\ q[2] = b /\ q[3] = c /\ q[4] = d
  OBVIOUS
<1>2. u \in Seq(Frames) /\ Len(u) = 4 /\ u[1] = a /\ u[2] = b /\ u[3] = c /\ u[4] = d
  OBVIOUS
<1> HIDE DEF q, u
<1>3. \A i \in 1 .. Len(q) : q[i] = u[i]
  <2>1. \A i \in 1 .. 4 : i = 1 \/ i = 2 \/ i = 3 \/ i = 4
    OBVIOUS
  <2> QED  BY <1>1, <1>2, <2>1
<1> QED  BY <1>1, <1>2, <1>3, SeqEqual DEF q, u

\* The bounds are natural numbers.
LEMMA Bounds == Pieces \in Nat /\ Pieces > 0 /\ MaxOps \in Nat /\ MaxTrouble \in Nat
  BY FtpAssumption

\* What becomes of the connections.

\* The fields of the control connection.
LEMMA NetFields ==
  ASSUME NEW n \in Net
  PROVE  /\ n.up \in BOOLEAN /\ n.reset \in BOOLEAN
         /\ n.cmds \in Seq(Commands) /\ n.reps \in Seq(Replies)
  BY DEF Net, Replies

\* A control connection made of its fields.
LEMMA NetMade ==
  ASSUME NEW u \in BOOLEAN, NEW b \in BOOLEAN, NEW c \in Seq(Commands), NEW r \in Seq(Replies)
  PROVE  LET n == [up |-> u, reset |-> b, cmds |-> c, reps |-> r]
         IN n \in Net /\ n.up = u /\ n.reset = b /\ n.cmds = c /\ n.reps = r
  BY DEF Net, Replies

\* It goes up or down.
LEMMA NetUp ==
  ASSUME NEW n \in Net, NEW u \in BOOLEAN
  PROVE  LET m == [n EXCEPT !.up = u]
         IN m \in Net /\ m.up = u /\ m.reset = n.reset /\ m.cmds = n.cmds /\ m.reps = n.reps
  BY DEF Net

\* It is reset.
LEMMA NetReset ==
  ASSUME NEW n \in Net, NEW b \in BOOLEAN
  PROVE  LET m == [n EXCEPT !.reset = b]
         IN m \in Net /\ m.up = n.up /\ m.reset = b /\ m.cmds = n.cmds /\ m.reps = n.reps
  BY DEF Net

\* Its commands change.
LEMMA NetCmds ==
  ASSUME NEW n \in Net, NEW c \in Seq(Commands)
  PROVE  LET m == [n EXCEPT !.cmds = c]
         IN m \in Net /\ m.up = n.up /\ m.reset = n.reset /\ m.cmds = c /\ m.reps = n.reps
  BY DEF Net

\* Its replies change.
LEMMA NetReps ==
  ASSUME NEW n \in Net, NEW r \in Seq(Replies)
  PROVE  LET m == [n EXCEPT !.reps = r]
         IN m \in Net /\ m.up = n.up /\ m.reset = n.reset /\ m.cmds = n.cmds /\ m.reps = r
  BY DEF Net, Replies

\* A command is sent: it arrives, or what is sent finds the connection gone.
LEMMA NetSent ==
  ASSUME NEW n \in Net, NEW c \in Commands
  PROVE  /\ Sent(n, c) \in Net /\ Sent(n, c).up = n.up
         /\ Sent(n, c).reset = (n.reset \/ ~n.up)
         /\ Sent(n, c).cmds = (IF n.up THEN Append(n.cmds, c) ELSE n.cmds)
         /\ Sent(n, c).reps = n.reps
<1>1. n.cmds \in Seq(Commands) /\ Append(n.cmds, c) \in Seq(Commands) /\ n.up \in BOOLEAN
      /\ n.reset \in BOOLEAN
  BY NetFields
<1>2. CASE n.up
  <2>1. Sent(n, c) = [n EXCEPT !.cmds = Append(n.cmds, c)]
    BY <1>2 DEF Sent
  <2>2. LET m == [n EXCEPT !.cmds = Append(n.cmds, c)]
        IN /\ m \in Net /\ m.up = n.up /\ m.reset = n.reset
           /\ m.cmds = Append(n.cmds, c) /\ m.reps = n.reps
    BY <1>1, NetCmds
  <2> QED  BY <1>1, <1>2, <2>1, <2>2
<1>3. CASE ~n.up
  BY <1>1, <1>3, NetReset DEF Sent
<1> QED  BY <1>1, <1>2, <1>3

\* A reply is sent.
LEMMA NetReplied ==
  ASSUME NEW n \in Net, NEW c \in 1 .. 5, NEW d \in {"-", "421", "426"}, NEW t \in Answers
  PROVE  LET m == Replied(n, c, d, t)
         IN /\ m \in Net /\ m.up = n.up /\ m.reset = n.reset /\ m.cmds = n.cmds
            /\ m.reps = Append(n.reps, [class |-> c, code |-> d, to |-> t])
<1> DEFINE r == [class |-> c, code |-> d, to |-> t]
<1>1. r \in Replies
  BY DEF Replies
<1>2. Append(n.reps, r) \in Seq(Replies)
  <2> HIDE DEF r
  <2> QED  BY <1>1, NetFields
<1> HIDE DEF r
<1>3. Replied(n, c, d, t) = [n EXCEPT !.reps = Append(n.reps, r)]
  BY DEF Replied, r
<1>4. LET m == [n EXCEPT !.reps = Append(n.reps, r)]
      IN m \in Net /\ m.up = n.up /\ m.reset = n.reset
         /\ m.cmds = n.cmds /\ m.reps = Append(n.reps, r)
  BY <1>2, NetReps
<1> QED  BY <1>3, <1>4 DEF r

\* The fields of the server.
LEMMA SrvFields ==
  ASSUME NEW s \in Srv
  PROVE  /\ s.at \in {"greet", "idle", "send", "recv"} /\ s.left \in 0 .. Pieces
         /\ s.in \in BOOLEAN /\ s.set \in BOOLEAN /\ s.rnfr \in BOOLEAN /\ s.binary \in BOOLEAN
         /\ s.cwd \in {"home", "sub"}
  BY DEF Srv

\* The server goes on to something else.
LEMMA SrvAt ==
  ASSUME NEW s \in Srv, NEW a \in {"greet", "idle", "send", "recv"}
  PROVE  [s EXCEPT !.at = a] \in Srv /\ [s EXCEPT !.at = a].at = a
  BY DEF Srv

\* A server starts with its greeting.
LEMMA SrvNew == NewSrv \in Srv /\ NewSrv.at = "greet"
  BY Bounds DEF Srv, NewSrv

\* The fields of the data connection.
LEMMA DataFields ==
  ASSUME NEW d \in Data
  PROVE  d.mine \in BOOLEAN /\ d.theirs \in BOOLEAN /\ d.n \in Nat /\ d.done \in Nat
  BY DEF Data

\* One of its ends is closed.
LEMMA DataEnds ==
  ASSUME NEW d \in Data, NEW b \in BOOLEAN
  PROVE  [d EXCEPT !.mine = b] \in Data /\ [d EXCEPT !.theirs = b] \in Data
  BY DEF Data

\* Pieces are sent and received.
LEMMA DataMoves ==
  ASSUME NEW d \in Data, NEW k \in Nat
  PROVE  [d EXCEPT !.n = k] \in Data /\ [d EXCEPT !.done = k] \in Data
  BY DEF Data

-----------------------------------------------------------------------------
(* Types                                                                    *)

\* The fields of the variables of a connection.
LEMMA SupFields ==
  ASSUME NEW s \in Sup
  PROVE  /\ s.sock \in {"none", "open", "closed"} /\ s.level \in BOOLEAN /\ s.retry \in BOOLEAN
         /\ s.code \in {"-", "421", "426"} /\ s.from \in Answers
         /\ s.binary \in {"unknown", "yes", "no"} /\ s.passive \in BOOLEAN
         /\ s.strict \in {"auto", "daring", "strict"} /\ s.cwd \in {"none", "home", "sub"}
         /\ s.busy \in BOOLEAN /\ s.failed \in BOOLEAN
  BY DEF Sup

\* The directory of a superblock changes, and nothing that Owed looks at ...
LEMMA SupCwd ==
  ASSUME NEW s \in Sup, NEW c \in {"none", "home", "sub"}
  PROVE  LET r == [s EXCEPT !.cwd = c]
         IN /\ r \in Sup /\ r.sock = s.sock /\ r.cwd = c /\ r.busy = s.busy
            /\ r.code = s.code /\ r.from = s.from
  BY DEF Sup

\* ... its type of transfers ...
LEMMA SupBinary ==
  ASSUME NEW s \in Sup, NEW c \in {"unknown", "yes", "no"}
  PROVE  LET r == [s EXCEPT !.binary = c]
         IN /\ r \in Sup /\ r.sock = s.sock /\ r.cwd = s.cwd /\ r.busy = s.busy
            /\ r.code = s.code /\ r.from = s.from
  BY DEF Sup

\* ... that the login was refused ...
LEMMA SupRefused ==
  ASSUME NEW s \in Sup
  PROVE  LET r == [s EXCEPT !.failed = TRUE]
         IN /\ r \in Sup /\ r.sock = s.sock /\ r.cwd = s.cwd /\ r.busy = s.busy
            /\ r.code = s.code /\ r.from = s.from
  BY DEF Sup

\* ... that another login begins ...
LEMMA SupLogin ==
  ASSUME NEW s \in Sup
  PROVE  LET r == [s EXCEPT !.binary = "unknown", !.failed = FALSE]
         IN /\ r \in Sup /\ r.sock = s.sock /\ r.cwd = s.cwd /\ r.busy = s.busy
            /\ r.code = s.code /\ r.from = s.from /\ r.binary = "unknown"
  BY DEF Sup

\* ... that a reply was not read ...
LEMMA SupUnread ==
  ASSUME NEW s \in Sup
  PROVE  LET r == [s EXCEPT !.code = "421", !.from = "-"]
         IN /\ r \in Sup /\ r.sock = s.sock /\ r.cwd = s.cwd /\ r.busy = s.busy
            /\ r.binary = s.binary
  BY DEF Sup, Answers

\* ... its connection, when it is made ...
LEMMA SupSock ==
  ASSUME NEW s \in Sup, NEW c \in {"none", "open", "closed"}
  PROVE  LET r == [s EXCEPT !.sock = c, !.failed = FALSE]
         IN /\ r \in Sup /\ r.sock = c /\ r.cwd = s.cwd /\ r.busy = s.busy
            /\ r.code = s.code /\ r.from = s.from
  BY DEF Sup

\* ... or found to be gone ...
LEMMA SupClosed ==
  ASSUME NEW s \in Sup
  PROVE  LET r == [s EXCEPT !.sock = "closed"]
         IN /\ r \in Sup /\ r.sock = "closed" /\ r.cwd = s.cwd /\ r.busy = s.busy
            /\ r.code = s.code /\ r.from = s.from
  BY DEF Sup

\* ... or left ...
LEMMA SupLeft ==
  ASSUME NEW s \in Sup
  PROVE  LET r == [s EXCEPT !.sock = "none", !.cwd = "none"]
         IN /\ r \in Sup /\ r.sock = "none" /\ r.cwd = "none" /\ r.busy = s.busy
            /\ r.code = s.code /\ r.from = s.from
  BY DEF Sup

\* ... how data connections are agreed on ...
LEMMA SupPassive ==
  ASSUME NEW s \in Sup, NEW b \in BOOLEAN
  PROVE  LET r == [s EXCEPT !.passive = b]
         IN /\ r \in Sup /\ r.sock = s.sock /\ r.cwd = s.cwd /\ r.busy = s.busy
            /\ r.code = s.code /\ r.from = s.from
  BY DEF Sup

\* ... and ctl_connection_busy.
LEMMA SupBusy ==
  ASSUME NEW s \in Sup, NEW b \in BOOLEAN
  PROVE  LET r == [s EXCEPT !.busy = b]
         IN /\ r \in Sup /\ r.sock = s.sock /\ r.cwd = s.cwd /\ r.busy = b
            /\ r.code = s.code /\ r.from = s.from
  BY DEF Sup

\* The types, with the records whole.
Typed ==
  /\ opt \in Settings /\ sup \in Sup /\ srv \in Srv /\ data \in Data /\ net \in Net
  /\ ret \in -1 .. 5 /\ rd \in {"none", "preopen", "open", "dead"}
  /\ wr \in {"none", "stream", "broken"} /\ put \in 0 .. Pieces /\ late \in BOOLEAN
  /\ file \in {"old", "part", "whole"} /\ report \in {"none", "stored", "failed", "listed", "wrong"}
  /\ ops \in 0 .. MaxOps /\ trouble \in 0 .. MaxTrouble
  /\ sup.busy <=> rd = "open"

\* Places where a file is open and its data are still coming.
Readings == {"read", "first", "got", "closeread", "abort"}

\* What Shape says of the running function.
LEMMA Running ==
  ASSUME Shape, stack # <<>>
  PROVE  /\ stack \in Seq(Frames) /\ Top \in Frames /\ Fits(Top, Beneath(stack))
         /\ rd = "open" => Top.at \in Readings
         /\ Top.at = "connect" => sup.sock # "open"
<1>1. Chain(stack) /\ (rd = "open" => Top.at \in {"read", "first", "got", "closeread", "abort"})
      /\ (Top.at = "connect" => sup.sock # "open")
  BY DEF Shape
<1>2. Top \in Frames /\ Fits(Top, Beneath(stack)) /\ stack \in Seq(Frames)
  BY <1>1, TopFits DEF Top
<1> QED  BY <1>1, <1>2 DEF Readings

\* Where a directory, a command or a mode is in a frame.
LEMMA RunningArgs ==
  ASSUME Shape, stack # <<>>
  PROVE  /\ Top.at = "relogged" => Top.arg \in {"none", "home", "sub"}
         /\ Top.at \in {"chdir", "chdired", "list", "there", "listing", "listed"} =>
              Top.arg \in {"home", "sub"}
         /\ Top.at \in {"type", "typed"} => Top.wait \in {"yes", "no"} /\ Top.arg \in Transfers
         /\ Top.at = "agreed" => Top.arg \in {"PASV", "EPSV", "PORT", "EPRT"}
  BY Running DEF Fits, Places

\* The settings are Boolean.
LEMMA OptTyped == ASSUME Typed PROVE opt.passive \in BOOLEAN /\ opt.strict \in BOOLEAN
  BY FtpAssumption DEF Typed

\* The empty sequence.
LEMMA NothingSent == <<>> \in Seq(Commands) /\ <<>> \in Seq(Replies)
  OBVIOUS

\* A reply has a class, a code and the command it answers.
LEMMA ReplyFields ==
  ASSUME NEW q \in Seq(Replies), q # <<>>
  PROVE  /\ Head(q).class \in 1 .. 5
         /\ Head(q).code \in {"-", "421", "426"} /\ Head(q).to \in Answers
<1>1. Head(q) \in Replies
  BY SeqHead
<1> QED  BY <1>1 DEF Replies

\* A new connection.
LEMMA NetNew == [up |-> TRUE, reset |-> FALSE, cmds |-> <<>>, reps |-> <<>>] \in Net
  BY NetMade, NothingSent

\* A command is written.
LEMMA Arg ==
  ASSUME Shape, stack # <<>>, Top.at \in {"command", "again", "retried"}
  PROVE  Top.arg \in Commands
  BY Running DEF Fits, Awaits, Commands, Transfers

\* A piece has been sent, a listing read.
LEMMA DataSent == ASSUME NEW d \in Data PROVE [d EXCEPT !.n = d.n + 1] \in Data
  BY DEF Data

\* A listing has been read.
LEMMA DataListed == ASSUME NEW d \in Data PROVE [d EXCEPT !.mine = FALSE, !.done = d.n] \in Data
  BY DEF Data

\* A piece has been read.
LEMMA DataRead ==
  ASSUME NEW d \in Data, d.n > 0
  PROVE  [d EXCEPT !.n = d.n - 1, !.done = d.done + 1] \in Data
<1>1. d.n - 1 \in Nat /\ d.done + 1 \in Nat
  BY DataFields
<1> QED  BY <1>1, DataMoves

\* Write keeps the types.
LEMMA WriteTypes == ASSUME Typed, Shape, Write PROVE Typed'
<1>1. sup \in Sup /\ net \in Net /\ srv \in Srv /\ data \in Data
  BY DEF Typed
<1>2. sup \in Sup
  BY <1>1
<1>3. sup.busy <=> rd = "open"
  BY DEF Typed
<1>4. stack # <<>>
  BY DEF Write, Now
<1>5. \/ sup' = [sup EXCEPT !.retry = FALSE]
      \/ sup' = [sup EXCEPT !.level = TRUE, !.code = "421"]
      \/ sup' = [sup EXCEPT !.code = "421"]
  BY DEF Write
<1>6. sup' \in Sup /\ sup'.busy = sup.busy
  BY <1>2, <1>5 DEF Sup
<1>7. \/ net' = Sent(net, Top.arg)
      \/ net' = net
      \/ net' = [up |-> FALSE, reset |-> TRUE, cmds |-> <<>>, reps |-> <<>>]
  BY DEF Write, Gone, Top
<1>8. Top.arg \in Commands
  <2>1. Top.at = "command"
    BY DEF Write, Now, Top
  <2> QED  BY <1>4, <2>1, Arg
<1>9. [up |-> FALSE, reset |-> TRUE, cmds |-> <<>>, reps |-> <<>>] \in Net
  BY NetMade, NothingSent
<1>10. Sent(net, Top.arg) \in Net
  BY <1>1, <1>8, NetSent
<1>11. net' \in Net
  BY <1>1, <1>7, <1>9, <1>10
<1>12. \/ srv' = srv /\ data' = data
       \/ srv' = [srv EXCEPT !.at = "idle"] /\ data' = [data EXCEPT !.theirs = FALSE]
  BY DEF Write, Gone
<1>13. srv' \in Srv /\ data' \in Data
  BY <1>1, <1>12, SrvAt, DataEnds
<1> QED  BY Bounds, <1>5, <1>6, <1>7, <1>11, <1>12, <1>13 DEF Write, Now, Then, Return, Fine,
                Trouble, Rest, handles, Typed, COMPLETE, TRANSIENT, Gone

\* WriteAgain keeps the types.
LEMMA WriteAgainTypes == ASSUME Typed, Shape, WriteAgain PROVE Typed'
<1>1. sup \in Sup /\ net \in Net /\ srv \in Srv /\ data \in Data
  BY DEF Typed
<1>2. sup \in Sup
  BY <1>1
<1>3. sup.busy <=> rd = "open"
  BY DEF Typed
<1>4. stack # <<>>
  BY DEF WriteAgain, Now
<1>5. sup' = [sup EXCEPT !.level = FALSE, !.retry = sup.retry /\ ret = 1]
  BY DEF WriteAgain
<1>6. (sup.retry /\ ret = 1) \in BOOLEAN
  OBVIOUS
<1>7. sup' \in Sup /\ sup'.busy = sup.busy
  BY <1>2, <1>5, <1>6 DEF Sup
<1>8. net' = Sent(net, Top.arg) \/ net' = net
  BY DEF WriteAgain, Top
<1>9. Top.arg \in Commands
  <2>1. Top.at \in {"again", "retried"}
    BY DEF WriteAgain, Now, Top
  <2> QED  BY <1>4, <2>1, Arg
<1>10. Sent(net, Top.arg) \in Net
  BY <1>1, <1>9, NetSent
<1>11. net' \in Net
  BY <1>1, <1>8, <1>10
<1> QED  BY Bounds, <1>5, <1>7, <1>8, <1>11 DEF WriteAgain, Now, Then, Return, Fine, Rest,
                handles, Typed, COMPLETE, TRANSIENT

\* Reply keeps the types.
LEMMA ReplyTypes == ASSUME Typed, Shape, Reply PROVE Typed'
<1>1. sup \in Sup /\ net \in Net /\ srv \in Srv /\ data \in Data
  BY DEF Typed
<1>2. sup \in Sup
  BY <1>1
<1>3. sup.busy <=> rd = "open"
  BY DEF Typed
<1>4. stack # <<>>
  BY DEF Reply, Now
<1>5. net.reps # <<>> => /\ Head(net.reps).class \in 1 .. 5
                           /\ Head(net.reps).code \in {"-", "421", "426"}
                           /\ Head(net.reps).to \in Answers
  BY NetFields, ReplyFields DEF Typed
<1>6. net.reps # <<>> => Tail(net.reps) \in Seq(Replies)
  BY NetFields, SeqTail DEF Typed
<1>7. net' = net \/ (net.reps # <<>> /\ net' = [net EXCEPT !.reps = Tail(net.reps)])
  BY DEF Reply
<1>8. net' \in Net
  BY <1>1, <1>7, NetReps, <1>6
<1> DEFINE gone == net.reps = <<>>
           code == IF gone THEN "421" ELSE Head(net.reps).code
           from == IF gone THEN "-" ELSE Head(net.reps).to
           retry == IF Top.arg = "-" THEN sup.retry ELSE FALSE
<1>9. code \in {"-", "421", "426"} /\ from \in Answers
  <2>1. CASE gone
    <3>1. code = "421"
      BY <2>1
    <3>2. from = "-"
      BY <2>1
    <3> HIDE DEF code, from, gone
    <3>3. code \in {"-", "421", "426"}
      BY <3>1
    <3>4. from \in Answers
      BY <3>2 DEF Answers
    <3> QED  BY <3>3, <3>4
  <2>2. CASE ~gone
    <3>1. code = Head(net.reps).code /\ from = Head(net.reps).to
      BY <2>2
    <3> HIDE DEF code, from
    <3> QED  BY <1>5, <2>2, <3>1
  <2> QED  BY <2>1, <2>2
<1>10. retry = sup.retry \/ retry = FALSE
  OBVIOUS
<1>11. \/ sup' = [sup EXCEPT !.retry = TRUE, !.level = TRUE, !.code = code]
       \/ sup' = [sup EXCEPT !.code = code, !.retry = retry, !.from = from]
  BY DEF Reply, Top
<1> HIDE DEF code, from, retry
<1>12. sup' \in Sup /\ sup'.busy = sup.busy
  BY <1>2, <1>11, <1>9, <1>10 DEF Sup
<1>13. ret' \in -1 .. 5
  BY <1>6, <1>5 DEF Reply, Typed, Return, Then, Now, TRANSIENT
<1> QED  BY Bounds, <1>7, <1>8, <1>11, <1>12, <1>13 DEF Reply, Now, Then, Return, Fine, Rest,
                handles, Typed, TRANSIENT

\* ReplyInterrupted keeps the types.
LEMMA ReplyInterruptedTypes == ASSUME Typed, Shape, ReplyInterrupted PROVE Typed'
<1>1. sup \in Sup /\ (sup.busy <=> rd = "open")
  BY DEF Typed
<1>2. stack # <<>>
  BY DEF ReplyInterrupted, Now
<1>3. sup' \in Sup /\ sup'.busy = sup.busy
  BY <1>1, SupUnread DEF ReplyInterrupted
<1> QED  BY Bounds, <1>3 DEF ReplyInterrupted, Now, Return, Trouble, Rest, remote, handles, Typed, TRANSIENT

\* Reconnect keeps the types.
LEMMA ReconnectTypes == ASSUME Typed, Shape, Reconnect PROVE Typed'
<1>1. sup \in Sup /\ net \in Net /\ srv \in Srv /\ data \in Data
  BY DEF Typed
<1>2. sup \in Sup
  BY <1>1
<1>3. sup.busy <=> rd = "open"
  BY DEF Typed
<1>4. stack # <<>>
  BY DEF Reconnect, Now
<1>5. net.up \in BOOLEAN
  BY NetFields DEF Typed
<1>6. sup' = sup \/ sup' = [sup EXCEPT !.sock = "open", !.cwd = "none"]
  BY DEF Reconnect
<1>7. sup' \in Sup /\ sup'.busy = sup.busy
  BY <1>2, <1>6 DEF Sup
<1>8. \/ net' = net /\ srv' = srv /\ data' = data /\ file' = file /\ wr' = wr
      \/ /\ net' = [up |-> TRUE, reset |-> FALSE, cmds |-> <<>>, reps |-> <<>>]
         /\ srv' = NewSrv /\ data' = [data EXCEPT !.theirs = FALSE] /\ file' = file
         /\ wr' \in {wr, "broken"}
  BY DEF Reconnect, Fresh, remote
<1>9. net' \in Net /\ srv' \in Srv
  BY <1>1, <1>8, NetNew, SrvNew
<1>10. data' \in Data
  BY <1>1, <1>8, DataEnds
<1>11. late' \in BOOLEAN
  BY <1>5 DEF Reconnect, Typed, Fresh
<1> QED  BY Bounds, <1>6, <1>7, <1>8, <1>9, <1>10, <1>11 DEF Reconnect, Now, Then, Return,
                Fine, Trouble, Rest, remote, Typed, Fresh

\* Relogged keeps the types.
LEMMA ReloggedTypes == ASSUME Typed, Shape, Relogged PROVE Typed'
<1>1. sup \in Sup /\ net \in Net /\ srv \in Srv /\ data \in Data
  BY DEF Typed
<1>2. sup \in Sup
  BY <1>1
<1>3. sup.busy <=> rd = "open"
  BY DEF Typed
<1>4. stack # <<>>
  BY DEF Relogged, Now
<1>5. Top.at = "relogged"
  BY DEF Relogged, Now, Top
<1>6. sup' = sup \/ sup' = [sup EXCEPT !.cwd = Top.arg]
  BY DEF Relogged, Top
<1>7. Top.arg \in {"none", "home", "sub"}
  BY <1>1, <1>6, RunningArgs, <1>4, <1>5
<1>8. sup' \in Sup /\ sup'.busy = sup.busy
  BY <1>2, <1>6, <1>7 DEF Sup
<1> QED  BY Bounds, <1>6, <1>7, <1>8 DEF Relogged, Now, Then, Return, Fine, Rest, remote,
                handles, Typed

\* Rechdir keeps the types.
LEMMA RechdirTypes == ASSUME Typed, Shape, Rechdir PROVE Typed'
<1>1. sup \in Sup /\ net \in Net /\ srv \in Srv /\ data \in Data
  BY DEF Typed
<1>2. sup \in Sup
  BY <1>1
<1>3. sup.busy <=> rd = "open"
  BY DEF Typed
<1>4. stack # <<>>
  BY DEF Rechdir, Now
<1> QED  BY Bounds DEF Rechdir, Now, Return, Fine, Rest, remote, handles, Typed, COMPLETE

\* Login keeps the types.
LEMMA LoginTypes == ASSUME Typed, Shape, Login PROVE Typed'
<1>1. sup \in Sup /\ net \in Net /\ srv \in Srv /\ data \in Data
  BY DEF Typed
<1>2. sup \in Sup
  BY <1>1
<1>3. sup.busy <=> rd = "open"
  BY DEF Typed
<1>4. stack # <<>>
  BY DEF Login, Now
<1>5. sup' \in Sup /\ sup'.busy = sup.busy
  BY SupLogin, SupRefused DEF Login, Typed
<1> QED  BY Bounds, <1>5 DEF Login, Now, Then, Return, Fine, Rest, remote, handles, Typed,
                COMPLETE, CONTINUE

\* NoPassword keeps the types.
LEMMA NoPasswordTypes == ASSUME Typed, Shape, NoPassword PROVE Typed'
<1>1. sup \in Sup /\ (sup.busy <=> rd = "open")
  BY DEF Typed
<1>2. stack # <<>>
  BY DEF NoPassword, Now
<1>3. sup' \in Sup /\ sup'.busy = sup.busy
  BY <1>1, SupBinary DEF NoPassword
<1> QED  BY Bounds, <1>3 DEF NoPassword, Now, Return, Trouble, Rest, remote, handles, Typed

\* Connect keeps the types.
LEMMA ConnectTypes == ASSUME Typed, Shape, Connect PROVE Typed'
<1>1. sup \in Sup /\ net \in Net /\ srv \in Srv /\ data \in Data
  BY DEF Typed
<1>2. sup \in Sup
  BY <1>1
<1>3. sup.busy <=> rd = "open"
  BY DEF Typed
<1>4. stack # <<>>
  BY DEF Connect, Now
<1>5. Top.at = "connect"
  BY DEF Connect, Now, Top
<1>6. rd # "open"
  BY <1>4, <1>5, Running DEF Readings
<1>7. \/ sup' = [sup EXCEPT !.sock = "open", !.failed = FALSE] /\ rd' = rd
      \/ sup' = [sup EXCEPT !.sock = "none", !.failed = FALSE] /\ rd' = "none"
  BY DEF Connect
<1>8. sup' \in Sup /\ (sup'.busy <=> rd' = "open")
  BY <1>2, <1>7, <1>6, <1>3 DEF Sup
<1>9. \/ net' = net /\ srv' = srv /\ data' = data /\ file' = file /\ wr' = wr
      \/ /\ net' = [up |-> TRUE, reset |-> FALSE, cmds |-> <<>>, reps |-> <<>>]
         /\ srv' = NewSrv /\ data' = [data EXCEPT !.theirs = FALSE] /\ file' = file
         /\ wr' \in {wr, "broken"}
  BY DEF Connect, Fresh, remote
<1>10. net' \in Net /\ srv' \in Srv
  BY <1>1, <1>9, NetNew, SrvNew
<1>11. data' \in Data
  BY <1>1, <1>9, DataEnds
<1>12. late' \in BOOLEAN
  BY DEF Connect, Typed, Fresh
<1> QED  BY Bounds, <1>7, <1>8, <1>9, <1>10, <1>11, <1>12 DEF Connect, Now, Then, Fine,
                Trouble, Rest, remote, Typed, Fresh

\* Connected keeps the types.
LEMMA ConnectedTypes == ASSUME Typed, Shape, Connected PROVE Typed'
<1>1. sup \in Sup /\ net \in Net /\ srv \in Srv /\ data \in Data
  BY DEF Typed
<1>2. sup \in Sup
  BY <1>1
<1>3. sup.busy <=> rd = "open"
  BY DEF Typed
<1>4. stack # <<>>
  BY DEF Connected, Now
<1>5. Top.at = "connected"
  BY DEF Connected, Now, Top
<1>6. rd # "open"
  BY <1>4, <1>5, Running DEF Readings
<1>7. \/ sup' = sup /\ rd' = rd
      \/ sup' = [sup EXCEPT !.sock = "closed"] /\ rd' = rd
      \/ sup' = sup /\ rd' = "none"
  BY DEF Connected
<1>8. sup' \in Sup /\ (sup'.busy <=> rd' = "open")
  BY <1>2, <1>7, <1>6, <1>3 DEF Sup
<1>9. net' = net \/ net' = [net EXCEPT !.up = FALSE]
  BY DEF Connected
<1>10. net' \in Net
  BY <1>1, <1>9, NetUp
<1> QED  BY Bounds, <1>7, <1>8, <1>9, <1>10 DEF Connected, Now, Then, Return, Fine, Rest,
                Typed

\* CurrentDirectory keeps the types.
LEMMA CurrentDirectoryTypes == ASSUME Typed, Shape, CurrentDirectory PROVE Typed'
<1>1. sup \in Sup /\ net \in Net /\ srv \in Srv /\ data \in Data
  BY DEF Typed
<1>2. sup \in Sup
  BY <1>1
<1>3. sup.busy <=> rd = "open"
  BY DEF Typed
<1>4. stack # <<>>
  BY DEF CurrentDirectory, Now
<1>5. sup' \in Sup /\ sup'.busy = sup.busy
  BY SupCwd DEF CurrentDirectory, Typed
<1> QED  BY Bounds, <1>5 DEF CurrentDirectory, Now, Then, Return, Fine, Rest, remote,
                handles, Typed, COMPLETE

\* Disconnect keeps the types.
LEMMA DisconnectTypes == ASSUME Typed, Shape, Disconnect PROVE Typed'
<1>1. sup \in Sup /\ net \in Net /\ srv \in Srv /\ data \in Data
  BY DEF Typed
<1>2. sup \in Sup
  BY <1>1
<1>3. sup.busy <=> rd = "open"
  BY DEF Typed
<1>4. stack # <<>>
  BY DEF Disconnect, Now
<1>5. sup' \in Sup /\ sup'.busy = sup.busy
  BY SupLeft DEF Disconnect, Typed
<1>6. net' \in Net
  BY NetUp DEF Disconnect, Typed
<1> QED  BY Bounds, <1>5, <1>6 DEF Disconnect, Now, Then, Return, Fine, Rest, handles, Typed

\* Chdir keeps the types.
LEMMA ChdirTypes == ASSUME Typed, Shape, Chdir PROVE Typed'
<1>1. sup \in Sup /\ net \in Net /\ srv \in Srv /\ data \in Data
  BY DEF Typed
<1>2. sup \in Sup
  BY <1>1
<1>3. sup.busy <=> rd = "open"
  BY DEF Typed
<1>4. stack # <<>>
  BY DEF Chdir, Now
<1>5. Top.at \in {"chdir", "chdired"}
  BY DEF Chdir, Now, Top
<1>6. sup' = sup \/ sup' = [sup EXCEPT !.cwd = Top.arg]
  BY DEF Chdir, Top
<1>7. Top.arg \in {"none", "home", "sub"}
  BY <1>1, <1>6, RunningArgs, <1>4, <1>5
<1>8. sup' \in Sup /\ sup'.busy = sup.busy
  BY <1>2, <1>6, <1>7 DEF Sup
<1> QED  BY Bounds, <1>6, <1>7, <1>8 DEF Chdir, Now, Then, Return, Fine, Rest, remote,
                handles, Typed, COMPLETE

\* Agreed keeps the types.
LEMMA AgreedTypes == ASSUME Typed, Shape, Agreed PROVE Typed'
<1>1. sup \in Sup /\ net \in Net /\ srv \in Srv /\ data \in Data
  BY DEF Typed
<1>2. sup \in Sup
  BY <1>1
<1>3. sup.busy <=> rd = "open"
  BY DEF Typed
<1>4. stack # <<>>
  BY DEF Agreed, Now
<1>5. sup' \in Sup /\ sup'.busy = sup.busy
  <2>1. \/ sup' = sup
        \/ sup' = [sup EXCEPT !.passive = FALSE]
        \/ sup' = [sup EXCEPT !.passive = opt.passive]
    BY DEF Agreed
  <2>2. FALSE \in BOOLEAN /\ opt.passive \in BOOLEAN
    BY OptTyped
  <2> QED  BY <1>2, <2>1, <2>2, SupPassive
<1> QED  BY Bounds, <1>5 DEF Agreed, Now, Then, Return, Fine, Trouble, Rest, remote,
                handles, Typed, COMPLETE

\* Open keeps the types.
LEMMA OpenTypes == ASSUME Typed, Shape, Open PROVE Typed'
<1>1. sup \in Sup /\ net \in Net /\ srv \in Srv /\ data \in Data
  BY DEF Typed
<1>2. sup \in Sup
  BY <1>1
<1>3. sup.busy <=> rd = "open"
  BY DEF Typed
<1>4. stack # <<>>
  BY DEF Open, Now
<1>5. Top.at = "typed" \/ sup' = sup
  BY DEF Open, Now, Top
<1>6. sup' = sup \/ sup' = [sup EXCEPT !.binary = Top.wait]
  BY DEF Open, Top
<1>7. sup' # sup => Top.wait \in {"unknown", "yes", "no"}
  BY RunningArgs, <1>4, <1>5
<1>8. sup' \in Sup /\ sup'.busy = sup.busy
  BY <1>2, <1>6, <1>7 DEF Sup
<1> QED  BY Bounds, <1>6, <1>7, <1>8 DEF Open, Now, Then, Return, Fine, Rest, remote,
                handles, Typed, PRELIM, COMPLETE

\* NotAccepted keeps the types.
LEMMA NotAcceptedTypes == ASSUME Typed, Shape, NotAccepted PROVE Typed'
<1>1. sup \in Sup /\ net \in Net /\ srv \in Srv /\ data \in Data
  BY DEF Typed
<1>2. sup \in Sup
  BY <1>1
<1>3. sup.busy <=> rd = "open"
  BY DEF Typed
<1>4. stack # <<>>
  BY DEF NotAccepted, Now
<1>5. data' \in Data
  BY DataEnds DEF NotAccepted, Typed
<1> QED  BY Bounds, <1>5 DEF NotAccepted, Now, Return, Trouble, Rest, handles, Typed, PRELIM

\* Abort keeps the types.
LEMMA AbortTypes == ASSUME Typed, Shape, Abort PROVE Typed'
<1>1. sup \in Sup /\ net \in Net /\ srv \in Srv /\ data \in Data
  BY DEF Typed
<1>2. sup \in Sup
  BY <1>1
<1>3. sup.busy <=> rd = "open"
  BY DEF Typed
<1>4. stack # <<>>
  BY DEF Abort, Now
<1>5. sup' \in Sup /\ (sup'.busy <=> rd' = "open")
  BY SupBusy DEF Abort, Typed
<1>6. data' \in Data
  BY DataEnds DEF Abort, Typed, Hangup
<1>7. net' = net \/ net' = [net EXCEPT !.reset = ~net.up]
  BY DEF Abort
<1>8. net.up = TRUE \/ net.up = FALSE
  BY <1>1, NetFields
<1>9. net' \in Net
  BY <1>1, <1>7, <1>8 DEF Net
<1> QED  BY Bounds, <1>5, <1>6, <1>7, <1>9 DEF Abort, Now, Fine, Rest, Typed, Hangup

\* Aborting keeps the types.
LEMMA AbortingTypes == ASSUME Typed, Shape, Aborting PROVE Typed'
<1>1. sup \in Sup /\ net \in Net /\ srv \in Srv /\ data \in Data
  BY DEF Typed
<1>2. sup \in Sup
  BY <1>1
<1>3. sup.busy <=> rd = "open"
  BY DEF Typed
<1>4. stack # <<>>
  BY DEF Aborting, Now
<1>5. data' \in Data
  BY DataEnds DEF Aborting, Typed, Hangup
<1> QED  BY Bounds, <1>5 DEF Aborting, Now, Fine, Rest, handles, Typed, COMPLETE, Hangup

\* Aborted keeps the types.
LEMMA AbortedTypes == ASSUME Typed, Shape, Aborted PROVE Typed'
<1>1. sup \in Sup /\ net \in Net /\ srv \in Srv /\ data \in Data
  BY DEF Typed
<1>2. sup \in Sup
  BY <1>1
<1>3. sup.busy <=> rd = "open"
  BY DEF Typed
<1>4. stack # <<>>
  BY DEF Aborted, Now
<1> QED  BY Bounds DEF Aborted, Now, Fine, Rest, remote, handles, Typed, TRANSIENT

\* Start keeps the types.
LEMMA StartTypes == ASSUME Typed, Shape, Start PROVE Typed'
<1>1. sup \in Sup /\ net \in Net /\ srv \in Srv /\ data \in Data
  BY DEF Typed
<1>2. sup \in Sup
  BY <1>1
<1>3. sup.busy <=> rd = "open"
  BY DEF Typed
<1>4. stack # <<>>
  BY DEF Start, Now
<1>5. sup' \in Sup /\ (sup'.busy <=> rd' = "open")
  BY SupBusy DEF Start, Typed
<1> QED  BY Bounds, <1>5 DEF Start, Now, Then, Return, Fine, Rest, remote, Typed

\* Read keeps the types.
LEMMA ReadTypes == ASSUME Typed, Shape, Read PROVE Typed'
<1>1. sup \in Sup /\ net \in Net /\ srv \in Srv /\ data \in Data
  BY DEF Typed
<1>2. sup \in Sup
  BY <1>1
<1>3. sup.busy <=> rd = "open"
  BY DEF Typed
<1>4. stack # <<>>
  BY DEF Read, Now
<1>5. sup' \in Sup /\ (sup'.busy <=> rd' = "open")
  BY SupBusy DEF Read, Typed
<1>6. \/ data' = data \/ data' = [data EXCEPT !.mine = FALSE]
      \/ data.n > 0 /\ data' = [data EXCEPT !.n = data.n - 1, !.done = data.done + 1]
  BY DEF Read, Hangup
<1>7. data' \in Data
  BY <1>1, <1>6, DataEnds, DataRead
<1> QED  BY Bounds, <1>5, <1>6, <1>7 DEF Read, Now, Then, Return, Fine, Trouble, Rest,
                Typed, COMPLETE, Hangup

\* Got keeps the types.
LEMMA GotTypes == ASSUME Typed, Shape, Got PROVE Typed'
<1>1. sup \in Sup /\ net \in Net /\ srv \in Srv /\ data \in Data
  BY DEF Typed
<1>2. sup \in Sup
  BY <1>1
<1>3. sup.busy <=> rd = "open"
  BY DEF Typed
<1>4. stack # <<>>
  BY DEF Got, Now
<1> QED  BY Bounds DEF Got, Now, Then, Return, Fine, Trouble, Rest, remote, handles, Typed

\* CloseRead keeps the types.
LEMMA CloseReadTypes == ASSUME Typed, Shape, CloseRead PROVE Typed'
<1>1. sup \in Sup /\ net \in Net /\ srv \in Srv /\ data \in Data
  BY DEF Typed
<1>2. sup \in Sup
  BY <1>1
<1>3. sup.busy <=> rd = "open"
  BY DEF Typed
<1>4. stack # <<>>
  BY DEF CloseRead, Now
<1> QED  BY Bounds DEF CloseRead, Now, Then, Return, Fine, Rest, remote, Typed

\* List keeps the types.
LEMMA ListTypes == ASSUME Typed, Shape, List PROVE Typed'
<1>1. sup \in Sup /\ net \in Net /\ srv \in Srv /\ data \in Data
  BY DEF Typed
<1>2. sup \in Sup
  BY <1>1
<1>3. sup.busy <=> rd = "open"
  BY DEF Typed
<1>4. stack # <<>>
  BY DEF List, Now
<1>5. \/ sup' = sup
      \/ sup' = [sup EXCEPT !.strict = "strict"]
      \/ sup' = [sup EXCEPT !.strict = IF sup.strict = "auto" THEN "daring" ELSE sup.strict]
  BY DEF List
<1>6. (IF sup.strict = "auto" THEN "daring" ELSE sup.strict) \in {"daring", sup.strict}
  OBVIOUS
<1>7. sup' \in Sup /\ sup'.busy = sup.busy
  BY <1>2, <1>5, <1>6 DEF Sup
<1>8. \/ data' = data \/ data' = [data EXCEPT !.mine = FALSE]
      \/ data' = [data EXCEPT !.mine = FALSE, !.done = data.n]
  BY DEF List, Hangup
<1>9. data' \in Data
  BY <1>1, <1>8, DataEnds, DataListed
<1>10. ret' \in {ret, -1, 0} /\ report' \in {report, "wrong", "listed"}
  BY DEF List, Then, Return
<1>11. trouble' = trouble \/ (trouble < MaxTrouble /\ trouble' = trouble + 1)
  BY DEF List, Fine, Trouble
<1>12. UNCHANGED <<opt, ops, net, srv, file, late, rd, wr, put>>
  BY DEF List, handles
<1> QED  BY Bounds, <1>7, <1>9, <1>10, <1>11, <1>12 DEF Typed

\* Store keeps the types.
LEMMA StoreTypes == ASSUME Typed, Shape, Store PROVE Typed'
<1>1. sup \in Sup /\ net \in Net /\ srv \in Srv /\ data \in Data
  BY DEF Typed
<1>2. sup \in Sup
  BY <1>1
<1>3. sup.busy <=> rd = "open"
  BY DEF Typed
<1>4. stack # <<>>
  BY DEF Store, Now
<1> QED  BY Bounds DEF Store, Now, Then, Fine, Rest, remote, Typed

\* Storing keeps the types.
LEMMA StoringTypes == ASSUME Typed, Shape, Storing PROVE Typed'
<1>1. sup \in Sup /\ net \in Net /\ srv \in Srv /\ data \in Data
  BY DEF Typed
<1>2. sup \in Sup
  BY <1>1
<1>3. sup.busy <=> rd = "open"
  BY DEF Typed
<1>4. stack # <<>>
  BY DEF Storing, Now
<1>5. data' = data \/ data' = [data EXCEPT !.n = data.n + 1]
  BY DEF Storing
<1>6. data' \in Data
  BY <1>1, <1>5, DataSent
<1> QED  BY Bounds, <1>5, <1>6 DEF Storing, Now, Then, Return, Fine, Trouble, Typed

\* CloseWrite keeps the types.
LEMMA CloseWriteTypes == ASSUME Typed, Shape, CloseWrite PROVE Typed'
<1>1. sup \in Sup /\ net \in Net /\ srv \in Srv /\ data \in Data
  BY DEF Typed
<1>2. sup \in Sup
  BY <1>1
<1>3. sup.busy <=> rd = "open"
  BY DEF Typed
<1>4. stack # <<>>
  BY DEF CloseWrite, Now
<1>5. data' \in Data
  BY DataEnds DEF CloseWrite, Typed, Hangup
<1> QED  BY Bounds, <1>5 DEF CloseWrite, Now, Then, Return, Fine, Typed, COMPLETE, Hangup

\* Renamed keeps the types.
LEMMA RenamedTypes == ASSUME Typed, Shape, Renamed PROVE Typed'
<1>1. sup \in Sup /\ net \in Net /\ srv \in Srv /\ data \in Data
  BY DEF Typed
<1>2. sup \in Sup
  BY <1>1
<1>3. sup.busy <=> rd = "open"
  BY DEF Typed
<1>4. stack # <<>>
  BY DEF Renamed, Now
<1> QED  BY Bounds DEF Renamed, Now, Then, Fine, Rest, remote, handles, Typed

-----------------------------------------------------------------------------
(* What a step does to the call stack                                       *)

\* The running function returns.
LEMMA Popped ==
  ASSUME Chain(stack), stack # <<>>, stack' = Tail(stack)
  PROVE  /\ Chain(stack')
         /\ stack' = <<>> <=> Beneath(stack) = "-"
         /\ stack' # <<>> => Top'.at = Beneath(stack) /\ Bottom(stack') = Bottom(stack)
  BY PopFits DEF Top, Bottom

\* The function that is alone on the stack is the first one called.
LEMMA Alone ==
  ASSUME NEW s, Chain(s), s # <<>>, Beneath(s) = "-"
  PROVE  Tail(s) = <<>> /\ Bottom(s) = Head(s).at
<1>1. s \in Seq(Frames) /\ Head(s) = s[1] /\ Len(s) \in Nat /\ Tail(s) = <<>>
  BY TopFits, PopFits
<1>2. Len(s) = 1
  <2>1. Tail(s) \in Seq(Frames) /\ Len(Tail(s)) = Len(s) - 1
    BY <1>1, SeqTail
  <2> QED  BY <1>1, <2>1, SeqEmpty
<1> QED  BY <1>1, <1>2 DEF Bottom

\* Another one takes its place ...
LEMMA Put1 ==
  ASSUME Chain(stack), stack # <<>>, NEW f \in Frames, Fits(f, Beneath(stack)),
         stack' = <<f>> \o Tail(stack)
  PROVE  /\ Chain(stack') /\ stack' # <<>> /\ Top' = f /\ Beneath(stack') = Beneath(stack)
         /\ Bottom(stack') = IF Tail(stack) = <<>> THEN f.at ELSE Bottom(stack)
<1>1. /\ Chain(Tail(stack)) /\ (Tail(stack) = <<>> <=> Beneath(stack) = "-")
      /\ Tail(stack) # <<>> => /\ Head(Tail(stack)).at = Beneath(stack)
                               /\ Tail(stack)[Len(Tail(stack))] = stack[Len(stack)]
  BY PopFits
<1>2. At(Tail(stack)) = Beneath(stack)
  BY <1>1 DEF At
<1> DEFINE s == Tail(stack)
<1>3. /\ Chain(<<f>> \o s) /\ <<f>> \o s # <<>>
      /\ Head(<<f>> \o s) = f /\ Beneath(<<f>> \o s) = At(s)
      /\ s # <<>> => (<<f>> \o s)[Len(<<f>> \o s)] = s[Len(s)]
      /\ s = <<>> => (<<f>> \o s)[Len(<<f>> \o s)] = f
  <2> HIDE DEF s
  <2> QED  BY <1>1, <1>2, PushFits DEF s
<1> QED  BY <1>1, <1>2, <1>3 DEF Top, Bottom

\* ... or one that calls another, and so on.
LEMMA Put2 ==
  ASSUME Chain(stack), stack # <<>>, NEW f \in Frames, NEW g \in Frames,
         Fits(g, Beneath(stack)), Fits(f, g.at), stack' = <<f, g>> \o Tail(stack)
  PROVE  /\ Chain(stack') /\ stack' # <<>> /\ Top' = f /\ Beneath(stack') = g.at
         /\ Bottom(stack') = IF Tail(stack) = <<>> THEN g.at ELSE Bottom(stack)
<1> DEFINE s == Tail(stack)
           t == <<g>> \o s
<1>1. /\ Chain(s) /\ (s = <<>> <=> Beneath(stack) = "-")
      /\ s # <<>> => Head(s).at = Beneath(stack) /\ s[Len(s)] = stack[Len(stack)]
  BY PopFits
<1>2. At(s) = Beneath(stack)
  BY <1>1 DEF At
<1>3. s \in Seq(Frames)
  BY <1>1 DEF Chain
<1> HIDE DEF s
<1>4. /\ Chain(t) /\ t # <<>> /\ At(t) = g.at
      /\ s # <<>> => t[Len(t)] = s[Len(s)]
      /\ s = <<>> => t[Len(t)] = g
  BY <1>1, <1>2, PushFits
<1> HIDE DEF t
<1>5. /\ Chain(<<f>> \o t) /\ <<f>> \o t # <<>>
      /\ Head(<<f>> \o t) = f /\ Beneath(<<f>> \o t) = At(t)
      /\ (<<f>> \o t)[Len(<<f>> \o t)] = t[Len(t)]
  BY <1>4, PushFits
<1>6. stack' = <<f>> \o t
  <2>1. Over2(f, g, s) = Over1(f, Over1(g, s))
    BY <1>3, Before2
  <2> QED  BY <2>1 DEF s, t, Over1, Over2
<1> QED  BY <1>1, <1>4, <1>5, <1>6 DEF Top, Bottom, s

\* ... or one that is the fourth of a chain of calls.
LEMMA Put4 ==
  ASSUME Chain(stack), stack # <<>>, NEW f \in Frames, NEW g \in Frames, NEW h \in Frames,
         NEW i \in Frames,
         Fits(i, Beneath(stack)), Fits(h, i.at), Fits(g, h.at), Fits(f, g.at),
         stack' = <<f, g, h, i>> \o Tail(stack)
  PROVE  /\ Chain(stack') /\ stack' # <<>> /\ Top' = f /\ Beneath(stack') = g.at
         /\ Bottom(stack') = IF Tail(stack) = <<>> THEN i.at ELSE Bottom(stack)
<1> DEFINE s == Tail(stack)
           t == <<i>> \o s
           u == <<h>> \o t
           v == <<g>> \o u
<1>1. /\ Chain(s) /\ (s = <<>> <=> Beneath(stack) = "-")
      /\ s # <<>> => Head(s).at = Beneath(stack) /\ s[Len(s)] = stack[Len(stack)]
  BY PopFits
<1>2. At(s) = Beneath(stack)
  BY <1>1 DEF At
<1>3. s \in Seq(Frames)
  BY <1>1 DEF Chain
<1>4. stack' = <<f>> \o v
  <2>1. Over4(f, g, h, i, s) = Over1(f, Over1(g, Over1(h, Over1(i, s))))
    <3> HIDE DEF s
    <3> QED  BY <1>3, Four
  <2> QED  BY <2>1 DEF s, t, u, v, Over1, Over4
<1> HIDE DEF s
<1>5. /\ Chain(t) /\ t # <<>> /\ At(t) = i.at
      /\ s # <<>> => t[Len(t)] = s[Len(s)]
      /\ s = <<>> => t[Len(t)] = i
  BY <1>1, <1>2, PushFits
<1> HIDE DEF t
<1>6. Chain(u) /\ u # <<>> /\ At(u) = h.at /\ u[Len(u)] = t[Len(t)]
  BY <1>5, PushFits
<1> HIDE DEF u
<1>7. Chain(v) /\ v # <<>> /\ At(v) = g.at /\ v[Len(v)] = u[Len(u)]
  BY <1>6, PushFits
<1> HIDE DEF v
<1>8. /\ Chain(<<f>> \o v) /\ <<f>> \o v # <<>>
      /\ Head(<<f>> \o v) = f /\ Beneath(<<f>> \o v) = At(v)
      /\ (<<f>> \o v)[Len(<<f>> \o v)] = v[Len(v)]
  BY <1>7, PushFits
<1> QED  BY <1>1, <1>5, <1>4, <1>6, <1>7, <1>8 DEF Top, Bottom, s

\* A transfer begins with the agreement on a data connection.
LEMMA AttemptFrame ==
  ASSUME NEW cmd \in {"PASV", "EPSV", "PORT", "EPRT"}
  PROVE  /\ Attempt(cmd) \in Frames /\ Attempt(cmd).at = "command" /\ Attempt(cmd).arg = cmd
         /\ Attempt(cmd).wait # "none"
         /\ Attempt(cmd).wait = "string" => cmd \in {"PASV", "EPSV"}
<1>1. cmd \in Commands
  BY DEF Commands
<1>2. /\ CommandString(cmd) \in Frames /\ CommandString(cmd).at = "command"
      /\ CommandString(cmd).arg = cmd /\ CommandString(cmd).wait = "string"
  BY <1>1 DEF CommandString, Frames
<1>3. /\ Command(cmd) \in Frames /\ Command(cmd).at = "command"
      /\ Command(cmd).arg = cmd /\ Command(cmd).wait = "reply"
  BY <1>1 DEF Command, Frames
<1> QED  BY <1>2, <1>3 DEF Attempt

\* So does every caller of ftpfs_open_data_connection.
LEMMA PutTransfer ==
  ASSUME Chain(stack), stack # <<>>, NEW cmd \in Transfers, NEW b \in {"yes", "no"},
         NEW i \in Frames, i.at \in {"started", "listing", "storing"}, Fits(i, Beneath(stack)),
         stack' = (DataConnection(cmd, b) \o <<i>>) \o Tail(stack)
  PROVE  /\ Chain(stack') /\ stack' # <<>> /\ Top'.at = "command" /\ Top'.arg \in {"PASV", "PORT"}
         /\ Beneath(stack') = "agreed"
         /\ Bottom(stack') = IF Tail(stack) = <<>> THEN i.at ELSE Bottom(stack)
<1>1. PICK first \in {"PASV", "PORT"} :
        DataConnection(cmd, b) = <<Attempt(first), With("agreed", first),
                                   [at |-> "type", arg |-> cmd, wait |-> b]>>
  BY DEF DataConnection
<1> DEFINE f == Attempt(first)
           g == With("agreed", first)
           h == [at |-> "type", arg |-> cmd, wait |-> b]
<1>2. f \in Frames /\ f.at = "command" /\ f.arg = first /\ f.wait # "none"
      /\ (f.wait = "string" => first \in {"PASV", "EPSV"})
  BY AttemptFrame
<1>3. g \in Frames /\ g.at = "agreed" /\ g.arg = first
  BY DEF With, Frames, Commands
<1>4. h \in Frames /\ h.at = "type" /\ h.arg = cmd /\ h.wait = b
  BY DEF Frames, Commands, Transfers
<1>5. DataConnection(cmd, b) = <<f, g, h>>
  BY <1>1
<1> HIDE DEF f, g, h
<1>6. stack' = <<f, g, h, i>> \o Tail(stack)
  BY <1>2, <1>3, <1>4, <1>5, AfterThree
<1>7. Fits(h, i.at) /\ Fits(g, h.at) /\ Fits(f, g.at)
  BY <1>2, <1>3, <1>4 DEF Fits, Awaits
<1> QED  BY <1>2, <1>3, <1>4, <1>6, <1>7, Put4

\* A function that reads or closes a file does so for one that does.
LEMMA ReadsAbove ==
  ASSUME Chain(stack), stack # <<>>, Top.at \in {"start", "started", "abort"}
  PROVE  Bottom(stack) \notin {"store", "storing"}
<1> DEFINE C(X) == \A j \in 1 .. Len(stack) : stack[j].at \in X =>
                     stack[Len(stack)].at \notin {"store", "storing"}
<1>1. stack \in Seq(Frames) /\ Top = stack[1] /\ Len(stack) \in Nat /\ Len(stack) >= 1
  BY TopFits DEF Top
<1>2. ASSUME NEW j \in 1 .. Len(stack), j # Len(stack)
      PROVE  j + 1 \in 1 .. Len(stack) /\ Fits(stack[j], stack[j + 1].at)
  <2>1. j < Len(stack) /\ j + 1 \in 1 .. Len(stack)
    BY <1>1, <1>2
  <2>2. Fits(stack[j], Caller(stack, j))
    BY DEF Chain
  <2> QED  BY <2>1, <2>2 DEF Caller
<1>3. C({"closewrite"})
  BY <1>2 DEF Fits
<1>4. C({"closeread"})
  BY <1>2, <1>3 DEF Fits
<1>5. C({"got"})
  BY <1>2, <1>4 DEF Fits
<1>6. C({"first", "fail"})
  BY <1>2, <1>5 DEF Fits
<1>7. C({"start", "started", "abort"})
  BY <1>2, <1>4, <1>6 DEF Fits
<1>8. 1 \in 1 .. Len(stack)
  BY <1>1
<1> QED  BY <1>1, <1>7, <1>8 DEF Bottom

-----------------------------------------------------------------------------
(* What a step does to what is due                                          *)

\* Nothing is sent or received.
LEMMA SameDue ==
  ASSUME net' = net, srv' = srv
  PROVE  /\ NoneDue' = NoneDue /\ OneDue' = OneDue /\ EndDue' = EndDue
         /\ AborDue' = AborDue /\ BothDue' = BothDue /\ TransferDue' = TransferDue
  BY DEF NoneDue, OneDue, EndDue, AborDue, BothDue, TransferDue

\* ... and the connection is the one it was.
Silent == net' = net /\ srv' = srv /\ late' = late /\ sup'.sock = sup.sock /\ opt' = opt

\* It is sound as before.
LEMMA SilentLive == ASSUME Silent PROVE Live' = Live
  BY DEF Silent, Live

\* The reply that ends a transfer is one reply.
LEMMA EndIsOne == EndDue => OneDue
  BY DEF EndDue, OneDue

\* The directory is set again.
LEMMA ReloggedKeeps == ASSUME Typed, Shape, Owed, Relogged PROVE Shape' /\ Owed'
<1>1. stack # <<>> /\ Top.at \in {"relogged"}
  BY DEF Relogged, Now, Top
<1>2. Chain(stack) /\ Top \in Frames /\ Fits(Top, Beneath(stack)) /\ rd # "open"
  BY <1>1, Running DEF Shape, Readings
<1>3. sup'.sock = sup.sock /\ sup'.code = sup.code /\ sup'.from = sup.from
  <2>1. sup' = sup \/ sup' = [sup EXCEPT !.cwd = Top.arg]
    BY DEF Relogged, Top
  <2> QED  BY <2>1 DEF Typed, Sup
<1>4. Silent /\ rd' = rd /\ wr' = wr
  BY <1>3 DEF Relogged, remote, handles, Rest, Silent
<1>5. \/ Top.at = "relogged" /\ stack' = Tail(stack)
      \/ /\ Top.at = "relogged" /\ Top.arg # "none"
         /\ stack' = <<With("chdir", Top.arg), Frame("rechdir")>> \o Tail(stack)
  BY DEF Relogged, Now, Top, Then, Return
<1>6. ASSUME Top.at = "relogged" /\ stack' = Tail(stack)
      PROVE  Shape' /\ Owed'
  <2>1. Beneath(stack) \in {"again", "retried", "fail", "closeread"}
    BY <1>1, <1>2, <1>6 DEF Fits
  <2>2. /\ Chain(stack') /\ (stack' = <<>> <=> Beneath(stack) = "-")
        /\ stack' # <<>> => Top'.at = Beneath(stack) /\ Bottom(stack') = Bottom(stack)
    BY <1>1, <1>2, <1>6, Popped
  <2>3. /\ NoneDue' = NoneDue /\ OneDue' = OneDue /\ EndDue' = EndDue
        /\ AborDue' = AborDue /\ BothDue' = BothDue /\ Live' = Live
    BY <1>4, SameDue, SilentLive DEF Silent
  <2>4. Live => NoneDue
    BY <1>1, <1>2, <1>6 DEF Owed, Due, PRELIM, COMPLETE, TRANSIENT
  <2>5. Live' => IF stack' = <<>> THEN NoneDue' ELSE Due'
    BY <1>1, <1>2, <1>3, <1>4, <1>6, <2>1, <2>2, <2>3, <2>4, EndIsOne
       DEF Due, Transfers, PRELIM, COMPLETE, TRANSIENT
  <2>6. "copy" \notin opt.ops => Writing'
    BY <1>1, <1>2, <1>4, <1>6, <2>1, <2>2 DEF Owed, Writing
  <2>7. Shape'
    BY <1>1, <1>2, <1>4, <1>6, <2>1, <2>2 DEF Shape, Silent
  <2> QED  BY <1>4, <2>5, <2>6, <2>7 DEF Owed, Silent
<1>7. ASSUME /\ Top.at = "relogged" /\ Top.arg # "none"
             /\ stack' = <<With("chdir", Top.arg), Frame("rechdir")>> \o Tail(stack)
      PROVE  Shape' /\ Owed'
  <2>1. Top.arg \in {"home", "sub"}
    BY <1>2, <1>7 DEF Fits, Places
  <2> DEFINE f == With("chdir", Top.arg)
             g == Frame("rechdir")
  <2>2. f \in Frames /\ f.at = "chdir" /\ f.arg = Top.arg
    BY <1>1, <1>2, <1>7, <2>1 DEF Frame, With, Frames, Commands
  <2>3. g \in Frames /\ g.at = "rechdir"
    BY <1>1, <1>2, <1>7, <2>1 DEF Frame, With, Frames, Commands
  <2>4. stack' = <<f, g>> \o Tail(stack)
    BY <1>7, <2>1
  <2> HIDE DEF f, g
  <2>5. Fits(g, Beneath(stack))
    BY <1>1, <1>2, <1>7, <2>3, <2>1 DEF Fits, Awaits, Places, Transfers
  <2>6. Fits(f, g.at)
    BY <1>2, <1>7, <2>2, <2>3, <2>1 DEF Fits, Awaits, Places, Transfers
  <2>7. /\ Chain(stack') /\ stack' # <<>> /\ Top' = f /\ Beneath(stack') = g.at
        /\ Bottom(stack') = IF Tail(stack) = <<>> THEN g.at ELSE Bottom(stack)
    BY <1>1, <1>2, <2>4, <2>2, <2>3, <2>5, <2>6, Put2
  <2>8. /\ NoneDue' = NoneDue /\ OneDue' = OneDue /\ EndDue' = EndDue
        /\ AborDue' = AborDue /\ BothDue' = BothDue /\ Live' = Live
    BY <1>4, SameDue, SilentLive DEF Silent
  <2>9. Live => NoneDue
    BY <1>1, <1>2, <1>7 DEF Owed, Due, PRELIM, COMPLETE, TRANSIENT
  <2>10. Live' => IF stack' = <<>> THEN NoneDue' ELSE Due'
    BY <1>1, <1>2, <1>3, <1>4, <1>7, <2>2, <2>3, <2>7, <2>8, <2>9, EndIsOne
       DEF Due, Transfers, PRELIM, COMPLETE, TRANSIENT
  <2>11. "copy" \notin opt.ops => Writing'
    BY <1>1, <1>2, <1>4, <1>7, <2>2, <2>3, <2>7 DEF Owed, Writing
  <2>12. Shape'
    BY <1>1, <1>2, <1>4, <1>7, <2>2, <2>3, <2>7 DEF Shape, Silent
  <2> QED  BY <1>4, <2>10, <2>11, <2>12 DEF Owed, Silent
<1> QED  BY <1>5, <1>6, <1>7

\* ... and reconnecting ends.
LEMMA RechdirKeeps == ASSUME Typed, Shape, Owed, Rechdir PROVE Shape' /\ Owed'
<1>1. stack # <<>> /\ Top.at \in {"rechdir"}
  BY DEF Rechdir, Now, Top
<1>2. Chain(stack) /\ Top \in Frames /\ Fits(Top, Beneath(stack)) /\ rd # "open"
  BY <1>1, Running DEF Shape, Readings
<1>3. sup' = sup
  BY DEF Rechdir
<1>4. Silent /\ rd' = rd /\ wr' = wr
  BY <1>3 DEF Rechdir, remote, handles, Rest, Silent
<1>5. stack' = Tail(stack)
  BY DEF Rechdir, Now, Return, COMPLETE
<1>6. ASSUME stack' = Tail(stack)
      PROVE  Shape' /\ Owed'
  <2>1. Beneath(stack) \in {"again", "retried", "fail", "closeread"}
    BY <1>1, <1>2, <1>6 DEF Fits
  <2>2. /\ Chain(stack') /\ (stack' = <<>> <=> Beneath(stack) = "-")
        /\ stack' # <<>> => Top'.at = Beneath(stack) /\ Bottom(stack') = Bottom(stack)
    BY <1>1, <1>2, <1>6, Popped
  <2>3. /\ NoneDue' = NoneDue /\ OneDue' = OneDue /\ EndDue' = EndDue
        /\ AborDue' = AborDue /\ BothDue' = BothDue /\ Live' = Live
    BY <1>4, SameDue, SilentLive DEF Silent
  <2>4. Live => NoneDue
    BY <1>1, <1>2, <1>6 DEF Owed, Due, PRELIM, COMPLETE, TRANSIENT
  <2>5. Live' => IF stack' = <<>> THEN NoneDue' ELSE Due'
    BY <1>1, <1>2, <1>3, <1>4, <1>6, <2>1, <2>2, <2>3, <2>4, EndIsOne
       DEF Due, Transfers, PRELIM, COMPLETE, TRANSIENT
  <2>6. "copy" \notin opt.ops => Writing'
    BY <1>1, <1>2, <1>4, <1>6, <2>1, <2>2 DEF Owed, Writing
  <2>7. Shape'
    BY <1>1, <1>2, <1>4, <1>6, <2>1, <2>2 DEF Shape, Silent
  <2> QED  BY <1>4, <2>5, <2>6, <2>7 DEF Owed, Silent
<1> QED  BY <1>5, <1>6

\* Logging in waits for the greeting and for the answers to its commands.
LEMMA LoginKeeps == ASSUME Typed, Shape, Owed, Login PROVE Shape' /\ Owed'
<1>1. stack # <<>> /\ Top.at \in {"login", "greeted", "named", "passed"}
  BY DEF Login, Now, Top
<1>2. Chain(stack) /\ Top \in Frames /\ Fits(Top, Beneath(stack)) /\ rd # "open"
  BY <1>1, Running DEF Shape, Readings
<1>3. sup'.sock = sup.sock /\ sup'.code = sup.code /\ sup'.from = sup.from
  <2>1. \/ sup' = sup \/ sup' = [sup EXCEPT !.binary = "unknown", !.failed = FALSE]
        \/ sup' = [sup EXCEPT !.failed = TRUE]
    BY DEF Login
  <2> QED  BY <2>1, SupLogin, SupRefused DEF Typed
<1>4. Silent /\ rd' = rd /\ wr' = wr
  BY <1>3 DEF Login, remote, handles, Rest, Silent
<1>5. \/ /\ Top.at = "login"
         /\ stack' = <<GetReply, Frame("greeted")>> \o Tail(stack)
      \/ /\ Top.at = "greeted"
         /\ stack' = <<Command("USER"), Frame("named")>> \o Tail(stack)
      \/ /\ Top.at = "named"
         /\ stack' = <<Command("PASS"), Frame("passed")>> \o Tail(stack)
      \/ stack' = Tail(stack) /\ Top.at # "login"
  BY DEF Login, Now, Top, Then, Return, COMPLETE, CONTINUE
<1>6. ASSUME /\ Top.at = "login"
             /\ stack' = <<GetReply, Frame("greeted")>> \o Tail(stack)
      PROVE  Shape' /\ Owed'
  <2> DEFINE f == GetReply
             g == Frame("greeted")
  <2>1. f \in Frames /\ f.at = "reply" /\ f.arg = "-" /\ f.wait = "-"
    BY <1>1, <1>2, <1>6 DEF Frame, Command, GetReply, Frames, Commands
  <2>2. g \in Frames /\ g.at = "greeted"
    BY <1>1, <1>2, <1>6 DEF Frame, Command, GetReply, Frames, Commands
  <2>3. stack' = <<f, g>> \o Tail(stack)
    BY <1>6
  <2> HIDE DEF f, g
  <2>4. Fits(g, Beneath(stack))
    BY <1>1, <1>2, <1>6, <2>2 DEF Fits, Awaits, Places, Transfers
  <2>5. Fits(f, g.at)
    BY <1>2, <1>6, <2>1, <2>2 DEF Fits, Awaits, Places, Transfers
  <2>6. /\ Chain(stack') /\ stack' # <<>> /\ Top' = f /\ Beneath(stack') = g.at
        /\ Bottom(stack') = IF Tail(stack) = <<>> THEN g.at ELSE Bottom(stack)
    BY <1>1, <1>2, <2>3, <2>1, <2>2, <2>4, <2>5, Put2
  <2>7. /\ NoneDue' = NoneDue /\ OneDue' = OneDue /\ EndDue' = EndDue
        /\ AborDue' = AborDue /\ BothDue' = BothDue /\ Live' = Live
    BY <1>4, SameDue, SilentLive DEF Silent
  <2>8. Live => OneDue
    BY <1>1, <1>2, <1>6 DEF Owed, Due, PRELIM, COMPLETE, TRANSIENT
  <2>9. Live' => IF stack' = <<>> THEN NoneDue' ELSE Due'
    BY <1>1, <1>2, <1>3, <1>4, <1>6, <2>1, <2>2, <2>6, <2>7, <2>8, EndIsOne
       DEF Due, Transfers, PRELIM, COMPLETE, TRANSIENT
  <2>10. "copy" \notin opt.ops => Writing'
    BY <1>1, <1>2, <1>4, <1>6, <2>1, <2>2, <2>6 DEF Owed, Writing
  <2>11. Shape'
    BY <1>1, <1>2, <1>4, <1>6, <2>1, <2>2, <2>6 DEF Shape, Silent
  <2> QED  BY <1>4, <2>9, <2>10, <2>11 DEF Owed, Silent
<1>7. ASSUME /\ Top.at = "greeted"
             /\ stack' = <<Command("USER"), Frame("named")>> \o Tail(stack)
      PROVE  Shape' /\ Owed'
  <2> DEFINE f == Command("USER")
             g == Frame("named")
  <2>1. f \in Frames /\ f.at = "command" /\ f.arg = "USER" /\ f.wait = "reply"
    BY <1>1, <1>2, <1>7 DEF Frame, Command, GetReply, Frames, Commands
  <2>2. g \in Frames /\ g.at = "named"
    BY <1>1, <1>2, <1>7 DEF Frame, Command, GetReply, Frames, Commands
  <2>3. stack' = <<f, g>> \o Tail(stack)
    BY <1>7
  <2> HIDE DEF f, g
  <2>4. Fits(g, Beneath(stack))
    BY <1>1, <1>2, <1>7, <2>2 DEF Fits, Awaits, Places, Transfers
  <2>5. Fits(f, g.at)
    BY <1>2, <1>7, <2>1, <2>2 DEF Fits, Awaits, Places, Transfers
  <2>6. /\ Chain(stack') /\ stack' # <<>> /\ Top' = f /\ Beneath(stack') = g.at
        /\ Bottom(stack') = IF Tail(stack) = <<>> THEN g.at ELSE Bottom(stack)
    BY <1>1, <1>2, <2>3, <2>1, <2>2, <2>4, <2>5, Put2
  <2>7. /\ NoneDue' = NoneDue /\ OneDue' = OneDue /\ EndDue' = EndDue
        /\ AborDue' = AborDue /\ BothDue' = BothDue /\ Live' = Live
    BY <1>4, SameDue, SilentLive DEF Silent
  <2>8. Live => NoneDue
    BY <1>1, <1>2, <1>7 DEF Owed, Due, PRELIM, COMPLETE, TRANSIENT
  <2>9. Live' => IF stack' = <<>> THEN NoneDue' ELSE Due'
    BY <1>1, <1>2, <1>3, <1>4, <1>7, <2>1, <2>2, <2>6, <2>7, <2>8, EndIsOne
       DEF Due, Transfers, PRELIM, COMPLETE, TRANSIENT
  <2>10. "copy" \notin opt.ops => Writing'
    BY <1>1, <1>2, <1>4, <1>7, <2>1, <2>2, <2>6 DEF Owed, Writing
  <2>11. Shape'
    BY <1>1, <1>2, <1>4, <1>7, <2>1, <2>2, <2>6 DEF Shape, Silent
  <2> QED  BY <1>4, <2>9, <2>10, <2>11 DEF Owed, Silent
<1>8. ASSUME /\ Top.at = "named"
             /\ stack' = <<Command("PASS"), Frame("passed")>> \o Tail(stack)
      PROVE  Shape' /\ Owed'
  <2> DEFINE f == Command("PASS")
             g == Frame("passed")
  <2>1. f \in Frames /\ f.at = "command" /\ f.arg = "PASS" /\ f.wait = "reply"
    BY <1>1, <1>2, <1>8 DEF Frame, Command, GetReply, Frames, Commands
  <2>2. g \in Frames /\ g.at = "passed"
    BY <1>1, <1>2, <1>8 DEF Frame, Command, GetReply, Frames, Commands
  <2>3. stack' = <<f, g>> \o Tail(stack)
    BY <1>8
  <2> HIDE DEF f, g
  <2>4. Fits(g, Beneath(stack))
    BY <1>1, <1>2, <1>8, <2>2 DEF Fits, Awaits, Places, Transfers
  <2>5. Fits(f, g.at)
    BY <1>2, <1>8, <2>1, <2>2 DEF Fits, Awaits, Places, Transfers
  <2>6. /\ Chain(stack') /\ stack' # <<>> /\ Top' = f /\ Beneath(stack') = g.at
        /\ Bottom(stack') = IF Tail(stack) = <<>> THEN g.at ELSE Bottom(stack)
    BY <1>1, <1>2, <2>3, <2>1, <2>2, <2>4, <2>5, Put2
  <2>7. /\ NoneDue' = NoneDue /\ OneDue' = OneDue /\ EndDue' = EndDue
        /\ AborDue' = AborDue /\ BothDue' = BothDue /\ Live' = Live
    BY <1>4, SameDue, SilentLive DEF Silent
  <2>8. Live => NoneDue
    BY <1>1, <1>2, <1>8 DEF Owed, Due, PRELIM, COMPLETE, TRANSIENT
  <2>9. Live' => IF stack' = <<>> THEN NoneDue' ELSE Due'
    BY <1>1, <1>2, <1>3, <1>4, <1>8, <2>1, <2>2, <2>6, <2>7, <2>8, EndIsOne
       DEF Due, Transfers, PRELIM, COMPLETE, TRANSIENT
  <2>10. "copy" \notin opt.ops => Writing'
    BY <1>1, <1>2, <1>4, <1>8, <2>1, <2>2, <2>6 DEF Owed, Writing
  <2>11. Shape'
    BY <1>1, <1>2, <1>4, <1>8, <2>1, <2>2, <2>6 DEF Shape, Silent
  <2> QED  BY <1>4, <2>9, <2>10, <2>11 DEF Owed, Silent
<1>9. ASSUME stack' = Tail(stack) /\ Top.at # "login"
      PROVE  Shape' /\ Owed'
  <2>1. Beneath(stack) \in {"relogged", "connected"}
    BY <1>1, <1>2, <1>9 DEF Fits
  <2>2. /\ Chain(stack') /\ (stack' = <<>> <=> Beneath(stack) = "-")
        /\ stack' # <<>> => Top'.at = Beneath(stack) /\ Bottom(stack') = Bottom(stack)
    BY <1>1, <1>2, <1>9, Popped
  <2>3. /\ NoneDue' = NoneDue /\ OneDue' = OneDue /\ EndDue' = EndDue
        /\ AborDue' = AborDue /\ BothDue' = BothDue /\ Live' = Live
    BY <1>4, SameDue, SilentLive DEF Silent
  <2>4. Live => NoneDue
    BY <1>1, <1>2, <1>9 DEF Owed, Due, PRELIM, COMPLETE, TRANSIENT
  <2>5. Live' => IF stack' = <<>> THEN NoneDue' ELSE Due'
    BY <1>1, <1>2, <1>3, <1>4, <1>9, <2>1, <2>2, <2>3, <2>4, EndIsOne
       DEF Due, Transfers, PRELIM, COMPLETE, TRANSIENT
  <2>6. "copy" \notin opt.ops => Writing'
    BY <1>1, <1>2, <1>4, <1>9, <2>1, <2>2 DEF Owed, Writing
  <2>7. Shape'
    BY <1>1, <1>2, <1>4, <1>9, <2>1, <2>2 DEF Shape, Silent
  <2> QED  BY <1>4, <2>5, <2>6, <2>7 DEF Owed, Silent
<1> QED  BY <1>5, <1>6, <1>7, <1>8, <1>9

\* The directory of the server is asked for once it is known that it answers.
LEMMA CurrentDirectoryKeeps == ASSUME Typed, Shape, Owed, CurrentDirectory PROVE Shape' /\ Owed'
<1>1. stack # <<>> /\ Top.at \in {"pwd", "pwd_reply"}
  BY DEF CurrentDirectory, Now, Top
<1>2. Chain(stack) /\ Top \in Frames /\ Fits(Top, Beneath(stack)) /\ rd # "open"
  BY <1>1, Running DEF Shape, Readings
<1>3. sup'.sock = sup.sock /\ sup'.code = sup.code /\ sup'.from = sup.from
  <2>1. sup' = sup \/ sup' = [sup EXCEPT !.cwd = "home"]
    BY DEF CurrentDirectory
  <2> QED  BY <2>1 DEF Typed, Sup
<1>4. Silent /\ rd' = rd /\ wr' = wr
  BY <1>3 DEF CurrentDirectory, remote, handles, Rest, Silent
<1>5. \/ /\ Top.at = "pwd" /\ ret = COMPLETE
         /\ stack' = <<GetReply, Frame("pwd_reply")>> \o Tail(stack)
      \/ stack' = Tail(stack) /\ (Top.at = "pwd" => ret # COMPLETE)
  BY DEF CurrentDirectory, Now, Top, Then, Return, COMPLETE
<1>6. ASSUME /\ Top.at = "pwd" /\ ret = COMPLETE
             /\ stack' = <<GetReply, Frame("pwd_reply")>> \o Tail(stack)
      PROVE  Shape' /\ Owed'
  <2> DEFINE f == GetReply
             g == Frame("pwd_reply")
  <2>1. f \in Frames /\ f.at = "reply" /\ f.arg = "-" /\ f.wait = "-"
    BY <1>1, <1>2, <1>6 DEF Frame, GetReply, Frames, Commands
  <2>2. g \in Frames /\ g.at = "pwd_reply"
    BY <1>1, <1>2, <1>6 DEF Frame, GetReply, Frames, Commands
  <2>3. stack' = <<f, g>> \o Tail(stack)
    BY <1>6
  <2> HIDE DEF f, g
  <2>4. Fits(g, Beneath(stack))
    BY <1>1, <1>2, <1>6, <2>2 DEF Fits, Awaits, Places, Transfers
  <2>5. Fits(f, g.at)
    BY <1>2, <1>6, <2>1, <2>2 DEF Fits, Awaits, Places, Transfers
  <2>6. /\ Chain(stack') /\ stack' # <<>> /\ Top' = f /\ Beneath(stack') = g.at
        /\ Bottom(stack') = IF Tail(stack) = <<>> THEN g.at ELSE Bottom(stack)
    BY <1>1, <1>2, <2>3, <2>1, <2>2, <2>4, <2>5, Put2
  <2>7. /\ NoneDue' = NoneDue /\ OneDue' = OneDue /\ EndDue' = EndDue
        /\ AborDue' = AborDue /\ BothDue' = BothDue /\ Live' = Live
    BY <1>4, SameDue, SilentLive DEF Silent
  <2>8. Live => OneDue
    BY <1>1, <1>2, <1>6 DEF Owed, Due, PRELIM, COMPLETE, TRANSIENT
  <2>9. Live' => IF stack' = <<>> THEN NoneDue' ELSE Due'
    BY <1>1, <1>2, <1>3, <1>4, <1>6, <2>1, <2>2, <2>6, <2>7, <2>8, EndIsOne
       DEF Due, Transfers, PRELIM, COMPLETE, TRANSIENT
  <2>10. "copy" \notin opt.ops => Writing'
    BY <1>1, <1>2, <1>4, <1>6, <2>1, <2>2, <2>6 DEF Owed, Writing
  <2>11. Shape'
    BY <1>1, <1>2, <1>4, <1>6, <2>1, <2>2, <2>6 DEF Shape, Silent
  <2> QED  BY <1>4, <2>9, <2>10, <2>11 DEF Owed, Silent
<1>7. ASSUME stack' = Tail(stack) /\ (Top.at = "pwd" => ret # COMPLETE)
      PROVE  Shape' /\ Owed'
  <2>1. Beneath(stack) \in {"list", "command", "read", "store"}
    BY <1>1, <1>2, <1>7 DEF Fits
  <2>2. /\ Chain(stack') /\ (stack' = <<>> <=> Beneath(stack) = "-")
        /\ stack' # <<>> => Top'.at = Beneath(stack) /\ Bottom(stack') = Bottom(stack)
    BY <1>1, <1>2, <1>7, Popped
  <2>3. /\ NoneDue' = NoneDue /\ OneDue' = OneDue /\ EndDue' = EndDue
        /\ AborDue' = AborDue /\ BothDue' = BothDue /\ Live' = Live
    BY <1>4, SameDue, SilentLive DEF Silent
  <2>4. Live => NoneDue
    BY <1>1, <1>2, <1>7 DEF Owed, Due, PRELIM, COMPLETE, TRANSIENT
  <2>5. Live' => IF stack' = <<>> THEN NoneDue' ELSE Due'
    BY <1>1, <1>2, <1>3, <1>4, <1>7, <2>1, <2>2, <2>3, <2>4, EndIsOne
       DEF Due, Transfers, PRELIM, COMPLETE, TRANSIENT
  <2>6. "copy" \notin opt.ops => Writing'
    BY <1>1, <1>2, <1>4, <1>7, <2>1, <2>2 DEF Owed, Writing
  <2>7. Shape'
    BY <1>1, <1>2, <1>4, <1>7, <2>1, <2>2 DEF Shape, Silent
  <2> QED  BY <1>4, <2>5, <2>6, <2>7 DEF Owed, Silent
<1> QED  BY <1>5, <1>6, <1>7

\* A directory is set.
LEMMA ChdirKeeps == ASSUME Typed, Shape, Owed, Chdir PROVE Shape' /\ Owed'
<1>1. stack # <<>> /\ Top.at \in {"chdir", "chdired"}
  BY DEF Chdir, Now, Top
<1>2. Chain(stack) /\ Top \in Frames /\ Fits(Top, Beneath(stack)) /\ rd # "open"
  BY <1>1, Running DEF Shape, Readings
<1>3. sup'.sock = sup.sock /\ sup'.code = sup.code /\ sup'.from = sup.from
  <2>1. sup' = sup \/ sup' = [sup EXCEPT !.cwd = Top.arg]
    BY DEF Chdir, Top
  <2> QED  BY <2>1 DEF Typed, Sup
<1>4. Silent /\ rd' = rd /\ wr' = wr
  BY <1>3 DEF Chdir, remote, handles, Rest, Silent
<1>5. \/ stack' = Tail(stack)
      \/ /\ Top.at = "chdir"
         /\ stack' = <<Command(Cwd(Top.arg)), With("chdired", Top.arg)>> \o Tail(stack)
  BY DEF Chdir, Now, Top, Then, Return, COMPLETE
<1>6. ASSUME stack' = Tail(stack)
      PROVE  Shape' /\ Owed'
  <2>1. Beneath(stack) \in {"rechdir", "there"}
    BY <1>1, <1>2, <1>6 DEF Fits
  <2>2. /\ Chain(stack') /\ (stack' = <<>> <=> Beneath(stack) = "-")
        /\ stack' # <<>> => Top'.at = Beneath(stack) /\ Bottom(stack') = Bottom(stack)
    BY <1>1, <1>2, <1>6, Popped
  <2>3. /\ NoneDue' = NoneDue /\ OneDue' = OneDue /\ EndDue' = EndDue
        /\ AborDue' = AborDue /\ BothDue' = BothDue /\ Live' = Live
    BY <1>4, SameDue, SilentLive DEF Silent
  <2>4. Live => NoneDue
    BY <1>1, <1>2, <1>6 DEF Owed, Due, PRELIM, COMPLETE, TRANSIENT
  <2>5. Live' => IF stack' = <<>> THEN NoneDue' ELSE Due'
    BY <1>1, <1>2, <1>3, <1>4, <1>6, <2>1, <2>2, <2>3, <2>4, EndIsOne
       DEF Due, Transfers, PRELIM, COMPLETE, TRANSIENT
  <2>6. "copy" \notin opt.ops => Writing'
    BY <1>1, <1>2, <1>4, <1>6, <2>1, <2>2 DEF Owed, Writing
  <2>7. Shape'
    BY <1>1, <1>2, <1>4, <1>6, <2>1, <2>2 DEF Shape, Silent
  <2> QED  BY <1>4, <2>5, <2>6, <2>7 DEF Owed, Silent
<1>7. ASSUME /\ Top.at = "chdir"
             /\ stack' = <<Command(Cwd(Top.arg)), With("chdired", Top.arg)>> \o Tail(stack)
      PROVE  Shape' /\ Owed'
  <2>1. Top.arg \in {"home", "sub"}
    BY <1>2, <1>7 DEF Fits, Places
  <2>2. Cwd(Top.arg) \in {"CWD home", "CWD sub"}
    BY <2>1 DEF Cwd
  <2> DEFINE f == Command(Cwd(Top.arg))
             g == With("chdired", Top.arg)
  <2>3. f \in Frames /\ f.at = "command" /\ f.arg = Cwd(Top.arg) /\ f.wait = "reply"
    BY <1>1, <1>2, <1>7, <2>1, <2>2 DEF With, Command, Frames, Commands
  <2>4. g \in Frames /\ g.at = "chdired" /\ g.arg = Top.arg
    BY <1>1, <1>2, <1>7, <2>1, <2>2 DEF With, Command, Frames, Commands
  <2>5. stack' = <<f, g>> \o Tail(stack)
    BY <1>7, <2>1, <2>2
  <2> HIDE DEF f, g
  <2>6. Fits(g, Beneath(stack))
    BY <1>1, <1>2, <1>7, <2>4, <2>1, <2>2 DEF Fits, Awaits, Places, Transfers
  <2>7. Fits(f, g.at)
    BY <1>2, <1>7, <2>3, <2>4, <2>1, <2>2 DEF Fits, Awaits, Places, Transfers
  <2>8. /\ Chain(stack') /\ stack' # <<>> /\ Top' = f /\ Beneath(stack') = g.at
        /\ Bottom(stack') = IF Tail(stack) = <<>> THEN g.at ELSE Bottom(stack)
    BY <1>1, <1>2, <2>5, <2>3, <2>4, <2>6, <2>7, Put2
  <2>9. /\ NoneDue' = NoneDue /\ OneDue' = OneDue /\ EndDue' = EndDue
        /\ AborDue' = AborDue /\ BothDue' = BothDue /\ Live' = Live
    BY <1>4, SameDue, SilentLive DEF Silent
  <2>10. Live => NoneDue
    BY <1>1, <1>2, <1>7 DEF Owed, Due, PRELIM, COMPLETE, TRANSIENT
  <2>11. Live' => IF stack' = <<>> THEN NoneDue' ELSE Due'
    BY <1>1, <1>2, <1>3, <1>4, <1>7, <2>3, <2>4, <2>8, <2>9, <2>10, EndIsOne
       DEF Due, Transfers, PRELIM, COMPLETE, TRANSIENT
  <2>12. "copy" \notin opt.ops => Writing'
    BY <1>1, <1>2, <1>4, <1>7, <2>3, <2>4, <2>8 DEF Owed, Writing
  <2>13. Shape'
    BY <1>1, <1>2, <1>4, <1>7, <2>3, <2>4, <2>8 DEF Shape, Silent
  <2> QED  BY <1>4, <2>11, <2>12, <2>13 DEF Owed, Silent
<1> QED  BY <1>5, <1>6, <1>7

\* The new name follows the old one.
LEMMA RenamedKeeps == ASSUME Typed, Shape, Owed, Renamed PROVE Shape' /\ Owed'
<1>1. stack # <<>> /\ Top.at \in {"renamed"}
  BY DEF Renamed, Now, Top
<1>2. Chain(stack) /\ Top \in Frames /\ Fits(Top, Beneath(stack)) /\ rd # "open"
  BY <1>1, Running DEF Shape, Readings
<1>3. sup' = sup
  BY DEF Renamed
<1>4. Silent /\ rd' = rd /\ wr' = wr
  BY <1>3 DEF Renamed, remote, handles, Rest, Silent
<1>5. stack' = <<Command("RNTO")>> \o Tail(stack)
  BY DEF Renamed, Now, Then
<1>6. ASSUME stack' = <<Command("RNTO")>> \o Tail(stack)
      PROVE  Shape' /\ Owed'
  <2> DEFINE f == Command("RNTO")
  <2>1. f \in Frames /\ f.at = "command" /\ f.arg = "RNTO" /\ f.wait = "reply"
    BY <1>1, <1>2, <1>6 DEF Command, Frames, Commands
  <2>2. stack' = <<f>> \o Tail(stack)
    BY <1>6
  <2> HIDE DEF f
  <2>3. Fits(f, Beneath(stack))
    BY <1>1, <1>2, <1>6, <2>1 DEF Fits, Awaits, Places, Transfers
  <2>4. /\ Chain(stack') /\ stack' # <<>> /\ Top' = f /\ Beneath(stack') = Beneath(stack)
        /\ Bottom(stack') = IF Tail(stack) = <<>> THEN f.at ELSE Bottom(stack)
    BY <1>1, <1>2, <2>2, <2>1, <2>3, Put1
  <2>5. /\ NoneDue' = NoneDue /\ OneDue' = OneDue /\ EndDue' = EndDue
        /\ AborDue' = AborDue /\ BothDue' = BothDue /\ Live' = Live
    BY <1>4, SameDue, SilentLive DEF Silent
  <2>6. Live => NoneDue
    BY <1>1, <1>2, <1>6 DEF Owed, Due, PRELIM, COMPLETE, TRANSIENT
  <2>7. Live' => IF stack' = <<>> THEN NoneDue' ELSE Due'
    BY <1>1, <1>2, <1>3, <1>4, <1>6, <2>1, <2>4, <2>5, <2>6, EndIsOne
       DEF Due, Transfers, PRELIM, COMPLETE, TRANSIENT
  <2>8. "copy" \notin opt.ops => Writing'
    BY <1>1, <1>2, <1>4, <1>6, <2>1, <2>4 DEF Owed, Writing
  <2>9. Shape'
    BY <1>1, <1>2, <1>4, <1>6, <2>1, <2>4 DEF Shape, Silent
  <2> QED  BY <1>4, <2>7, <2>8, <2>9 DEF Owed, Silent
<1> QED  BY <1>5, <1>6

\* One way to agree on a data connection is tried after the other.
LEMMA AgreedKeeps == ASSUME Typed, Shape, Owed, Agreed PROVE Shape' /\ Owed'
<1>1. stack # <<>> /\ Top.at \in {"agreed"}
  BY DEF Agreed, Now, Top
<1>2. Chain(stack) /\ Top \in Frames /\ Fits(Top, Beneath(stack)) /\ rd # "open"
  BY <1>1, Running DEF Shape, Readings
<1>3. sup'.sock = sup.sock /\ sup'.code = sup.code /\ sup'.from = sup.from
  <2>1. \/ sup' = sup \/ sup' = [sup EXCEPT !.passive = FALSE]
        \/ sup' = [sup EXCEPT !.passive = opt.passive]
    BY DEF Agreed, Top
  <2> QED  BY <2>1 DEF Typed, Sup
<1>4. Silent /\ rd' = rd /\ wr' = wr
  BY <1>3 DEF Agreed, remote, handles, Rest, Silent
<1>5. \/ stack' = Tail(stack)
      \/ /\ Top.arg # "EPRT"
         /\ stack' = <<Attempt(Next4(Top.arg)), With("agreed", Next4(Top.arg))>> \o Tail(stack)
  BY DEF Agreed, Now, Top, Then, Return, COMPLETE
<1>6. ASSUME stack' = Tail(stack)
      PROVE  Shape' /\ Owed'
  <2>1. Beneath(stack) \in {"type"}
    BY <1>1, <1>2, <1>6 DEF Fits
  <2>2. /\ Chain(stack') /\ (stack' = <<>> <=> Beneath(stack) = "-")
        /\ stack' # <<>> => Top'.at = Beneath(stack) /\ Bottom(stack') = Bottom(stack)
    BY <1>1, <1>2, <1>6, Popped
  <2>3. /\ NoneDue' = NoneDue /\ OneDue' = OneDue /\ EndDue' = EndDue
        /\ AborDue' = AborDue /\ BothDue' = BothDue /\ Live' = Live
    BY <1>4, SameDue, SilentLive DEF Silent
  <2>4. Live => NoneDue
    BY <1>1, <1>2, <1>6 DEF Owed, Due, PRELIM, COMPLETE, TRANSIENT
  <2>5. Live' => IF stack' = <<>> THEN NoneDue' ELSE Due'
    BY <1>1, <1>2, <1>3, <1>4, <1>6, <2>1, <2>2, <2>3, <2>4, EndIsOne
       DEF Due, Transfers, PRELIM, COMPLETE, TRANSIENT
  <2>6. "copy" \notin opt.ops => Writing'
    BY <1>1, <1>2, <1>4, <1>6, <2>1, <2>2 DEF Owed, Writing
  <2>7. Shape'
    BY <1>1, <1>2, <1>4, <1>6, <2>1, <2>2 DEF Shape, Silent
  <2> QED  BY <1>4, <2>5, <2>6, <2>7 DEF Owed, Silent
<1>7. ASSUME /\ Top.arg # "EPRT"
             /\ stack' = <<Attempt(Next4(Top.arg)), With("agreed", Next4(Top.arg))>> \o Tail(stack)
      PROVE  Shape' /\ Owed'
  <2>1. Next4(Top.arg) \in {"EPSV", "PORT", "EPRT"}
    BY DEF Next4
  <2> DEFINE f == Attempt(Next4(Top.arg))
             g == With("agreed", Next4(Top.arg))
  <2>2. /\ f \in Frames /\ f.at = "command" /\ f.arg = Next4(Top.arg)
        /\ f.wait # "none" /\ (f.wait = "string" => f.arg \in {"PASV", "EPSV"})
    BY <2>1, AttemptFrame
  <2>3. g \in Frames /\ g.at = "agreed" /\ g.arg = Next4(Top.arg)
    BY <1>1, <1>2, <1>7, <2>1 DEF With, Frames, Commands
  <2>4. stack' = <<f, g>> \o Tail(stack)
    BY <1>7, <2>1
  <2> HIDE DEF f, g
  <2>5. Fits(g, Beneath(stack))
    BY <1>1, <1>2, <1>7, <2>3, <2>1 DEF Fits, Awaits, Places, Transfers
  <2>6. Fits(f, g.at)
    BY <1>2, <1>7, <2>2, <2>3, <2>1 DEF Fits, Awaits, Places, Transfers
  <2>7. /\ Chain(stack') /\ stack' # <<>> /\ Top' = f /\ Beneath(stack') = g.at
        /\ Bottom(stack') = IF Tail(stack) = <<>> THEN g.at ELSE Bottom(stack)
    BY <1>1, <1>2, <2>4, <2>2, <2>3, <2>5, <2>6, Put2
  <2>8. /\ NoneDue' = NoneDue /\ OneDue' = OneDue /\ EndDue' = EndDue
        /\ AborDue' = AborDue /\ BothDue' = BothDue /\ Live' = Live
    BY <1>4, SameDue, SilentLive DEF Silent
  <2>9. Live => NoneDue
    BY <1>1, <1>2, <1>7 DEF Owed, Due, PRELIM, COMPLETE, TRANSIENT
  <2>10. Live' => IF stack' = <<>> THEN NoneDue' ELSE Due'
    BY <1>1, <1>2, <1>3, <1>4, <1>7, <2>2, <2>3, <2>7, <2>8, <2>9, EndIsOne
       DEF Due, Transfers, PRELIM, COMPLETE, TRANSIENT
  <2>11. "copy" \notin opt.ops => Writing'
    BY <1>1, <1>2, <1>4, <1>7, <2>2, <2>3, <2>7 DEF Owed, Writing
  <2>12. Shape'
    BY <1>1, <1>2, <1>4, <1>7, <2>2, <2>3, <2>7 DEF Shape, Silent
  <2> QED  BY <1>4, <2>10, <2>11, <2>12 DEF Owed, Silent
<1> QED  BY <1>5, <1>6, <1>7

\* The command of the transfer is sent when all is agreed, and answered before the data.
LEMMA OpenKeeps == ASSUME Typed, Shape, Owed, Open PROVE Shape' /\ Owed'
<1>1. stack # <<>> /\ Top.at \in {"type", "typed", "prelim"}
  BY DEF Open, Now, Top
<1>2. Chain(stack) /\ Top \in Frames /\ Fits(Top, Beneath(stack)) /\ rd # "open"
  BY <1>1, Running DEF Shape, Readings
<1>3. sup'.sock = sup.sock /\ sup'.code = sup.code /\ sup'.from = sup.from
  <2>1. sup' = sup \/ sup' = [sup EXCEPT !.binary = Top.wait]
    BY DEF Open, Top
  <2> QED  BY <2>1 DEF Typed, Sup
<1>4. Silent /\ rd' = rd /\ wr' = wr
  BY <1>3 DEF Open, remote, handles, Rest, Silent
<1>5. \/ stack' = Tail(stack) /\ Top.at # "prelim" /\ ret' # 1
      \/ stack' = Tail(stack) /\ Top.at = "prelim" /\ (ret' = 1 <=> ret = PRELIM)
      \/ /\ Top.at # "prelim"
         /\ stack' = <<Command(Top.arg), Frame("prelim")>> \o Tail(stack)
      \/ /\ Top.at = "type"
         /\ stack' = <<Command(Type(Top.wait)), [Top EXCEPT !.at = "typed"]>> \o Tail(stack)
  BY DEF Open, Now, Top, Then, Return, PRELIM, COMPLETE
<1>6. ASSUME stack' = Tail(stack) /\ Top.at # "prelim" /\ ret' # 1
      PROVE  Shape' /\ Owed'
  <2>1. Beneath(stack) \in {"started", "listing", "storing"}
    BY <1>1, <1>2, <1>6 DEF Fits
  <2>2. /\ Chain(stack') /\ (stack' = <<>> <=> Beneath(stack) = "-")
        /\ stack' # <<>> => Top'.at = Beneath(stack) /\ Bottom(stack') = Bottom(stack)
    BY <1>1, <1>2, <1>6, Popped
  <2>3. /\ NoneDue' = NoneDue /\ OneDue' = OneDue /\ EndDue' = EndDue
        /\ AborDue' = AborDue /\ BothDue' = BothDue /\ Live' = Live
    BY <1>4, SameDue, SilentLive DEF Silent
  <2>4. Live => NoneDue
    BY <1>1, <1>2, <1>6 DEF Owed, Due, PRELIM, COMPLETE, TRANSIENT
  <2>5. Live' => IF stack' = <<>> THEN NoneDue' ELSE Due'
    BY <1>1, <1>2, <1>3, <1>4, <1>6, <2>1, <2>2, <2>3, <2>4, EndIsOne
       DEF Due, Transfers, PRELIM, COMPLETE, TRANSIENT
  <2>6. "copy" \notin opt.ops => Writing'
    BY <1>1, <1>2, <1>4, <1>6, <2>1, <2>2 DEF Owed, Writing
  <2>7. Shape'
    BY <1>1, <1>2, <1>4, <1>6, <2>1, <2>2 DEF Shape, Silent
  <2> QED  BY <1>4, <2>5, <2>6, <2>7 DEF Owed, Silent
<1>7. ASSUME stack' = Tail(stack) /\ Top.at = "prelim" /\ (ret' = 1 <=> ret = PRELIM)
      PROVE  Shape' /\ Owed'
  <2>1. Beneath(stack) \in {"started", "listing", "storing"}
    BY <1>1, <1>2, <1>7 DEF Fits
  <2>2. /\ Chain(stack') /\ (stack' = <<>> <=> Beneath(stack) = "-")
        /\ stack' # <<>> => Top'.at = Beneath(stack) /\ Bottom(stack') = Bottom(stack)
    BY <1>1, <1>2, <1>7, Popped
  <2>3. /\ NoneDue' = NoneDue /\ OneDue' = OneDue /\ EndDue' = EndDue
        /\ AborDue' = AborDue /\ BothDue' = BothDue /\ Live' = Live
    BY <1>4, SameDue, SilentLive DEF Silent
  <2>4. Live => (ret = PRELIM => EndDue) /\ (ret # PRELIM => NoneDue)
    BY <1>1, <1>2, <1>7 DEF Owed, Due, PRELIM, COMPLETE, TRANSIENT
  <2>5. Live' => IF stack' = <<>> THEN NoneDue' ELSE Due'
    BY <1>1, <1>2, <1>3, <1>4, <1>7, <2>1, <2>2, <2>3, <2>4, EndIsOne
       DEF Due, Transfers, PRELIM, COMPLETE, TRANSIENT
  <2>6. "copy" \notin opt.ops => Writing'
    BY <1>1, <1>2, <1>4, <1>7, <2>1, <2>2 DEF Owed, Writing
  <2>7. Shape'
    BY <1>1, <1>2, <1>4, <1>7, <2>1, <2>2 DEF Shape, Silent
  <2> QED  BY <1>4, <2>5, <2>6, <2>7 DEF Owed, Silent
<1>8. ASSUME /\ Top.at # "prelim"
             /\ stack' = <<Command(Top.arg), Frame("prelim")>> \o Tail(stack)
      PROVE  Shape' /\ Owed'
  <2>1. Top.arg \in Transfers
    BY <1>1, <1>2, <1>8 DEF Fits
  <2> DEFINE f == Command(Top.arg)
             g == Frame("prelim")
  <2>2. f \in Frames /\ f.at = "command" /\ f.arg = Top.arg /\ f.wait = "reply"
    BY <1>1, <1>2, <1>8, <2>1 DEF Frame, Command, Frames, Commands, Transfers
  <2>3. g \in Frames /\ g.at = "prelim"
    BY <1>1, <1>2, <1>8, <2>1 DEF Frame, Command, Frames, Commands, Transfers
  <2>4. stack' = <<f, g>> \o Tail(stack)
    BY <1>8, <2>1
  <2> HIDE DEF f, g
  <2>5. Fits(g, Beneath(stack))
    BY <1>1, <1>2, <1>8, <2>3, <2>1 DEF Fits, Awaits, Places, Transfers
  <2>6. Fits(f, g.at)
    BY <1>2, <1>8, <2>2, <2>3, <2>1 DEF Fits, Awaits, Places, Transfers
  <2>7. /\ Chain(stack') /\ stack' # <<>> /\ Top' = f /\ Beneath(stack') = g.at
        /\ Bottom(stack') = IF Tail(stack) = <<>> THEN g.at ELSE Bottom(stack)
    BY <1>1, <1>2, <2>4, <2>2, <2>3, <2>5, <2>6, Put2
  <2>8. /\ NoneDue' = NoneDue /\ OneDue' = OneDue /\ EndDue' = EndDue
        /\ AborDue' = AborDue /\ BothDue' = BothDue /\ Live' = Live
    BY <1>4, SameDue, SilentLive DEF Silent
  <2>9. Live => NoneDue
    BY <1>1, <1>2, <1>8 DEF Owed, Due, PRELIM, COMPLETE, TRANSIENT
  <2>10. Live' => IF stack' = <<>> THEN NoneDue' ELSE Due'
    BY <1>1, <1>2, <1>3, <1>4, <1>8, <2>2, <2>3, <2>7, <2>8, <2>9, EndIsOne
       DEF Due, Transfers, PRELIM, COMPLETE, TRANSIENT
  <2>11. "copy" \notin opt.ops => Writing'
    BY <1>1, <1>2, <1>4, <1>8, <2>2, <2>3, <2>7 DEF Owed, Writing
  <2>12. Shape'
    BY <1>1, <1>2, <1>4, <1>8, <2>2, <2>3, <2>7 DEF Shape, Silent
  <2> QED  BY <1>4, <2>10, <2>11, <2>12 DEF Owed, Silent
<1>9. ASSUME /\ Top.at = "type"
             /\ stack' = <<Command(Type(Top.wait)), [Top EXCEPT !.at = "typed"]>> \o Tail(stack)
      PROVE  Shape' /\ Owed'
  <2>1. Type(Top.wait) \in {"TYPE I", "TYPE A"}
    BY DEF Type
  <2> DEFINE f == Command(Type(Top.wait))
             g == [Top EXCEPT !.at = "typed"]
  <2>2. f \in Frames /\ f.at = "command" /\ f.arg = Type(Top.wait) /\ f.wait = "reply"
    BY <1>1, <1>2, <1>9, <2>1 DEF Frame, Command, Frames, Commands
  <2>3. g \in Frames /\ g.at = "typed" /\ g.arg = Top.arg /\ g.wait = Top.wait
    BY <1>1, <1>2, <1>9, <2>1 DEF Frame, Command, Frames, Commands
  <2>4. stack' = <<f, g>> \o Tail(stack)
    BY <1>9, <2>1
  <2> HIDE DEF f, g
  <2>5. Fits(g, Beneath(stack))
    BY <1>1, <1>2, <1>9, <2>3, <2>1 DEF Fits, Awaits, Places, Transfers
  <2>6. Fits(f, g.at)
    BY <1>2, <1>9, <2>2, <2>3, <2>1 DEF Fits, Awaits, Places, Transfers
  <2>7. /\ Chain(stack') /\ stack' # <<>> /\ Top' = f /\ Beneath(stack') = g.at
        /\ Bottom(stack') = IF Tail(stack) = <<>> THEN g.at ELSE Bottom(stack)
    BY <1>1, <1>2, <2>4, <2>2, <2>3, <2>5, <2>6, Put2
  <2>8. /\ NoneDue' = NoneDue /\ OneDue' = OneDue /\ EndDue' = EndDue
        /\ AborDue' = AborDue /\ BothDue' = BothDue /\ Live' = Live
    BY <1>4, SameDue, SilentLive DEF Silent
  <2>9. Live => NoneDue
    BY <1>1, <1>2, <1>9 DEF Owed, Due, PRELIM, COMPLETE, TRANSIENT
  <2>10. Live' => IF stack' = <<>> THEN NoneDue' ELSE Due'
    BY <1>1, <1>2, <1>3, <1>4, <1>9, <2>2, <2>3, <2>7, <2>8, <2>9, EndIsOne
       DEF Due, Transfers, PRELIM, COMPLETE, TRANSIENT
  <2>11. "copy" \notin opt.ops => Writing'
    BY <1>1, <1>2, <1>4, <1>9, <2>2, <2>3, <2>7 DEF Owed, Writing
  <2>12. Shape'
    BY <1>1, <1>2, <1>4, <1>9, <2>2, <2>3, <2>7 DEF Shape, Silent
  <2> QED  BY <1>4, <2>10, <2>11, <2>12 DEF Owed, Silent
<1> QED  BY <1>5, <1>6, <1>7, <1>8, <1>9

\* The rest of the data is thrown away before the replies to ABOR are read.
LEMMA AbortingKeeps == ASSUME Typed, Shape, Owed, Aborting PROVE Shape' /\ Owed'
<1>1. stack # <<>> /\ Top.at \in {"aborting"}
  BY DEF Aborting, Now, Top
<1>2. Chain(stack) /\ Top \in Frames /\ Fits(Top, Beneath(stack)) /\ rd # "open"
  BY <1>1, Running DEF Shape, Readings
<1>3. sup' = sup
  BY DEF Aborting
<1>4. Silent /\ rd' = rd /\ wr' = wr
  BY <1>3 DEF Aborting, handles, Rest, Silent
<1>5. \/ stack' = Tail(stack) /\ ret # COMPLETE
      \/ /\ ret = COMPLETE
         /\ stack' = <<GetReply, Frame("aborted")>> \o Tail(stack)
      \/ stack' = <<Frame("reconnect")>> \o Tail(stack)
  BY DEF Aborting, Now, Top, COMPLETE
<1>6. ASSUME stack' = Tail(stack) /\ ret # COMPLETE
      PROVE  Shape' /\ Owed'
  <2>1. Beneath(stack) \in {"fail", "closeread"}
    BY <1>1, <1>2, <1>6 DEF Fits
  <2>2. /\ Chain(stack') /\ (stack' = <<>> <=> Beneath(stack) = "-")
        /\ stack' # <<>> => Top'.at = Beneath(stack) /\ Bottom(stack') = Bottom(stack)
    BY <1>1, <1>2, <1>6, Popped
  <2>3. /\ NoneDue' = NoneDue /\ OneDue' = OneDue /\ EndDue' = EndDue
        /\ AborDue' = AborDue /\ BothDue' = BothDue /\ Live' = Live
    BY <1>4, SameDue, SilentLive DEF Silent
  <2>4. Live => NoneDue
    BY <1>1, <1>2, <1>6 DEF Owed, Due, PRELIM, COMPLETE, TRANSIENT
  <2>5. Live' => IF stack' = <<>> THEN NoneDue' ELSE Due'
    BY <1>1, <1>2, <1>3, <1>4, <1>6, <2>1, <2>2, <2>3, <2>4, EndIsOne
       DEF Due, Transfers, PRELIM, COMPLETE, TRANSIENT
  <2>6. "copy" \notin opt.ops => Writing'
    BY <1>1, <1>2, <1>4, <1>6, <2>1, <2>2 DEF Owed, Writing
  <2>7. Shape'
    BY <1>1, <1>2, <1>4, <1>6, <2>1, <2>2 DEF Shape, Silent
  <2> QED  BY <1>4, <2>5, <2>6, <2>7 DEF Owed, Silent
<1>7. ASSUME /\ ret = COMPLETE
             /\ stack' = <<GetReply, Frame("aborted")>> \o Tail(stack)
      PROVE  Shape' /\ Owed'
  <2> DEFINE f == GetReply
             g == Frame("aborted")
  <2>1. f \in Frames /\ f.at = "reply" /\ f.arg = "-" /\ f.wait = "-"
    BY <1>1, <1>2, <1>7 DEF Frame, GetReply, Frames, Commands
  <2>2. g \in Frames /\ g.at = "aborted"
    BY <1>1, <1>2, <1>7 DEF Frame, GetReply, Frames, Commands
  <2>3. stack' = <<f, g>> \o Tail(stack)
    BY <1>7
  <2> HIDE DEF f, g
  <2>4. Fits(g, Beneath(stack))
    BY <1>1, <1>2, <1>7, <2>2 DEF Fits, Awaits, Places, Transfers
  <2>5. Fits(f, g.at)
    BY <1>2, <1>7, <2>1, <2>2 DEF Fits, Awaits, Places, Transfers
  <2>6. /\ Chain(stack') /\ stack' # <<>> /\ Top' = f /\ Beneath(stack') = g.at
        /\ Bottom(stack') = IF Tail(stack) = <<>> THEN g.at ELSE Bottom(stack)
    BY <1>1, <1>2, <2>3, <2>1, <2>2, <2>4, <2>5, Put2
  <2>7. /\ NoneDue' = NoneDue /\ OneDue' = OneDue /\ EndDue' = EndDue
        /\ AborDue' = AborDue /\ BothDue' = BothDue /\ Live' = Live
    BY <1>4, SameDue, SilentLive DEF Silent
  <2>8. Live => AborDue \/ BothDue
    BY <1>1, <1>2, <1>7 DEF Owed, Due, PRELIM, COMPLETE, TRANSIENT
  <2>9. Live' => IF stack' = <<>> THEN NoneDue' ELSE Due'
    BY <1>1, <1>2, <1>3, <1>4, <1>7, <2>1, <2>2, <2>6, <2>7, <2>8, EndIsOne
       DEF Due, Transfers, PRELIM, COMPLETE, TRANSIENT
  <2>10. "copy" \notin opt.ops => Writing'
    BY <1>1, <1>2, <1>4, <1>7, <2>1, <2>2, <2>6 DEF Owed, Writing
  <2>11. Shape'
    BY <1>1, <1>2, <1>4, <1>7, <2>1, <2>2, <2>6 DEF Shape, Silent
  <2> QED  BY <1>4, <2>9, <2>10, <2>11 DEF Owed, Silent
<1>8. ASSUME stack' = <<Frame("reconnect")>> \o Tail(stack)
      PROVE  Shape' /\ Owed'
  <2> DEFINE f == Frame("reconnect")
  <2>1. f \in Frames /\ f.at = "reconnect"
    BY <1>1, <1>2, <1>8 DEF Frame, GetReply, Frames, Commands
  <2>2. stack' = <<f>> \o Tail(stack)
    BY <1>8
  <2> HIDE DEF f
  <2>3. Fits(f, Beneath(stack))
    BY <1>1, <1>2, <1>8, <2>1 DEF Fits, Awaits, Places, Transfers
  <2>4. /\ Chain(stack') /\ stack' # <<>> /\ Top' = f /\ Beneath(stack') = Beneath(stack)
        /\ Bottom(stack') = IF Tail(stack) = <<>> THEN f.at ELSE Bottom(stack)
    BY <1>1, <1>2, <2>2, <2>1, <2>3, Put1
  <2>5. /\ NoneDue' = NoneDue /\ OneDue' = OneDue /\ EndDue' = EndDue
        /\ AborDue' = AborDue /\ BothDue' = BothDue /\ Live' = Live
    BY <1>4, SameDue, SilentLive DEF Silent
  <2>6. Live => TRUE
    BY <1>1, <1>2, <1>8 DEF Owed, Due, PRELIM, COMPLETE, TRANSIENT
  <2>7. Live' => IF stack' = <<>> THEN NoneDue' ELSE Due'
    BY <1>1, <1>2, <1>3, <1>4, <1>8, <2>1, <2>4, <2>5, <2>6, EndIsOne
       DEF Due, Transfers, PRELIM, COMPLETE, TRANSIENT
  <2>8. "copy" \notin opt.ops => Writing'
    BY <1>1, <1>2, <1>4, <1>8, <2>1, <2>4 DEF Owed, Writing
  <2>9. Shape'
    BY <1>1, <1>2, <1>4, <1>8, <2>1, <2>4 DEF Shape, Silent
  <2> QED  BY <1>4, <2>7, <2>8, <2>9 DEF Owed, Silent
<1> QED  BY <1>5, <1>6, <1>7, <1>8

\* A transfer begins, and the connection is busy.
LEMMA StartKeeps == ASSUME Typed, Shape, Owed, Start PROVE Shape' /\ Owed'
<1>1. stack # <<>> /\ Top.at \in {"start", "started"}
  BY DEF Start, Now, Top
<1>2. Chain(stack) /\ Top \in Frames /\ Fits(Top, Beneath(stack)) /\ rd # "open"
  BY <1>1, Running DEF Shape, Readings
<1>3. sup'.sock = sup.sock /\ sup'.code = sup.code /\ sup'.from = sup.from
  <2>1. sup' = sup \/ sup' = [sup EXCEPT !.busy = TRUE]
    BY DEF Start
  <2> QED  BY <2>1 DEF Typed, Sup
<1>4. Silent /\ wr' = wr
  BY <1>3 DEF Start, remote, Rest, Silent
<1>5. \/ /\ Top.at = "start" /\ rd' = rd
         /\ stack' = (DataConnection("RETR", "yes") \o <<Frame("started")>>) \o Tail(stack)
      \/ /\ stack' = Tail(stack) /\ Top.at = "started" /\ ret' = ret
         /\ rd' = IF ret = 1 THEN "open" ELSE rd
  BY DEF Start, Now, Top, Then, Return
<1>6. ASSUME /\ Top.at = "start" /\ rd' = rd
             /\ stack' = (DataConnection("RETR", "yes") \o <<Frame("started")>>) \o Tail(stack)
      PROVE  Shape' /\ Owed'
  <2> DEFINE i == Frame("started")
  <2>1. i \in Frames /\ i.at = "started"
    BY <1>2, <1>6 DEF Frame, Frames
  <2>2. stack' = (DataConnection("RETR", "yes") \o <<i>>) \o Tail(stack)
    BY <1>6
  <2> HIDE DEF i
  <2>3. Fits(i, Beneath(stack))
    BY <1>1, <1>2, <1>6, <2>1 DEF Fits, Places
  <2>4. "RETR" \in Transfers
    BY DEF Transfers
  <2>5. /\ Chain(stack') /\ stack' # <<>> /\ Top'.at = "command" /\ Top'.arg \in {"PASV", "PORT"}
        /\ Beneath(stack') = "agreed"
        /\ Bottom(stack') = IF Tail(stack) = <<>> THEN i.at ELSE Bottom(stack)
    BY <1>1, <1>2, <2>1, <2>2, <2>3, <2>4, PutTransfer
  <2>6. /\ NoneDue' = NoneDue /\ OneDue' = OneDue /\ EndDue' = EndDue
        /\ AborDue' = AborDue /\ BothDue' = BothDue /\ Live' = Live
    BY <1>4, SameDue, SilentLive DEF Silent
  <2>7. Live => NoneDue
    BY <1>1, <1>2, <1>6 DEF Owed, Due, PRELIM, COMPLETE, TRANSIENT
  <2>8. Live' => IF stack' = <<>> THEN NoneDue' ELSE Due'
    BY <1>1, <1>2, <1>3, <1>4, <1>6, <2>1, <2>5, <2>6, <2>7, EndIsOne
       DEF Due, Transfers, PRELIM, COMPLETE, TRANSIENT
  <2>9. "copy" \notin opt.ops => Writing'
    BY <1>1, <1>2, <1>4, <1>6, <2>1, <2>5 DEF Owed, Writing
  <2>10. Shape'
    BY <1>1, <1>2, <1>4, <1>6, <2>1, <2>5 DEF Shape, Silent
  <2> QED  BY <1>4, <2>8, <2>9, <2>10 DEF Owed, Silent
<1>7. ASSUME /\ stack' = Tail(stack) /\ Top.at = "started" /\ ret' = ret
             /\ rd' = IF ret = 1 THEN "open" ELSE rd
      PROVE  Shape' /\ Owed'
  <2>1. Beneath(stack) \in {"first"}
    BY <1>1, <1>2, <1>7 DEF Fits
  <2>2. /\ Chain(stack') /\ (stack' = <<>> <=> Beneath(stack) = "-")
        /\ stack' # <<>> => Top'.at = Beneath(stack) /\ Bottom(stack') = Bottom(stack)
    BY <1>1, <1>2, <1>7, Popped
  <2>3. /\ NoneDue' = NoneDue /\ OneDue' = OneDue /\ EndDue' = EndDue
        /\ AborDue' = AborDue /\ BothDue' = BothDue /\ Live' = Live
    BY <1>4, SameDue, SilentLive DEF Silent
  <2>4. Bottom(stack) \notin {"store", "storing"}
    BY <1>1, <1>2, <1>7, ReadsAbove
  <2>5. Live => (ret = 1 => EndDue) /\ (ret # 1 => NoneDue)
    BY <1>1, <1>2, <1>7, <2>4 DEF Owed, Due, PRELIM, COMPLETE, TRANSIENT
  <2>6. Live' => IF stack' = <<>> THEN NoneDue' ELSE Due'
    BY <1>1, <1>2, <1>3, <1>4, <1>7, <2>1, <2>2, <2>3, <2>5, EndIsOne, <2>4
       DEF Due, Transfers, PRELIM, COMPLETE, TRANSIENT
  <2>7. "copy" \notin opt.ops => Writing'
    BY <1>1, <1>2, <1>4, <1>7, <2>1, <2>2, <2>4 DEF Owed, Writing
  <2>8. Shape'
    BY <1>1, <1>2, <1>4, <1>7, <2>1, <2>2 DEF Shape, Silent
  <2> QED  BY <1>4, <2>6, <2>7, <2>8 DEF Owed, Silent
<1> QED  BY <1>5, <1>6, <1>7

\* A piece is read, or the last reply of the transfer, or it is aborted.
LEMMA ReadKeeps == ASSUME Typed, Shape, Owed, Read PROVE Shape' /\ Owed'
<1>1. stack # <<>> /\ Top.at \in {"read", "first", "ended", "fail"}
  BY DEF Read, Now, Top
<1>2. Chain(stack) /\ Top \in Frames /\ Fits(Top, Beneath(stack))
  BY <1>1, Running DEF Shape
<1>3. sup'.sock = sup.sock /\ sup'.code = sup.code /\ sup'.from = sup.from
  <2>1. sup' = sup \/ sup' = [sup EXCEPT !.busy = FALSE]
    BY DEF Read
  <2> QED  BY <2>1 DEF Typed, Sup
<1>4. Silent /\ wr' = wr
  BY <1>3 DEF Read, Rest, Silent
<1>5. \/ /\ Top.at = "read" /\ rd = "preopen" /\ rd' = rd
         /\ stack' = <<Frame("start"), Frame("first")>> \o Tail(stack)
      \/ /\ Top.at = "first" /\ rd' = rd
         /\ stack' = <<Frame("read")>> \o Tail(stack)
      \/ stack' = Tail(stack) /\ Top.at \in {"first", "read"} /\ rd' = rd
      \/ /\ Top.at = "read" /\ rd = "open" /\ rd' = "dead"
         /\ stack' = <<GetReply, Frame("ended")>> \o Tail(stack)
      \/ /\ Top.at = "read" /\ rd' = rd
         /\ stack' = <<Frame("abort"), Frame("fail")>> \o Tail(stack)
      \/ stack' = Tail(stack) /\ Top.at \in {"ended", "fail"} /\ rd' = rd
  BY DEF Read, Now, Top, Then, Return, COMPLETE, Fine
<1>6. ASSUME /\ Top.at = "read" /\ rd = "preopen" /\ rd' = rd
             /\ stack' = <<Frame("start"), Frame("first")>> \o Tail(stack)
      PROVE  Shape' /\ Owed'
  <2> DEFINE f == Frame("start")
             g == Frame("first")
  <2>1. f \in Frames /\ f.at = "start"
    BY <1>1, <1>2, <1>6 DEF Frame, GetReply, Frames, Commands
  <2>2. g \in Frames /\ g.at = "first"
    BY <1>1, <1>2, <1>6 DEF Frame, GetReply, Frames, Commands
  <2>3. stack' = <<f, g>> \o Tail(stack)
    BY <1>6
  <2> HIDE DEF f, g
  <2>4. Fits(g, Beneath(stack))
    BY <1>1, <1>2, <1>6, <2>2 DEF Fits, Awaits, Places, Transfers
  <2>5. Fits(f, g.at)
    BY <1>2, <1>6, <2>1, <2>2 DEF Fits, Awaits, Places, Transfers
  <2>6. /\ Chain(stack') /\ stack' # <<>> /\ Top' = f /\ Beneath(stack') = g.at
        /\ Bottom(stack') = IF Tail(stack) = <<>> THEN g.at ELSE Bottom(stack)
    BY <1>1, <1>2, <2>3, <2>1, <2>2, <2>4, <2>5, Put2
  <2>7. /\ NoneDue' = NoneDue /\ OneDue' = OneDue /\ EndDue' = EndDue
        /\ AborDue' = AborDue /\ BothDue' = BothDue /\ Live' = Live
    BY <1>4, SameDue, SilentLive DEF Silent
  <2>8. Live => NoneDue
    BY <1>1, <1>2, <1>6 DEF Owed, Due, PRELIM, COMPLETE, TRANSIENT
  <2>9. Live' => IF stack' = <<>> THEN NoneDue' ELSE Due'
    BY <1>1, <1>2, <1>3, <1>4, <1>6, <2>1, <2>2, <2>6, <2>7, <2>8, EndIsOne
       DEF Due, Transfers, PRELIM, COMPLETE, TRANSIENT
  <2>10. "copy" \notin opt.ops => Writing'
    BY <1>1, <1>2, <1>4, <1>6, <2>1, <2>2, <2>6 DEF Owed, Writing
  <2>11. Shape'
    BY <1>1, <1>2, <1>4, <1>6, <2>1, <2>2, <2>6 DEF Shape, Silent
  <2> QED  BY <1>4, <2>9, <2>10, <2>11 DEF Owed, Silent
<1>7. ASSUME /\ Top.at = "first" /\ rd' = rd
             /\ stack' = <<Frame("read")>> \o Tail(stack)
      PROVE  Shape' /\ Owed'
  <2> DEFINE f == Frame("read")
  <2>1. f \in Frames /\ f.at = "read"
    BY <1>1, <1>2, <1>7 DEF Frame, GetReply, Frames, Commands
  <2>2. stack' = <<f>> \o Tail(stack)
    BY <1>7
  <2> HIDE DEF f
  <2>3. Fits(f, Beneath(stack))
    BY <1>1, <1>2, <1>7, <2>1 DEF Fits, Awaits, Places, Transfers
  <2>4. /\ Chain(stack') /\ stack' # <<>> /\ Top' = f /\ Beneath(stack') = Beneath(stack)
        /\ Bottom(stack') = IF Tail(stack) = <<>> THEN f.at ELSE Bottom(stack)
    BY <1>1, <1>2, <2>2, <2>1, <2>3, Put1
  <2>5. /\ NoneDue' = NoneDue /\ OneDue' = OneDue /\ EndDue' = EndDue
        /\ AborDue' = AborDue /\ BothDue' = BothDue /\ Live' = Live
    BY <1>4, SameDue, SilentLive DEF Silent
  <2>6. Live => (rd = "open" => EndDue) /\ (rd # "open" => NoneDue)
    BY <1>1, <1>2, <1>7 DEF Owed, Due, PRELIM, COMPLETE, TRANSIENT
  <2>7. Live' => IF stack' = <<>> THEN NoneDue' ELSE Due'
    BY <1>1, <1>2, <1>3, <1>4, <1>7, <2>1, <2>4, <2>5, <2>6, EndIsOne
       DEF Due, Transfers, PRELIM, COMPLETE, TRANSIENT
  <2>8. "copy" \notin opt.ops => Writing'
    BY <1>1, <1>2, <1>4, <1>7, <2>1, <2>4 DEF Owed, Writing
  <2>9. Shape'
    BY <1>1, <1>2, <1>4, <1>7, <2>1, <2>4 DEF Shape, Silent
  <2> QED  BY <1>4, <2>7, <2>8, <2>9 DEF Owed, Silent
<1>8. ASSUME stack' = Tail(stack) /\ Top.at \in {"first", "read"} /\ rd' = rd
      PROVE  Shape' /\ Owed'
  <2>1. Beneath(stack) \in {"got"}
    BY <1>1, <1>2, <1>8 DEF Fits
  <2>2. /\ Chain(stack') /\ (stack' = <<>> <=> Beneath(stack) = "-")
        /\ stack' # <<>> => Top'.at = Beneath(stack) /\ Bottom(stack') = Bottom(stack)
    BY <1>1, <1>2, <1>8, Popped
  <2>3. /\ NoneDue' = NoneDue /\ OneDue' = OneDue /\ EndDue' = EndDue
        /\ AborDue' = AborDue /\ BothDue' = BothDue /\ Live' = Live
    BY <1>4, SameDue, SilentLive DEF Silent
  <2>4. Live => (rd = "open" => EndDue) /\ (rd # "open" => NoneDue)
    BY <1>1, <1>2, <1>8 DEF Owed, Due, PRELIM, COMPLETE, TRANSIENT
  <2>5. Live' => IF stack' = <<>> THEN NoneDue' ELSE Due'
    BY <1>1, <1>2, <1>3, <1>4, <1>8, <2>1, <2>2, <2>3, <2>4, EndIsOne
       DEF Due, Transfers, PRELIM, COMPLETE, TRANSIENT
  <2>6. "copy" \notin opt.ops => Writing'
    BY <1>1, <1>2, <1>4, <1>8, <2>1, <2>2 DEF Owed, Writing
  <2>7. Shape'
    BY <1>1, <1>2, <1>4, <1>8, <2>1, <2>2 DEF Shape, Silent
  <2> QED  BY <1>4, <2>5, <2>6, <2>7 DEF Owed, Silent
<1>9. ASSUME /\ Top.at = "read" /\ rd = "open" /\ rd' = "dead"
             /\ stack' = <<GetReply, Frame("ended")>> \o Tail(stack)
      PROVE  Shape' /\ Owed'
  <2> DEFINE f == GetReply
             g == Frame("ended")
  <2>1. f \in Frames /\ f.at = "reply" /\ f.arg = "-" /\ f.wait = "-"
    BY <1>1, <1>2, <1>9 DEF Frame, GetReply, Frames, Commands
  <2>2. g \in Frames /\ g.at = "ended"
    BY <1>1, <1>2, <1>9 DEF Frame, GetReply, Frames, Commands
  <2>3. stack' = <<f, g>> \o Tail(stack)
    BY <1>9
  <2> HIDE DEF f, g
  <2>4. Fits(g, Beneath(stack))
    BY <1>1, <1>2, <1>9, <2>2 DEF Fits, Awaits, Places, Transfers
  <2>5. Fits(f, g.at)
    BY <1>2, <1>9, <2>1, <2>2 DEF Fits, Awaits, Places, Transfers
  <2>6. /\ Chain(stack') /\ stack' # <<>> /\ Top' = f /\ Beneath(stack') = g.at
        /\ Bottom(stack') = IF Tail(stack) = <<>> THEN g.at ELSE Bottom(stack)
    BY <1>1, <1>2, <2>3, <2>1, <2>2, <2>4, <2>5, Put2
  <2>7. /\ NoneDue' = NoneDue /\ OneDue' = OneDue /\ EndDue' = EndDue
        /\ AborDue' = AborDue /\ BothDue' = BothDue /\ Live' = Live
    BY <1>4, SameDue, SilentLive DEF Silent
  <2>8. Live => EndDue
    BY <1>1, <1>2, <1>9 DEF Owed, Due, PRELIM, COMPLETE, TRANSIENT
  <2>9. Live' => IF stack' = <<>> THEN NoneDue' ELSE Due'
    BY <1>1, <1>2, <1>3, <1>4, <1>9, <2>1, <2>2, <2>6, <2>7, <2>8, EndIsOne
       DEF Due, Transfers, PRELIM, COMPLETE, TRANSIENT
  <2>10. "copy" \notin opt.ops => Writing'
    BY <1>1, <1>2, <1>4, <1>9, <2>1, <2>2, <2>6 DEF Owed, Writing
  <2>11. Shape'
    BY <1>1, <1>2, <1>4, <1>9, <2>1, <2>2, <2>6 DEF Shape, Silent
  <2> QED  BY <1>4, <2>9, <2>10, <2>11 DEF Owed, Silent
<1>10. ASSUME /\ Top.at = "read" /\ rd' = rd
             /\ stack' = <<Frame("abort"), Frame("fail")>> \o Tail(stack)
      PROVE  Shape' /\ Owed'
  <2> DEFINE f == Frame("abort")
             g == Frame("fail")
  <2>1. f \in Frames /\ f.at = "abort"
    BY <1>1, <1>2, <1>10 DEF Frame, GetReply, Frames, Commands
  <2>2. g \in Frames /\ g.at = "fail"
    BY <1>1, <1>2, <1>10 DEF Frame, GetReply, Frames, Commands
  <2>3. stack' = <<f, g>> \o Tail(stack)
    BY <1>10
  <2> HIDE DEF f, g
  <2>4. Fits(g, Beneath(stack))
    BY <1>1, <1>2, <1>10, <2>2 DEF Fits, Awaits, Places, Transfers
  <2>5. Fits(f, g.at)
    BY <1>2, <1>10, <2>1, <2>2 DEF Fits, Awaits, Places, Transfers
  <2>6. /\ Chain(stack') /\ stack' # <<>> /\ Top' = f /\ Beneath(stack') = g.at
        /\ Bottom(stack') = IF Tail(stack) = <<>> THEN g.at ELSE Bottom(stack)
    BY <1>1, <1>2, <2>3, <2>1, <2>2, <2>4, <2>5, Put2
  <2>7. /\ NoneDue' = NoneDue /\ OneDue' = OneDue /\ EndDue' = EndDue
        /\ AborDue' = AborDue /\ BothDue' = BothDue /\ Live' = Live
    BY <1>4, SameDue, SilentLive DEF Silent
  <2>8. Live => (rd = "open" => EndDue) /\ (rd # "open" => NoneDue)
    BY <1>1, <1>2, <1>10 DEF Owed, Due, PRELIM, COMPLETE, TRANSIENT
  <2>9. Live' => IF stack' = <<>> THEN NoneDue' ELSE Due'
    BY <1>1, <1>2, <1>3, <1>4, <1>10, <2>1, <2>2, <2>6, <2>7, <2>8, EndIsOne
       DEF Due, Transfers, PRELIM, COMPLETE, TRANSIENT
  <2>10. "copy" \notin opt.ops => Writing'
    BY <1>1, <1>2, <1>4, <1>10, <2>1, <2>2, <2>6 DEF Owed, Writing
  <2>11. Shape'
    BY <1>1, <1>2, <1>4, <1>10, <2>1, <2>2, <2>6 DEF Shape, Silent
  <2> QED  BY <1>4, <2>9, <2>10, <2>11 DEF Owed, Silent
<1>11. ASSUME stack' = Tail(stack) /\ Top.at \in {"ended", "fail"} /\ rd' = rd
      PROVE  Shape' /\ Owed'
  <2>1. Beneath(stack) \in {"got", "-"}
    BY <1>1, <1>2, <1>11 DEF Fits
  <2>2. /\ Chain(stack') /\ (stack' = <<>> <=> Beneath(stack) = "-")
        /\ stack' # <<>> => Top'.at = Beneath(stack) /\ Bottom(stack') = Bottom(stack)
    BY <1>1, <1>2, <1>11, Popped
  <2>3. /\ NoneDue' = NoneDue /\ OneDue' = OneDue /\ EndDue' = EndDue
        /\ AborDue' = AborDue /\ BothDue' = BothDue /\ Live' = Live
    BY <1>4, SameDue, SilentLive DEF Silent
  <2>4. rd # "open"
    BY <1>1, <1>11, Running DEF Readings
  <2>5. Live => NoneDue
    BY <1>1, <1>2, <1>11, <2>4 DEF Owed, Due, PRELIM, COMPLETE, TRANSIENT
  <2>6. Live' => IF stack' = <<>> THEN NoneDue' ELSE Due'
    BY <1>1, <1>2, <1>3, <1>4, <1>11, <2>1, <2>2, <2>3, <2>5, EndIsOne, <2>4
       DEF Due, Transfers, PRELIM, COMPLETE, TRANSIENT
  <2>7. "copy" \notin opt.ops => Writing'
    BY <1>1, <1>2, <1>4, <1>11, <2>1, <2>2, <2>4 DEF Owed, Writing
  <2>8. Shape'
    BY <1>1, <1>2, <1>4, <1>11, <2>1, <2>2 DEF Shape, Silent
  <2> QED  BY <1>4, <2>6, <2>7, <2>8 DEF Owed, Silent
<1> QED  BY <1>5, <1>6, <1>7, <1>8, <1>9, <1>10, <1>11

\* What has been read is followed by another read or by the end.
LEMMA GotKeeps == ASSUME Typed, Shape, Owed, Got PROVE Shape' /\ Owed'
<1>1. stack # <<>> /\ Top.at \in {"got"}
  BY DEF Got, Now, Top
<1>2. Chain(stack) /\ Top \in Frames /\ Fits(Top, Beneath(stack))
  BY <1>1, Running DEF Shape
<1>3. sup' = sup
  BY DEF Got
<1>4. Silent /\ rd' = rd /\ wr' = wr
  BY <1>3 DEF Got, remote, handles, Rest, Silent
<1>5. \/ stack' = <<Frame("read"), Top>> \o Tail(stack)
      \/ stack' = Tail(stack)
  BY DEF Got, Now, Top, Then, Return
<1>6. ASSUME stack' = <<Frame("read"), Top>> \o Tail(stack)
      PROVE  Shape' /\ Owed'
  <2> DEFINE f == Frame("read")
             g == Top
  <2>1. f \in Frames /\ f.at = "read"
    BY <1>1, <1>2, <1>6 DEF Frame, Frames, Commands
  <2>2. g \in Frames /\ g.at = "got"
    BY <1>1, <1>2, <1>6 DEF Frame, Frames, Commands
  <2>3. stack' = <<f, g>> \o Tail(stack)
    BY <1>6
  <2> HIDE DEF f, g
  <2>4. Fits(g, Beneath(stack))
    BY <1>1, <1>2, <1>6, <2>2 DEF Fits, Awaits, Places, Transfers
  <2>5. Fits(f, g.at)
    BY <1>2, <1>6, <2>1, <2>2 DEF Fits, Awaits, Places, Transfers
  <2>6. /\ Chain(stack') /\ stack' # <<>> /\ Top' = f /\ Beneath(stack') = g.at
        /\ Bottom(stack') = IF Tail(stack) = <<>> THEN g.at ELSE Bottom(stack)
    BY <1>1, <1>2, <2>3, <2>1, <2>2, <2>4, <2>5, Put2
  <2>7. /\ NoneDue' = NoneDue /\ OneDue' = OneDue /\ EndDue' = EndDue
        /\ AborDue' = AborDue /\ BothDue' = BothDue /\ Live' = Live
    BY <1>4, SameDue, SilentLive DEF Silent
  <2>8. Live => (rd = "open" => EndDue) /\ (rd # "open" => NoneDue)
    BY <1>1, <1>2, <1>6 DEF Owed, Due, PRELIM, COMPLETE, TRANSIENT
  <2>9. Live' => IF stack' = <<>> THEN NoneDue' ELSE Due'
    BY <1>1, <1>2, <1>3, <1>4, <1>6, <2>1, <2>2, <2>6, <2>7, <2>8, EndIsOne
       DEF Due, Transfers, PRELIM, COMPLETE, TRANSIENT
  <2>10. "copy" \notin opt.ops => Writing'
    BY <1>1, <1>2, <1>4, <1>6, <2>1, <2>2, <2>6 DEF Owed, Writing
  <2>11. Shape'
    BY <1>1, <1>2, <1>4, <1>6, <2>1, <2>2, <2>6 DEF Shape, Silent
  <2> QED  BY <1>4, <2>9, <2>10, <2>11 DEF Owed, Silent
<1>7. ASSUME stack' = Tail(stack)
      PROVE  Shape' /\ Owed'
  <2>1. Beneath(stack) \in {"closeread"}
    BY <1>1, <1>2, <1>7 DEF Fits
  <2>2. /\ Chain(stack') /\ (stack' = <<>> <=> Beneath(stack) = "-")
        /\ stack' # <<>> => Top'.at = Beneath(stack) /\ Bottom(stack') = Bottom(stack)
    BY <1>1, <1>2, <1>7, Popped
  <2>3. /\ NoneDue' = NoneDue /\ OneDue' = OneDue /\ EndDue' = EndDue
        /\ AborDue' = AborDue /\ BothDue' = BothDue /\ Live' = Live
    BY <1>4, SameDue, SilentLive DEF Silent
  <2>4. Live => (rd = "open" => EndDue) /\ (rd # "open" => NoneDue)
    BY <1>1, <1>2, <1>7 DEF Owed, Due, PRELIM, COMPLETE, TRANSIENT
  <2>5. Live' => IF stack' = <<>> THEN NoneDue' ELSE Due'
    BY <1>1, <1>2, <1>3, <1>4, <1>7, <2>1, <2>2, <2>3, <2>4, EndIsOne
       DEF Due, Transfers, PRELIM, COMPLETE, TRANSIENT
  <2>6. "copy" \notin opt.ops => Writing'
    BY <1>1, <1>2, <1>4, <1>7, <2>1, <2>2 DEF Owed, Writing
  <2>7. Shape'
    BY <1>1, <1>2, <1>4, <1>7, <2>1, <2>2 DEF Shape, Silent
  <2> QED  BY <1>4, <2>5, <2>6, <2>7 DEF Owed, Silent
<1> QED  BY <1>5, <1>6, <1>7

\* A transfer that is not over is aborted before the file is closed.
LEMMA CloseReadKeeps == ASSUME Typed, Shape, Owed, CloseRead PROVE Shape' /\ Owed'
<1>1. stack # <<>> /\ Top.at \in {"closeread"}
  BY DEF CloseRead, Now, Top
<1>2. Chain(stack) /\ Top \in Frames /\ Fits(Top, Beneath(stack))
  BY <1>1, Running DEF Shape
<1>3. sup' = sup
  BY DEF CloseRead
<1>4. Silent /\ wr' = wr
  BY <1>3 DEF CloseRead, remote, Rest, Silent
<1>5. \/ /\ rd = "open" /\ rd' = rd
         /\ stack' = <<Frame("abort"), Top>> \o Tail(stack)
      \/ stack' = Tail(stack) /\ rd # "open" /\ rd' = "none"
  BY DEF CloseRead, Now, Top, Then, Return
<1>6. ASSUME /\ rd = "open" /\ rd' = rd
             /\ stack' = <<Frame("abort"), Top>> \o Tail(stack)
      PROVE  Shape' /\ Owed'
  <2> DEFINE f == Frame("abort")
             g == Top
  <2>1. f \in Frames /\ f.at = "abort"
    BY <1>1, <1>2, <1>6 DEF Frame, Frames, Commands
  <2>2. g \in Frames /\ g.at = "closeread"
    BY <1>1, <1>2, <1>6 DEF Frame, Frames, Commands
  <2>3. stack' = <<f, g>> \o Tail(stack)
    BY <1>6
  <2> HIDE DEF f, g
  <2>4. Fits(g, Beneath(stack))
    BY <1>1, <1>2, <1>6, <2>2 DEF Fits, Awaits, Places, Transfers
  <2>5. Fits(f, g.at)
    BY <1>2, <1>6, <2>1, <2>2 DEF Fits, Awaits, Places, Transfers
  <2>6. /\ Chain(stack') /\ stack' # <<>> /\ Top' = f /\ Beneath(stack') = g.at
        /\ Bottom(stack') = IF Tail(stack) = <<>> THEN g.at ELSE Bottom(stack)
    BY <1>1, <1>2, <2>3, <2>1, <2>2, <2>4, <2>5, Put2
  <2>7. /\ NoneDue' = NoneDue /\ OneDue' = OneDue /\ EndDue' = EndDue
        /\ AborDue' = AborDue /\ BothDue' = BothDue /\ Live' = Live
    BY <1>4, SameDue, SilentLive DEF Silent
  <2>8. Live => EndDue
    BY <1>1, <1>2, <1>6 DEF Owed, Due, PRELIM, COMPLETE, TRANSIENT
  <2>9. Live' => IF stack' = <<>> THEN NoneDue' ELSE Due'
    BY <1>1, <1>2, <1>3, <1>4, <1>6, <2>1, <2>2, <2>6, <2>7, <2>8, EndIsOne
       DEF Due, Transfers, PRELIM, COMPLETE, TRANSIENT
  <2>10. "copy" \notin opt.ops => Writing'
    BY <1>1, <1>2, <1>4, <1>6, <2>1, <2>2, <2>6 DEF Owed, Writing
  <2>11. Shape'
    BY <1>1, <1>2, <1>4, <1>6, <2>1, <2>2, <2>6 DEF Shape, Silent
  <2> QED  BY <1>4, <2>9, <2>10, <2>11 DEF Owed, Silent
<1>7. ASSUME stack' = Tail(stack) /\ rd # "open" /\ rd' = "none"
      PROVE  Shape' /\ Owed'
  <2>1. Beneath(stack) \in {"closewrite", "-"}
    BY <1>1, <1>2, <1>7 DEF Fits
  <2>2. /\ Chain(stack') /\ (stack' = <<>> <=> Beneath(stack) = "-")
        /\ stack' # <<>> => Top'.at = Beneath(stack) /\ Bottom(stack') = Bottom(stack)
    BY <1>1, <1>2, <1>7, Popped
  <2>3. /\ NoneDue' = NoneDue /\ OneDue' = OneDue /\ EndDue' = EndDue
        /\ AborDue' = AborDue /\ BothDue' = BothDue /\ Live' = Live
    BY <1>4, SameDue, SilentLive DEF Silent
  <2>4. "copy" \notin opt.ops => Beneath(stack) # "closewrite"
    <3> SUFFICES ASSUME "copy" \notin opt.ops, Beneath(stack) = "closewrite" PROVE FALSE
      OBVIOUS
    <3>1. stack' # <<>> /\ Head(stack').at = "closewrite" /\ Bottom(stack') = Bottom(stack)
      BY <2>2 DEF Top
    <3>2. Beneath(stack') = "-"
      BY <2>2, <3>1, TopFits DEF Fits
    <3>3. Bottom(stack') = "closewrite"
      BY <2>2, <3>1, <3>2, Alone
    <3> QED  BY <1>1, <3>1, <3>3 DEF Owed, Writing
  <2>5. Live => "copy" \notin opt.ops
    BY DEF Live
  <2>6. Live => NoneDue
    BY <1>1, <1>2, <1>7, <2>4, <2>5 DEF Owed, Due, PRELIM, COMPLETE, TRANSIENT
  <2>7. Live' => IF stack' = <<>> THEN NoneDue' ELSE Due'
    BY <1>1, <1>2, <1>3, <1>4, <1>7, <2>1, <2>2, <2>3, <2>6, EndIsOne, <2>4, <2>5
       DEF Due, Transfers, PRELIM, COMPLETE, TRANSIENT
  <2>8. "copy" \notin opt.ops => Writing'
    BY <1>1, <1>2, <1>4, <1>7, <2>1, <2>2, <2>4, <2>5 DEF Owed, Writing
  <2>9. Shape'
    BY <1>1, <1>2, <1>4, <1>7, <2>1, <2>2 DEF Shape, Silent
  <2> QED  BY <1>4, <2>7, <2>8, <2>9 DEF Owed, Silent
<1> QED  BY <1>5, <1>6, <1>7

\* A listing that was refused is asked for again.
LEMMA ListedAgain ==
  ASSUME NEW f \in Frames
  PROVE  LET g == [f EXCEPT !.at = "list", !.wait = "cd"]
         IN g \in Frames /\ g.at = "list" /\ g.arg = f.arg
  BY DEF Frames

\* A directory is set, or listed, or the listing is tried in another way.
LEMMA ListKeeps == ASSUME Typed, Shape, Owed, List PROVE Shape' /\ Owed'
<1>1. stack # <<>> /\ Top.at \in {"list", "there", "listing", "listed"}
  BY DEF List, Now, Top
<1>2. Chain(stack) /\ Top \in Frames /\ Fits(Top, Beneath(stack)) /\ rd # "open"
  BY <1>1, Running DEF Shape, Readings
<1>3. sup'.sock = sup.sock /\ sup'.code = sup.code /\ sup'.from = sup.from
  <2>1. \/ sup' = sup \/ sup' = [sup EXCEPT !.strict = "strict"]
        \/ sup' = [sup EXCEPT !.strict = IF @ = "auto" THEN "daring" ELSE @]
    BY DEF List, Top
  <2> QED  BY <2>1 DEF Typed, Sup
<1>4. Silent /\ rd' = rd /\ wr' = wr
  BY <1>3 DEF List, handles, Silent
<1>5. \/ /\ Top.at = "list"
         /\ stack' = <<With("chdir", Top.arg), [Top EXCEPT !.at = "there", !.wait = "cd"]>> \o Tail(stack)
      \/ /\ Top.at \in {"list", "there"}
         /\ stack' = (DataConnection((IF sup.strict = "strict" THEN "LIST" ELSE "LIST -la"), "no")
                      \o <<[Top EXCEPT !.at = "listing"]>>) \o Tail(stack)
      \/ /\ stack' = Tail(stack)
         /\ Top.at \in {"there", "listed"} \/ (Top.at = "listing" /\ ret # 1)
      \/ /\ stack' = <<[Top EXCEPT !.at = "list", !.wait = "cd"]>> \o Tail(stack)
         /\ Top.at = "listed" \/ (Top.at = "listing" /\ ret # 1)
      \/ /\ Top.at = "listing" /\ ret = 1
         /\ stack' = <<GetReply, [Top EXCEPT !.at = "listed"]>> \o Tail(stack)
      \/ /\ Top.at = "listing" /\ ret = 1
         /\ stack' = <<GetReply, Frame("fail")>> \o Tail(stack)
  BY DEF List, Now, Top, Then, Return, COMPLETE
<1>6. ASSUME /\ Top.at = "list"
             /\ stack' = <<With("chdir", Top.arg), [Top EXCEPT !.at = "there", !.wait = "cd"]>> \o Tail(stack)
      PROVE  Shape' /\ Owed'
  <2>1. Top.arg \in {"home", "sub"}
    BY <1>1, <1>2, <1>6 DEF Fits, Places
  <2> DEFINE f == With("chdir", Top.arg)
             g == [Top EXCEPT !.at = "there", !.wait = "cd"]
  <2>2. f \in Frames /\ f.at = "chdir" /\ f.arg = Top.arg
    BY <1>1, <1>2, <1>6, <2>1 DEF Frame, With, GetReply, Frames, Commands
  <2>3. g \in Frames /\ g.at = "there" /\ g.arg = Top.arg
    BY <1>1, <1>2, <1>6, <2>1 DEF Frame, With, GetReply, Frames, Commands
  <2>4. stack' = <<f, g>> \o Tail(stack)
    BY <1>6, <2>1
  <2> HIDE DEF f, g
  <2>5. Fits(g, Beneath(stack))
    BY <1>1, <1>2, <1>6, <2>3, <2>1 DEF Fits, Awaits, Places, Transfers
  <2>6. Fits(f, g.at)
    BY <1>2, <1>6, <2>2, <2>3, <2>1 DEF Fits, Awaits, Places, Transfers
  <2>7. /\ Chain(stack') /\ stack' # <<>> /\ Top' = f /\ Beneath(stack') = g.at
        /\ Bottom(stack') = IF Tail(stack) = <<>> THEN g.at ELSE Bottom(stack)
    BY <1>1, <1>2, <2>4, <2>2, <2>3, <2>5, <2>6, Put2
  <2>8. /\ NoneDue' = NoneDue /\ OneDue' = OneDue /\ EndDue' = EndDue
        /\ AborDue' = AborDue /\ BothDue' = BothDue /\ Live' = Live
    BY <1>4, SameDue, SilentLive DEF Silent
  <2>9. Live => NoneDue
    BY <1>1, <1>2, <1>6 DEF Owed, Due, PRELIM, COMPLETE, TRANSIENT
  <2>10. Live' => IF stack' = <<>> THEN NoneDue' ELSE Due'
    BY <1>1, <1>2, <1>3, <1>4, <1>6, <2>2, <2>3, <2>7, <2>8, <2>9, EndIsOne
       DEF Due, Transfers, PRELIM, COMPLETE, TRANSIENT
  <2>11. "copy" \notin opt.ops => Writing'
    BY <1>1, <1>2, <1>4, <1>6, <2>2, <2>3, <2>7 DEF Owed, Writing
  <2>12. Shape'
    BY <1>1, <1>2, <1>4, <1>6, <2>2, <2>3, <2>7 DEF Shape, Silent
  <2> QED  BY <1>4, <2>10, <2>11, <2>12 DEF Owed, Silent
<1>7. ASSUME /\ Top.at \in {"list", "there"}
             /\ stack' = (DataConnection((IF sup.strict = "strict" THEN "LIST" ELSE "LIST -la"), "no")
                          \o <<[Top EXCEPT !.at = "listing"]>>) \o Tail(stack)
      PROVE  Shape' /\ Owed'
  <2> DEFINE i == [Top EXCEPT !.at = "listing"]
  <2>1. i \in Frames /\ i.at = "listing" /\ i.arg = Top.arg
    BY <1>2, <1>7 DEF Frame, Frames
  <2>2. stack' =
          (DataConnection((IF sup.strict = "strict" THEN "LIST" ELSE "LIST -la"), "no") \o <<i>>) \o Tail(stack)
    BY <1>7
  <2> HIDE DEF i
  <2>3. Fits(i, Beneath(stack))
    BY <1>1, <1>2, <1>7, <2>1 DEF Fits, Places
  <2>4. (IF sup.strict = "strict" THEN "LIST" ELSE "LIST -la") \in Transfers
    BY DEF Transfers
  <2>5. /\ Chain(stack') /\ stack' # <<>> /\ Top'.at = "command" /\ Top'.arg \in {"PASV", "PORT"}
        /\ Beneath(stack') = "agreed"
        /\ Bottom(stack') = IF Tail(stack) = <<>> THEN i.at ELSE Bottom(stack)
    BY <1>1, <1>2, <2>1, <2>2, <2>3, <2>4, PutTransfer
  <2>6. /\ NoneDue' = NoneDue /\ OneDue' = OneDue /\ EndDue' = EndDue
        /\ AborDue' = AborDue /\ BothDue' = BothDue /\ Live' = Live
    BY <1>4, SameDue, SilentLive DEF Silent
  <2>7. Live => NoneDue
    BY <1>1, <1>2, <1>7 DEF Owed, Due, PRELIM, COMPLETE, TRANSIENT
  <2>8. Live' => IF stack' = <<>> THEN NoneDue' ELSE Due'
    BY <1>1, <1>2, <1>3, <1>4, <1>7, <2>1, <2>5, <2>6, <2>7, EndIsOne
       DEF Due, Transfers, PRELIM, COMPLETE, TRANSIENT
  <2>9. "copy" \notin opt.ops => Writing'
    BY <1>1, <1>2, <1>4, <1>7, <2>1, <2>5 DEF Owed, Writing
  <2>10. Shape'
    BY <1>1, <1>2, <1>4, <1>7, <2>1, <2>5 DEF Shape, Silent
  <2> QED  BY <1>4, <2>8, <2>9, <2>10 DEF Owed, Silent
<1>8. ASSUME /\ stack' = Tail(stack)
             /\ Top.at \in {"there", "listed"} \/ (Top.at = "listing" /\ ret # 1)
      PROVE  Shape' /\ Owed'
  <2>1. Beneath(stack) \in {"-"}
    BY <1>1, <1>2, <1>8 DEF Fits
  <2>2. /\ Chain(stack') /\ (stack' = <<>> <=> Beneath(stack) = "-")
        /\ stack' # <<>> => Top'.at = Beneath(stack) /\ Bottom(stack') = Bottom(stack)
    BY <1>1, <1>2, <1>8, Popped
  <2>3. /\ NoneDue' = NoneDue /\ OneDue' = OneDue /\ EndDue' = EndDue
        /\ AborDue' = AborDue /\ BothDue' = BothDue /\ Live' = Live
    BY <1>4, SameDue, SilentLive DEF Silent
  <2>4. Live => NoneDue
    BY <1>1, <1>2, <1>8 DEF Owed, Due, PRELIM, COMPLETE, TRANSIENT
  <2>5. Live' => IF stack' = <<>> THEN NoneDue' ELSE Due'
    BY <1>1, <1>2, <1>3, <1>4, <1>8, <2>1, <2>2, <2>3, <2>4, EndIsOne
       DEF Due, Transfers, PRELIM, COMPLETE, TRANSIENT
  <2>6. "copy" \notin opt.ops => Writing'
    BY <1>1, <1>2, <1>4, <1>8, <2>1, <2>2 DEF Owed, Writing
  <2>7. Shape'
    BY <1>1, <1>2, <1>4, <1>8, <2>1, <2>2 DEF Shape, Silent
  <2> QED  BY <1>4, <2>5, <2>6, <2>7 DEF Owed, Silent
<1>9. ASSUME /\ stack' = <<[Top EXCEPT !.at = "list", !.wait = "cd"]>> \o Tail(stack)
             /\ Top.at = "listed" \/ (Top.at = "listing" /\ ret # 1)
      PROVE  Shape' /\ Owed'
  <2> DEFINE f == [Top EXCEPT !.at = "list", !.wait = "cd"]
  <2>1. f \in Frames /\ f.at = "list" /\ f.arg = Top.arg
    <3>1. Top \in Frames
      BY <1>2
    <3> QED  BY <3>1, ListedAgain
  <2>2. stack' = <<f>> \o Tail(stack)
    BY <1>9
  <2> HIDE DEF f
  <2>3. Fits(f, Beneath(stack))
    BY <1>1, <1>2, <1>9, <2>1 DEF Fits, Awaits, Places, Transfers
  <2>4. /\ Chain(stack') /\ stack' # <<>> /\ Top' = f /\ Beneath(stack') = Beneath(stack)
        /\ Bottom(stack') = IF Tail(stack) = <<>> THEN f.at ELSE Bottom(stack)
    BY <1>1, <1>2, <2>2, <2>1, <2>3, Put1
  <2>5. /\ NoneDue' = NoneDue /\ OneDue' = OneDue /\ EndDue' = EndDue
        /\ AborDue' = AborDue /\ BothDue' = BothDue /\ Live' = Live
    BY <1>4, SameDue, SilentLive DEF Silent
  <2>6. Live => NoneDue
    BY <1>1, <1>2, <1>9 DEF Owed, Due, PRELIM, COMPLETE, TRANSIENT
  <2>7. Live' => IF stack' = <<>> THEN NoneDue' ELSE Due'
    BY <1>1, <1>2, <1>3, <1>4, <1>9, <2>1, <2>4, <2>5, <2>6, EndIsOne
       DEF Due, Transfers, PRELIM, COMPLETE, TRANSIENT
  <2>8. "copy" \notin opt.ops => Writing'
    BY <1>1, <1>2, <1>4, <1>9, <2>1, <2>4 DEF Owed, Writing
  <2>9. Shape'
    BY <1>1, <1>2, <1>4, <1>9, <2>1, <2>4 DEF Shape, Silent
  <2> QED  BY <1>4, <2>7, <2>8, <2>9 DEF Owed, Silent
<1>10. ASSUME /\ Top.at = "listing" /\ ret = 1
             /\ stack' = <<GetReply, [Top EXCEPT !.at = "listed"]>> \o Tail(stack)
      PROVE  Shape' /\ Owed'
  <2> DEFINE f == GetReply
             g == [Top EXCEPT !.at = "listed"]
  <2>1. f \in Frames /\ f.at = "reply" /\ f.arg = "-" /\ f.wait = "-"
    BY <1>1, <1>2, <1>10 DEF Frame, With, GetReply, Frames, Commands
  <2>2. g \in Frames /\ g.at = "listed" /\ g.arg = Top.arg
    BY <1>1, <1>2, <1>10 DEF Frame, With, GetReply, Frames, Commands
  <2>3. stack' = <<f, g>> \o Tail(stack)
    BY <1>10
  <2> HIDE DEF f, g
  <2>4. Fits(g, Beneath(stack))
    BY <1>1, <1>2, <1>10, <2>2 DEF Fits, Awaits, Places, Transfers
  <2>5. Fits(f, g.at)
    BY <1>2, <1>10, <2>1, <2>2 DEF Fits, Awaits, Places, Transfers
  <2>6. /\ Chain(stack') /\ stack' # <<>> /\ Top' = f /\ Beneath(stack') = g.at
        /\ Bottom(stack') = IF Tail(stack) = <<>> THEN g.at ELSE Bottom(stack)
    BY <1>1, <1>2, <2>3, <2>1, <2>2, <2>4, <2>5, Put2
  <2>7. /\ NoneDue' = NoneDue /\ OneDue' = OneDue /\ EndDue' = EndDue
        /\ AborDue' = AborDue /\ BothDue' = BothDue /\ Live' = Live
    BY <1>4, SameDue, SilentLive DEF Silent
  <2>8. Live => EndDue
    BY <1>1, <1>2, <1>10 DEF Owed, Due, PRELIM, COMPLETE, TRANSIENT
  <2>9. Live' => IF stack' = <<>> THEN NoneDue' ELSE Due'
    BY <1>1, <1>2, <1>3, <1>4, <1>10, <2>1, <2>2, <2>6, <2>7, <2>8, EndIsOne
       DEF Due, Transfers, PRELIM, COMPLETE, TRANSIENT
  <2>10. "copy" \notin opt.ops => Writing'
    BY <1>1, <1>2, <1>4, <1>10, <2>1, <2>2, <2>6 DEF Owed, Writing
  <2>11. Shape'
    BY <1>1, <1>2, <1>4, <1>10, <2>1, <2>2, <2>6 DEF Shape, Silent
  <2> QED  BY <1>4, <2>9, <2>10, <2>11 DEF Owed, Silent
<1>11. ASSUME /\ Top.at = "listing" /\ ret = 1
             /\ stack' = <<GetReply, Frame("fail")>> \o Tail(stack)
      PROVE  Shape' /\ Owed'
  <2> DEFINE f == GetReply
             g == Frame("fail")
  <2>1. f \in Frames /\ f.at = "reply" /\ f.arg = "-" /\ f.wait = "-"
    BY <1>1, <1>2, <1>11 DEF Frame, With, GetReply, Frames, Commands
  <2>2. g \in Frames /\ g.at = "fail"
    BY <1>1, <1>2, <1>11 DEF Frame, With, GetReply, Frames, Commands
  <2>3. stack' = <<f, g>> \o Tail(stack)
    BY <1>11
  <2> HIDE DEF f, g
  <2>4. Fits(g, Beneath(stack))
    BY <1>1, <1>2, <1>11, <2>2 DEF Fits, Awaits, Places, Transfers
  <2>5. Fits(f, g.at)
    BY <1>2, <1>11, <2>1, <2>2 DEF Fits, Awaits, Places, Transfers
  <2>6. /\ Chain(stack') /\ stack' # <<>> /\ Top' = f /\ Beneath(stack') = g.at
        /\ Bottom(stack') = IF Tail(stack) = <<>> THEN g.at ELSE Bottom(stack)
    BY <1>1, <1>2, <2>3, <2>1, <2>2, <2>4, <2>5, Put2
  <2>7. /\ NoneDue' = NoneDue /\ OneDue' = OneDue /\ EndDue' = EndDue
        /\ AborDue' = AborDue /\ BothDue' = BothDue /\ Live' = Live
    BY <1>4, SameDue, SilentLive DEF Silent
  <2>8. Live => EndDue
    BY <1>1, <1>2, <1>11 DEF Owed, Due, PRELIM, COMPLETE, TRANSIENT
  <2>9. Live' => IF stack' = <<>> THEN NoneDue' ELSE Due'
    BY <1>1, <1>2, <1>3, <1>4, <1>11, <2>1, <2>2, <2>6, <2>7, <2>8, EndIsOne
       DEF Due, Transfers, PRELIM, COMPLETE, TRANSIENT
  <2>10. "copy" \notin opt.ops => Writing'
    BY <1>1, <1>2, <1>4, <1>11, <2>1, <2>2, <2>6 DEF Owed, Writing
  <2>11. Shape'
    BY <1>1, <1>2, <1>4, <1>11, <2>1, <2>2, <2>6 DEF Shape, Silent
  <2> QED  BY <1>4, <2>9, <2>10, <2>11 DEF Owed, Silent
<1> QED  BY <1>5, <1>6, <1>7, <1>8, <1>9, <1>10, <1>11

\* A file is written after the agreement on a data connection.
LEMMA StoreKeeps == ASSUME Typed, Shape, Owed, Store PROVE Shape' /\ Owed'
<1>1. stack # <<>> /\ Top.at \in {"store"}
  BY DEF Store, Now, Top
<1>2. Chain(stack) /\ Top \in Frames /\ Fits(Top, Beneath(stack)) /\ rd # "open"
  BY <1>1, Running DEF Shape, Readings
<1>3. sup' = sup
  BY DEF Store
<1>4. Silent /\ rd' = rd /\ wr' = wr
  BY <1>3 DEF Store, remote, Rest, Silent
<1>5. stack' = (DataConnection("STOR", "yes") \o <<Frame("storing")>>) \o Tail(stack)
  BY DEF Store, Now, Then
<1>6. ASSUME stack' = (DataConnection("STOR", "yes") \o <<Frame("storing")>>) \o Tail(stack)
      PROVE  Shape' /\ Owed'
  <2> DEFINE i == Frame("storing")
  <2>1. i \in Frames /\ i.at = "storing"
    BY <1>2, <1>6 DEF Frame, Frames
  <2>2. stack' = (DataConnection("STOR", "yes") \o <<i>>) \o Tail(stack)
    BY <1>6
  <2> HIDE DEF i
  <2>3. Fits(i, Beneath(stack))
    BY <1>1, <1>2, <1>6, <2>1 DEF Fits, Places
  <2>4. "STOR" \in Transfers
    BY DEF Transfers
  <2>5. /\ Chain(stack') /\ stack' # <<>> /\ Top'.at = "command" /\ Top'.arg \in {"PASV", "PORT"}
        /\ Beneath(stack') = "agreed"
        /\ Bottom(stack') = IF Tail(stack) = <<>> THEN i.at ELSE Bottom(stack)
    BY <1>1, <1>2, <2>1, <2>2, <2>3, <2>4, PutTransfer
  <2>6. /\ NoneDue' = NoneDue /\ OneDue' = OneDue /\ EndDue' = EndDue
        /\ AborDue' = AborDue /\ BothDue' = BothDue /\ Live' = Live
    BY <1>4, SameDue, SilentLive DEF Silent
  <2>7. "copy" \notin opt.ops => rd = "none"
    <3>1. Beneath(stack) = "-"
      BY <1>1, <1>2 DEF Fits
    <3>2. Bottom(stack) \in {"store", "storing"}
      BY <1>1, <1>2, <3>1, Alone DEF Top
    <3> QED  BY <1>1, <3>2 DEF Owed, Writing
  <2>8. Live => NoneDue
    BY <1>1, <1>2, <1>6, <2>7 DEF Owed, Due, PRELIM, COMPLETE, TRANSIENT
  <2>9. Live' => IF stack' = <<>> THEN NoneDue' ELSE Due'
    BY <1>1, <1>2, <1>3, <1>4, <1>6, <2>1, <2>5, <2>6, <2>8, EndIsOne, <2>7
       DEF Due, Transfers, PRELIM, COMPLETE, TRANSIENT
  <2>10. "copy" \notin opt.ops => Writing'
    BY <1>1, <1>2, <1>4, <1>6, <2>1, <2>5, <2>7 DEF Owed, Writing
  <2>11. Shape'
    BY <1>1, <1>2, <1>4, <1>6, <2>1, <2>5 DEF Shape, Silent
  <2> QED  BY <1>4, <2>9, <2>10, <2>11 DEF Owed, Silent
<1> QED  BY <1>5, <1>6

\* The pieces are written, and the transfer closed when there are no more.
LEMMA StoringKeeps == ASSUME Typed, Shape, Owed, Storing PROVE Shape' /\ Owed'
<1>1. stack # <<>> /\ Top.at \in {"storing"}
  BY DEF Storing, Now, Top
<1>2. Chain(stack) /\ Top \in Frames /\ Fits(Top, Beneath(stack)) /\ rd # "open"
  BY <1>1, Running DEF Shape, Readings
<1>3. sup' = sup
  BY DEF Storing
<1>4. Silent /\ rd' = rd
  BY <1>3 DEF Storing, Silent
<1>5. \/ stack' = Tail(stack) /\ ret # 1 /\ wr' = wr
      \/ /\ rd # "none" /\ wr' = wr
         /\ stack' = <<Frame("closeread")>> \o Tail(stack)
      \/ /\ stack' = stack /\ ret' = ret /\ ret = 1 /\ wr' = "stream"
      \/ /\ rd # "none" /\ wr' = "stream"
         /\ stack' = <<Frame("read"), With("got", "copy"), Frame("closeread"), Frame("closewrite")>>
                      \o Tail(stack)
      \/ /\ stack' = stack /\ ret' = ret /\ wr = "stream" /\ wr' = wr
      \/ /\ wr = "stream" /\ wr' = wr
         /\ stack' = <<Frame("closewrite")>> \o Tail(stack)
  BY DEF Storing, Now, Then, Return, Fine
<1>6. ASSUME stack' = Tail(stack) /\ ret # 1 /\ wr' = wr
      PROVE  Shape' /\ Owed'
  <2>1. Beneath(stack) \in {"-"}
    BY <1>1, <1>2, <1>6 DEF Fits
  <2>2. /\ Chain(stack') /\ (stack' = <<>> <=> Beneath(stack) = "-")
        /\ stack' # <<>> => Top'.at = Beneath(stack) /\ Bottom(stack') = Bottom(stack)
    BY <1>1, <1>2, <1>6, Popped
  <2>3. /\ NoneDue' = NoneDue /\ OneDue' = OneDue /\ EndDue' = EndDue
        /\ AborDue' = AborDue /\ BothDue' = BothDue /\ Live' = Live
    BY <1>4, SameDue, SilentLive DEF Silent
  <2>4. Live => NoneDue
    BY <1>1, <1>2, <1>6 DEF Owed, Due, PRELIM, COMPLETE, TRANSIENT
  <2>5. Live' => IF stack' = <<>> THEN NoneDue' ELSE Due'
    BY <1>1, <1>2, <1>3, <1>4, <1>6, <2>1, <2>2, <2>3, <2>4, EndIsOne
       DEF Due, Transfers, PRELIM, COMPLETE, TRANSIENT
  <2>6. "copy" \notin opt.ops => Writing'
    BY <1>1, <1>2, <1>4, <1>6, <2>1, <2>2 DEF Owed, Writing
  <2>7. Shape'
    BY <1>1, <1>2, <1>4, <1>6, <2>1, <2>2 DEF Shape, Silent
  <2> QED  BY <1>4, <2>5, <2>6, <2>7 DEF Owed, Silent
<1>7. ASSUME /\ rd # "none" /\ wr' = wr
             /\ stack' = <<Frame("closeread")>> \o Tail(stack)
      PROVE  Shape' /\ Owed'
  <2> DEFINE f == Frame("closeread")
  <2>1. f \in Frames /\ f.at = "closeread"
    BY <1>1, <1>2, <1>7 DEF Frame, With, Frames, Commands
  <2>2. stack' = <<f>> \o Tail(stack)
    BY <1>7
  <2> HIDE DEF f
  <2>3. Fits(f, Beneath(stack))
    BY <1>1, <1>2, <1>7, <2>1 DEF Fits, Awaits, Places, Transfers
  <2>4. /\ Chain(stack') /\ stack' # <<>> /\ Top' = f /\ Beneath(stack') = Beneath(stack)
        /\ Bottom(stack') = IF Tail(stack) = <<>> THEN f.at ELSE Bottom(stack)
    BY <1>1, <1>2, <2>2, <2>1, <2>3, Put1
  <2>5. /\ NoneDue' = NoneDue /\ OneDue' = OneDue /\ EndDue' = EndDue
        /\ AborDue' = AborDue /\ BothDue' = BothDue /\ Live' = Live
    BY <1>4, SameDue, SilentLive DEF Silent
  <2>6. "copy" \notin opt.ops => rd = "none"
    <3>1. Beneath(stack) = "-"
      BY <1>1, <1>2 DEF Fits
    <3>2. Bottom(stack) \in {"store", "storing"}
      BY <1>1, <1>2, <3>1, Alone DEF Top
    <3> QED  BY <1>1, <3>2 DEF Owed, Writing
  <2>7. "copy" \in opt.ops
    BY <2>6, <1>7
  <2>8. Live => FALSE
    BY <1>1, <1>2, <1>7, <2>7 DEF Owed, Due, Live, PRELIM, COMPLETE, TRANSIENT
  <2>9. Live' => IF stack' = <<>> THEN NoneDue' ELSE Due'
    BY <1>1, <1>2, <1>3, <1>4, <1>7, <2>1, <2>4, <2>5, <2>8, EndIsOne, <2>7
       DEF Due, Transfers, PRELIM, COMPLETE, TRANSIENT
  <2>10. "copy" \notin opt.ops => Writing'
    BY <1>1, <1>2, <1>4, <1>7, <2>1, <2>4, <2>7 DEF Owed, Writing
  <2>11. Shape'
    BY <1>1, <1>2, <1>4, <1>7, <2>1, <2>4 DEF Shape, Silent
  <2> QED  BY <1>4, <2>9, <2>10, <2>11 DEF Owed, Silent
<1>8. ASSUME /\ stack' = stack /\ ret' = ret /\ ret = 1 /\ wr' = "stream"
      PROVE  Shape' /\ Owed'
  <2>1. /\ Chain(stack') /\ stack' # <<>> /\ Top' = Top
        /\ Beneath(stack') = Beneath(stack) /\ Bottom(stack') = Bottom(stack)
    BY <1>1, <1>2, <1>8 DEF Top
  <2>2. /\ NoneDue' = NoneDue /\ OneDue' = OneDue /\ EndDue' = EndDue
        /\ AborDue' = AborDue /\ BothDue' = BothDue /\ Live' = Live
    BY <1>4, SameDue, SilentLive DEF Silent
  <2>3. Live => EndDue
    BY <1>1, <1>2, <1>8 DEF Owed, Due, PRELIM, COMPLETE, TRANSIENT
  <2>4. Live' => IF stack' = <<>> THEN NoneDue' ELSE Due'
    BY <1>1, <1>2, <1>3, <1>4, <1>8, <2>1, <2>2, <2>3, EndIsOne DEF Due, Transfers, PRELIM,
           COMPLETE, TRANSIENT
  <2>5. "copy" \notin opt.ops => Writing'
    BY <1>1, <1>2, <1>4, <1>8, <2>1 DEF Owed, Writing
  <2>6. Shape'
    BY <1>1, <1>2, <1>4, <1>8, <2>1 DEF Shape, Silent
  <2> QED  BY <1>4, <2>4, <2>5, <2>6 DEF Owed, Silent
<1>9. ASSUME /\ rd # "none" /\ wr' = "stream"
             /\ stack' = <<Frame("read"), With("got", "copy"), Frame("closeread"), Frame("closewrite")>>
                          \o Tail(stack)
      PROVE  Shape' /\ Owed'
  <2> DEFINE f == Frame("read")
             g == With("got", "copy")
             h == Frame("closeread")
             i == Frame("closewrite")
  <2>1. f \in Frames /\ f.at = "read"
    BY <1>1, <1>2, <1>9 DEF Frame, With, Frames, Commands
  <2>2. g \in Frames /\ g.at = "got"
    BY <1>1, <1>2, <1>9 DEF Frame, With, Frames, Commands
  <2>3. h \in Frames /\ h.at = "closeread"
    BY <1>1, <1>2, <1>9 DEF Frame, With, Frames, Commands
  <2>4. i \in Frames /\ i.at = "closewrite"
    BY <1>1, <1>2, <1>9 DEF Frame, With, Frames, Commands
  <2>5. stack' = <<f, g, h, i>> \o Tail(stack)
    BY <1>9
  <2> HIDE DEF f, g, h, i
  <2>6. Fits(i, Beneath(stack))
    BY <1>1, <1>2, <1>9, <2>4 DEF Fits, Awaits, Places, Transfers
  <2>7. Fits(h, i.at) /\ Fits(g, h.at) /\ Fits(f, g.at)
    BY <1>2, <1>9, <2>1, <2>2, <2>3, <2>4 DEF Fits, Awaits, Places, Transfers
  <2>8. /\ Chain(stack') /\ stack' # <<>> /\ Top' = f /\ Beneath(stack') = g.at
        /\ Bottom(stack') = IF Tail(stack) = <<>> THEN i.at ELSE Bottom(stack)
    BY <1>1, <1>2, <2>5, <2>1, <2>2, <2>3, <2>4, <2>6, <2>7, Put4
  <2>9. /\ NoneDue' = NoneDue /\ OneDue' = OneDue /\ EndDue' = EndDue
        /\ AborDue' = AborDue /\ BothDue' = BothDue /\ Live' = Live
    BY <1>4, SameDue, SilentLive DEF Silent
  <2>10. "copy" \notin opt.ops => rd = "none"
    <3>1. Beneath(stack) = "-"
      BY <1>1, <1>2 DEF Fits
    <3>2. Bottom(stack) \in {"store", "storing"}
      BY <1>1, <1>2, <3>1, Alone DEF Top
    <3> QED  BY <1>1, <3>2 DEF Owed, Writing
  <2>11. "copy" \in opt.ops
    BY <2>10, <1>9
  <2>12. Live => FALSE
    BY <1>1, <1>2, <1>9, <2>11 DEF Owed, Due, Live, PRELIM, COMPLETE, TRANSIENT
  <2>13. Live' => IF stack' = <<>> THEN NoneDue' ELSE Due'
    BY <1>1, <1>2, <1>3, <1>4, <1>9, <2>1, <2>2, <2>3, <2>4, <2>8, <2>9, <2>12, EndIsOne,
       <2>11 DEF Due, Transfers, PRELIM, COMPLETE, TRANSIENT
  <2>14. "copy" \notin opt.ops => Writing'
    BY <1>1, <1>2, <1>4, <1>9, <2>1, <2>2, <2>3, <2>4, <2>8, <2>11 DEF Owed, Writing
  <2>15. Shape'
    BY <1>1, <1>2, <1>4, <1>9, <2>1, <2>2, <2>3, <2>4, <2>8 DEF Shape, Silent
  <2> QED  BY <1>4, <2>13, <2>14, <2>15 DEF Owed, Silent
<1>10. ASSUME /\ stack' = stack /\ ret' = ret /\ wr = "stream" /\ wr' = wr
      PROVE  Shape' /\ Owed'
  <2>1. /\ Chain(stack') /\ stack' # <<>> /\ Top' = Top
        /\ Beneath(stack') = Beneath(stack) /\ Bottom(stack') = Bottom(stack)
    BY <1>1, <1>2, <1>10 DEF Top
  <2>2. /\ NoneDue' = NoneDue /\ OneDue' = OneDue /\ EndDue' = EndDue
        /\ AborDue' = AborDue /\ BothDue' = BothDue /\ Live' = Live
    BY <1>4, SameDue, SilentLive DEF Silent
  <2>3. "copy" \notin opt.ops => ret = 1
    BY <1>1, <1>10 DEF Owed, Writing
  <2>4. Live => ret = 1
    BY <2>3 DEF Live
  <2>5. Live => EndDue
    BY <1>1, <1>2, <1>10, <2>4 DEF Owed, Due, PRELIM, COMPLETE, TRANSIENT
  <2>6. Live' => IF stack' = <<>> THEN NoneDue' ELSE Due'
    BY <1>1, <1>2, <1>3, <1>4, <1>10, <2>1, <2>2, <2>5, EndIsOne, <2>4
       DEF Due, Transfers, PRELIM, COMPLETE, TRANSIENT
  <2>7. "copy" \notin opt.ops => Writing'
    BY <1>1, <1>2, <1>4, <1>10, <2>1, <2>4 DEF Owed, Writing
  <2>8. Shape'
    BY <1>1, <1>2, <1>4, <1>10, <2>1 DEF Shape, Silent
  <2> QED  BY <1>4, <2>6, <2>7, <2>8 DEF Owed, Silent
<1>11. ASSUME /\ wr = "stream" /\ wr' = wr
             /\ stack' = <<Frame("closewrite")>> \o Tail(stack)
      PROVE  Shape' /\ Owed'
  <2> DEFINE f == Frame("closewrite")
  <2>1. f \in Frames /\ f.at = "closewrite"
    BY <1>1, <1>2, <1>11 DEF Frame, With, Frames, Commands
  <2>2. stack' = <<f>> \o Tail(stack)
    BY <1>11
  <2> HIDE DEF f
  <2>3. Fits(f, Beneath(stack))
    BY <1>1, <1>2, <1>11, <2>1 DEF Fits, Awaits, Places, Transfers
  <2>4. /\ Chain(stack') /\ stack' # <<>> /\ Top' = f /\ Beneath(stack') = Beneath(stack)
        /\ Bottom(stack') = IF Tail(stack) = <<>> THEN f.at ELSE Bottom(stack)
    BY <1>1, <1>2, <2>2, <2>1, <2>3, Put1
  <2>5. /\ NoneDue' = NoneDue /\ OneDue' = OneDue /\ EndDue' = EndDue
        /\ AborDue' = AborDue /\ BothDue' = BothDue /\ Live' = Live
    BY <1>4, SameDue, SilentLive DEF Silent
  <2>6. "copy" \notin opt.ops => ret = 1
    BY <1>1, <1>11 DEF Owed, Writing
  <2>7. Live => ret = 1
    BY <2>6 DEF Live
  <2>8. Live => EndDue
    BY <1>1, <1>2, <1>11, <2>7 DEF Owed, Due, PRELIM, COMPLETE, TRANSIENT
  <2>9. Live' => IF stack' = <<>> THEN NoneDue' ELSE Due'
    BY <1>1, <1>2, <1>3, <1>4, <1>11, <2>1, <2>4, <2>5, <2>8, EndIsOne, <2>7
       DEF Due, Transfers, PRELIM, COMPLETE, TRANSIENT
  <2>10. "copy" \notin opt.ops => Writing'
    BY <1>1, <1>2, <1>4, <1>11, <2>1, <2>4, <2>7 DEF Owed, Writing
  <2>11. Shape'
    BY <1>1, <1>2, <1>4, <1>11, <2>1, <2>4 DEF Shape, Silent
  <2> QED  BY <1>4, <2>9, <2>10, <2>11 DEF Owed, Silent
<1> QED  BY <1>5, <1>6, <1>7, <1>8, <1>9, <1>10, <1>11

\* The last reply of the transfer says whether the file is stored.
LEMMA CloseWriteKeeps == ASSUME Typed, Shape, Owed, CloseWrite PROVE Shape' /\ Owed'
<1>1. stack # <<>> /\ Top.at \in {"closewrite", "stored"}
  BY DEF CloseWrite, Now, Top
<1>2. Chain(stack) /\ Top \in Frames /\ Fits(Top, Beneath(stack)) /\ rd # "open"
  BY <1>1, Running DEF Shape, Readings
<1>3. sup' = sup
  BY DEF CloseWrite
<1>4. Silent /\ rd' = rd
  BY <1>3 DEF CloseWrite, Silent
<1>5. \/ /\ Top.at = "closewrite" /\ wr' = wr
         /\ stack' = <<GetReply, Frame("stored")>> \o Tail(stack)
      \/ stack' = Tail(stack) /\ Top.at = "stored" /\ wr' = "none"
  BY DEF CloseWrite, Now, Top, Then, Return, COMPLETE
<1>6. ASSUME /\ Top.at = "closewrite" /\ wr' = wr
             /\ stack' = <<GetReply, Frame("stored")>> \o Tail(stack)
      PROVE  Shape' /\ Owed'
  <2> DEFINE f == GetReply
             g == Frame("stored")
  <2>1. f \in Frames /\ f.at = "reply" /\ f.arg = "-" /\ f.wait = "-"
    BY <1>1, <1>2, <1>6 DEF Frame, GetReply, Frames, Commands
  <2>2. g \in Frames /\ g.at = "stored"
    BY <1>1, <1>2, <1>6 DEF Frame, GetReply, Frames, Commands
  <2>3. stack' = <<f, g>> \o Tail(stack)
    BY <1>6
  <2> HIDE DEF f, g
  <2>4. Fits(g, Beneath(stack))
    BY <1>1, <1>2, <1>6, <2>2 DEF Fits, Awaits, Places, Transfers
  <2>5. Fits(f, g.at)
    BY <1>2, <1>6, <2>1, <2>2 DEF Fits, Awaits, Places, Transfers
  <2>6. /\ Chain(stack') /\ stack' # <<>> /\ Top' = f /\ Beneath(stack') = g.at
        /\ Bottom(stack') = IF Tail(stack) = <<>> THEN g.at ELSE Bottom(stack)
    BY <1>1, <1>2, <2>3, <2>1, <2>2, <2>4, <2>5, Put2
  <2>7. /\ NoneDue' = NoneDue /\ OneDue' = OneDue /\ EndDue' = EndDue
        /\ AborDue' = AborDue /\ BothDue' = BothDue /\ Live' = Live
    BY <1>4, SameDue, SilentLive DEF Silent
  <2>8. Tail(stack) = <<>>
    BY <1>1, <1>2, Alone DEF Fits
  <2>9. Live => EndDue
    BY <1>1, <1>2, <1>6, <2>8 DEF Owed, Due, PRELIM, COMPLETE, TRANSIENT
  <2>10. Live' => IF stack' = <<>> THEN NoneDue' ELSE Due'
    BY <1>1, <1>2, <1>3, <1>4, <1>6, <2>1, <2>2, <2>6, <2>7, <2>9, EndIsOne, <2>8
       DEF Due, Transfers, PRELIM, COMPLETE, TRANSIENT
  <2>11. "copy" \notin opt.ops => Writing'
    BY <1>1, <1>2, <1>4, <1>6, <2>1, <2>2, <2>6, <2>8 DEF Owed, Writing
  <2>12. Shape'
    BY <1>1, <1>2, <1>4, <1>6, <2>1, <2>2, <2>6 DEF Shape, Silent
  <2> QED  BY <1>4, <2>10, <2>11, <2>12 DEF Owed, Silent
<1>7. ASSUME stack' = Tail(stack) /\ Top.at = "stored" /\ wr' = "none"
      PROVE  Shape' /\ Owed'
  <2>1. Beneath(stack) \in {"-"}
    BY <1>1, <1>2, <1>7 DEF Fits
  <2>2. /\ Chain(stack') /\ (stack' = <<>> <=> Beneath(stack) = "-")
        /\ stack' # <<>> => Top'.at = Beneath(stack) /\ Bottom(stack') = Bottom(stack)
    BY <1>1, <1>2, <1>7, Popped
  <2>3. /\ NoneDue' = NoneDue /\ OneDue' = OneDue /\ EndDue' = EndDue
        /\ AborDue' = AborDue /\ BothDue' = BothDue /\ Live' = Live
    BY <1>4, SameDue, SilentLive DEF Silent
  <2>4. Live => NoneDue
    BY <1>1, <1>2, <1>7 DEF Owed, Due, PRELIM, COMPLETE, TRANSIENT
  <2>5. Live' => IF stack' = <<>> THEN NoneDue' ELSE Due'
    BY <1>1, <1>2, <1>3, <1>4, <1>7, <2>1, <2>2, <2>3, <2>4, EndIsOne
       DEF Due, Transfers, PRELIM, COMPLETE, TRANSIENT
  <2>6. "copy" \notin opt.ops => Writing'
    BY <1>1, <1>2, <1>4, <1>7, <2>1, <2>2 DEF Owed, Writing
  <2>7. Shape'
    BY <1>1, <1>2, <1>4, <1>7, <2>1, <2>2 DEF Shape, Silent
  <2> QED  BY <1>4, <2>5, <2>6, <2>7 DEF Owed, Silent
<1> QED  BY <1>5, <1>6, <1>7

-----------------------------------------------------------------------------
(* Steps that use the connection                                            *)

\* Nothing is being written elsewhere.
LEMMA StillWriting ==
  ASSUME Owed, stack # <<>>, Top.at \notin {"reply", "storing", "closewrite", "stored"},
         opt' = opt, wr' = wr,
         stack' # <<>> => \/ Bottom(stack') = Bottom(stack) /\ rd' = rd
                          \/ Bottom(stack') \notin {"store", "storing", "closewrite"}
  PROVE  "copy" \notin opt'.ops => Writing'
  BY DEF Owed, Writing

\* What is due when a command has been sent.
LEMMA SentDue ==
  ASSUME Typed, net.up, NEW c \in Commands, net' = Sent(net, c), srv' = srv
  PROVE  /\ NoneDue /\ c \notin Transfers => OneDue'
         /\ NoneDue /\ c \in Transfers => TransferDue'
         /\ NoneDue /\ c = "ABOR" => AborDue'
         /\ EndDue /\ c = "ABOR" => BothDue'
<1>1. net'.cmds = Append(net.cmds, c) /\ net'.reps = net.reps
  BY NetSent DEF Typed
<1>2. net.cmds = <<>> => net'.cmds = <<c>> /\ net'.cmds[1] = c
  BY <1>1
<1>3. NoneDue /\ c \notin Transfers => OneDue'
  BY <1>1, <1>2 DEF NoneDue, OneDue
<1>4. NoneDue /\ c \in Transfers => TransferDue'
  BY <1>1, <1>2 DEF NoneDue, TransferDue
<1>5. NoneDue /\ c = "ABOR" => AborDue'
  BY <1>1, <1>2 DEF NoneDue, AborDue
<1>6. EndDue /\ c = "ABOR" => BothDue'
  BY <1>1, <1>2 DEF EndDue, BothDue
<1> QED  BY <1>3, <1>4, <1>5, <1>6

\* A command that has been sent is answered later, or at once where mc does not
\* wait for the answer here.
LEMMA SentKeeps ==
  ASSUME Typed, Shape, Owed, stack # <<>>, Top.at \in {"command", "again", "retried"},
         net' = Sent(net, Top.arg), srv' = srv, opt' = opt, rd' = rd, wr' = wr, late' = late,
         sup'.sock = sup.sock, Live => NoneDue \/ (Top.arg = "ABOR" /\ EndDue),
         \/ Top.wait = "none" /\ stack' = Tail(stack) /\ ret' = COMPLETE
         \/ Top.wait # "none" /\ stack' = <<[Top EXCEPT !.at = "reply"]>> \o Tail(stack)
  PROVE  Shape' /\ Owed'
<1>1. Chain(stack) /\ Top \in Frames /\ Fits(Top, Beneath(stack)) /\ rd # "open"
  BY Running DEF Shape, Readings
<1>2. Top.arg \in Commands /\ net \in Net
  BY Arg DEF Typed
<1>3. net'.up = net.up /\ (net'.reset => ~net'.up)
  <2>1. net'.up = net.up /\ net'.reset = (net.reset \/ ~net.up)
    BY <1>2, NetSent
  <2> QED  BY <2>1 DEF Shape
<1>4. Live' = Live /\ (Live => net.up)
  BY <1>3 DEF Live
<1>5. Live => /\ NoneDue /\ Top.arg \notin Transfers => OneDue'
              /\ NoneDue /\ Top.arg \in Transfers => TransferDue'
              /\ NoneDue /\ Top.arg = "ABOR" => AborDue'
              /\ EndDue /\ Top.arg = "ABOR" => BothDue'
  BY <1>2, <1>4, SentDue
<1>6. Awaits(Top.arg, Beneath(stack)) /\ (Top.wait = "none" <=> Top.arg \in {"PWD", "QUIT", "ABOR"})
  BY <1>1 DEF Fits
<1>7. CASE Top.wait = "none" /\ stack' = Tail(stack) /\ ret' = COMPLETE
  <2>1. \/ Top.arg = "PWD" /\ Beneath(stack) = "pwd"
        \/ Top.arg = "QUIT" /\ Beneath(stack) = "close"
        \/ Top.arg = "ABOR" /\ Beneath(stack) = "aborting"
    BY <1>6, <1>7 DEF Awaits, Transfers
  <2>2. Chain(stack') /\ stack' # <<>> /\ Top'.at = Beneath(stack) /\ Bottom(stack') = Bottom(stack)
    BY <1>1, <1>7, <2>1, Popped
  <2>3. Live => Due'
    BY <1>5, <1>7, <2>1, <2>2 DEF Due, Transfers
  <2>4. "copy" \notin opt'.ops => Writing'
    BY <2>2, StillWriting
  <2>5. Shape'
    BY <1>1, <1>3, <2>1, <2>2 DEF Shape
  <2> QED  BY <1>4, <2>2, <2>3, <2>4, <2>5 DEF Owed
<1>8. CASE Top.wait # "none" /\ stack' = <<[Top EXCEPT !.at = "reply"]>> \o Tail(stack)
  <2> DEFINE f == [Top EXCEPT !.at = "reply"]
  <2>1. f \in Frames /\ f.at = "reply" /\ f.arg = Top.arg /\ f.wait = Top.wait
    BY <1>1 DEF Frames
  <2>2. stack' = <<f>> \o Tail(stack)
    BY <1>8
  <2> HIDE DEF f
  <2>3. f.wait = "string" => f.arg \in {"PASV", "EPSV"}
    BY <1>1, <2>1 DEF Fits
  <2>4. Fits(f, Beneath(stack))
    BY <1>6, <1>8, <2>1, <2>3 DEF Fits
  <2>5. /\ Chain(stack') /\ stack' # <<>> /\ Top' = f /\ Beneath(stack') = Beneath(stack)
        /\ Bottom(stack') = IF Tail(stack) = <<>> THEN f.at ELSE Bottom(stack)
    BY <1>1, <2>1, <2>2, <2>4, Put1
  <2>6. Beneath(stack) # "aborted"
    BY <1>6 DEF Awaits
  <2>7. Live => Due'
    BY <1>5, <1>6, <1>8, <2>1, <2>5, <2>6 DEF Due
  <2>8. "copy" \notin opt'.ops => Writing'
    BY <2>1, <2>5, StillWriting
  <2>9. Shape'
    BY <1>1, <1>3, <2>1, <2>5 DEF Shape
  <2> QED  BY <1>4, <2>5, <2>7, <2>8, <2>9 DEF Owed
<1> QED  BY <1>7, <1>8

\* The running function calls another, or returns, and the connection does not stand.
LEMMA GoneKeeps ==
  ASSUME Shape, Owed, stack # <<>>, Top.at \notin {"reply", "storing", "closewrite", "stored"},
         opt' = opt, wr' = wr, ~Live', net'.reset => ~net'.up, Chain(stack'),
         rd' # "open" \/ (stack' # <<>> /\ Top'.at \in Readings),
         stack' # <<>> /\ Top'.at = "connect" => sup'.sock # "open",
         stack' # <<>> => \/ Bottom(stack') = Bottom(stack) /\ rd' = rd
                          \/ Bottom(stack') \notin {"store", "storing", "closewrite"}
  PROVE  Shape' /\ Owed'
<1>1. "copy" \notin opt'.ops => Writing'
  BY StillWriting
<1> QED  BY <1>1 DEF Shape, Owed, Readings

\* A command is written, or the connection is made again before it is.
LEMMA WriteKeeps == ASSUME Typed, Shape, Owed, Write PROVE Shape' /\ Owed'
<1>1. stack # <<>> /\ Top.at = "command"
  BY DEF Write, Now, Top
<1>2. Chain(stack) /\ Top \in Frames /\ Fits(Top, Beneath(stack)) /\ rd # "open"
  BY <1>1, Running DEF Shape, Readings
<1>3. opt' = opt /\ rd' = rd /\ wr' = wr /\ late' = late
  BY DEF Write, Rest, handles
<1>4. sup'.sock = sup.sock
  <2>1. \/ sup' = [sup EXCEPT !.retry = FALSE]
        \/ sup' = [sup EXCEPT !.level = TRUE, !.code = "421"]
        \/ sup' = [sup EXCEPT !.code = "421"]
    BY DEF Write
  <2> QED  BY <2>1 DEF Typed, Sup
<1>5. Live => NoneDue \/ (Top.arg = "ABOR" /\ EndDue)
  BY <1>1 DEF Owed, Due
<1>6. \/ /\ net' = Sent(net, Top.arg) /\ srv' = srv
         /\ \/ Top.wait = "none" /\ stack' = Tail(stack) /\ ret' = COMPLETE
            \/ Top.wait # "none" /\ stack' = <<[Top EXCEPT !.at = "reply"]>> \o Tail(stack)
      \/ /\ net.reset /\ net' = net
         /\ stack' = <<Frame("reconnect"), [Top EXCEPT !.at = "again"]>> \o Tail(stack)
      \/ /\ stack' = Tail(stack)
         /\ \/ net' = [up |-> FALSE, reset |-> TRUE, cmds |-> <<>>, reps |-> <<>>]
            \/ net' = net /\ (sup.sock = "closed" \/ net.reset)
  BY DEF Write, Then, Return, Gone, Top
<1>7. CASE /\ net' = Sent(net, Top.arg) /\ srv' = srv
           /\ \/ Top.wait = "none" /\ stack' = Tail(stack) /\ ret' = COMPLETE
              \/ Top.wait # "none" /\ stack' = <<[Top EXCEPT !.at = "reply"]>> \o Tail(stack)
  BY <1>1, <1>3, <1>4, <1>5, <1>7, SentKeeps
<1>8. CASE /\ net.reset /\ net' = net
           /\ stack' = <<Frame("reconnect"), [Top EXCEPT !.at = "again"]>> \o Tail(stack)
  <2> DEFINE f == Frame("reconnect")
             g == [Top EXCEPT !.at = "again"]
  <2>1. f \in Frames /\ f.at = "reconnect"
    BY DEF Frame, Frames
  <2>2. g \in Frames /\ g.at = "again" /\ g.arg = Top.arg /\ g.wait = Top.wait
    BY <1>2 DEF Frames
  <2>3. stack' = <<f, g>> \o Tail(stack)
    BY <1>8
  <2> HIDE DEF f, g
  <2>4. Fits(g, Beneath(stack)) /\ Fits(f, g.at)
    BY <1>1, <1>2, <2>1, <2>2 DEF Fits
  <2>5. /\ Chain(stack') /\ stack' # <<>> /\ Top' = f
        /\ Bottom(stack') = IF Tail(stack) = <<>> THEN g.at ELSE Bottom(stack)
    BY <1>1, <1>2, <2>1, <2>2, <2>3, <2>4, Put2
  <2>6. net'.reset => ~net'.up
    BY <1>8 DEF Shape
  <2>7. ~Live'
    BY <1>8, <2>6 DEF Live
  <2> QED  BY <1>1, <1>2, <1>3, <2>1, <2>2, <2>5, <2>6, <2>7, GoneKeeps
<1>9. CASE /\ stack' = Tail(stack)
           /\ \/ net' = [up |-> FALSE, reset |-> TRUE, cmds |-> <<>>, reps |-> <<>>]
              \/ net' = net /\ (sup.sock = "closed" \/ net.reset)
  <2>1. /\ Chain(stack') /\ (stack' = <<>> <=> Beneath(stack) = "-")
        /\ stack' # <<>> => Top'.at = Beneath(stack) /\ Bottom(stack') = Bottom(stack)
    BY <1>1, <1>2, <1>9, Popped
  <2>2. Beneath(stack) # "connect"
    BY <1>1, <1>2 DEF Fits, Awaits
  <2>3. (net'.reset => ~net'.up) /\ (~net'.up \/ sup'.sock # "open")
    BY <1>4, <1>9 DEF Shape
  <2>4. ~Live'
    BY <2>3 DEF Live
  <2> QED  BY <1>1, <1>2, <1>3, <2>1, <2>2, <2>3, <2>4, GoneKeeps
<1> QED  BY <1>6, <1>7, <1>8, <1>9

\* ... after which it is written again.
LEMMA WriteAgainKeeps == ASSUME Typed, Shape, Owed, WriteAgain PROVE Shape' /\ Owed'
<1>1. stack # <<>> /\ Top.at \in {"again", "retried"}
  BY DEF WriteAgain, Now, Top
<1>2. Chain(stack) /\ Top \in Frames /\ Fits(Top, Beneath(stack)) /\ rd # "open"
  BY <1>1, Running DEF Shape, Readings
<1>3. opt' = opt /\ rd' = rd /\ wr' = wr /\ late' = late /\ srv' = srv
  BY DEF WriteAgain, Rest, handles
<1>4. sup'.sock = sup.sock
  <2>1. sup' = [sup EXCEPT !.level = FALSE, !.retry = sup.retry /\ ret = 1]
    BY DEF WriteAgain
  <2> QED  BY <2>1 DEF Typed, Sup
<1>5. Live => NoneDue
  BY <1>1 DEF Owed, Due
<1>6. \/ /\ net' = Sent(net, Top.arg)
         /\ \/ Top.wait = "none" /\ stack' = Tail(stack) /\ ret' = COMPLETE
            \/ Top.wait # "none" /\ stack' = <<[Top EXCEPT !.at = "reply"]>> \o Tail(stack)
      \/ /\ net' = net /\ stack' = Tail(stack)
         /\ \/ Top.at = "again" /\ ret' = TRANSIENT
            \/ Top.at # "again" /\ ret' # 1
  BY DEF WriteAgain, Then, Return, Top
<1>7. CASE /\ net' = Sent(net, Top.arg)
           /\ \/ Top.wait = "none" /\ stack' = Tail(stack) /\ ret' = COMPLETE
              \/ Top.wait # "none" /\ stack' = <<[Top EXCEPT !.at = "reply"]>> \o Tail(stack)
  BY <1>1, <1>3, <1>4, <1>5, <1>7, SentKeeps
<1>8. CASE /\ net' = net /\ stack' = Tail(stack)
           /\ \/ Top.at = "again" /\ ret' = TRANSIENT
              \/ Top.at # "again" /\ ret' # 1
  <2>1. /\ Chain(stack') /\ (stack' = <<>> <=> Beneath(stack) = "-")
        /\ stack' # <<>> => Top'.at = Beneath(stack) /\ Bottom(stack') = Bottom(stack)
    BY <1>1, <1>2, <1>8, Popped
  <2>2. Beneath(stack) \in {"named", "passed", "pwd", "close", "aborting", "-", "renamed", "agreed",
                            "typed", "chdired", "prelim"}
    BY <1>1, <1>2 DEF Fits, Awaits
  <2>3. Top.at # "again" => Beneath(stack) = "agreed"
    BY <1>1, <1>2 DEF Fits, Awaits, Transfers
  <2>4. NoneDue' = NoneDue /\ Live' = Live
    BY <1>3, <1>4, <1>8, SameDue DEF Live
  <2>5. Live' => IF stack' = <<>> THEN NoneDue' ELSE Due'
    BY <1>5, <1>8, <2>1, <2>2, <2>3, <2>4 DEF Due, PRELIM, COMPLETE, TRANSIENT
  <2>6. "copy" \notin opt'.ops => Writing'
    BY <1>1, <1>3, <2>1, StillWriting
  <2>7. Shape'
    BY <1>2, <1>3, <1>8, <2>1, <2>2 DEF Shape
  <2> QED  BY <2>5, <2>6, <2>7 DEF Owed
<1> QED  BY <1>6, <1>7, <1>8

\* The first of the replies that are due is read.
LEMMA ReadDue ==
  ASSUME Typed, net.reps # <<>>, net' = [net EXCEPT !.reps = Tail(@)], srv' = srv
  PROVE  LET r == Head(net.reps)
         IN /\ net'.up = net.up /\ net'.reset = net.reset
            /\ OneDue => NoneDue'
            /\ TransferDue => (r.class = PRELIM => EndDue') /\ (r.class # PRELIM => NoneDue')
            /\ AborDue \/ BothDue => \/ EndReply(r) /\ AborDue'
                                     \/ AborReply(r) /\ NoneDue'
<1> DEFINE r == Head(net.reps)
<1>1. /\ net'.up = net.up /\ net'.reset = net.reset /\ net'.cmds = net.cmds
      /\ net'.reps = Tail(net.reps)
  <2>1. net.reps \in Seq(Replies) /\ net \in Net
    BY NetFields DEF Typed
  <2>2. Tail(net.reps) \in Seq(Replies)
    BY <2>1, SeqTail
  <2> QED  BY <2>1, <2>2, NetReps
<1>2. \A x : net.reps = <<x>> => r = x /\ net'.reps = <<>>
  BY <1>1
<1>3. \A x, y : net.reps = <<x, y>> => r = x /\ net'.reps = <<y>> /\ net'.reps[1] = y
  BY <1>1
<1> HIDE DEF r
<1>4. OneDue => NoneDue'
  BY <1>1, <1>2 DEF OneDue, NoneDue
<1>5. TransferDue => (r.class = PRELIM => EndDue') /\ (r.class # PRELIM => NoneDue')
  BY <1>1, <1>2, <1>3 DEF TransferDue, NoneDue, EndDue
<1>6. AborDue => AborReply(r) /\ NoneDue'
  BY <1>1, <1>2 DEF AborDue, NoneDue
<1>7. BothDue => EndReply(r) /\ AborDue'
  BY <1>1, <1>2, <1>3 DEF BothDue, AborDue
<1> QED  BY <1>1, <1>4, <1>5, <1>6, <1>7 DEF r

\* A reply is read, or the connection has gone.
LEMMA ReplyKeeps == ASSUME Typed, Shape, Owed, Reply PROVE Shape' /\ Owed'
<1>1. stack # <<>> /\ Top.at = "reply"
  BY DEF Reply, Now, Top
<1>2. Chain(stack) /\ Top \in Frames /\ Fits(Top, Beneath(stack)) /\ rd # "open"
  BY <1>1, Running DEF Shape, Readings
<1>3. opt' = opt /\ rd' = rd /\ wr' = wr /\ late' = late /\ srv' = srv
  BY DEF Reply, Rest, handles
<1> DEFINE r == Head(net.reps)
<1>4. \/ net.reps # <<>> /\ net' = [net EXCEPT !.reps = Tail(@)]
      \/ ~net.up /\ net' = net
  BY DEF Reply
<1>5. \/ /\ Top.wait = "string"
         /\ stack' = <<Frame("reconnect"), [Top EXCEPT !.at = "retried"]>> \o Tail(stack)
      \/ /\ stack' = Tail(stack)
         /\ net.reps # <<>> => ret' = r.class /\ sup'.code = r.code /\ sup'.from = r.to
  <2> DEFINE gone == net.reps = <<>>
             code == IF gone THEN "421" ELSE Head(net.reps).code
             from == IF gone THEN "-" ELSE Head(net.reps).to
             retry == IF Top.arg = "-" THEN sup.retry ELSE FALSE
  <2>1. \/ /\ Top.wait = "string"
           /\ stack' = <<Frame("reconnect"), [Top EXCEPT !.at = "retried"]>> \o Tail(stack)
        \/ /\ stack' = Tail(stack)
            /\ sup' = [sup EXCEPT !.code = code, !.retry = retry, !.from = from]
           /\ ret' = IF gone THEN TRANSIENT ELSE Head(net.reps).class
    BY DEF Reply, Then, Return, Top
  <2>2. ASSUME sup' = [sup EXCEPT !.code = code, !.retry = retry, !.from = from]
        PROVE  sup'.code = code /\ sup'.from = from
    <3>1. sup \in Sup
      BY DEF Typed
    <3> HIDE DEF code, from, retry
    <3> QED  BY <2>2, <3>1 DEF Sup
  <2> QED  BY <2>1, <2>2
<1>6. sup'.sock = sup.sock
  <2> DEFINE code == IF net.reps = <<>> THEN "421" ELSE Head(net.reps).code
             from == IF net.reps = <<>> THEN "-" ELSE Head(net.reps).to
             retry == IF Top.arg = "-" THEN sup.retry ELSE FALSE
  <2>1. \/ sup' = [sup EXCEPT !.retry = TRUE, !.level = TRUE, !.code = code]
        \/ sup' = [sup EXCEPT !.code = code, !.retry = retry, !.from = from]
    BY DEF Reply, Top
  <2> HIDE DEF code, from, retry
  <2>2. sup \in Sup
    BY DEF Typed
  <2> QED  BY <2>1, <2>2 DEF Sup
<1> HIDE DEF r
<1>7. /\ net'.up = net.up /\ net'.reset = net.reset
      /\ Live' => /\ net.reps # <<>> /\ Live
                  /\ OneDue => NoneDue'
                  /\ TransferDue => (r.class = PRELIM => EndDue') /\ (r.class # PRELIM => NoneDue')
                  /\ AborDue \/ BothDue => \/ EndReply(r) /\ AborDue'
                                           \/ AborReply(r) /\ NoneDue'
  <2>1. CASE ~net.up /\ net' = net
    BY <2>1 DEF Live
  <2>2. CASE net.reps # <<>> /\ net' = [net EXCEPT !.reps = Tail(@)]
    <3>1. /\ net'.up = net.up /\ net'.reset = net.reset
          /\ OneDue => NoneDue'
          /\ TransferDue => (r.class = PRELIM => EndDue') /\ (r.class # PRELIM => NoneDue')
          /\ AborDue \/ BothDue => \/ EndReply(r) /\ AborDue'
                                   \/ AborReply(r) /\ NoneDue'
      BY <1>3, <2>2, ReadDue DEF r
    <3>2. Live' = Live
      BY <1>3, <1>6, <3>1 DEF Live
    <3> QED  BY <2>2, <3>1, <3>2
  <2> QED  BY <1>4, <2>1, <2>2
<1>8. net'.reset => ~net'.up
  BY <1>7 DEF Shape
<1>9. Live => IF Top.arg \in Transfers THEN TransferDue
              ELSE IF Beneath(stack) = "aborted" THEN AborDue \/ BothDue ELSE OneDue
  <2>1. Live => Due
    BY <1>1 DEF Owed
  <2>2. Top.arg \in Transfers => Beneath(stack) = "prelim"
    BY <1>1, <1>2 DEF Fits, Awaits, Transfers
  <2>3. Due /\ Top.arg \in Transfers => TransferDue
    BY <1>1, <2>2 DEF Due
  <2>4. Due /\ Top.arg \notin Transfers /\ Beneath(stack) = "aborted" => AborDue \/ BothDue
    BY <1>1 DEF Due
  <2>5. Due /\ Top.arg \notin Transfers /\ Beneath(stack) # "aborted" => OneDue
    BY <1>1 DEF Due
  <2> QED  BY <2>1, <2>3, <2>4, <2>5
<1>10. CASE /\ Top.wait = "string"
            /\ stack' = <<Frame("reconnect"), [Top EXCEPT !.at = "retried"]>> \o Tail(stack)
  <2> DEFINE f == Frame("reconnect")
             g == [Top EXCEPT !.at = "retried"]
  <2>1. f \in Frames /\ f.at = "reconnect"
    BY DEF Frame, Frames
  <2>2. g \in Frames /\ g.at = "retried" /\ g.arg = Top.arg /\ g.wait = Top.wait
    BY <1>2 DEF Frames
  <2>3. stack' = <<f, g>> \o Tail(stack)
    BY <1>10
  <2> HIDE DEF f, g
  <2>4. Top.arg \in {"PASV", "EPSV"} /\ Beneath(stack) = "agreed"
    BY <1>1, <1>2, <1>10 DEF Fits, Awaits, Transfers
  <2>5. Fits(g, Beneath(stack)) /\ Fits(f, g.at)
    BY <1>10, <2>1, <2>2, <2>4 DEF Fits, Awaits
  <2>6. /\ Chain(stack') /\ stack' # <<>> /\ Top' = f
        /\ Bottom(stack') = IF Tail(stack) = <<>> THEN g.at ELSE Bottom(stack)
    BY <1>1, <1>2, <2>1, <2>2, <2>3, <2>5, Put2
  <2>7. Due'
    BY <2>1, <2>6 DEF Due
  <2>8. "copy" \notin opt.ops => Writing'
    BY <1>1, <1>3, <2>1, <2>2, <2>4, <2>6 DEF Owed, Writing
  <2>9. Shape'
    BY <1>2, <1>3, <1>8, <2>1, <2>6 DEF Shape
  <2> QED  BY <1>3, <2>6, <2>7, <2>8, <2>9 DEF Owed
<1>11. CASE /\ stack' = Tail(stack)
            /\ net.reps # <<>> => ret' = r.class /\ sup'.code = r.code /\ sup'.from = r.to
  <2>1. /\ Chain(stack') /\ (stack' = <<>> <=> Beneath(stack) = "-")
        /\ stack' # <<>> => Top'.at = Beneath(stack) /\ Bottom(stack') = Bottom(stack)
    BY <1>1, <1>2, <1>11, Popped
  <2>2. \/ Top.arg \in Transfers /\ Beneath(stack) = "prelim"
        \/ Top.arg \notin Transfers /\ Beneath(stack) = "aborted"
        \/ /\ Top.arg \notin Transfers
           /\ Beneath(stack) \in {"greeted", "pwd_reply", "ended", "fail", "listed", "stored",
                                  "closeread", "named", "passed", "-", "renamed", "agreed",
                                  "typed", "chdired"}
    BY <1>1, <1>2 DEF Fits, Awaits, Transfers
  <2>3. ASSUME Top.arg \in Transfers, Beneath(stack) = "prelim"
        PROVE  Live' => IF stack' = <<>> THEN NoneDue' ELSE Due'
    <3>1. Live' => (ret' = PRELIM => EndDue') /\ (ret' # PRELIM => NoneDue')
      BY <1>7, <1>9, <1>11, <2>3
    <3> QED  BY <2>1, <2>3, <3>1 DEF Due
  <2>4. ASSUME Top.arg \notin Transfers, Beneath(stack) = "aborted"
        PROVE  Live' => IF stack' = <<>> THEN NoneDue' ELSE Due'
    <3>1. Live' => \/ EndReply(r) /\ AborDue'
                   \/ AborReply(r) /\ NoneDue'
      BY <1>7, <1>9, <2>4
    <3>2. Live' => \/ sup'.from = "transfer" /\ (ret' = TRANSIENT => sup'.code = "426") /\ AborDue'
                   \/ sup'.from = "ABOR" /\ ret' # TRANSIENT /\ NoneDue'
      BY <1>7, <1>11, <3>1 DEF EndReply, AborReply
    <3> QED  BY <2>1, <2>4, <3>2 DEF Due
  <2>5. ASSUME Top.arg \notin Transfers,
               Beneath(stack) \in {"greeted", "pwd_reply", "ended", "fail", "listed", "stored",
                                   "closeread", "named", "passed", "-", "renamed", "agreed",
                                   "typed", "chdired"}
        PROVE  Live' => IF stack' = <<>> THEN NoneDue' ELSE Due'
    <3>1. Live' => NoneDue'
      BY <1>7, <1>9, <2>5
    <3> QED  BY <1>2, <1>3, <2>1, <2>5, <3>1 DEF Due
  <2>6. Live' => IF stack' = <<>> THEN NoneDue' ELSE Due'
    BY <2>1, <2>2, <2>3, <2>4, <2>5
  <2>7. "copy" \notin opt.ops => Writing'
    BY <1>1, <1>3, <2>1 DEF Owed, Writing
  <2>8. Beneath(stack) # "connect"
    BY <2>2
  <2>9. Shape'
    BY <1>2, <1>3, <1>8, <2>1, <2>8 DEF Shape
  <2> QED  BY <1>3, <2>6, <2>7, <2>9 DEF Owed
<1> QED  BY <1>5, <1>10, <1>11

\* A new connection owes the greeting, which is read first.
LEMMA FreshKeeps ==
  ASSUME Typed, Shape, Owed, stack # <<>>, Fresh, opt' = opt, rd' = rd, rd # "open",
         Top.at \in {"reconnect", "connect"}, NEW g \in Frames, Fits(g, Beneath(stack)),
         g.at \in {"relogged", "connected"}, stack' = <<Frame("login"), g>> \o Tail(stack)
  PROVE  Shape' /\ Owed'
<1>1. Chain(stack)
  BY DEF Shape
<1> DEFINE f == Frame("login")
<1>2. f \in Frames /\ f.at = "login"
  BY DEF Frame, Frames
<1>3. stack' = <<f, g>> \o Tail(stack)
  OBVIOUS
<1> HIDE DEF f
<1>4. Fits(f, g.at)
  BY <1>2 DEF Fits
<1>5. /\ Chain(stack') /\ stack' # <<>> /\ Top' = f
      /\ Bottom(stack') = IF Tail(stack) = <<>> THEN g.at ELSE Bottom(stack)
  BY <1>1, <1>2, <1>3, <1>4, Put2
<1>6. /\ net' = [up |-> TRUE, reset |-> FALSE, cmds |-> <<>>, reps |-> <<>>]
      /\ srv'.at = "greet"
      /\ wr' = IF wr = "stream" THEN "broken" ELSE wr
  BY SrvNew DEF Fresh
<1>7. net'.cmds = <<>> /\ net'.reps = <<>> /\ ~net'.reset
  BY <1>6
<1>8. OneDue'
  BY <1>6, <1>7 DEF OneDue
<1>9. Due'
  BY <1>2, <1>5, <1>8 DEF Due
<1>10. "copy" \notin opt.ops => wr' = wr
  BY <1>6 DEF Owed, Writing
<1>11. "copy" \notin opt.ops => Writing'
  BY <1>2, <1>5, <1>10 DEF Owed, Writing
<1>12. Shape'
  BY <1>2, <1>5, <1>7 DEF Shape
<1> QED  BY <1>5, <1>9, <1>11, <1>12 DEF Owed

\* The connection is made again.
LEMMA ReconnectKeeps == ASSUME Typed, Shape, Owed, Reconnect PROVE Shape' /\ Owed'
<1>1. stack # <<>> /\ Top.at = "reconnect"
  BY DEF Reconnect, Now, Top
<1>2. Chain(stack) /\ Top \in Frames /\ Fits(Top, Beneath(stack)) /\ rd # "open"
  BY <1>1, Running DEF Shape, Readings
<1>3. opt' = opt /\ rd' = rd
  BY DEF Reconnect, Rest
<1>4. \/ Fresh /\ stack' = <<Frame("login"), With("relogged", sup.cwd)>> \o Tail(stack)
      \/ /\ stack' = Tail(stack) /\ late' = (late \/ net.up)
         /\ sup' = sup /\ net' = net /\ wr' = wr
  BY DEF Reconnect, Then, Return, remote
<1>5. CASE Fresh /\ stack' = <<Frame("login"), With("relogged", sup.cwd)>> \o Tail(stack)
  <2> DEFINE g == With("relogged", sup.cwd)
  <2>1. sup.cwd \in {"none", "home", "sub"}
    BY SupFields DEF Typed
  <2>2. g \in Frames /\ g.at = "relogged" /\ g.arg = sup.cwd
    BY <2>1 DEF With, Frames
  <2>3. stack' = <<Frame("login"), g>> \o Tail(stack)
    BY <1>5
  <2> HIDE DEF g
  <2>4. Fits(g, Beneath(stack))
    BY <1>1, <1>2, <2>1, <2>2 DEF Fits, Places
  <2> QED  BY <1>1, <1>2, <1>3, <1>5, <2>2, <2>3, <2>4, FreshKeeps
<1>6. CASE /\ stack' = Tail(stack) /\ late' = (late \/ net.up)
           /\ sup' = sup /\ net' = net /\ wr' = wr
  <2>1. /\ Chain(stack') /\ (stack' = <<>> <=> Beneath(stack) = "-")
        /\ stack' # <<>> => Top'.at = Beneath(stack) /\ Bottom(stack') = Bottom(stack)
    BY <1>1, <1>2, <1>6, Popped
  <2>2. Beneath(stack) # "connect"
    BY <1>1, <1>2 DEF Fits
  <2>3. ~Live'
    BY <1>6 DEF Live
  <2>4. net'.reset => ~net'.up
    BY <1>6 DEF Shape
  <2> QED  BY <1>1, <1>2, <1>3, <1>6, <2>1, <2>2, <2>3, <2>4, GoneKeeps
<1> QED  BY <1>4, <1>5, <1>6

\* A connection is made, or the operation given up.
LEMMA ConnectKeeps == ASSUME Typed, Shape, Owed, Connect PROVE Shape' /\ Owed'
<1>1. stack # <<>> /\ Top.at = "connect"
  BY DEF Connect, Now, Top
<1>2. Chain(stack) /\ Top \in Frames /\ Fits(Top, Beneath(stack)) /\ rd # "open"
  BY <1>1, Running DEF Shape, Readings
<1>3. opt' = opt
  BY DEF Connect, Rest
<1>4. \/ Fresh /\ rd' = rd /\ stack' = <<Frame("login"), Frame("connected")>> \o Tail(stack)
      \/ /\ stack' = <<>> /\ rd' = "none" /\ net' = net /\ wr' = wr
         /\ sup' = [sup EXCEPT !.sock = "none", !.failed = FALSE]
  BY DEF Connect, Then, remote
<1>5. CASE Fresh /\ rd' = rd /\ stack' = <<Frame("login"), Frame("connected")>> \o Tail(stack)
  <2> DEFINE g == Frame("connected")
  <2>1. g \in Frames /\ g.at = "connected"
    BY DEF Frame, Frames
  <2>2. stack' = <<Frame("login"), g>> \o Tail(stack)
    BY <1>5
  <2> HIDE DEF g
  <2>3. Fits(g, Beneath(stack))
    BY <1>1, <1>2, <2>1 DEF Fits
  <2> QED  BY <1>1, <1>2, <1>3, <1>5, <2>1, <2>2, <2>3, FreshKeeps
<1>6. CASE /\ stack' = <<>> /\ rd' = "none" /\ net' = net /\ wr' = wr
           /\ sup' = [sup EXCEPT !.sock = "none", !.failed = FALSE]
  <2>1. Chain(stack')
    BY <1>6, NobodyWaits
  <2>2. sup'.sock = "none"
    BY <1>6, SupSock DEF Typed
  <2>3. ~Live'
    BY <2>2 DEF Live
  <2>4. net'.reset => ~net'.up
    BY <1>6 DEF Shape
  <2> QED  BY <1>1, <1>2, <1>3, <1>6, <2>1, <2>3, <2>4, GoneKeeps
<1> QED  BY <1>4, <1>5, <1>6

\* A stack of one function.
LEMMA First ==
  ASSUME NEW f \in Frames, Fits(f, "-"), stack' = <<f>>
  PROVE  /\ Chain(stack') /\ stack' # <<>> /\ Top' = f
         /\ Beneath(stack') = "-" /\ Bottom(stack') = f.at
<1>1. Chain(<<>>) /\ At(<<>>) = "-"
  BY DEF Chain, At
<1>2. <<f>> \o <<>> = <<f>>
  OBVIOUS
<1>3. /\ Chain(<<f>> \o <<>>) /\ <<f>> \o <<>> # <<>>
      /\ Head(<<f>> \o <<>>) = f /\ Beneath(<<f>> \o <<>>) = At(<<>>)
      /\ (<<f>> \o <<>>)[Len(<<f>> \o <<>>)] = f
  BY <1>1, PushFits
<1> QED  BY <1>1, <1>2, <1>3 DEF Top, Bottom

\* A login that is refused ends the connection.
LEMMA ConnectedKeeps == ASSUME Typed, Shape, Owed, Connected PROVE Shape' /\ Owed'
<1>1. stack # <<>> /\ Top.at = "connected"
  BY DEF Connected, Now, Top
<1>2. Chain(stack) /\ Top \in Frames /\ Fits(Top, Beneath(stack)) /\ rd # "open"
  BY <1>1, Running DEF Shape, Readings
<1>3. opt' = opt /\ wr' = wr /\ late' = late /\ srv' = srv
  BY DEF Connected, Rest
<1>4. \/ /\ stack' = <<CommandOnly("PWD"), Frame("pwd")>> \o Tail(stack)
         /\ sup' = sup /\ net' = net /\ rd' = rd
      \/ /\ sup' = [sup EXCEPT !.sock = "closed"] /\ net' = [net EXCEPT !.up = FALSE] /\ rd' = rd
         /\ stack' = <<Frame("connect")>> \o Tail(stack) \/ stack' = Tail(stack)
      \/ /\ stack' = <<Frame("quit")>> /\ rd' = "none" /\ sup' = sup /\ net' = net
  BY DEF Connected, Then, Return
<1>5. Live => NoneDue
  BY <1>1 DEF Owed, Due
<1>6. CASE /\ stack' = <<CommandOnly("PWD"), Frame("pwd")>> \o Tail(stack)
           /\ sup' = sup /\ net' = net /\ rd' = rd
  <2> DEFINE f == CommandOnly("PWD")
             g == Frame("pwd")
  <2>1. f \in Frames /\ f.at = "command" /\ f.arg = "PWD" /\ f.wait = "none"
    BY DEF CommandOnly, Frames, Commands
  <2>2. g \in Frames /\ g.at = "pwd"
    BY DEF Frame, Frames
  <2>3. stack' = <<f, g>> \o Tail(stack)
    BY <1>6
  <2> HIDE DEF f, g
  <2>4. Fits(g, Beneath(stack)) /\ Fits(f, g.at)
    BY <1>1, <1>2, <2>1, <2>2 DEF Fits, Awaits
  <2>5. /\ Chain(stack') /\ stack' # <<>> /\ Top' = f
        /\ Bottom(stack') = IF Tail(stack) = <<>> THEN g.at ELSE Bottom(stack)
    BY <1>1, <1>2, <2>1, <2>2, <2>3, <2>4, Put2
  <2>6. NoneDue' = NoneDue /\ Live' = Live
    BY <1>3, <1>6, SameDue DEF Live
  <2>7. Live' => Due'
    BY <1>5, <2>1, <2>5, <2>6 DEF Due
  <2>8. "copy" \notin opt'.ops => Writing'
    BY <1>1, <1>3, <1>6, <2>2, <2>5, StillWriting
  <2>9. Shape'
    BY <1>2, <1>6, <2>1, <2>5 DEF Shape
  <2> QED  BY <2>5, <2>7, <2>8, <2>9 DEF Owed
<1>7. ASSUME sup' = [sup EXCEPT !.sock = "closed"], net' = [net EXCEPT !.up = FALSE], rd' = rd,
             stack' = <<Frame("connect")>> \o Tail(stack) \/ stack' = Tail(stack)
      PROVE  Shape' /\ Owed'
  <2>1. sup'.sock = "closed"
    BY <1>7, SupClosed DEF Typed
  <2>2. ~net'.up
    BY <1>7, NetUp DEF Typed
  <2>3. ~Live'
    BY <2>1 DEF Live
  <2>4. CASE stack' = <<Frame("connect")>> \o Tail(stack)
    <3> DEFINE f == Frame("connect")
    <3>1. f \in Frames /\ f.at = "connect"
      BY DEF Frame, Frames
    <3>2. stack' = <<f>> \o Tail(stack)
      BY <2>4
    <3> HIDE DEF f
    <3>3. Fits(f, Beneath(stack))
      BY <1>1, <1>2, <3>1 DEF Fits
    <3>4. /\ Chain(stack') /\ stack' # <<>>
          /\ Bottom(stack') = IF Tail(stack) = <<>> THEN f.at ELSE Bottom(stack)
      BY <1>1, <1>2, <3>1, <3>2, <3>3, Put1
    <3> QED  BY <1>1, <1>2, <1>3, <1>7, <2>1, <2>2, <2>3, <3>1, <3>4, GoneKeeps
  <2>5. CASE stack' = Tail(stack)
    <3>1. /\ Chain(stack')
          /\ stack' # <<>> => Bottom(stack') = Bottom(stack)
      BY <1>1, <1>2, <2>5, Popped
    <3> QED  BY <1>1, <1>2, <1>3, <1>7, <2>1, <2>2, <2>3, <3>1, GoneKeeps
  <2> QED  BY <1>7, <2>4, <2>5
<1>8. CASE stack' = <<Frame("quit")>> /\ rd' = "none" /\ sup' = sup /\ net' = net
  <2> DEFINE f == Frame("quit")
  <2>1. f \in Frames /\ f.at = "quit"
    BY DEF Frame, Frames
  <2>2. stack' = <<f>>
    BY <1>8
  <2> HIDE DEF f
  <2>3. Fits(f, "-")
    BY <2>1 DEF Fits
  <2>4. Chain(stack') /\ stack' # <<>> /\ Top' = f /\ Bottom(stack') = f.at
    BY <2>1, <2>2, <2>3, First
  <2>5. NoneDue' = NoneDue /\ Live' = Live
    BY <1>3, <1>8, SameDue DEF Live
  <2>6. Live' => Due'
    BY <1>5, <2>1, <2>4, <2>5 DEF Due
  <2>7. "copy" \notin opt'.ops => Writing'
    BY <1>1, <1>3, <2>1, <2>4, StillWriting
  <2>8. Shape'
    BY <1>8, <2>1, <2>4 DEF Shape
  <2> QED  BY <2>4, <2>6, <2>7, <2>8 DEF Owed
<1> QED  BY <1>4, <1>6, <1>7, <1>8

\* Leaving says so to the server first.
LEMMA DisconnectKeeps == ASSUME Typed, Shape, Owed, Disconnect PROVE Shape' /\ Owed'
<1>1. stack # <<>> /\ Top.at \in {"quit", "close"}
  BY DEF Disconnect, Now, Top
<1>2. Chain(stack) /\ Top \in Frames /\ Fits(Top, Beneath(stack)) /\ rd # "open"
  BY <1>1, Running DEF Shape, Readings
<1>3. opt' = opt /\ wr' = wr /\ rd' = rd /\ late' = late /\ srv' = srv
  BY DEF Disconnect, Rest, handles
<1>4. \/ /\ Top.at = "quit" /\ sup' = sup /\ net' = net
         /\ stack' = <<CommandOnly("QUIT"), Frame("close")>> \o Tail(stack)
      \/ /\ sup' = [sup EXCEPT !.sock = "none", !.cwd = "none"]
         /\ net' = [net EXCEPT !.up = FALSE] /\ stack' = Tail(stack)
  BY DEF Disconnect, Then, Return, Now, Top
<1>5. CASE /\ Top.at = "quit" /\ sup' = sup /\ net' = net
           /\ stack' = <<CommandOnly("QUIT"), Frame("close")>> \o Tail(stack)
  <2> DEFINE f == CommandOnly("QUIT")
             g == Frame("close")
  <2>1. f \in Frames /\ f.at = "command" /\ f.arg = "QUIT" /\ f.wait = "none"
    BY DEF CommandOnly, Frames, Commands
  <2>2. g \in Frames /\ g.at = "close"
    BY DEF Frame, Frames
  <2>3. stack' = <<f, g>> \o Tail(stack)
    BY <1>5
  <2> HIDE DEF f, g
  <2>4. Fits(g, Beneath(stack)) /\ Fits(f, g.at)
    BY <1>1, <1>2, <2>1, <2>2 DEF Fits, Awaits
  <2>5. /\ Chain(stack') /\ stack' # <<>> /\ Top' = f
        /\ Bottom(stack') = IF Tail(stack) = <<>> THEN g.at ELSE Bottom(stack)
    BY <1>1, <1>2, <2>1, <2>2, <2>3, <2>4, Put2
  <2>6. NoneDue' = NoneDue /\ Live' = Live
    BY <1>3, <1>5, SameDue DEF Live
  <2>7. Live => NoneDue
    BY <1>1, <1>5 DEF Owed, Due
  <2>8. Live' => Due'
    BY <2>1, <2>5, <2>6, <2>7 DEF Due
  <2>9. "copy" \notin opt'.ops => Writing'
    BY <1>1, <1>3, <2>2, <2>5, StillWriting
  <2>10. Shape'
    BY <1>2, <1>3, <1>5, <2>1, <2>5 DEF Shape
  <2> QED  BY <2>5, <2>8, <2>9, <2>10 DEF Owed
<1>6. CASE /\ sup' = [sup EXCEPT !.sock = "none", !.cwd = "none"]
           /\ net' = [net EXCEPT !.up = FALSE] /\ stack' = Tail(stack)
  <2>1. sup'.sock = "none"
    BY <1>6, SupLeft DEF Typed
  <2>2. ~net'.up
    BY <1>6, NetUp DEF Typed
  <2>3. ~Live'
    BY <2>1 DEF Live
  <2>4. Chain(stack') /\ (stack' # <<>> => Bottom(stack') = Bottom(stack))
    BY <1>1, <1>2, <1>6, Popped
  <2> QED  BY <1>1, <1>2, <1>3, <2>1, <2>2, <2>3, <2>4, GoneKeeps
<1> QED  BY <1>4, <1>5, <1>6

\* A transfer is aborted, if there is somebody to say it to.
LEMMA AbortKeeps == ASSUME Typed, Shape, Owed, Abort PROVE Shape' /\ Owed'
<1>1. stack # <<>> /\ Top.at = "abort"
  BY DEF Abort, Now, Top
<1>2. Chain(stack) /\ Top \in Frames /\ Fits(Top, Beneath(stack))
  BY <1>1, Running DEF Shape
<1>3. opt' = opt /\ wr' = wr /\ rd' = "dead" /\ late' = late /\ srv' = srv
  BY DEF Abort, Rest
<1>4. sup'.sock = sup.sock
  <2>1. sup' = [sup EXCEPT !.busy = FALSE]
    BY DEF Abort
  <2> QED  BY <2>1 DEF Typed, Sup
<1>5. Bottom(stack) \notin {"store", "storing"}
  BY <1>1, <1>2, ReadsAbove
<1>6. "copy" \notin opt.ops => Bottom(stack) # "closewrite"
  BY <1>1 DEF Owed, Writing
<1>7. \/ (net.reset \/ sup.sock = "closed") /\ stack' = Tail(stack) /\ net' = net
      \/ /\ stack' = <<CommandOnly("ABOR"), With("aborting", rd)>> \o Tail(stack)
         /\ ~net.reset /\ (net' = net \/ net' = [net EXCEPT !.reset = ~net.up])
  BY DEF Abort
<1>8. CASE (net.reset \/ sup.sock = "closed") /\ stack' = Tail(stack) /\ net' = net
  <2>1. /\ Chain(stack')
        /\ stack' # <<>> => Bottom(stack') = Bottom(stack) /\ Top'.at = Beneath(stack)
    BY <1>1, <1>2, <1>8, Popped
  <2>2. Beneath(stack) # "connect"
    BY <1>1, <1>2 DEF Fits
  <2>3. net'.reset => ~net'.up
    BY <1>8 DEF Shape
  <2>4. ~Live'
    BY <1>4, <1>8, <2>3 DEF Live
  <2>5. "copy" \notin opt'.ops => Writing'
    BY <1>1, <1>3, <1>5, <1>6, <2>1 DEF Owed, Writing
  <2>6. Shape'
    BY <1>3, <2>1, <2>2, <2>3 DEF Shape
  <2> QED  BY <2>4, <2>5, <2>6 DEF Owed
<1>9. CASE /\ stack' = <<CommandOnly("ABOR"), With("aborting", rd)>> \o Tail(stack)
           /\ ~net.reset /\ (net' = net \/ net' = [net EXCEPT !.reset = ~net.up])
  <2> DEFINE f == CommandOnly("ABOR")
             g == With("aborting", rd)
  <2>1. f \in Frames /\ f.at = "command" /\ f.arg = "ABOR" /\ f.wait = "none"
    BY DEF CommandOnly, Frames, Commands
  <2>2. rd \in {"none", "preopen", "open", "dead"}
    BY DEF Typed
  <2>3. g \in Frames /\ g.at = "aborting"
    BY <2>2 DEF With, Frames
  <2>4. stack' = <<f, g>> \o Tail(stack)
    BY <1>9
  <2> HIDE DEF f, g
  <2>5. Fits(g, Beneath(stack)) /\ Fits(f, g.at)
    BY <1>1, <1>2, <2>1, <2>3 DEF Fits, Awaits
  <2>6. /\ Chain(stack') /\ stack' # <<>> /\ Top' = f
        /\ Bottom(stack') = IF Tail(stack) = <<>> THEN g.at ELSE Bottom(stack)
    BY <1>1, <1>2, <2>1, <2>3, <2>4, <2>5, Put2
  <2>7. net'.up = net.up /\ net'.cmds = net.cmds /\ net'.reps = net.reps /\ (net'.reset => ~net'.up)
    <3>1. net \in Net /\ (~net.up) \in BOOLEAN
      BY DEF Typed
    <3>2. CASE net' = net
      BY <1>9, <3>2
    <3>3. CASE net' = [net EXCEPT !.reset = ~net.up]
      BY <3>1, <3>3, NetReset
    <3> QED  BY <1>9, <3>2, <3>3
  <2>8. NoneDue' = NoneDue /\ EndDue' = EndDue /\ Live' = Live
    BY <1>3, <1>4, <2>7 DEF Live, NoneDue, EndDue
  <2>9. Live => NoneDue \/ EndDue
    BY <1>1 DEF Owed, Due
  <2>10. Live' => Due'
    BY <2>1, <2>6, <2>8, <2>9 DEF Due
  <2>11. "copy" \notin opt'.ops => Writing'
    BY <1>1, <1>3, <1>5, <1>6, <2>3, <2>6 DEF Owed, Writing
  <2>12. Shape'
    BY <1>3, <2>1, <2>6, <2>7 DEF Shape
  <2> QED  BY <2>6, <2>10, <2>11, <2>12 DEF Owed
<1> QED  BY <1>7, <1>8, <1>9

\* A reply that mc does not wait for is left behind.
LEMMA ReplyInterruptedKeeps ==
  ASSUME Typed, Shape, Owed, ReplyInterrupted PROVE Shape' /\ Owed'
<1>1. stack # <<>> /\ Top.at = "reply" /\ Beneath(stack) = "ended"
  BY DEF ReplyInterrupted, Now, Top, Beneath, Caller, Frame
<1>2. Chain(stack) /\ Top \in Frames /\ Fits(Top, Beneath(stack)) /\ rd # "open"
  BY <1>1, Running DEF Shape, Readings
<1>3. opt' = opt /\ wr' = wr /\ rd' = rd /\ net' = net /\ late' = TRUE /\ stack' = Tail(stack)
  BY DEF ReplyInterrupted, Rest, handles, remote, Return
<1>4. /\ Chain(stack') /\ stack' # <<>>
      /\ Bottom(stack') = Bottom(stack) /\ Top'.at = "ended"
  BY <1>1, <1>2, <1>3, Popped
<1>5. ~Live' /\ (net'.reset => ~net'.up)
  BY <1>3 DEF Live, Shape
<1>6. "copy" \notin opt.ops => Writing'
  BY <1>1, <1>3, <1>4 DEF Owed, Writing
<1>7. Shape'
  BY <1>2, <1>3, <1>4, <1>5 DEF Shape
<1> QED  BY <1>3, <1>5, <1>6, <1>7 DEF Owed

\* So is a greeting, when there is no password.
LEMMA NoPasswordKeeps == ASSUME Typed, Shape, Owed, NoPassword PROVE Shape' /\ Owed'
<1>1. stack # <<>> /\ Top.at = "login"
  BY DEF NoPassword, Now, Top
<1>2. Chain(stack) /\ Top \in Frames /\ Fits(Top, Beneath(stack)) /\ rd # "open"
  BY <1>1, Running DEF Shape, Readings
<1>3. opt' = opt /\ wr' = wr /\ rd' = rd /\ net' = net /\ late' = TRUE /\ stack' = Tail(stack)
  BY DEF NoPassword, Rest, handles, remote, Return
<1>4. /\ Chain(stack')
      /\ stack' # <<>> => Bottom(stack') = Bottom(stack) /\ Top'.at = Beneath(stack)
  BY <1>1, <1>2, <1>3, Popped
<1>5. Beneath(stack) # "connect"
  BY <1>1, <1>2 DEF Fits
<1>6. ~Live' /\ (net'.reset => ~net'.up)
  BY <1>3 DEF Live, Shape
<1> QED  BY <1>1, <1>2, <1>3, <1>4, <1>5, <1>6, GoneKeeps

\* A transfer that is not accepted leaves its last reply behind.
LEMMA NotAcceptedKeeps == ASSUME Typed, Shape, Owed, NotAccepted PROVE Shape' /\ Owed'
<1>1. stack # <<>> /\ Top.at = "prelim"
  BY DEF NotAccepted, Now, Top
<1>2. Chain(stack) /\ Top \in Frames /\ Fits(Top, Beneath(stack)) /\ rd # "open"
  BY <1>1, Running DEF Shape, Readings
<1>3. opt' = opt /\ wr' = wr /\ rd' = rd /\ net' = net /\ late' = TRUE /\ stack' = Tail(stack)
  BY DEF NotAccepted, Rest, handles, Return
<1>4. /\ Chain(stack')
      /\ stack' # <<>> => Bottom(stack') = Bottom(stack) /\ Top'.at = Beneath(stack)
  BY <1>1, <1>2, <1>3, Popped
<1>5. Beneath(stack) # "connect"
  BY <1>1, <1>2 DEF Fits
<1>6. ~Live' /\ (net'.reset => ~net'.up)
  BY <1>3 DEF Live, Shape
<1> QED  BY <1>1, <1>2, <1>3, <1>4, <1>5, <1>6, GoneKeeps

\* The answer to ABOR is read when the one read first ends the transfer.
LEMMA AbortedKeeps == ASSUME Typed, Shape, Owed, Aborted PROVE Shape' /\ Owed'
<1>1. stack # <<>> /\ Top.at = "aborted"
  BY DEF Aborted, Now, Top
<1>2. Chain(stack) /\ Top \in Frames /\ Fits(Top, Beneath(stack)) /\ rd # "open"
  BY <1>1, Running DEF Shape, Readings
<1>3. opt' = opt /\ wr' = wr /\ rd' = rd /\ net' = net /\ srv' = srv /\ sup' = sup /\ ret' = ret
  BY DEF Aborted, Rest, handles, remote
<1>4. late' = (late \/ (ret # TRANSIENT /\ sup.from # "ABOR"))
  BY DEF Aborted
<1>5. Live => \/ sup.from = "transfer" /\ (ret = TRANSIENT => sup.code = "426") /\ AborDue
              \/ sup.from = "ABOR" /\ ret # TRANSIENT /\ NoneDue
  BY <1>1 DEF Owed, Due
<1>6. Live' => Live /\ ~(ret # TRANSIENT /\ sup.from # "ABOR")
  BY <1>3, <1>4 DEF Live
<1>7. \/ ret = TRANSIENT /\ stack' = <<GetReply>> \o Tail(stack)
      \/ ~(ret = TRANSIENT /\ sup.code = "426") /\ stack' = Tail(stack)
  <2>1. Tail(stack) \in Seq(Frames)
    BY <1>1, <1>2, TopFits
  <2>2. <<>> \o Tail(stack) = Tail(stack)
    BY <2>1
  <2> QED  BY <2>2 DEF Aborted
<1>8. AborDue => OneDue
  <2>1. \A c : net.cmds = <<c>> => net.cmds[1] = c
    OBVIOUS
  <2> QED  BY <2>1 DEF AborDue, OneDue, Transfers
<1>9. /\ NoneDue' = NoneDue /\ OneDue' = OneDue
  BY <1>3, SameDue
<1>10. net'.reset => ~net'.up
  BY <1>3 DEF Shape
<1>11. Beneath(stack) \in {"fail", "closeread"}
  BY <1>1, <1>2 DEF Fits
<1>12. CASE ret = TRANSIENT /\ stack' = <<GetReply>> \o Tail(stack)
  <2> DEFINE f == GetReply
  <2>1. f \in Frames /\ f.at = "reply" /\ f.arg = "-" /\ f.wait = "-"
    BY DEF GetReply, Frames
  <2>2. stack' = <<f>> \o Tail(stack)
    BY <1>12
  <2> HIDE DEF f
  <2>3. Fits(f, Beneath(stack))
    BY <1>11, <2>1 DEF Fits
  <2>4. /\ Chain(stack') /\ stack' # <<>> /\ Top' = f /\ Beneath(stack') = Beneath(stack)
        /\ Bottom(stack') = IF Tail(stack) = <<>> THEN f.at ELSE Bottom(stack)
    BY <1>1, <1>2, <2>1, <2>2, <2>3, Put1
  <2>5. Live' => OneDue'
    BY <1>5, <1>6, <1>8, <1>9, <1>12
  <2>6. Live' => Due'
    BY <1>11, <2>1, <2>4, <2>5 DEF Due, Transfers
  <2>7. "copy" \notin opt'.ops => Writing'
    BY <1>1, <1>3, <2>1, <2>4, StillWriting
  <2>8. Shape'
    BY <1>2, <1>3, <1>10, <2>1, <2>4 DEF Shape
  <2> QED  BY <2>4, <2>6, <2>7, <2>8 DEF Owed
<1>13. CASE ~(ret = TRANSIENT /\ sup.code = "426") /\ stack' = Tail(stack)
  <2>1. /\ Chain(stack') /\ stack' # <<>>
        /\ Bottom(stack') = Bottom(stack) /\ Top'.at = Beneath(stack)
    BY <1>1, <1>2, <1>11, <1>13, Popped
  <2>2. Live' => NoneDue'
    BY <1>5, <1>6, <1>9, <1>13
  <2>3. Live' => Due'
    BY <1>2, <1>3, <1>11, <2>1, <2>2 DEF Due
  <2>4. "copy" \notin opt'.ops => Writing'
    BY <1>1, <1>3, <2>1, StillWriting
  <2>5. Shape'
    BY <1>2, <1>3, <1>10, <1>11, <2>1 DEF Shape
  <2> QED  BY <2>1, <2>3, <2>4, <2>5 DEF Owed
<1> QED  BY <1>7, <1>12, <1>13

-----------------------------------------------------------------------------
(* The user                                                                 *)

\* A function that calls nobody, and one that calls another.
LEMMA One ==
  ASSUME NEW f \in Frames, Fits(f, "-")
  PROVE  Chain(<<f>>) /\ <<f>> # <<>> /\ At(<<f>>) = f.at /\ Head(<<f>>) = f /\ Bottom(<<f>>) = f.at
<1>1. Chain(<<>>) /\ At(<<>>) = "-"
  BY DEF Chain, At
<1>2. <<f>> \o <<>> = <<f>>
  OBVIOUS
<1>3. /\ Chain(<<f>> \o <<>>) /\ <<f>> \o <<>> # <<>>
      /\ Head(<<f>> \o <<>>) = f /\ At(<<f>> \o <<>>) = f.at
      /\ (<<f>> \o <<>>)[Len(<<f>> \o <<>>)] = f
  BY <1>1, PushFits
<1> QED  BY <1>1, <1>2, <1>3 DEF Bottom

\* An operation that begins with two calls ...
LEMMA Two ==
  ASSUME NEW f \in Frames, NEW g \in Frames, Fits(g, "-"), Fits(f, g.at)
  PROVE  /\ Chain(<<f, g>>) /\ <<f, g>> # <<>> /\ At(<<f, g>>) = f.at /\ Head(<<f, g>>) = f
         /\ Bottom(<<f, g>>) = g.at
<1> DEFINE s == <<g>>
<1>1. Chain(s) /\ s # <<>> /\ At(s) = g.at /\ s[Len(s)] = g
  BY One
<1>2. <<f, g>> = <<f>> \o s
  <2>1. /\ <<f, g>> \in Seq(Frames) /\ Len(<<f, g>>) = 2 /\ <<f, g>>[1] = f /\ <<f, g>>[2] = g
        /\ s \in Seq(Frames) /\ Len(s) = 1 /\ s[1] = g
    OBVIOUS
  <2> HIDE DEF s
  <2>2. /\ <<f>> \o s \in Seq(Frames) /\ Len(<<f>> \o s) = 2
        /\ (<<f>> \o s)[1] = f /\ (<<f>> \o s)[1 + 1] = g
    <3>1. 1 \in 1 .. Len(s)
      BY <2>1
    <3> QED  BY <2>1, <3>1, SeqCons
  <2>3. \A i \in 1 .. 2 : i = 1 \/ i = 2
    OBVIOUS
  <2> QED  BY <2>1, <2>2, <2>3, SeqEqual
<1> HIDE DEF s
<1>3. /\ Chain(<<f>> \o s) /\ <<f>> \o s # <<>> /\ Head(<<f>> \o s) = f /\ At(<<f>> \o s) = f.at
      /\ (<<f>> \o s)[Len(<<f>> \o s)] = g
  BY <1>1, PushFits
<1> QED  BY <1>2, <1>3 DEF Bottom

\* ... or three.
LEMMA Triple ==
  ASSUME NEW f \in Frames, NEW g \in Frames, NEW h \in Frames,
         Fits(h, "-"), Fits(g, h.at), Fits(f, g.at)
  PROVE  /\ Chain(<<f, g, h>>) /\ <<f, g, h>> # <<>> /\ At(<<f, g, h>>) = f.at
         /\ Head(<<f, g, h>>) = f /\ Bottom(<<f, g, h>>) = h.at
<1> DEFINE s == <<g, h>>
<1>1. Chain(s) /\ s # <<>> /\ At(s) = g.at /\ s[Len(s)].at = h.at
  BY Two DEF Bottom
<1>2. <<f, g, h>> = <<f>> \o s
  OBVIOUS
<1> HIDE DEF s
<1>3. /\ Chain(<<f>> \o s) /\ <<f>> \o s # <<>> /\ Head(<<f>> \o s) = f /\ At(<<f>> \o s) = f.at
      /\ (<<f>> \o s)[Len(<<f>> \o s)].at = h.at
  BY <1>1, PushFits
<1> QED  BY <1>2, <1>3 DEF Bottom

\* The calls that an operation begins with.
LEMMA CallsFit ==
  ASSUME NEW op \in Ops
  PROVE  LET s == Calls(op)
         IN /\ Chain(s) /\ s # <<>> /\ At(s) \in {"list", "command", "read", "store"}
            /\ Bottom(s) \in {"list", "command", "renamed", "closeread", "store"}
            /\ Bottom(s) = "store" => op \in {"save", "upload", "copy"}
<1>1. CASE op \in {"list", "sub"}
  <2> DEFINE f == With("list", IF op = "list" THEN "home" ELSE "sub")
  <2>1. f \in Frames /\ f.at = "list" /\ f.arg \in Places
    BY DEF With, Frames, Places
  <2>2. Calls(op) = <<f>>
    BY <1>1 DEF Calls
  <2> HIDE DEF f
  <2>3. Fits(f, "-")
    BY <2>1 DEF Fits
  <2> QED  BY <2>1, <2>2, <2>3, One
<1>2. CASE op = "remove"
  <2> DEFINE f == Command("DELE")
  <2>1. f \in Frames /\ f.at = "command" /\ f.arg = "DELE" /\ f.wait = "reply"
    BY DEF Command, Frames, Commands
  <2>2. Calls(op) = <<f>>
    BY <1>2 DEF Calls
  <2> HIDE DEF f
  <2>3. Fits(f, "-")
    BY <2>1 DEF Fits, Awaits
  <2> QED  BY <2>1, <2>2, <2>3, One
<1>3. CASE op = "rename"
  <2> DEFINE f == Command("RNFR")
             g == Frame("renamed")
  <2>1. f \in Frames /\ f.at = "command" /\ f.arg = "RNFR" /\ f.wait = "reply"
    BY DEF Command, Frames, Commands
  <2>2. g \in Frames /\ g.at = "renamed"
    BY DEF Frame, Frames
  <2>3. Calls(op) = <<f, g>>
    BY <1>3 DEF Calls
  <2> HIDE DEF f, g
  <2>4. Fits(g, "-") /\ Fits(f, g.at)
    BY <2>1, <2>2 DEF Fits, Awaits
  <2> QED  BY <2>1, <2>2, <2>3, <2>4, Two
<1>4. CASE op \in {"view", "download"}
  <2> DEFINE f == Frame("read")
             g == With("got", op)
             h == Frame("closeread")
  <2>1. f \in Frames /\ f.at = "read" /\ h \in Frames /\ h.at = "closeread"
    BY DEF Frame, Frames
  <2>2. g \in Frames /\ g.at = "got"
    BY <1>4 DEF With, Frames
  <2>3. Calls(op) = <<f, g, h>>
    BY <1>4 DEF Calls
  <2> HIDE DEF f, g, h
  <2>4. Fits(h, "-") /\ Fits(g, h.at) /\ Fits(f, g.at)
    BY <2>1, <2>2 DEF Fits
  <2> QED  BY <2>1, <2>2, <2>3, <2>4, Triple
<1>5. CASE op \in {"save", "upload", "copy"}
  <2> DEFINE f == Frame("store")
  <2>1. f \in Frames /\ f.at = "store"
    BY DEF Frame, Frames
  <2>2. Calls(op) = <<f>>
    BY <1>5 DEF Calls
  <2> HIDE DEF f
  <2>3. Fits(f, "-")
    BY <2>1 DEF Fits
  <2> QED  BY <1>5, <2>1, <2>2, <2>3, One
<1> QED  BY <1>1, <1>2, <1>3, <1>4, <1>5 DEF Ops

\* A connection that is not made yet.
LEMMA NewSupTyped ==
  ASSUME Typed PROVE NewSup \in Sup /\ NewSup.sock = "none" /\ NewSup.busy = FALSE
  BY OptTyped DEF NewSup, Sup, Answers

\* Operate keeps the types.
LEMMA OperateTypes == ASSUME Typed, Operate PROVE Typed'
<1>1. rd = "none" /\ sup.busy = FALSE
  <2>1. sup.busy <=> rd = "open"
    BY DEF Typed
  <2>2. sup.busy \in BOOLEAN
    BY SupFields DEF Typed
  <2>3. rd = "none"
    BY DEF Operate, Quiet
  <2> QED  BY <2>1, <2>2, <2>3
<1>2. sup' \in Sup /\ sup'.busy = FALSE
  <2>1. sup' = sup \/ sup' = NewSup
    BY DEF Operate
  <2>2. sup \in Sup
    BY DEF Typed
  <2> QED  BY <1>1, <2>1, <2>2, NewSupTyped
<1>3. rd' \in {"preopen", "none"}
  BY DEF Operate
<1>4. ops' \in 0 .. MaxOps
  BY Bounds DEF Operate, Typed
<1>5. report' = "none"
  BY DEF Operate
<1>6. UNCHANGED <<opt, ret, wr, put, net, srv, data, file, late, trouble>>
  BY DEF Operate, remote
<1> QED  BY <1>2, <1>3, <1>4, <1>5, <1>6 DEF Typed

\* An operation begins when nothing is due.
LEMMA OperateKeeps == ASSUME Typed, Shape, Owed, Operate PROVE Shape' /\ Owed'
<1>1. /\ stack = <<>> /\ opt' = opt /\ wr' = wr /\ wr = "none"
      /\ late' = late
      /\ net' = net /\ srv' = srv
  BY DEF Operate, Quiet, remote
<1>2. PICK op \in opt.ops :
        /\ stack' = (IF sup.sock = "none" THEN <<Frame("connect")>> ELSE <<>>) \o Calls(op)
        /\ rd' = IF op \in {"view", "download", "copy"} THEN "preopen" ELSE "none"
  BY DEF Operate
<1>3. op \in Ops
  BY FtpAssumption DEF Typed
<1> DEFINE s == Calls(op)
<1>4. /\ Chain(s) /\ s # <<>> /\ At(s) \in {"list", "command", "read", "store"}
      /\ Bottom(s) \in {"list", "command", "renamed", "closeread", "store"}
      /\ Bottom(s) = "store" => op \in {"save", "upload", "copy"}
  BY <1>3, CallsFit
<1>5. stack' = (IF sup.sock = "none" THEN <<Frame("connect")>> ELSE <<>>) \o s
  BY <1>2
<1> HIDE DEF s
<1>6. net'.reset => ~net'.up
  BY <1>1 DEF Shape
<1>7. /\ Chain(stack') /\ stack' # <<>> /\ Bottom(stack') = Bottom(s)
      /\ IF sup.sock = "none" THEN Top'.at = "connect"
         ELSE Top'.at \in {"list", "command", "read", "store"}
  <2>1. CASE sup.sock = "none"
    <3> DEFINE f == Frame("connect")
    <3>1. f \in Frames /\ f.at = "connect"
      BY DEF Frame, Frames
    <3>2. stack' = <<f>> \o s
      BY <1>5, <2>1
    <3> HIDE DEF f
    <3>3. Fits(f, At(s))
      BY <1>4, <3>1 DEF Fits
    <3>4. /\ Chain(<<f>> \o s) /\ <<f>> \o s # <<>> /\ Head(<<f>> \o s) = f
          /\ (<<f>> \o s)[Len(<<f>> \o s)] = s[Len(s)]
      BY <1>4, <3>1, <3>3, PushFits
    <3> QED  BY <2>1, <3>1, <3>2, <3>4 DEF Top, Bottom
  <2>2. CASE sup.sock # "none"
    <3>1. s \in Seq(Frames)
      BY <1>4 DEF Chain
    <3>2. <<>> \o s = s
      BY <3>1
    <3>3. stack' = s
      BY <1>5, <2>2, <3>2
    <3> QED  BY <1>4, <2>2, <3>3 DEF At, Top
  <2> QED  BY <2>1, <2>2
<1>8. sup' = IF sup.sock = "none" THEN NewSup ELSE sup
  BY DEF Operate
<1>9. sup.sock = "none" => sup'.sock = "none"
  BY <1>8, NewSupTyped
<1>10. Live' => /\ sup.sock # "none" /\ NoneDue'
  <2>1. Live' => sup.sock # "none"
    BY <1>9 DEF Live
  <2>2. sup.sock # "none" => Live' = Live
    BY <1>1, <1>8 DEF Live
  <2>3. Live => NoneDue
    BY <1>1 DEF Owed
  <2> QED  BY <1>1, <2>1, <2>2, <2>3, SameDue
<1>11. rd' \in {"preopen", "none"}
  BY <1>2
<1>12. Live' => Due'
  BY <1>7, <1>10, <1>11 DEF Due
<1>13. "copy" \notin opt.ops => Writing'
  BY <1>1, <1>2, <1>4, <1>7 DEF Writing
<1>14. Shape'
  BY <1>6, <1>7, <1>9, <1>11 DEF Shape
<1> QED  BY <1>1, <1>7, <1>12, <1>13, <1>14 DEF Owed

\* Leave keeps the types.
LEMMA LeaveTypes == ASSUME Typed, Leave PROVE Typed'
<1>1. ops' \in 0 .. MaxOps
  BY Bounds DEF Leave, Typed
<1>2. /\ report' = "none"
      /\ UNCHANGED <<opt, ret, sup, rd, wr, put, net, srv, data, file, late, trouble>>
  BY DEF Leave, remote, handles
<1> QED  BY <1>1, <1>2 DEF Typed

\* So does leaving.
LEMMA LeaveKeeps == ASSUME Typed, Shape, Owed, Leave PROVE Shape' /\ Owed'
<1>1. /\ stack = <<>> /\ opt' = opt /\ wr' = wr /\ wr = "none"
      /\ late' = late /\ rd' = rd /\ rd = "none"
      /\ net' = net /\ srv' = srv /\ sup' = sup /\ stack' = <<Frame("quit")>>
  BY DEF Leave, Quiet, remote, handles
<1> DEFINE f == Frame("quit")
<1>2. f \in Frames /\ f.at = "quit"
  BY DEF Frame, Frames
<1>3. stack' = <<f>>
  BY <1>1
<1> HIDE DEF f
<1>4. Fits(f, "-")
  BY <1>2 DEF Fits
<1>5. Chain(stack') /\ stack' # <<>> /\ Top' = f /\ Bottom(stack') = f.at
  BY <1>2, <1>3, <1>4, First
<1>6. Live' => NoneDue'
  <2>1. Live' = Live /\ NoneDue' = NoneDue
    BY <1>1, SameDue DEF Live
  <2> QED  BY <1>1, <2>1 DEF Owed
<1>7. Live' => Due'
  BY <1>2, <1>5, <1>6 DEF Due
<1>8. "copy" \notin opt.ops => Writing'
  BY <1>1, <1>2, <1>5 DEF Writing
<1>9. Shape'
  BY <1>1, <1>2, <1>5 DEF Shape
<1> QED  BY <1>1, <1>5, <1>7, <1>8, <1>9 DEF Owed

-----------------------------------------------------------------------------
(* The server                                                               *)

\* A reply at the end of a sequence of them.
LEMMA AfterReplies ==
  ASSUME NEW q \in Seq(Replies), NEW r \in Replies
  PROVE  /\ q = <<>> => Append(q, r) = <<r>> /\ Append(q, r)[1] = r
         /\ q = <<q[1]>> => /\ Append(q, r) = <<q[1], r>>
                            /\ Append(q, r)[1] = q[1] /\ Append(q, r)[2] = r
<1>1. q = <<>> => Append(q, r) = <<r>> /\ Append(q, r)[1] = r
  OBVIOUS
<1>2. ASSUME NEW x, q = <<x>>, x = q[1]
      PROVE  Append(q, r) = <<x, r>> /\ Append(q, r)[1] = x /\ Append(q, r)[2] = r
  <2>1. x \in Replies
    <3>1. q[1] = x /\ 1 \in 1 .. Len(q)
      BY <1>2
    <3> QED  BY <3>1
  <2>2. Append(<<x>>, r) = <<x, r>>
    <3> DEFINE a == Append(<<x>>, r)
               b == <<x, r>>
    <3>1. a \in Seq(Replies) /\ Len(a) = 2 /\ a[1] = x /\ a[2] = r
      BY <2>1
    <3>2. b \in Seq(Replies) /\ Len(b) = 2 /\ b[1] = x /\ b[2] = r
      BY <2>1
    <3>3. \A i \in 1 .. 2 : i = 1 \/ i = 2
      OBVIOUS
    <3> HIDE DEF a, b
    <3>4. \A i \in 1 .. Len(a) : a[i] = b[i]
      BY <3>1, <3>2, <3>3
    <3>5. a = b
      BY <3>1, <3>2, <3>4, SeqEqual
    <3> QED  BY <3>5 DEF a, b
  <2> QED  BY <1>2, <2>2
<1> QED  BY <1>1, <1>2

\* What the server still owes after it has done something of what was due.
Served ==
  /\ ~NoneDue
  /\ OneDue => OneDue'
  /\ EndDue => EndDue'
  /\ TransferDue => TransferDue'
  /\ AborDue => AborDue'
  /\ BothDue => AborDue' \/ BothDue'

\* The client does not change meanwhile.
LEMMA ServedKeeps ==
  ASSUME Shape, Owed, UNCHANGED Client, late' = late,
         net'.up = net.up, net'.reset = net.reset, Served
  PROVE  Shape' /\ Owed'
<1>1. /\ opt' = opt /\ stack' = stack /\ ret' = ret /\ sup' = sup /\ rd' = rd /\ wr' = wr
      /\ Top' = Top /\ Beneath(stack') = Beneath(stack) /\ Bottom(stack') = Bottom(stack)
  BY DEF Client, handles, Top
<1>2. Live' = Live
  BY <1>1 DEF Live
<1>3. Shape'
  BY <1>1 DEF Shape
<1>4. "copy" \notin opt.ops => Writing'
  BY <1>1 DEF Owed, Writing
<1>5. stack # <<>> /\ Due => Due'
  <2>1. CASE Top.at = "reply" /\ Top.arg \in Transfers /\ Beneath(stack) # "aborted"
    BY <1>1, <2>1 DEF Served, Due
  <2>2. CASE Top.at = "reply" /\ Top.arg \notin Transfers
    BY <1>1, <2>2 DEF Served, Due
  <2>3. CASE Top.at # "reply"
    BY <1>1, <2>3 DEF Served, Due
  <2>4. Top.at = "reply" /\ Top.arg \in Transfers /\ stack # <<>> => Beneath(stack) # "aborted"
    BY Running DEF Fits, Awaits, Transfers
  <2> QED  BY <2>1, <2>2, <2>3, <2>4
<1> QED  BY <1>1, <1>2, <1>3, <1>4, <1>5 DEF Owed, Served

\* A server that is done.
LEMMA IdleSrv == ASSUME Typed PROVE Idle \in Srv /\ Idle.at = "idle"
<1>1. srv \in Srv /\ 0 \in 0 .. Pieces
  BY Bounds DEF Typed
<1> QED  BY <1>1 DEF Idle, Srv

\* The greeting keeps the types.
LEMMA SrvGreetTypes == ASSUME Typed, SrvGreet PROVE Typed'
<1>1. net' \in Net
  <2>1. net' = Replied(net, COMPLETE, "-", "greeting") /\ net \in Net
    BY DEF SrvGreet, Typed
  <2>2. COMPLETE \in 1 .. 5 /\ "greeting" \in Answers
    BY DEF COMPLETE, Answers
  <2> QED  BY <2>1, <2>2, NetReplied
<1>2. srv' \in Srv
  BY IdleSrv DEF SrvGreet
<1> QED  BY <1>1, <1>2 DEF SrvGreet, Client, handles, Typed

\* The greeting is sent.
LEMMA SrvGreetKeeps == ASSUME Typed, Shape, Owed, SrvGreet PROVE Shape' /\ Owed'
<1>1. net' = Replied(net, COMPLETE, "-", "greeting") /\ net \in Net /\ srv.at = "greet"
  BY DEF SrvGreet, Typed
<1>2. srv'.at = "idle"
  BY IdleSrv DEF SrvGreet
<1> DEFINE r == [class |-> COMPLETE, code |-> "-", to |-> "greeting"]
<1>3. r \in Replies
  BY DEF Replies, Answers, COMPLETE
<1>4. /\ net'.up = net.up /\ net'.reset = net.reset /\ net'.cmds = net.cmds
      /\ net'.reps = Append(net.reps, r)
  <2>1. COMPLETE \in 1 .. 5 /\ "greeting" \in Answers
    BY DEF COMPLETE, Answers
  <2> QED  BY <1>1, <2>1, NetReplied
<1> HIDE DEF r
<1>5. net.reps = <<>> => net'.reps = <<r>> /\ net'.reps[1] = r
  BY <1>3, <1>4, NetFields, AfterReplies DEF Typed
<1>6. OneDue => OneDue'
  BY <1>1, <1>2, <1>4, <1>5 DEF OneDue
<1>7. Served
  BY <1>1, <1>6 DEF Served, NoneDue, EndDue, TransferDue, AborDue, BothDue
<1>8. UNCHANGED Client /\ late' = late
  BY DEF SrvGreet, Client
<1> QED  BY <1>4, <1>7, <1>8, ServedKeeps

\* Only commands that begin a transfer are answered twice.
LEMMA Answered ==
  ASSUME NEW cmd \in Commands
  PROVE  /\ Answer(cmd) \in {PRELIM, COMPLETE, CONTINUE, 5}
         /\ cmd \in Transfers => Answer(cmd) \in {PRELIM, 5}
         /\ cmd \notin Transfers => Answer(cmd) # PRELIM
         /\ cmd = "ABOR" => Answer(cmd) = COMPLETE
<1>1. Answer(cmd) = IF cmd = "USER" THEN CONTINUE
                    ELSE IF cmd \in {"PASS", "QUIT", "ABOR"} THEN COMPLETE
                    ELSE IF ~srv.in THEN 5
                    ELSE IF cmd = "RNFR" THEN CONTINUE
                    ELSE IF cmd = "RNTO" THEN IF srv.rnfr THEN COMPLETE ELSE 5
                    ELSE IF cmd \in {"LIST", "LIST -la", "RETR", "STOR"}
                         THEN IF srv.set THEN PRELIM ELSE 5
                    ELSE COMPLETE
  BY DEF Answer
<1>2. CONTINUE # PRELIM /\ COMPLETE # PRELIM /\ 5 # PRELIM
  BY DEF PRELIM, COMPLETE, CONTINUE
<1> QED  BY <1>1, <1>2 DEF Transfers

\* What becomes of the server.
LEMMA AcceptedSrv ==
  ASSUME srv \in Srv, NEW cmd \in Commands, NEW t \in Accepted(cmd)
  PROVE  /\ t \in Srv
         /\ cmd \in Transfers => t.at \in {"send", "recv"}
         /\ cmd \notin Transfers => t.at = srv.at
<1>1. CASE cmd \in {"PASS", "RNFR", "RNTO", "PASV", "EPSV", "PORT", "EPRT"}
  <2>1. \/ t = [srv EXCEPT !.in = TRUE] \/ t = [srv EXCEPT !.rnfr = TRUE]
        \/ t = [srv EXCEPT !.rnfr = FALSE] \/ t = [srv EXCEPT !.set = TRUE]
    BY <1>1 DEF Accepted
  <2>2. t \in Srv /\ t.at = srv.at
    BY <2>1 DEF Srv
  <2> QED  BY <1>1, <2>2 DEF Transfers
<1>2. CASE cmd \in {"TYPE I", "TYPE A"}
  <2> DEFINE b == cmd = "TYPE I"
  <2>1. t = [srv EXCEPT !.binary = b] /\ b \in BOOLEAN
    BY <1>2 DEF Accepted
  <2> HIDE DEF b
  <2>2. t \in Srv /\ t.at = srv.at
    BY <2>1 DEF Srv
  <2> QED  BY <1>2, <2>2 DEF Transfers
<1>3. CASE cmd \in {"CWD home", "CWD sub"}
  <2> DEFINE d == IF cmd = "CWD sub" THEN "sub" ELSE "home"
  <2>1. t = [srv EXCEPT !.cwd = d] /\ d \in {"home", "sub"}
    BY <1>3 DEF Accepted
  <2> HIDE DEF d
  <2>2. t \in Srv /\ t.at = srv.at
    BY <2>1 DEF Srv
  <2> QED  BY <1>3, <2>2 DEF Transfers
<1>4. CASE cmd = "STOR"
  <2>1. t = [srv EXCEPT !.at = "recv", !.set = FALSE]
    BY <1>4 DEF Accepted
  <2>2. t \in Srv /\ t.at = "recv"
    BY <2>1 DEF Srv
  <2> QED  BY <1>4, <2>2 DEF Transfers
<1>5. CASE cmd \in {"LIST", "LIST -la", "RETR"}
  <2>1. PICK n \in {0, Pieces} : t = [srv EXCEPT !.at = "send", !.set = FALSE, !.left = n]
    BY <1>5 DEF Accepted
  <2>2. n \in 0 .. Pieces
    BY Bounds
  <2>3. t \in Srv /\ t.at = "send"
    BY <2>1, <2>2 DEF Srv
  <2> QED  BY <1>5, <2>3 DEF Transfers
<1>6. CASE cmd \in {"USER", "PWD", "QUIT", "ABOR", "DELE"}
  <2>1. t = srv
    BY <1>6 DEF Accepted
  <2> QED  BY <1>6, <2>1 DEF Transfers
<1> QED  BY <1>1, <1>2, <1>3, <1>4, <1>5, <1>6 DEF Commands

\* The answer to a command keeps the types.
LEMMA SrvCommandTypes == ASSUME Typed, SrvCommand PROVE Typed'
<1>1. net \in Net /\ srv \in Srv /\ data \in Data /\ net.cmds # <<>>
  BY DEF SrvCommand, Typed
<1> DEFINE cmd == Head(net.cmds)
           n == [net EXCEPT !.cmds = Tail(@)]
<1>2. cmd \in Commands /\ Tail(net.cmds) \in Seq(Commands)
  BY <1>1, NetFields, SeqHead, SeqTail
<1>3. n \in Net
  BY <1>1, <1>2, NetCmds
<1>4. PICK class \in {Answer(cmd), 5} :
        /\ net' = Replied(n, class, "-", cmd)
        /\ srv' \in IF class = 5 THEN {srv} ELSE Accepted(cmd)
        /\ data' = data \/ data' = [mine |-> TRUE, theirs |-> TRUE, n |-> 0, done |-> 0]
        /\ file' \in {"part", file}
        /\ trouble' = trouble \/ Trouble
  BY DEF SrvCommand, Fine
<1> HIDE DEF cmd, n
<1>5. class \in 1 .. 5
  BY <1>2, Answered DEF PRELIM, COMPLETE, CONTINUE
<1>6. cmd \in Answers
  BY <1>2 DEF Answers
<1>7. net' \in Net
  BY <1>3, <1>4, <1>5, <1>6, NetReplied
<1>8. srv' \in Srv
  BY <1>1, <1>2, <1>4, AcceptedSrv
<1>9. data' \in Data
  <2>1. [mine |-> TRUE, theirs |-> TRUE, n |-> 0, done |-> 0] \in Data
    BY DEF Data
  <2> QED  BY <1>1, <1>4, <2>1
<1>10. trouble' \in 0 .. MaxTrouble
  BY <1>4, Bounds DEF Typed, Trouble
<1>11. UNCHANGED Client
  BY DEF SrvCommand
<1> QED  BY <1>4, <1>7, <1>8, <1>9, <1>10, <1>11 DEF Client, handles, Typed

\* A command is answered; a transfer that is accepted begins.
LEMMA SrvCommandKeeps == ASSUME Typed, Shape, Owed, SrvCommand PROVE Shape' /\ Owed'
<1>1. net \in Net /\ srv \in Srv /\ net.cmds # <<>> /\ srv.at = "idle"
  BY DEF SrvCommand, Typed
<1> DEFINE cmd == Head(net.cmds)
           n == [net EXCEPT !.cmds = Tail(@)]
<1>2. /\ cmd \in Commands /\ Tail(net.cmds) \in Seq(Commands)
      /\ \A c : net.cmds = <<c>> => cmd = c /\ Tail(net.cmds) = <<>>
  BY <1>1, NetFields, SeqHead, SeqTail
<1>3. /\ n \in Net /\ n.up = net.up /\ n.reset = net.reset /\ n.cmds = Tail(net.cmds)
      /\ n.reps = net.reps
  BY <1>1, <1>2, NetCmds
<1>4. PICK class \in {Answer(cmd), 5} :
        /\ net' = Replied(n, class, "-", cmd)
        /\ srv' \in IF class = 5 THEN {srv} ELSE Accepted(cmd)
  BY DEF SrvCommand
<1> HIDE DEF cmd, n
<1> DEFINE r == [class |-> class, code |-> "-", to |-> cmd]
<1>5. class \in 1 .. 5 /\ cmd \in Answers
  BY <1>2, Answered DEF PRELIM, COMPLETE, CONTINUE, Answers
<1>6. r \in Replies /\ r.class = class /\ r.to = cmd
  BY <1>5 DEF Replies
<1>7. /\ net'.up = net.up /\ net'.reset = net.reset /\ net'.cmds = Tail(net.cmds)
      /\ net'.reps = Append(net.reps, r)
  <2> DEFINE m == Replied(n, class, "-", cmd)
  <2>1. /\ m.up = n.up /\ m.reset = n.reset /\ m.cmds = n.cmds
        /\ m.reps = Append(n.reps, r)
    BY <1>3, <1>5, NetReplied
  <2>2. net' = m
    BY <1>4
  <2> HIDE DEF m, r
  <2> QED  BY <1>3, <2>1, <2>2
<1> HIDE DEF r
<1>8. /\ net.reps = <<>> => net'.reps = <<r>> /\ net'.reps[1] = r
      /\ net.reps = <<net.reps[1]>> =>
           net'.reps = <<net.reps[1], r>> /\ net'.reps[1] = net.reps[1] /\ net'.reps[2] = r
  <2>1. net.reps \in Seq(Replies)
    BY <1>1, NetFields
  <2> DEFINE a == Append(net.reps, r)
  <2>2. /\ net.reps = <<>> => a = <<r>> /\ a[1] = r
        /\ net.reps = <<net.reps[1]>> =>
             a = <<net.reps[1], r>> /\ a[1] = net.reps[1] /\ a[2] = r
    BY <1>6, <2>1, AfterReplies
  <2>3. net'.reps = a
    BY <1>7
  <2> HIDE DEF a
  <2> QED  BY <2>2, <2>3
<1>9. /\ cmd \notin Transfers => srv'.at = "idle" /\ class # PRELIM
      /\ cmd \in Transfers => \/ class = PRELIM /\ srv'.at \in {"send", "recv"}
                              \/ class # PRELIM /\ srv'.at = "idle"
      /\ cmd = "ABOR" => class # TRANSIENT
  <2>1. class = 5 => srv' = srv
    BY <1>4
  <2>2. class # 5 => /\ class = Answer(cmd)
                     /\ cmd \in Transfers => srv'.at \in {"send", "recv"}
                     /\ cmd \notin Transfers => srv'.at = "idle"
    BY <1>1, <1>2, <1>4, AcceptedSrv
  <2>3. /\ cmd \in Transfers => Answer(cmd) \in {PRELIM, 5}
        /\ cmd \notin Transfers => Answer(cmd) # PRELIM
        /\ cmd = "ABOR" => Answer(cmd) = COMPLETE
    BY <1>2, Answered
  <2>4. PRELIM # 5 /\ COMPLETE # TRANSIENT /\ 5 # TRANSIENT
    BY DEF PRELIM, COMPLETE, TRANSIENT
  <2> QED  BY <1>1, <1>4, <2>1, <2>2, <2>3, <2>4
<1>10. OneDue => OneDue'
  BY <1>1, <1>2, <1>7, <1>8, <1>9 DEF OneDue
<1>11. TransferDue => TransferDue'
  BY <1>1, <1>2, <1>6, <1>7, <1>8, <1>9 DEF TransferDue
<1>12. "ABOR" \notin Transfers
  BY DEF Transfers
<1>13. cmd = "ABOR" => AborReply(r)
  BY <1>6, <1>9 DEF AborReply
<1>14. AborDue => AborDue'
  BY <1>1, <1>2, <1>7, <1>8, <1>9, <1>12, <1>13 DEF AborDue
<1>15. BothDue => BothDue'
  BY <1>1, <1>2, <1>7, <1>8, <1>9, <1>12, <1>13 DEF BothDue
<1>16. Served
  BY <1>1, <1>10, <1>11, <1>14, <1>15 DEF Served, NoneDue, EndDue
<1>17. UNCHANGED Client /\ late' = late
  BY DEF SrvCommand, Client
<1> QED  BY <1>7, <1>16, <1>17, ServedKeeps

\* The end of a transfer is answered.
LEMMA SrvEnds ==
  ASSUME Typed, srv.at \in {"send", "recv"}, srv' = Idle, NEW class \in 2 .. 5,
         NEW code \in {"-", "421", "426"}, class = TRANSIENT => code = "426",
         net' = Replied(net, class, code, "transfer")
  PROVE  net' \in Net /\ srv' \in Srv /\ net'.up = net.up /\ net'.reset = net.reset /\ Served
<1> DEFINE r == [class |-> class, code |-> code, to |-> "transfer"]
           m == Replied(net, class, code, "transfer")
<1>1. net \in Net /\ net.reps \in Seq(Replies) /\ class \in 1 .. 5 /\ class # PRELIM
  BY NetFields DEF Typed, PRELIM
<1>2. "transfer" \in Answers
  BY DEF Answers
<1>3. r \in Replies /\ EndReply(r)
  BY <1>1, <1>2 DEF Replies, EndReply
<1>4. /\ m \in Net /\ m.up = net.up /\ m.reset = net.reset /\ m.cmds = net.cmds
      /\ m.reps = Append(net.reps, r)
  BY <1>1, <1>2, NetReplied
<1>5. net' = m
  OBVIOUS
<1>6. r.class # PRELIM
  BY <1>1
<1> HIDE DEF r, m
<1>7. srv' \in Srv /\ srv'.at = "idle"
  BY IdleSrv
<1> DEFINE a == Append(net.reps, r)
<1>8. /\ net.reps = <<>> => a = <<r>> /\ a[1] = r
      /\ net.reps = <<net.reps[1]>> =>
           a = <<net.reps[1], r>> /\ a[1] = net.reps[1] /\ a[2] = r
  BY <1>1, <1>3, AfterReplies
<1>9. net'.reps = a /\ net'.cmds = net.cmds
  BY <1>4, <1>5
<1> HIDE DEF a
<1>10. OneDue => OneDue'
  BY <1>7, <1>8, <1>9 DEF OneDue
<1>11. EndDue => EndDue'
  BY <1>3, <1>7, <1>8, <1>9 DEF EndDue
<1>12. TransferDue => TransferDue'
  BY <1>3, <1>6, <1>7, <1>8, <1>9 DEF TransferDue
<1>13. BothDue => BothDue'
  BY <1>3, <1>7, <1>8, <1>9 DEF BothDue
<1>14. ~NoneDue /\ ~AborDue
  BY DEF NoneDue, AborDue
<1> QED  BY <1>4, <1>5, <1>7, <1>10, <1>11, <1>12, <1>13, <1>14 DEF Served

\* Data are sent and received without any word.
LEMMA SrvGoesOn ==
  ASSUME srv.at \in {"send", "recv"}, srv'.at = srv.at, net' = net
  PROVE  Served
  BY DEF Served, NoneDue, OneDue, EndDue, TransferDue, AborDue, BothDue

\* A piece sent keeps the types.
LEMMA SrvSendTypes == ASSUME Typed, SrvSend PROVE Typed'
<1>1. srv \in Srv /\ srv.left \in 0 .. Pieces /\ data \in Data /\ srv.left > 0
  BY SrvFields DEF Typed, SrvSend
<1>2. srv.left - 1 \in 0 .. Pieces
  BY <1>1, Bounds
<1>3. srv' = [srv EXCEPT !.left = srv.left - 1] /\ data' = [data EXCEPT !.n = data.n + 1]
  BY DEF SrvSend
<1>4. srv' \in Srv
  BY <1>1, <1>2, <1>3 DEF Srv
<1>5. data' \in Data
  BY <1>1, <1>3, DataSent
<1> QED  BY <1>4, <1>5 DEF SrvSend, Client, handles, Typed

\* A piece sent keeps the invariant.
LEMMA SrvSendKeeps == ASSUME Typed, Shape, Owed, SrvSend PROVE Shape' /\ Owed'
<1>1. srv \in Srv /\ srv' = [srv EXCEPT !.left = srv.left - 1]
  BY DEF SrvSend, Typed
<1>2. srv'.at = srv.at
  BY <1>1 DEF Srv
<1>3. Served
  BY <1>2, SrvGoesOn DEF SrvSend
<1>4. UNCHANGED Client /\ late' = late /\ net' = net
  BY DEF SrvSend, Client
<1> QED  BY <1>3, <1>4, ServedKeeps

\* A piece received keeps the types.
LEMMA SrvRecvTypes == ASSUME Typed, SrvRecv PROVE Typed'
<1>1. data \in Data /\ data.n > 0
  BY DEF Typed, SrvRecv
<1>2. data' = [data EXCEPT !.n = data.n - 1, !.done = data.done + 1]
  BY DEF SrvRecv
<1>3. data' \in Data
  BY <1>1, <1>2, DataRead
<1> QED  BY <1>3 DEF SrvRecv, Client, handles, Typed

\* A piece received keeps the invariant.
LEMMA SrvRecvKeeps == ASSUME Typed, Shape, Owed, SrvRecv PROVE Shape' /\ Owed'
<1>1. Served
  BY SrvGoesOn DEF SrvRecv
<1>2. UNCHANGED Client /\ late' = late /\ net' = net
  BY DEF SrvRecv, Client
<1> QED  BY <1>1, <1>2, ServedKeeps

\* The end of a transfer keeps the types.
LEMMA SrvDoneTypes == ASSUME Typed, SrvDone PROVE Typed'
<1>1. net \in Net /\ data \in Data
  BY DEF Typed
<1>2. net' = Replied(net, COMPLETE, "-", "transfer") /\ srv' = Idle
  BY DEF SrvDone
<1>3. COMPLETE \in 1 .. 5 /\ "transfer" \in Answers
  BY DEF COMPLETE, Answers
<1>4. net' \in Net /\ srv' \in Srv
  BY <1>1, <1>2, <1>3, NetReplied, IdleSrv
<1>5. data' \in Data
  BY <1>1, DataEnds DEF SrvDone
<1>6. file' \in {"whole", file}
  BY DEF SrvDone
<1> QED  BY <1>4, <1>5, <1>6 DEF SrvDone, Client, handles, Typed

\* The end of a transfer keeps the invariant.
LEMMA SrvDoneKeeps == ASSUME Typed, Shape, Owed, SrvDone PROVE Shape' /\ Owed'
<1>1. /\ srv.at \in {"send", "recv"} /\ srv' = Idle
      /\ net' = Replied(net, COMPLETE, "-", "transfer")
  BY DEF SrvDone
<1>2. COMPLETE \in 2 .. 5 /\ COMPLETE # TRANSIENT
  BY DEF COMPLETE, TRANSIENT
<1>3. net'.up = net.up /\ net'.reset = net.reset /\ Served
  BY <1>1, <1>2, SrvEnds
<1>4. UNCHANGED Client /\ late' = late
  BY DEF SrvDone, Client
<1> QED  BY <1>3, <1>4, ServedKeeps

\* A transfer that fails keeps the types.
LEMMA SrvFailTypes == ASSUME Typed, SrvFail PROVE Typed'
<1>1. net \in Net /\ data \in Data
  BY DEF Typed
<1>2. /\ srv' = Idle
      /\ \/ net' = Replied(net, TRANSIENT, "426", "transfer")
         \/ net' = Replied(net, 5, "-", "transfer")
  BY DEF SrvFail
<1>3. TRANSIENT \in 1 .. 5 /\ "transfer" \in Answers
  BY DEF TRANSIENT, Answers
<1>4. net' \in Net /\ srv' \in Srv
  <2>1. Replied(net, TRANSIENT, "426", "transfer") \in Net
    BY <1>1, <1>3, NetReplied
  <2>2. 5 \in 1 .. 5 /\ "-" \in {"-", "421", "426"}
    OBVIOUS
  <2>3. Replied(net, 5, "-", "transfer") \in Net
    BY <1>1, <1>3, <2>2, NetReplied
  <2> QED  BY <1>2, <2>1, <2>3, IdleSrv
<1>5. data' \in Data
  BY <1>1, DataEnds DEF SrvFail
<1>6. trouble' \in 0 .. MaxTrouble
  BY Bounds DEF SrvFail, Fine, Trouble, Typed
<1> QED  BY <1>4, <1>5, <1>6 DEF SrvFail, Client, handles, Typed

\* A transfer that fails keeps the invariant.
LEMMA SrvFailKeeps == ASSUME Typed, Shape, Owed, SrvFail PROVE Shape' /\ Owed'
<1>1. /\ srv.at \in {"send", "recv"} /\ srv' = Idle
      /\ \/ net' = Replied(net, TRANSIENT, "426", "transfer")
         \/ net' = Replied(net, 5, "-", "transfer")
  BY DEF SrvFail
<1>2. TRANSIENT \in 2 .. 5 /\ TRANSIENT # 5
  BY DEF TRANSIENT
<1>3. net'.up = net.up /\ net'.reset = net.reset /\ Served
  BY <1>1, <1>2, SrvEnds
<1>4. UNCHANGED Client /\ late' = late
  BY DEF SrvFail, Client
<1> QED  BY <1>3, <1>4, ServedKeeps

\* The server of an abort answers twice at once.
LEMMA SrvAbortStep ==
  ASSUME Typed, SrvAbort
  PROVE  net' \in Net /\ srv' \in Srv /\ net'.up = net.up /\ net'.reset = net.reset /\ Served
<1> DEFINE n == [net EXCEPT !.cmds = Tail(@)]
           m == Replied(n, TRANSIENT, "426", "transfer")
           k == Replied(m, COMPLETE, "-", "ABOR")
           r == [class |-> TRANSIENT, code |-> "426", to |-> "transfer"]
           s == [class |-> COMPLETE, code |-> "-", to |-> "ABOR"]
<1>1. /\ net \in Net /\ net.cmds # <<>> /\ net.reps \in Seq(Replies) /\ srv.at \in {"send", "recv"}
      /\ net.cmds \in Seq(Commands)
  BY NetFields DEF Typed, SrvAbort
<1>2. net' = k /\ srv' = Idle
  BY DEF SrvAbort
<1>3. Tail(net.cmds) \in Seq(Commands)
  BY <1>1, SeqTail
<1>4. /\ n \in Net /\ n.up = net.up /\ n.reset = net.reset /\ n.cmds = Tail(net.cmds)
      /\ n.reps = net.reps
  BY <1>1, <1>3, NetCmds
<1>5. /\ TRANSIENT \in 1 .. 5 /\ COMPLETE \in 1 .. 5 /\ "transfer" \in Answers /\ "ABOR" \in Answers
      /\ COMPLETE # TRANSIENT
  BY DEF TRANSIENT, COMPLETE, Answers, Commands
<1>6. r \in Replies /\ EndReply(r)
  BY <1>5 DEF Replies, EndReply
<1>7. s \in Replies /\ AborReply(s)
  BY <1>5 DEF Replies, AborReply
<1> HIDE DEF n
<1>8. /\ m \in Net /\ m.up = n.up /\ m.reset = n.reset /\ m.cmds = n.cmds
      /\ m.reps = Append(n.reps, r)
  BY <1>4, <1>5, NetReplied
<1> HIDE DEF m
<1>9. /\ k \in Net /\ k.up = m.up /\ k.reset = m.reset /\ k.cmds = m.cmds
      /\ k.reps = Append(m.reps, s)
  BY <1>5, <1>8, NetReplied
<1> HIDE DEF k, r, s
<1>10. m.reps \in Seq(Replies)
  BY <1>8, NetFields
<1>11. net.reps = <<>> => m.reps = <<r>> /\ m.reps[1] = r
  BY <1>1, <1>4, <1>6, <1>8, AfterReplies
<1>12. m.reps = <<m.reps[1]>> =>
         k.reps = <<m.reps[1], s>> /\ k.reps[1] = m.reps[1] /\ k.reps[2] = s
  <2> DEFINE q == m.reps
             a == Append(q, s)
  <2>1. q = <<q[1]>> => a = <<q[1], s>> /\ a[1] = q[1] /\ a[2] = s
    BY <1>7, <1>10, AfterReplies
  <2>2. k.reps = a
    BY <1>9
  <2> HIDE DEF a
  <2> QED  BY <2>1, <2>2
<1>13. net.reps = <<>> => net'.reps = <<r, s>> /\ net'.reps[1] = r /\ net'.reps[2] = s
  BY <1>2, <1>11, <1>12
<1>14. net'.cmds = Tail(net.cmds)
  BY <1>2, <1>4, <1>8, <1>9
<1>15. net.cmds = <<"ABOR">> => net'.cmds = <<>>
  BY <1>14
<1>16. srv' \in Srv /\ srv'.at = "idle"
  BY <1>2, IdleSrv
<1>17. BothDue => BothDue'
  BY <1>1, <1>6, <1>7, <1>13, <1>15, <1>16 DEF BothDue
<1>18. ~NoneDue /\ ~OneDue /\ ~EndDue /\ ~TransferDue /\ ~AborDue
  BY <1>1 DEF NoneDue, OneDue, EndDue, TransferDue, AborDue
<1> QED  BY <1>2, <1>4, <1>8, <1>9, <1>16, <1>17, <1>18 DEF Served

\* The answer to ABOR keeps the types.
LEMMA SrvAbortTypes == ASSUME Typed, SrvAbort PROVE Typed'
<1>1. data' \in Data
  <2>1. data \in Data
    BY DEF Typed
  <2> QED  BY <2>1, DataEnds DEF SrvAbort
<1> QED  BY <1>1, SrvAbortStep DEF SrvAbort, Client, handles, Typed

\* The answer to ABOR keeps the invariant.
LEMMA SrvAbortKeeps == ASSUME Typed, Shape, Owed, SrvAbort PROVE Shape' /\ Owed'
<1>1. UNCHANGED Client /\ late' = late
  BY DEF SrvAbort, Client
<1> QED  BY <1>1, SrvAbortStep, ServedKeeps

\* A connection dropped by the server keeps the types.
LEMMA SrvDropTypes == ASSUME Typed, SrvDrop PROVE Typed'
<1>1. net \in Net /\ srv \in Srv /\ data \in Data
  BY DEF Typed
<1>2. net.reps \in Seq(Replies) /\ Replied(net, TRANSIENT, "421", "-").reps \in Seq(Replies)
  <2>1. TRANSIENT \in 1 .. 5 /\ "-" \in Answers
    BY DEF TRANSIENT, Answers
  <2>2. Replied(net, TRANSIENT, "421", "-") \in Net
    BY <1>1, <2>1, NetReplied
  <2> QED  BY <1>1, <2>2, NetFields
<1>3. PICK reps \in Seq(Replies) : Gone(reps, FALSE)
  BY <1>2 DEF SrvDrop
<1>4. net' \in Net
  BY <1>3, NothingSent, NetMade DEF Gone
<1>5. srv' \in Srv /\ data' \in Data
  BY <1>1, <1>3, SrvAt, DataEnds DEF Gone
<1>6. trouble' \in 0 .. MaxTrouble
  BY Bounds DEF SrvDrop, Trouble, Typed
<1> QED  BY <1>4, <1>5, <1>6 DEF SrvDrop, Client, handles, Typed

\* A connection that the server has closed owes nothing.
LEMMA SrvDropKeeps == ASSUME Typed, Shape, Owed, SrvDrop PROVE Shape' /\ Owed'
<1>1. /\ opt' = opt /\ stack' = stack /\ ret' = ret /\ sup' = sup /\ rd' = rd /\ wr' = wr
      /\ Top' = Top /\ Beneath(stack') = Beneath(stack) /\ Bottom(stack') = Bottom(stack)
  BY DEF SrvDrop, Client, handles, Top
<1>2. ~net'.up /\ ~net'.reset
  BY DEF SrvDrop, Gone
<1>3. ~Live'
  BY <1>2 DEF Live
<1>4. Shape'
  BY <1>1, <1>2 DEF Shape
<1>5. "copy" \notin opt.ops => Writing'
  BY <1>1 DEF Owed, Writing
<1> QED  BY <1>1, <1>3, <1>4, <1>5 DEF Owed

-----------------------------------------------------------------------------
(* Theorems                                                                 *)

Inv == Typed /\ Shape /\ Owed

\* The invariant holds at first ...
LEMMA InitInv == Init => Inv
<1> SUFFICES ASSUME Init PROVE Inv
  OBVIOUS
<1>1. opt.passive \in BOOLEAN /\ opt.strict \in BOOLEAN
  BY FtpAssumption DEF Init
<1>2. sup \in Sup /\ sup.sock = "none" /\ sup.busy = FALSE
  BY <1>1 DEF Init, NewSup, Sup, Answers
<1>3. srv \in Srv
  BY SrvNew DEF Init
<1>4. data \in Data
  BY DEF Init, NoData, Data
<1>5. net \in Net /\ net.up = FALSE /\ net.reset = FALSE
  BY NothingSent, NetMade DEF Init
<1>6. Typed
  <2>1. ret \in -1 .. 5 /\ put \in 0 .. Pieces /\ ops \in 0 .. MaxOps /\ trouble \in 0 .. MaxTrouble
    BY Bounds DEF Init
  <2>2. sup.busy <=> rd = "open"
    BY <1>2 DEF Init
  <2> QED  BY <1>2, <1>3, <1>4, <1>5, <2>1, <2>2 DEF Init, Typed
<1>7. Shape
  BY <1>5 DEF Init, Shape, Chain
<1>8. Owed
  BY <1>5 DEF Init, Owed, Writing, Live
<1> QED  BY <1>6, <1>7, <1>8 DEF Inv

\* ... and after every step.
LEMMA NextInv == Inv /\ [Next]_vars => Inv'
<1> SUFFICES ASSUME Inv, [Next]_vars PROVE Inv'
  OBVIOUS
<1>1. Typed /\ Shape /\ Owed
  BY DEF Inv
<1> USE <1>1
<1>2. CASE Write
  BY <1>2, WriteTypes, WriteKeeps DEF Inv
<1>3. CASE WriteAgain
  BY <1>3, WriteAgainTypes, WriteAgainKeeps DEF Inv
<1>4. CASE Reply
  BY <1>4, ReplyTypes, ReplyKeeps DEF Inv
<1>5. CASE Reconnect
  BY <1>5, ReconnectTypes, ReconnectKeeps DEF Inv
<1>6. CASE Relogged
  BY <1>6, ReloggedTypes, ReloggedKeeps DEF Inv
<1>7. CASE Rechdir
  BY <1>7, RechdirTypes, RechdirKeeps DEF Inv
<1>8. CASE Login
  BY <1>8, LoginTypes, LoginKeeps DEF Inv
<1>9. CASE Connect
  BY <1>9, ConnectTypes, ConnectKeeps DEF Inv
<1>10. CASE Connected
  BY <1>10, ConnectedTypes, ConnectedKeeps DEF Inv
<1>11. CASE CurrentDirectory
  BY <1>11, CurrentDirectoryTypes, CurrentDirectoryKeeps DEF Inv
<1>12. CASE Disconnect
  BY <1>12, DisconnectTypes, DisconnectKeeps DEF Inv
<1>13. CASE Chdir
  BY <1>13, ChdirTypes, ChdirKeeps DEF Inv
<1>14. CASE Agreed
  BY <1>14, AgreedTypes, AgreedKeeps DEF Inv
<1>15. CASE Open
  BY <1>15, OpenTypes, OpenKeeps DEF Inv
<1>16. CASE NotAccepted
  BY <1>16, NotAcceptedTypes, NotAcceptedKeeps DEF Inv
<1>17. CASE Abort
  BY <1>17, AbortTypes, AbortKeeps DEF Inv
<1>18. CASE Aborting
  BY <1>18, AbortingTypes, AbortingKeeps DEF Inv
<1>19. CASE Aborted
  BY <1>19, AbortedTypes, AbortedKeeps DEF Inv
<1>20. CASE Start
  BY <1>20, StartTypes, StartKeeps DEF Inv
<1>21. CASE Read
  BY <1>21, ReadTypes, ReadKeeps DEF Inv
<1>22. CASE Got
  BY <1>22, GotTypes, GotKeeps DEF Inv
<1>23. CASE CloseRead
  BY <1>23, CloseReadTypes, CloseReadKeeps DEF Inv
<1>24. CASE List
  BY <1>24, ListTypes, ListKeeps DEF Inv
<1>25. CASE Store
  BY <1>25, StoreTypes, StoreKeeps DEF Inv
<1>26. CASE Storing
  BY <1>26, StoringTypes, StoringKeeps DEF Inv
<1>27. CASE CloseWrite
  BY <1>27, CloseWriteTypes, CloseWriteKeeps DEF Inv
<1>28. CASE Renamed
  BY <1>28, RenamedTypes, RenamedKeeps DEF Inv
<1>29. CASE Operate
  BY <1>29, OperateTypes, OperateKeeps DEF Inv
<1>30. CASE Leave
  BY <1>30, LeaveTypes, LeaveKeeps DEF Inv
<1>31. CASE SrvGreet
  BY <1>31, SrvGreetTypes, SrvGreetKeeps DEF Inv
<1>32. CASE SrvCommand
  BY <1>32, SrvCommandTypes, SrvCommandKeeps DEF Inv
<1>33. CASE SrvSend
  BY <1>33, SrvSendTypes, SrvSendKeeps DEF Inv
<1>34. CASE SrvRecv
  BY <1>34, SrvRecvTypes, SrvRecvKeeps DEF Inv
<1>35. CASE SrvDone
  BY <1>35, SrvDoneTypes, SrvDoneKeeps DEF Inv
<1>36. CASE SrvFail
  BY <1>36, SrvFailTypes, SrvFailKeeps DEF Inv
<1>37. CASE SrvAbort
  BY <1>37, SrvAbortTypes, SrvAbortKeeps DEF Inv
<1>38. CASE SrvDrop
  BY <1>38, SrvDropTypes, SrvDropKeeps DEF Inv
<1>40. CASE ReplyInterrupted
  BY <1>40, ReplyInterruptedTypes, ReplyInterruptedKeeps DEF Inv
<1>41. CASE NoPassword
  BY <1>41, NoPasswordTypes, NoPasswordKeeps DEF Inv
<1>39. CASE UNCHANGED vars
  <2>1. Typed'
    BY <1>39 DEF Typed, vars
  <2>2. Shape'
    BY <1>39 DEF Shape, vars, Top
  <2>3. Top' = Top /\ stack' = stack /\ Live' = Live /\ Bottom(stack') = Bottom(stack)
    BY <1>39 DEF Live, vars, Top
  <2>4. Owed'
    BY <1>39, <2>3, SameDue DEF Owed, Writing, Due, vars
  <2> QED  BY <2>1, <2>2, <2>4 DEF Inv
<1> QED  BY <1>2, <1>3, <1>4, <1>5, <1>6, <1>7, <1>8, <1>9, <1>10, <1>11, <1>12, <1>13,
            <1>14, <1>15, <1>16, <1>17, <1>18, <1>19, <1>20, <1>21, <1>22, <1>23, <1>24,
            <1>25, <1>26, <1>27, <1>28, <1>29, <1>30, <1>31, <1>32, <1>33, <1>34, <1>35,
            <1>36, <1>37, <1>38, <1>39, <1>40, <1>41 DEF Next, Run, Serve

\* Every variable keeps its type, and ctl_connection_busy is set exactly while
\* the data of a file are being read (ftpfs_linear_start, ftpfs_linear_read,
\* ftpfs_linear_abort).
THEOREM TypeCorrect == Spec => []TypeOK
<1>1. Inv => TypeOK
  BY DEF Inv, Typed, Shape, Chain, TypeOK
<1> QED  BY InitInv, NextInv, <1>1, PTL DEF Spec

\* After every operation the replies of the server and the commands of mc
\* correspond again, through aborted transfers and connections made again.
THEOREM RepliesInStep == Spec => []InStep
<1>1. Inv => InStep
  BY DEF Inv, Owed, Live, NoneDue, InStep, Quiet
<1> QED  BY InitInv, NextInv, <1>1, PTL DEF Spec
=============================================================================
