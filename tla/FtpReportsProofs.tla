-------------------------- MODULE FtpReportsProofs --------------------------
(***************************************************************************)
(* What the FTP client tells its user is so, for any servers, any file     *)
(* sizes and any number of operations and failures.                        *)
(*                                                                         *)
(* Told is the invariant.  It relates what mc takes for granted at each    *)
(* place of its routines, and what sup says of the session, to what the    *)
(* server has: its directory and type, the replies it has sent, and how    *)
(* much of a file it has received.  As connections are made again in the   *)
(* middle of an operation, it also has to say which session a reply is of, *)
(* and for whom (Args) every function on the call stack is running.        *)
(* The lemmas after it show, one action at a time, that Told goes on to    *)
(* hold; the last theorem puts them together.                              *)
(***************************************************************************)
EXTENDS FtpConnectionProofs

\* the caller of the first function of s, and the first function called
Nobody == Frame("-")
Under(s, i) == IF i < Len(s) THEN s[i + 1] ELSE Nobody
Below(s) == Under(s, 1)
Lowest(s) == s[Len(s)]

\* a command is being sent, or its reply read
Sending == {"command", "again", "retried", "reply"}
\* a connection is being made for a path that is used for the first time
Connecting == {"connect", "connected", "pwd", "pwd_reply"}
\* the function at the bottom of the stack then
Operations == {"list", "command", "renamed", "closeread", "store"}
\* commands that the connecting routines send
Logins == {"USER", "PASS", "PWD"}

\* f, called by g in the operation l, is about what they are about
Suits(f, g, l) ==
  /\ f.at \in Sending \cup {"type", "typed"} /\ f.arg \in Transfers =>
       (f.arg = "STOR" <=> l.at = "storing")
  /\ f.at \in {"type", "typed"} /\ f.arg = "STOR" => f.wait = "yes"
  /\ f.at \in Sending /\ g.at = "typed" => f.arg = Type(g.wait)
  /\ f.at \in Sending /\ g.at = "chdired" => f.arg = Cwd(g.arg)
  /\ g.at = "there" => f.arg = g.arg
  /\ f.at = "again" => f.arg \notin Logins
  /\ f.at \in Connecting => l.at \in Operations
  /\ f.at \in Connecting /\ g.at = "command" => g.arg \in {"DELE", "RNFR"}
  /\ l.at \in {"listing", "listed"} /\ l.wait = "cd" /\ f.at \in {"relogged", "chdir", "chdired"} =>
       f.arg \in {"none", l.arg}

\* every function of s is
Args(s) == \A i \in 1 .. Len(s) : Suits(s[i], Under(s, i), Lowest(s))

\* the running function
This == IF stack = <<>> THEN Nobody ELSE Top
\* it is at one of the places at, with one of the arguments args
Is(at, args) == This.at \in at /\ This.arg \in args
\* it reads a reply that g has asked for
Waiting(g) == This.at = "reply" /\ This.arg = "-" /\ Beneath(stack) = g

\* a reply of class c is to be read
Read1(c) == \E i \in 1 .. Len(net.reps) : net.reps[i].class = c
\* after the first k replies there is only the end of the connection
Clean(k) == \A i \in 1 .. Len(net.reps) : i > k => net.reps[i].class = TRANSIENT

\* mc has the socket of the connection
SockUp == net.up => sup.sock = "open"

\* the user is not logged in yet ...
Greeting == This.at \in {"login", "greeted", "named"} \/ Waiting("greeted")
              \/ Is({"command", "reply"}, {"USER"}) \/ Is({"command"}, {"PASS"})
\* ... or does not know whether the password was accepted
LoggingIn == Greeting \/ This.at = "passed" \/ Is({"reply"}, {"PASS"})

\* While it logs in mc knows nothing of the new session.
NewSession ==
  /\ LoggingIn \/ This.at \in {"connect", "connected"} => sup.cwd = "none"
  /\ LoggingIn /\ This.at # "login" => sup.binary = "unknown"
  /\ LoggingIn \/ (This.at = "connected" /\ ret = 1) \/ Is({"command"}, {"PWD"}) => ~late

\* A listing that changes to its directory first is in it, or mc has lost its
\* directory.
Chdirs ==
  /\ This.at = "there" /\ ret = COMPLETE => sup.cwd = This.arg
  /\ stack # <<>> /\ Lowest(stack).at \in {"listing", "listed"} /\ Lowest(stack).wait = "cd" =>
       sup.cwd \in {"none", Lowest(stack).arg}

\* The property, and that reports are made at the end of an operation.
Reported == report \in {"stored", "wrong"} =>
   stack = <<>> /\ (~late => /\ report = "stored" => file = "whole"
                             /\ report = "wrong" => sup.cwd = "none")

\* A preliminary reply is the first one, and to a transfer that waits for it.
Prelims == \A i \in 1 .. Len(net.reps) : net.reps[i].class = PRELIM =>
   i = 1 /\ This.at = "reply" /\ This.arg \in Transfers

\* While mc logs in every reply is to the command it has just sent, and a reply
\* that says yes comes from a connection that was not reset.
Replies1 ==
  /\ This.at = "login" \/ Waiting("greeted") => ~net.reset /\ Clean(1)
  /\ This.at = "greeted" \/ Is({"command"}, {"USER", "PASS"}) => ~net.reset /\ Clean(0)
  /\ Is({"reply"}, {"USER", "PASS"}) => Clean(1) /\ (net.reset => Clean(0))
  /\ This.at \in {"named", "passed"} => Clean(0) /\ (ret # TRANSIENT => ~net.reset)
  /\ This.at \in {"relogged", "connected"} /\ ret = 1 => ~net.reset
  /\ Is({"command"}, {"PWD"}) => ~net.reset

\* the server is in the directory that mc believes it is in
SameDir == sup.cwd # "none" => srv.cwd = sup.cwd
\* and sends binary data where mc believes that it does
SameType == sup.binary = "yes" => srv.binary

\* A transfer that is accepted is one in the directory mc knows, even if the
\* connection has gone since.
Listing ==
  /\ Is({"reply"}, Transfers) /\ Read1(PRELIM) => SameDir
  /\ This.at = "prelim" /\ ret = PRELIM => SameDir
  /\ This.at = "listing" /\ ret = 1 => SameDir
  /\ Waiting("listed") \/ This.at = "listed" => SameDir

\* what the server has of the file, and what is under way, is what was written
Kept == srv.binary /\ data.n + data.done = put
\* it receives the file
Receives == Kept /\ srv.at \in {"recv", "idle"} /\ data.mine /\ ~Read1(COMPLETE)
\* if all of it was written, all of it is on the server
Whole == put = Pieces => file = "whole"

\* Nothing is written before the transfer has been accepted.
Unsent == stack # <<>> /\ Bottom(stack) = "storing" /\ This.at # "storing" => put = 0

\* From the preliminary reply to STOR until the final one nothing is lost, and a
\* final reply that says yes means that the file is whole.
Storage ==
  /\ Is({"reply"}, {"STOR"}) /\ Read1(PRELIM) => Receives
  /\ This.at = "prelim" /\ ret = PRELIM /\ Bottom(stack) = "storing" => Receives
  /\ This.at = "storing" /\ ret = 1 => Receives
  /\ This.at = "closewrite" => Receives
  /\ Waiting("stored") => /\ srv.at \in {"recv", "idle"} /\ (srv.at = "recv" => Kept)
                          /\ Read1(COMPLETE) => Whole
  /\ This.at = "stored" /\ ret = COMPLETE => Whole

\* A command the server has not read is the one whose reply is waited for.
CmdIs == \A i \in 1 .. Len(net.cmds) :
  IF This.at = "reply" /\ This.arg # "-" THEN net.cmds[i] = This.arg
  ELSE net.cmds[i] \in {"PWD", "QUIT", "ABOR"}

\* an operation is under way that does not end with the change of directory
Elsewhere == stack # <<>> /\ Bottom(stack) # "there"

\* a session that may have just begun is brought to where the last one was
Rejoining ==
  \/ LoggingIn
  \/ /\ Elsewhere
     /\ \/ This.at \in {"relogged", "rechdir", "again", "retried", "chdir", "chdired"}
        \/ Is(Sending, {"CWD home", "CWD sub"})

\* What the server is doing, and what the session has agreed on, where mc goes by
\* it.
Server1 ==
  /\ srv.at = "greet" => This.at = "login" \/ Waiting("greeted")
  /\ srv.at \in {"send", "recv"} /\ This.at = "reply" => This.arg \in Transfers \cup {"-"}
  /\ Waiting("stored") => net.cmds = <<>>
  /\ Greeting => ~srv.in
  /\ Is({"reply"}, {"PASS"}) /\ srv.in => Read1(COMPLETE)
  /\ This.at = "passed" /\ srv.in => ret = COMPLETE
  /\ This.at \in {"relogged", "connected"} /\ srv.in => ret = 1
  /\ LoggingIn \/ This.at \in {"connected", "pwd", "pwd_reply"} \/ Waiting("pwd_reply")
       \/ Is({"command"}, {"PWD"}) => srv.cwd = "home"
  /\ Rejoining => ~srv.set
  /\ Is({"command", "reply"}, {"STOR"}) /\ srv.in /\ srv.set => srv.binary

\* the directory that a command asks for
Place(d) == IF d = "CWD home" THEN "home" ELSE "sub"

\* The session is as sup says, except between a command that changes it and the
\* place where its reply is looked at.
Session ==
  /\ IF Is({"reply"}, {"CWD home", "CWD sub"}) /\ Read1(COMPLETE) THEN srv.cwd = Place(This.arg)
     ELSE IF This.at = "chdired" /\ ret = COMPLETE THEN srv.cwd = This.arg
     ELSE srv.in => SameDir
  /\ IF Is({"reply"}, {"TYPE I", "TYPE A"}) /\ Read1(COMPLETE)
     THEN srv.binary = (This.arg = "TYPE I")
     ELSE IF This.at = "typed" /\ ret = COMPLETE THEN srv.binary = (This.wait = "yes")
     ELSE srv.in => SameType

\* The inductive invariant: the last part is about the connection there is, the
\* second also about what a lost one has said.
Told ==
  /\ SockUp /\ Args(stack) /\ NewSession /\ Chdirs /\ Reported /\ Unsent
  /\ ~late => Prelims /\ Replies1 /\ Listing /\ Storage
  /\ ~late /\ net.up => CmdIs /\ Server1 /\ Session

-----------------------------------------------------------------------------
(* Lemmas about the call stack                                              *)

\* The function that is alone on the stack is the only one.
LEMMA AloneIsOne ==
  ASSUME NEW s, Chain(s), s # <<>>, Beneath(s) = "-"
  PROVE  Len(s) = 1
<1>1. s \in Seq(Frames) /\ Tail(s) = <<>> /\ Len(s) \in Nat
  BY TopFits, PopFits
<1>2. Tail(s) \in Seq(Frames) /\ Len(Tail(s)) = Len(s) - 1
  BY <1>1, SeqTail
<1> QED  BY <1>1, <1>2, SeqEmpty

\* The running function, its caller and the first function called.
LEMMA ArgsHere ==
  ASSUME Chain(stack), stack # <<>>, Args(stack)
  PROVE  /\ This = Top /\ Suits(Top, Below(stack), Lowest(stack))
         /\ Below(stack).at = Beneath(stack) /\ Lowest(stack).at = Bottom(stack)
         /\ Beneath(stack) = "-" => Lowest(stack) = Top
<1>1. Len(stack) \in Nat /\ Len(stack) >= 1 /\ Top = stack[1]
  BY TopFits DEF Top
<1>2. Suits(stack[1], Under(stack, 1), Lowest(stack))
  BY <1>1 DEF Args
<1>3. Below(stack).at = Beneath(stack)
  BY DEF Below, Under, Nobody, Frame, Beneath, Caller
<1>4. Beneath(stack) = "-" => Lowest(stack) = Top
  <2> SUFFICES ASSUME Beneath(stack) = "-" PROVE Len(stack) = 1
    BY <1>1 DEF Lowest
  <2> QED  BY AloneIsOne
<1> QED  BY <1>1, <1>2, <1>3, <1>4 DEF This, Below, Lowest, Bottom

\* Without the running function.
LEMMA ArgsTail ==
  ASSUME NEW s, Chain(s), s # <<>>, Args(s)
  PROVE  /\ Args(Tail(s))
         /\ Tail(s) # <<>> => Head(Tail(s)) = Below(s) /\ Lowest(Tail(s)) = Lowest(s)
         /\ Tail(s) = <<>> => Below(s) = Nobody
<1> DEFINE q == Tail(s)
<1>1. /\ s \in Seq(Frames) /\ Len(s) \in Nat /\ Len(s) >= 1
      /\ q \in Seq(Frames) /\ Len(q) = Len(s) - 1 /\ (q = <<>> <=> Len(q) = 0)
      /\ \A i \in 1 .. Len(s) - 1 : q[i] = s[i + 1]
  BY TopFits, SeqTail, SeqEmpty
<1> HIDE DEF q
<1>2. CASE q = <<>>
  <2>1. Len(s) = 1 /\ Len(q) = 0
    BY <1>1, <1>2
  <2>2. Args(q)
    BY <2>1 DEF Args
  <2>3. Below(s) = Nobody
    BY <2>1 DEF Below, Under
  <2> QED  BY <1>2, <2>2, <2>3 DEF q
<1>3. CASE q # <<>>
  <2>1. Len(q) >= 1 /\ Len(s) > 1 /\ Len(q) \in Nat
    BY <1>1, <1>3
  <2>2. Lowest(q) = Lowest(s)
    <3>1. q[Len(q)] = s[Len(q) + 1] /\ Len(q) + 1 = Len(s)
      BY <1>1, <2>1
    <3> QED  BY <3>1 DEF Lowest
  <2>3. Head(q) = Below(s)
    <3>1. Head(q) = q[1] /\ q[1] = s[1 + 1]
      BY <1>1, <1>3, <2>1, SeqHead
    <3> QED  BY <2>1, <3>1 DEF Below, Under
  <2>4. ASSUME NEW i \in 1 .. Len(q)
        PROVE  Suits(q[i], Under(q, i), Lowest(q))
    <3>1. i + 1 \in 1 .. Len(s) /\ q[i] = s[i + 1]
      BY <1>1
    <3>2. Under(q, i) = Under(s, i + 1)
      <4>1. CASE i < Len(q)
        <5>1. i + 1 \in 1 .. Len(s) - 1 /\ i + 1 < Len(s)
          BY <1>1, <4>1
        <5>2. q[i + 1] = s[(i + 1) + 1]
          BY <1>1, <5>1
        <5> QED  BY <4>1, <5>1, <5>2 DEF Under
      <4>2. CASE ~(i < Len(q))
        <5>1. ~(i + 1 < Len(s))
          BY <1>1, <4>2
        <5> QED  BY <4>2, <5>1 DEF Under
      <4> QED  BY <4>1, <4>2
    <3>3. Suits(s[i + 1], Under(s, i + 1), Lowest(s))
      BY <3>1 DEF Args
    <3> QED  BY <2>2, <3>1, <3>2, <3>3
  <2> QED  BY <1>3, <2>2, <2>3, <2>4 DEF Args, q
<1> QED  BY <1>2, <1>3 DEF q

\* the first function of a stack, and the caller of one that is put on it
First1(s) == IF s = <<>> THEN Nobody ELSE Head(s)

\* With another function before it.
LEMMA ArgsCons ==
  ASSUME NEW s \in Seq(Frames), Args(s), NEW f \in Frames, NEW l,
         l = (IF s = <<>> THEN f ELSE Lowest(s)), Suits(f, First1(s), l)
  PROVE  /\ Args(<<f>> \o s) /\ Lowest(<<f>> \o s) = l /\ First1(<<f>> \o s) = f
         /\ Below(<<f>> \o s) = First1(s)
<1> DEFINE q == <<f>> \o s
<1>1. /\ q \in Seq(Frames) /\ Len(q) = Len(s) + 1 /\ q # <<>>
      /\ q[1] = f /\ Head(q) = f
      /\ \A i \in 1 .. Len(s) : q[i + 1] = s[i]
      /\ (s = <<>> <=> Len(s) = 0) /\ Len(s) \in Nat
  BY SeqCons, SeqEmpty
<1> HIDE DEF q
<1>2. Lowest(q) = l
  <2>1. CASE s = <<>>
    BY <1>1, <2>1 DEF Lowest
  <2>2. CASE s # <<>>
    <3>1. Len(s) \in 1 .. Len(s)
      BY <1>1, <2>2
    <3>2. q[Len(s) + 1] = s[Len(s)]
      BY <1>1, <3>1
    <3> QED  BY <1>1, <2>2, <3>2 DEF Lowest
  <2> QED  BY <2>1, <2>2
<1>3. Under(q, 1) = First1(s)
  <2>1. CASE s = <<>>
    BY <1>1, <2>1 DEF Under, First1
  <2>2. CASE s # <<>>
    <3>1. 1 \in 1 .. Len(s) /\ 1 < Len(q)
      BY <1>1, <2>2
    <3>2. q[1 + 1] = s[1] /\ Head(s) = s[1]
      BY <1>1, <3>1, <2>2, SeqHead
    <3> QED  BY <2>2, <3>1, <3>2 DEF Under, First1
  <2> QED  BY <2>1, <2>2
<1>4. \A j \in 1 .. Len(s) : q[j + 1] = s[j] /\ Under(q, j + 1) = Under(s, j)
  <2> TAKE j \in 1 .. Len(s)
  <2>1. j + 1 < Len(q) <=> j < Len(s)
    BY <1>1
  <2>2. j < Len(s) => q[(j + 1) + 1] = s[j + 1]
    <3> SUFFICES ASSUME j < Len(s) PROVE q[(j + 1) + 1] = s[j + 1]
      OBVIOUS
    <3>1. j + 1 \in 1 .. Len(s)
      BY <1>1
    <3> QED  BY <1>1, <3>1
  <2> QED  BY <1>1, <2>1, <2>2 DEF Under
<1>5. Args(q)
  <2>1. ASSUME NEW i \in 1 .. Len(q) PROVE Suits(q[i], Under(q, i), Lowest(q))
    <3>1. CASE i = 1
      BY <1>1, <1>2, <1>3, <3>1
    <3>2. CASE i # 1
      <4>1. i - 1 \in 1 .. Len(s) /\ i = (i - 1) + 1 /\ s # <<>>
        BY <1>1, <3>2
      <4>2. Suits(s[i - 1], Under(s, i - 1), Lowest(s))
        BY <4>1 DEF Args
      <4>3. q[(i - 1) + 1] = s[i - 1] /\ Under(q, (i - 1) + 1) = Under(s, i - 1)
        BY <1>4, <4>1
      <4> QED  BY <1>2, <4>1, <4>2, <4>3
    <3> QED  BY <3>1, <3>2
  <2> QED  BY <2>1 DEF Args
<1> QED  BY <1>1, <1>2, <1>3, <1>5 DEF q, Below, First1

\* The running function returns.
LEMMA PoppedArgs ==
  ASSUME Chain(stack), stack # <<>>, Args(stack), stack' = Tail(stack)
  PROVE  /\ Args(stack') /\ This' = Below(stack)
         /\ stack' # <<>> => Lowest(stack') = Lowest(stack) /\ This' = Top'
<1>1. /\ Args(Tail(stack))
      /\ Tail(stack) # <<>> => /\ Head(Tail(stack)) = Below(stack)
                               /\ Lowest(Tail(stack)) = Lowest(stack)
      /\ Tail(stack) = <<>> => Below(stack) = Nobody
  BY ArgsTail
<1> QED  BY <1>1 DEF This, Top

\* the first function called, when f has taken the place of the running one
Lowest1(f) == IF Tail(stack) = <<>> THEN f ELSE Lowest(stack)

\* Another one takes its place ...
LEMMA Put1Args ==
  ASSUME Chain(stack), stack # <<>>, Args(stack), NEW f \in Frames,
         stack' = <<f>> \o Tail(stack), Suits(f, Below(stack), Lowest1(f))
  PROVE  /\ Args(stack') /\ This' = f /\ Lowest(stack') = Lowest1(f)
         /\ Below(stack') = Below(stack)
<1> DEFINE s == Tail(stack)
<1>1. /\ s \in Seq(Frames) /\ Args(s)
      /\ s # <<>> => Head(s) = Below(stack) /\ Lowest(s) = Lowest(stack)
      /\ s = <<>> => Below(stack) = Nobody
  BY ArgsTail, TopFits
<1>2. First1(s) = Below(stack)
  BY <1>1 DEF First1
<1>3. Lowest1(f) = (IF s = <<>> THEN f ELSE Lowest(s))
  BY <1>1 DEF Lowest1
<1>4. stack' = <<f>> \o s
  OBVIOUS
<1> HIDE DEF s
<1>5. /\ Args(<<f>> \o s) /\ Lowest(<<f>> \o s) = Lowest1(f) /\ First1(<<f>> \o s) = f
      /\ Below(<<f>> \o s) = Below(stack)
  BY <1>1, <1>2, <1>3, ArgsCons
<1> QED  BY <1>4, <1>5 DEF This, First1, Top

\* ... or one that calls another, and so on.
LEMMA Put2Args ==
  ASSUME Chain(stack), stack # <<>>, Args(stack), NEW f \in Frames, NEW g \in Frames,
         stack' = <<f, g>> \o Tail(stack),
         Suits(g, Below(stack), Lowest1(g)), Suits(f, g, Lowest1(g))
  PROVE  Args(stack') /\ This' = f /\ Lowest(stack') = Lowest1(g) /\ Below(stack') = g
<1> DEFINE s == Tail(stack)
           t == <<g>> \o s
<1>1. /\ s \in Seq(Frames) /\ Args(s)
      /\ s # <<>> => Head(s) = Below(stack) /\ Lowest(s) = Lowest(stack)
      /\ s = <<>> => Below(stack) = Nobody
  BY ArgsTail, TopFits
<1>2. First1(s) = Below(stack)
  BY <1>1 DEF First1
<1>3. Lowest1(g) = (IF s = <<>> THEN g ELSE Lowest(s))
  BY <1>1 DEF Lowest1
<1>4. stack' = <<f>> \o t
  <2>1. Over2(f, g, s) = Over1(f, Over1(g, s))
    BY <1>1, Before2
  <2> QED  BY <2>1 DEF Over1, Over2
<1> HIDE DEF s
<1>5. /\ Args(t) /\ Lowest(t) = Lowest1(g) /\ First1(t) = g
  BY <1>1, <1>2, <1>3, ArgsCons
<1>6. t \in Seq(Frames) /\ t # <<>>
  BY <1>1, SeqCons
<1> HIDE DEF t
<1>7. /\ Args(<<f>> \o t) /\ Lowest(<<f>> \o t) = Lowest1(g) /\ First1(<<f>> \o t) = f
      /\ Below(<<f>> \o t) = g
  BY <1>5, <1>6, ArgsCons
<1> QED  BY <1>4, <1>7 DEF This, First1, Top

\* ... or one that is the fourth of a chain of calls.
LEMMA Put4Args ==
  ASSUME Chain(stack), stack # <<>>, Args(stack), NEW f \in Frames, NEW g \in Frames,
         NEW h \in Frames, NEW i \in Frames, stack' = <<f, g, h, i>> \o Tail(stack),
         Suits(i, Below(stack), Lowest1(i)), Suits(h, i, Lowest1(i)),
         Suits(g, h, Lowest1(i)), Suits(f, g, Lowest1(i))
  PROVE  Args(stack') /\ This' = f /\ Lowest(stack') = Lowest1(i) /\ Below(stack') = g
<1> DEFINE s == Tail(stack)
           t == <<i>> \o s
           u == <<h>> \o t
           v == <<g>> \o u
<1>1. /\ s \in Seq(Frames) /\ Args(s)
      /\ s # <<>> => Head(s) = Below(stack) /\ Lowest(s) = Lowest(stack)
      /\ s = <<>> => Below(stack) = Nobody
  BY ArgsTail, TopFits
<1>2. First1(s) = Below(stack)
  BY <1>1 DEF First1
<1>3. Lowest1(i) = (IF s = <<>> THEN i ELSE Lowest(s))
  BY <1>1 DEF Lowest1
<1>4. stack' = <<f>> \o v
  <2>1. Over4(f, g, h, i, s) = Over1(f, Over1(g, Over1(h, Over1(i, s))))
    <3> HIDE DEF s
    <3> QED  BY <1>1, Four
  <2> QED  BY <2>1 DEF s, t, u, v, Over1, Over4
<1> HIDE DEF s
<1>5. Args(t) /\ Lowest(t) = Lowest1(i) /\ First1(t) = i /\ t \in Seq(Frames) /\ t # <<>>
  BY <1>1, <1>2, <1>3, ArgsCons, SeqCons
<1> HIDE DEF t
<1>6. Args(u) /\ Lowest(u) = Lowest1(i) /\ First1(u) = h /\ u \in Seq(Frames) /\ u # <<>>
  BY <1>5, ArgsCons, SeqCons
<1> HIDE DEF u
<1>7. Args(v) /\ Lowest(v) = Lowest1(i) /\ First1(v) = g /\ v \in Seq(Frames) /\ v # <<>>
  BY <1>6, ArgsCons, SeqCons
<1> HIDE DEF v
<1>8. /\ Args(<<f>> \o v) /\ Lowest(<<f>> \o v) = Lowest1(i) /\ First1(<<f>> \o v) = f
      /\ Below(<<f>> \o v) = g
  BY <1>7, ArgsCons
<1> QED  BY <1>4, <1>8 DEF This, First1, Top

\* So does every caller of ftpfs_open_data_connection.
LEMMA PutTransferArgs ==
  ASSUME Chain(stack), stack # <<>>, Args(stack), NEW cmd \in Transfers, NEW b \in {"yes", "no"},
         NEW i \in Frames, i.at \in {"started", "listing", "storing"},
         stack' = (DataConnection(cmd, b) \o <<i>>) \o Tail(stack),
         Suits(i, Below(stack), Lowest1(i)),
         cmd = "STOR" <=> Lowest1(i).at = "storing", cmd = "STOR" => b = "yes"
  PROVE  Args(stack') /\ Lowest(stack') = Lowest1(i) /\ Below(stack').at = "agreed"
<1>1. PICK first \in {"PASV", "PORT"} :
        DataConnection(cmd, b) = <<Attempt(first), With("agreed", first),
                                   [at |-> "type", arg |-> cmd, wait |-> b]>>
  BY DEF DataConnection
<1> DEFINE f == Attempt(first)
           g == With("agreed", first)
           h == [at |-> "type", arg |-> cmd, wait |-> b]
<1>2. f \in Frames /\ f.at = "command" /\ f.arg = first
  BY AttemptFrame
<1>3. g \in Frames /\ g.at = "agreed" /\ g.arg = first
  BY DEF With, Frames, Commands
<1>4. h \in Frames /\ h.at = "type" /\ h.arg = cmd /\ h.wait = b
  BY DEF Frames, Commands, Transfers
<1>5. DataConnection(cmd, b) = <<f, g, h>>
  BY <1>1
<1> HIDE DEF f, g, h
<1>6. stack' = <<f, g, h, i>> \o Tail(stack)
  BY <1>2, <1>3, <1>4, <1>5, AfterThree
<1>7. Suits(h, i, Lowest1(i))
  BY <1>4 DEF Suits, Sending, Connecting
<1>8. Suits(g, h, Lowest1(i))
  BY <1>3, <1>4 DEF Suits, Sending, Connecting
<1>9. Suits(f, g, Lowest1(i))
  BY <1>2, <1>3 DEF Suits, Sending, Connecting, Transfers
<1>10. Below(stack') = g /\ Args(stack') /\ Lowest(stack') = Lowest1(i)
  BY <1>2, <1>3, <1>4, <1>6, <1>7, <1>8, <1>9, Put4Args
<1> QED  BY <1>3, <1>10

\* What an operation begins with is not called by anything.
LEMMA LastCall ==
  ASSUME Chain(stack), stack # <<>>,
         Beneath(stack) \in {"closewrite", "storing", "listing", "listed", "there", "stored"}
  PROVE  Bottom(stack) = Beneath(stack)
<1> DEFINE s == Tail(stack)
<1>1. /\ Chain(s) /\ s # <<>> /\ Head(s).at = Beneath(stack)
      /\ s[Len(s)] = stack[Len(stack)]
  BY PopFits
<1> HIDE DEF s
<1>2. Fits(Head(s), Beneath(s))
  BY <1>1, TopFits
<1>3. Beneath(s) = "-"
  BY <1>1, <1>2 DEF Fits
<1> QED  BY <1>1, <1>3, Alone DEF Bottom

-----------------------------------------------------------------------------
(* What a step does to the parts of Told                                    *)

\* Nothing is sent, received or moved.
Still ==
  /\ net' = net /\ srv' = srv /\ data' = data /\ put' = put /\ file' = file
  /\ late' = late /\ opt' = opt

\* What has been read and written is the same.
LEMMA StillSame ==
  ASSUME Still
  PROVE  /\ Read1(PRELIM)' = Read1(PRELIM) /\ Read1(COMPLETE)' = Read1(COMPLETE)
         /\ Clean(0)' = Clean(0) /\ Clean(1)' = Clean(1)
         /\ Kept' = Kept /\ Receives' = Receives /\ Whole' = Whole
  BY DEF Still, Read1, Clean, Kept, Receives, Whole, PRELIM, COMPLETE

\* Outside a transfer there is no preliminary reply.
LEMMA NoPrelim ==
  ASSUME Prelims, ~(This.at = "reply" /\ This.arg \in Transfers)
  PROVE  ~Read1(PRELIM) /\ \A i \in 1 .. Len(net.reps) : net.reps[i].class # PRELIM
  BY DEF Prelims, Read1

\* the places of which the parts of Told say nothing of their own
Ordinary ==
  {"renamed", "quit", "close", "agreed", "type", "start", "started", "read", "first", "ended",
   "fail", "abort", "aborting", "aborted", "got", "closeread", "list", "store", "reconnect", "-",
   "command", "reply"}
Simple(f, at) ==
  /\ f.at \in Ordinary
  /\ f.at = "command" => f.arg \notin {"USER", "PASS", "PWD", "CWD home", "CWD sub", "STOR"}
  /\ f.at = "reply" => f.arg = "-" /\ at \in {"ended", "fail", "aborted", "closeread"}

\* At most the connection is lost, and the replies with it.
Quieter ==
  /\ opt' = opt /\ (late => late')
  /\ net'.up => net.up /\ net'.cmds = net.cmds /\ srv' = srv
  /\ net'.reps = net.reps \/ net'.reps = <<>>
  /\ sup'.sock = sup.sock /\ sup'.cwd = sup.cwd /\ sup'.binary = sup.binary

\* A step to such a place ...
LEMMA ToOrdinary ==
  ASSUME Told, Quieter, Args(stack'), Simple(This', Beneath(stack)'),
         This.at \notin {"reply", "login"}, This.at \in {"chdired", "typed"} => ret # COMPLETE,
         report' \notin {"stored", "wrong"}, Chdirs',
         stack' # <<>> /\ Bottom(stack') = "storing" => put' = 0
  PROVE  Told'
<1>1. SockUp' /\ Reported' /\ Unsent'
  BY DEF SockUp, Told, Quieter, Reported, Unsent
<1>2. NewSession'
  BY DEF NewSession, LoggingIn, Greeting, Waiting, Is, Simple, Ordinary
<1>3. ~late' => Prelims' /\ Replies1'
  <2>1. \A i \in 1 .. Len(<<>>) : FALSE
    OBVIOUS
  <2> QED  BY <2>1, NoPrelim DEF Told, Quieter, Prelims, Replies1, Simple, Ordinary, Waiting, Is
<1>4. ~late' => Listing'
  BY DEF Listing, Simple, Ordinary, Is, Waiting, Transfers
<1>5. ~late' => Storage'
  BY DEF Storage, Simple, Ordinary, Is, Waiting
<1>6. ~late' /\ net'.up => CmdIs'
  BY DEF Told, Quieter, CmdIs, Simple, Ordinary
<1>7. ~late' /\ net'.up => Server1'
  BY DEF Told, Quieter, Server1, Simple, Ordinary, Is, Waiting, Greeting, LoggingIn, Elsewhere,
     Rejoining,
         Sending
<1>8. ~late' /\ net'.up => Session'
  BY DEF Told, Quieter, Session, Simple, Ordinary, Is, SameDir, SameType
<1> QED  BY <1>1, <1>2, <1>3, <1>4, <1>5, <1>6, <1>7, <1>8 DEF Told

\* ... in the same operation, or one that neither lists nor stores.
LEMMA GoesOn ==
  ASSUME Told, Quieter, Args(stack'), Simple(This', Beneath(stack)'), stack # <<>>,
         This.at \notin {"reply", "login"}, This.at \in {"chdired", "typed"} => ret # COMPLETE,
         report' \in {report, "failed"}, put' = put \/ put' = 0,
         stack' # <<>> => \/ Lowest(stack').at \notin {"listing", "listed", "storing"}
                          \/ Lowest(stack') = Lowest(stack) /\ This.at # "storing"
  PROVE  Told'
<1>1. \A s : Bottom(s) = Lowest(s).at
  BY DEF Bottom, Lowest
<1>2. report' \notin {"stored", "wrong"}
  BY DEF Told, Reported
<1>3. Chdirs'
  BY DEF Told, Chdirs, Simple, Ordinary, Quieter
<1>4. stack' # <<>> /\ Bottom(stack') = "storing" => put' = 0
  BY <1>1 DEF Told, Unsent
<1> QED  BY <1>2, <1>3, <1>4, ToOrdinary

\* The first listing is followed by one that enters the directory.
LEMMA ListAgain ==
  ASSUME NEW g \in Frames
  PROVE  /\ [g EXCEPT !.at = "list", !.wait = "cd"] \in Frames
         /\ [g EXCEPT !.at = "list", !.wait = "cd"].at = "list"
         /\ [g EXCEPT !.at = "list", !.wait = "cd"].arg = g.arg
<1> DEFINE h == [g EXCEPT !.at = "list"]
<1>1. h \in Frames /\ h.at = "list" /\ h.arg = g.arg
  BY DEF Frames
<1>2. [h EXCEPT !.wait = "cd"] = [g EXCEPT !.at = "list", !.wait = "cd"]
  BY DEF Frames
<1> HIDE DEF h
<1>3. [h EXCEPT !.wait = "cd"] \in Frames
  BY <1>1 DEF Frames
<1>4. [h EXCEPT !.wait = "cd"].at = h.at /\ [h EXCEPT !.wait = "cd"].arg = h.arg
  BY <1>1 DEF Frames
<1> QED  BY <1>1, <1>2, <1>3, <1>4

\* What mc has of the session is what the server has, as long as neither moves.
LEMMA SessionSame ==
  ASSUME Session, srv' = srv, sup'.cwd = sup.cwd, sup'.binary = sup.binary,
         This.at = "reply" => This.arg = "-", This'.at = "reply" => This'.arg = "-",
         This.at \in {"chdired", "typed"} => ret # COMPLETE,
         This'.at \in {"chdired", "typed"} => ret' # COMPLETE
  PROVE  Session'
  BY DEF Session, SameDir, SameType, Is

\* Where neither the stack nor the connection changes, nothing does.
LEMMA Unmoved ==
  ASSUME Told, Still, stack' = stack, ret' = ret, sup' = sup, report' = report
  PROVE  Told'
<1>1. This' = This /\ Args(stack') = Args(stack)
  BY DEF This, Top
<1>2. SockUp' /\ NewSession' /\ Chdirs' /\ Reported' /\ Unsent'
  BY <1>1 DEF Told, Still, Unsent, SockUp, NewSession, LoggingIn, Greeting, Waiting, Is, Chdirs,
     Reported
<1>3. ~late' => Prelims' /\ Replies1'
  BY <1>1, StillSame DEF Told, Still, Prelims, Replies1, Waiting, Is
<1>4. ~late' => Listing' /\ Storage'
  BY <1>1, StillSame DEF Told, Still, Listing, SameDir, Storage, Waiting, Is
<1>5. ~late' /\ net'.up => CmdIs' /\ Server1'
  BY <1>1, StillSame DEF Told, Still, CmdIs, Server1, LoggingIn, Greeting, Waiting, Is,
                         Elsewhere, Rejoining
<1>6. ~late' /\ net'.up => Session'
  BY <1>1, StillSame DEF Told, Still, Session, SameDir, SameType, Is
<1> QED  BY <1>1, <1>2, <1>3, <1>4, <1>5, <1>6 DEF Told

\* Where a file has been sent nothing is known of the server that was not before.
LEMMA ServerSame ==
  ASSUME Server1, srv' = srv, This.at \notin {"login", "reply"}, This'.at \in {"closewrite", "-"}
  PROVE  Server1'
  BY DEF Server1, LoggingIn, Greeting, Waiting, Is, Elsewhere, Rejoining, Sending

\* The directory is set again.
LEMMA ReloggedTells ==
  ASSUME Typed, Shape, Owed, Told, "copy" \notin opt.ops, Relogged
  PROVE  Told'
<1>1. stack # <<>> /\ Top.at = "relogged" /\ Chain(stack) /\ Args(stack)
  BY DEF Relogged, Now, Top, Shape, Told
<1>2. /\ Top \in Frames /\ Fits(Top, Beneath(stack)) /\ This = Top
      /\ Suits(Top, Below(stack), Lowest(stack)) /\ Below(stack).at = Beneath(stack)
      /\ Lowest(stack).at = Bottom(stack) /\ (Beneath(stack) = "-" => Lowest(stack) = Top)
  BY <1>1, Running, ArgsHere
<1>3. /\ Still
      /\ report' = report
  BY DEF Relogged, remote, handles, Rest, Still
<1>4. \/ stack' = Tail(stack) /\ ret = 1 /\ Top.arg = "none" /\ sup' = sup
      \/ stack' = Tail(stack) /\ ret # 1 /\ sup' = [sup EXCEPT !.cwd = Top.arg]
      \/ /\ stack' = <<With("chdir", Top.arg), Frame("rechdir")>> \o Tail(stack)
         /\ Top.arg # "none" /\ sup' = sup
  BY DEF Relogged, Now, Top, Then, Return
<1>5. CASE stack' = Tail(stack) /\ ret = 1 /\ Top.arg = "none" /\ sup' = sup
  <2>1. Below(stack).at \in {"again", "retried", "fail", "closeread"}
    BY <1>1, <1>2, <1>3, <1>5 DEF Fits
  <2>2. /\ Args(stack') /\ This' = Below(stack) /\ stack' # <<>>
        /\ Lowest(stack') = Lowest(stack) /\ Bottom(stack') = Bottom(stack)
    BY <1>1, <1>2, <1>5, <2>1, Popped, PoppedArgs
  <2>3. SockUp' /\ NewSession' /\ Chdirs' /\ Reported' /\ Unsent'
    BY <1>1, <1>2, <1>3, <1>5, <2>1, <2>2 DEF Told, SockUp, Unsent, NewSession, Chdirs,
       Reported, LoggingIn, Greeting, Waiting, Is, Still, Suits, Connecting, Operations
  <2>4. ~late' => Prelims' /\ Replies1' /\ Listing' /\ Storage'
    BY <1>1, <1>2, <1>3, <1>5, <2>1, <2>2, NoPrelim, StillSame DEF Told, Prelims, Replies1,
       Listing, SameDir, Storage, Waiting, Is, Still, Greeting, LoggingIn
  <2>5. ~late' /\ net'.up => CmdIs' /\ Server1' /\ Session'
    BY <1>1, <1>2, <1>3, <1>5, <2>1, <2>2, StillSame DEF Told, CmdIs, Server1, Session,
       LoggingIn, Greeting, Waiting, Is, Still, Elsewhere, Rejoining, SameDir, SameType,
       Sending
  <2> QED  BY <2>2, <2>3, <2>4, <2>5 DEF Told
<1>6. CASE stack' = Tail(stack) /\ ret # 1 /\ sup' = [sup EXCEPT !.cwd = Top.arg]
  <2>1. Below(stack).at \in {"again", "retried", "fail", "closeread"}
    BY <1>1, <1>2, <1>3, <1>6 DEF Fits
  <2>2. /\ Args(stack') /\ This' = Below(stack) /\ stack' # <<>>
        /\ Lowest(stack') = Lowest(stack) /\ Bottom(stack') = Bottom(stack)
    BY <1>1, <1>2, <1>6, <2>1, Popped, PoppedArgs
  <2>3. sup'.sock = sup.sock /\ sup'.binary = sup.binary /\ sup'.cwd = Top.arg
    BY <1>1, <1>2, <1>3, <1>6 DEF Typed, Sup
  <2>4. SockUp' /\ NewSession' /\ Chdirs' /\ Reported' /\ Unsent'
    BY <1>1, <1>2, <1>3, <1>6, <2>1, <2>2, <2>3 DEF Told, SockUp, Unsent, NewSession,
       Chdirs, Reported, LoggingIn, Greeting, Waiting, Is, Still, Suits, Connecting, Operations
  <2>5. ~late' => Prelims' /\ Replies1' /\ Listing' /\ Storage'
    BY <1>1, <1>2, <1>3, <1>6, <2>1, <2>2, <2>3, NoPrelim, StillSame DEF Told, Prelims,
       Replies1, Listing, SameDir, Storage, Waiting, Is, Still, Greeting, LoggingIn
  <2>6. ~late' /\ net'.up => CmdIs' /\ Server1' /\ Session'
    BY <1>1, <1>2, <1>3, <1>6, <2>1, <2>2, <2>3, StillSame DEF Told, CmdIs, Server1,
       Session, LoggingIn, Greeting, Waiting, Is, Still, Elsewhere, Rejoining, SameDir,
       SameType, Sending
  <2> QED  BY <2>2, <2>4, <2>5, <2>6 DEF Told
<1>7. CASE /\ stack' = <<With("chdir", Top.arg), Frame("rechdir")>> \o Tail(stack)
           /\ Top.arg # "none" /\ sup' = sup
  <2> DEFINE f == With("chdir", Top.arg)
             g == Frame("rechdir")
  <2>1. Beneath(stack) # "-" /\ Top.arg \in Places
    BY <1>1, <1>2, <1>3, <1>7 DEF Fits
  <2>2. /\ f \in Frames /\ f.at = "chdir" /\ f.arg = Top.arg
        /\ g \in Frames /\ g.at = "rechdir"
    BY <1>1, <1>2, <1>7, <2>1 DEF Frame, With, Command, CommandOnly, CommandString,
       GetReply, Frames, Commands, Transfers, Places
  <2>3. stack' = <<f, g>> \o Tail(stack)
    BY <1>7
  <2> HIDE DEF f, g
  <2>4. /\ Fits(g, Beneath(stack)) /\ Fits(f, g.at) /\ Lowest1(g) = Lowest(stack)
        /\ Suits(g, Below(stack), Lowest(stack)) /\ Suits(f, g, Lowest(stack))
    BY <1>1, <1>2, <1>7, <2>1, <2>2, PopFits DEF Fits, Suits, Lowest1, Sending, Connecting,
       Operations, Awaits, Places, Transfers
  <2>5. /\ Args(stack') /\ This' = f /\ stack' # <<>> /\ Lowest(stack') = Lowest(stack)
        /\ Bottom(stack') = Bottom(stack) /\ Beneath(stack') = g.at
    BY <1>1, <1>2, <1>7, <2>1, <2>2, <2>3, <2>4, Put2, Put2Args, PopFits
  <2>6. SockUp' /\ NewSession' /\ Chdirs' /\ Reported' /\ Unsent'
    BY <1>1, <1>2, <1>3, <1>7, <2>2, <2>5, <2>1 DEF Told, SockUp, Unsent, NewSession,
       Chdirs, Reported, LoggingIn, Greeting, Waiting, Is, Still, Suits, Connecting, Operations
  <2>7. ~late' => Prelims' /\ Replies1' /\ Listing' /\ Storage'
    BY <1>1, <1>2, <1>3, <1>7, <2>2, <2>5, <2>1, NoPrelim, StillSame DEF Told, Prelims,
       Replies1, Listing, SameDir, Storage, Waiting, Is, Still, Greeting, LoggingIn
  <2>8. ~late' /\ net'.up => CmdIs' /\ Server1' /\ Session'
    BY <1>1, <1>2, <1>3, <1>7, <2>2, <2>5, <2>1, StillSame DEF Told, CmdIs, Server1,
       Session, LoggingIn, Greeting, Waiting, Is, Still, Elsewhere, Rejoining, SameDir,
       SameType, Sending
  <2> QED  BY <2>5, <2>6, <2>7, <2>8 DEF Told
<1> QED  BY <1>4, <1>5, <1>6, <1>7

\* ... and reconnecting ends.
LEMMA RechdirTells == ASSUME Typed, Shape, Owed, Told, "copy" \notin opt.ops, Rechdir PROVE Told'
<1>1. stack # <<>> /\ Top.at = "rechdir" /\ Chain(stack) /\ Args(stack)
  BY DEF Rechdir, Now, Top, Shape, Told
<1>2. /\ Top \in Frames /\ Fits(Top, Beneath(stack)) /\ This = Top
      /\ Suits(Top, Below(stack), Lowest(stack)) /\ Below(stack).at = Beneath(stack)
      /\ Lowest(stack).at = Bottom(stack) /\ (Beneath(stack) = "-" => Lowest(stack) = Top)
  BY <1>1, Running, ArgsHere
<1>3. /\ Still
      /\ report' = report
  BY DEF Rechdir, remote, handles, Rest, Still
<1>4. \/ stack' = Tail(stack) /\ sup' = sup
  BY DEF Rechdir, Return
<1>5. CASE stack' = Tail(stack) /\ sup' = sup
  <2>1. Below(stack).at \in {"again", "retried", "fail", "closeread"}
    BY <1>1, <1>2, <1>3, <1>5 DEF Fits
  <2>2. /\ Args(stack') /\ This' = Below(stack) /\ stack' # <<>>
        /\ Lowest(stack') = Lowest(stack) /\ Bottom(stack') = Bottom(stack)
    BY <1>1, <1>2, <1>5, <2>1, Popped, PoppedArgs
  <2>3. SockUp' /\ NewSession' /\ Chdirs' /\ Reported' /\ Unsent'
    BY <1>1, <1>2, <1>3, <1>5, <2>1, <2>2 DEF Told, SockUp, Unsent, NewSession, Chdirs,
       Reported, LoggingIn, Greeting, Waiting, Is, Still, Suits, Connecting, Operations
  <2>4. ~late' => Prelims' /\ Replies1' /\ Listing' /\ Storage'
    BY <1>1, <1>2, <1>3, <1>5, <2>1, <2>2, NoPrelim, StillSame DEF Told, Prelims, Replies1,
       Listing, SameDir, Storage, Waiting, Is, Still, Greeting, LoggingIn
  <2>5. ~late' /\ net'.up => CmdIs' /\ Server1' /\ Session'
    BY <1>1, <1>2, <1>3, <1>5, <2>1, <2>2, StillSame DEF Told, CmdIs, Server1, Session,
       LoggingIn, Greeting, Waiting, Is, Still, Elsewhere, Rejoining, SameDir, SameType,
       Sending
  <2> QED  BY <2>2, <2>3, <2>4, <2>5 DEF Told
<1> QED  BY <1>4, <1>5

\* Logging in waits for the greeting and for the answers to its commands.
LEMMA LoginTells == ASSUME Typed, Shape, Owed, Told, "copy" \notin opt.ops, Login PROVE Told'
<1>1. stack # <<>> /\ Top.at \in {"login", "greeted", "named", "passed"} /\ Chain(stack) /\ Args(stack)
  BY DEF Login, Now, Top, Shape, Told
<1>2. /\ Top \in Frames /\ Fits(Top, Beneath(stack)) /\ This = Top
      /\ Suits(Top, Below(stack), Lowest(stack)) /\ Below(stack).at = Beneath(stack)
      /\ Lowest(stack).at = Bottom(stack) /\ (Beneath(stack) = "-" => Lowest(stack) = Top)
  BY <1>1, Running, ArgsHere
<1>3. /\ Still
      /\ report' = report
  BY DEF Login, remote, handles, Rest, Still
<1>4. \/ /\ Top.at = "login" /\ sup' = [sup EXCEPT !.binary = "unknown", !.failed = FALSE]
         /\ stack' = <<GetReply, Frame("greeted")>> \o Tail(stack)
      \/ /\ Top.at = "greeted" /\ sup' = sup
         /\ stack' = <<Command("USER"), Frame("named")>> \o Tail(stack)
      \/ /\ Top.at = "named" /\ sup' = sup /\ ret # TRANSIENT
         /\ stack' = <<Command("PASS"), Frame("passed")>> \o Tail(stack)
      \/ /\ Top.at # "login" /\ stack' = Tail(stack)
         /\ sup' = sup \/ sup' = [sup EXCEPT !.failed = TRUE]
         /\ ret' \in {0, 1} /\ (ret' = 1 => ret = COMPLETE /\ Top.at # "greeted")
         /\ Top.at = "passed" /\ ret = COMPLETE => ret' = 1
  BY DEF Login, Now, Top, Then, Return, COMPLETE, CONTINUE, TRANSIENT
<1>5. CASE /\ Top.at = "login" /\ sup' = [sup EXCEPT !.binary = "unknown", !.failed = FALSE]
           /\ stack' = <<GetReply, Frame("greeted")>> \o Tail(stack)
  <2> DEFINE f == GetReply
             g == Frame("greeted")
  <2>1. Beneath(stack) # "-"
    BY <1>1, <1>2, <1>3, <1>5 DEF Fits
  <2>2. /\ f \in Frames /\ f.at = "reply" /\ f.arg = "-" /\ f.wait = "-"
        /\ g \in Frames /\ g.at = "greeted"
    BY <1>1, <1>2, <1>5, <2>1 DEF Frame, With, Command, CommandOnly, CommandString,
       GetReply, Frames, Commands, Transfers, Places
  <2>3. stack' = <<f, g>> \o Tail(stack)
    BY <1>5
  <2> HIDE DEF f, g
  <2>4. /\ Fits(g, Beneath(stack)) /\ Fits(f, g.at) /\ Lowest1(g) = Lowest(stack)
        /\ Suits(g, Below(stack), Lowest(stack)) /\ Suits(f, g, Lowest(stack))
    BY <1>1, <1>2, <1>5, <2>1, <2>2, PopFits DEF Fits, Suits, Lowest1, Sending, Connecting,
       Operations, Awaits, Places, Transfers
  <2>5. /\ Args(stack') /\ This' = f /\ stack' # <<>> /\ Lowest(stack') = Lowest(stack)
        /\ Bottom(stack') = Bottom(stack) /\ Beneath(stack') = g.at
    BY <1>1, <1>2, <1>5, <2>1, <2>2, <2>3, <2>4, Put2, Put2Args, PopFits
  <2>6. sup'.sock = sup.sock /\ sup'.binary = "unknown" /\ sup'.cwd = sup.cwd
    BY <1>5, SupLogin DEF Typed
  <2>7. SockUp' /\ NewSession' /\ Chdirs' /\ Reported' /\ Unsent'
    BY <1>1, <1>2, <1>3, <1>5, <2>2, <2>5, <2>1, <2>6 DEF Told, SockUp, Unsent, NewSession,
       Chdirs, Reported, LoggingIn, Greeting, Waiting, Is, Still, Suits, Connecting, Operations
  <2>8. ~late' => Prelims' /\ Replies1' /\ Listing' /\ Storage'
    BY <1>1, <1>2, <1>3, <1>5, <2>2, <2>5, <2>1, <2>6, NoPrelim, StillSame DEF Told,
       Prelims, Replies1, Listing, SameDir, Storage, Waiting, Is, Still, Greeting, LoggingIn
  <2>9. ~late' /\ net'.up => CmdIs' /\ Server1' /\ Session'
    BY <1>1, <1>2, <1>3, <1>5, <2>2, <2>5, <2>1, <2>6, StillSame DEF Told, CmdIs, Server1,
       Session, LoggingIn, Greeting, Waiting, Is, Still, Elsewhere, Rejoining, SameDir,
       SameType, Sending
  <2> QED  BY <2>5, <2>7, <2>8, <2>9 DEF Told
<1>6. CASE /\ Top.at = "greeted" /\ sup' = sup
           /\ stack' = <<Command("USER"), Frame("named")>> \o Tail(stack)
  <2> DEFINE f == Command("USER")
             g == Frame("named")
  <2>1. Beneath(stack) # "-"
    BY <1>1, <1>2, <1>3, <1>6 DEF Fits
  <2>2. /\ f \in Frames /\ f.at = "command" /\ f.arg = "USER" /\ f.wait = "reply"
        /\ g \in Frames /\ g.at = "named"
    BY <1>1, <1>2, <1>6, <2>1 DEF Frame, With, Command, CommandOnly, CommandString,
       GetReply, Frames, Commands, Transfers, Places
  <2>3. stack' = <<f, g>> \o Tail(stack)
    BY <1>6
  <2> HIDE DEF f, g
  <2>4. /\ Fits(g, Beneath(stack)) /\ Fits(f, g.at) /\ Lowest1(g) = Lowest(stack)
        /\ Suits(g, Below(stack), Lowest(stack)) /\ Suits(f, g, Lowest(stack))
    BY <1>1, <1>2, <1>6, <2>1, <2>2, PopFits DEF Fits, Suits, Lowest1, Sending, Connecting,
       Operations, Awaits, Places, Transfers
  <2>5. /\ Args(stack') /\ This' = f /\ stack' # <<>> /\ Lowest(stack') = Lowest(stack)
        /\ Bottom(stack') = Bottom(stack) /\ Beneath(stack') = g.at
    BY <1>1, <1>2, <1>6, <2>1, <2>2, <2>3, <2>4, Put2, Put2Args, PopFits
  <2>6. SockUp' /\ NewSession' /\ Chdirs' /\ Reported' /\ Unsent'
    BY <1>1, <1>2, <1>3, <1>6, <2>2, <2>5, <2>1 DEF Told, SockUp, Unsent, NewSession,
       Chdirs, Reported, LoggingIn, Greeting, Waiting, Is, Still, Suits, Connecting, Operations
  <2>7. ~late' => Prelims' /\ Replies1' /\ Listing' /\ Storage'
    BY <1>1, <1>2, <1>3, <1>6, <2>2, <2>5, <2>1, NoPrelim, StillSame DEF Told, Prelims,
       Replies1, Listing, SameDir, Storage, Waiting, Is, Still, Greeting, LoggingIn
  <2>8. ~late' /\ net'.up => CmdIs' /\ Server1' /\ Session'
    BY <1>1, <1>2, <1>3, <1>6, <2>2, <2>5, <2>1, StillSame DEF Told, CmdIs, Server1,
       Session, LoggingIn, Greeting, Waiting, Is, Still, Elsewhere, Rejoining, SameDir,
       SameType, Sending
  <2> QED  BY <2>5, <2>6, <2>7, <2>8 DEF Told
<1>7. CASE /\ Top.at = "named" /\ sup' = sup /\ ret # TRANSIENT
           /\ stack' = <<Command("PASS"), Frame("passed")>> \o Tail(stack)
  <2> DEFINE f == Command("PASS")
             g == Frame("passed")
  <2>1. Beneath(stack) # "-"
    BY <1>1, <1>2, <1>3, <1>7 DEF Fits
  <2>2. /\ f \in Frames /\ f.at = "command" /\ f.arg = "PASS" /\ f.wait = "reply"
        /\ g \in Frames /\ g.at = "passed"
    BY <1>1, <1>2, <1>7, <2>1 DEF Frame, With, Command, CommandOnly, CommandString,
       GetReply, Frames, Commands, Transfers, Places
  <2>3. stack' = <<f, g>> \o Tail(stack)
    BY <1>7
  <2> HIDE DEF f, g
  <2>4. /\ Fits(g, Beneath(stack)) /\ Fits(f, g.at) /\ Lowest1(g) = Lowest(stack)
        /\ Suits(g, Below(stack), Lowest(stack)) /\ Suits(f, g, Lowest(stack))
    BY <1>1, <1>2, <1>7, <2>1, <2>2, PopFits DEF Fits, Suits, Lowest1, Sending, Connecting,
       Operations, Awaits, Places, Transfers
  <2>5. /\ Args(stack') /\ This' = f /\ stack' # <<>> /\ Lowest(stack') = Lowest(stack)
        /\ Bottom(stack') = Bottom(stack) /\ Beneath(stack') = g.at
    BY <1>1, <1>2, <1>7, <2>1, <2>2, <2>3, <2>4, Put2, Put2Args, PopFits
  <2>6. SockUp' /\ NewSession' /\ Chdirs' /\ Reported' /\ Unsent'
    BY <1>1, <1>2, <1>3, <1>7, <2>2, <2>5, <2>1 DEF Told, SockUp, Unsent, NewSession,
       Chdirs, Reported, LoggingIn, Greeting, Waiting, Is, Still, Suits, Connecting, Operations
  <2>7. ~late' => Prelims' /\ Replies1' /\ Listing' /\ Storage'
    BY <1>1, <1>2, <1>3, <1>7, <2>2, <2>5, <2>1, NoPrelim, StillSame DEF Told, Prelims,
       Replies1, Listing, SameDir, Storage, Waiting, Is, Still, Greeting, LoggingIn
  <2>8. ~late' /\ net'.up => CmdIs' /\ Server1' /\ Session'
    BY <1>1, <1>2, <1>3, <1>7, <2>2, <2>5, <2>1, StillSame DEF Told, CmdIs, Server1,
       Session, LoggingIn, Greeting, Waiting, Is, Still, Elsewhere, Rejoining, SameDir,
       SameType, Sending
  <2> QED  BY <2>5, <2>6, <2>7, <2>8 DEF Told
<1>8. CASE /\ Top.at # "login" /\ stack' = Tail(stack)
           /\ sup' = sup \/ sup' = [sup EXCEPT !.failed = TRUE]
           /\ ret' \in {0, 1} /\ (ret' = 1 => ret = COMPLETE /\ Top.at # "greeted")
           /\ Top.at = "passed" /\ ret = COMPLETE => ret' = 1
  <2>1. Below(stack).at \in {"relogged", "connected"}
    BY <1>1, <1>2, <1>3, <1>8 DEF Fits
  <2>2. /\ Args(stack') /\ This' = Below(stack) /\ stack' # <<>>
        /\ Lowest(stack') = Lowest(stack) /\ Bottom(stack') = Bottom(stack)
    BY <1>1, <1>2, <1>8, <2>1, Popped, PoppedArgs
  <2>3. sup'.sock = sup.sock /\ sup'.binary = sup.binary /\ sup'.cwd = sup.cwd
    BY <1>1, <1>2, <1>3, <1>8 DEF Typed, Sup
  <2>4. SockUp' /\ NewSession' /\ Chdirs' /\ Reported' /\ Unsent'
    BY <1>1, <1>2, <1>3, <1>8, <2>1, <2>2, <2>3 DEF Told, SockUp, Unsent, NewSession,
       Chdirs, Reported, LoggingIn, Greeting, Waiting, Is, Still, Suits, Connecting, Operations
  <2>5. ~late' => Prelims' /\ Replies1' /\ Listing' /\ Storage'
    BY <1>1, <1>2, <1>3, <1>8, <2>1, <2>2, <2>3, NoPrelim, StillSame DEF Told, Prelims,
       Replies1, Listing, SameDir, Storage, Waiting, Is, Still, Greeting, LoggingIn, COMPLETE,
       TRANSIENT
  <2>6. ~late' /\ net'.up => CmdIs'
    BY <1>1, <1>2, <1>3, <1>8, <2>1, <2>2, <2>3 DEF Told, Still, CmdIs
  <2>7. ~late' /\ net'.up => Server1'
    BY <1>1, <1>2, <1>3, <1>8, <2>1, <2>2, <2>3, StillSame DEF Told, Server1, LoggingIn,
       Greeting, Waiting, Is, Still, Elsewhere, Rejoining, Sending
  <2>8. ~late' /\ net'.up => Session'
    BY <1>1, <1>2, <1>3, <1>8, <2>1, <2>2, <2>3, StillSame DEF Told, Server1, Session,
       LoggingIn, Greeting, Waiting, Is, Still, SameDir, SameType
  <2> QED  BY <2>2, <2>4, <2>5, <2>6, <2>7, <2>8 DEF Told
<1> QED  BY <1>4, <1>5, <1>6, <1>7, <1>8

\* The current directory of a new session is the first one.
LEMMA CurrentDirectoryTells ==
  ASSUME Typed, Shape, Owed, Told, "copy" \notin opt.ops, CurrentDirectory
  PROVE  Told'
<1>1. stack # <<>> /\ Top.at \in {"pwd", "pwd_reply"} /\ Chain(stack) /\ Args(stack)
  BY DEF CurrentDirectory, Now, Top, Shape, Told
<1>2. /\ Top \in Frames /\ Fits(Top, Beneath(stack)) /\ This = Top
      /\ Suits(Top, Below(stack), Lowest(stack)) /\ Below(stack).at = Beneath(stack)
      /\ Lowest(stack).at = Bottom(stack) /\ (Beneath(stack) = "-" => Lowest(stack) = Top)
  BY <1>1, Running, ArgsHere
<1>3. /\ Still
      /\ report' = report
  BY DEF CurrentDirectory, remote, handles, Rest, Still
<1>4. \/ /\ Top.at = "pwd" /\ sup' = sup
         /\ stack' = <<GetReply, Frame("pwd_reply")>> \o Tail(stack)
      \/ stack' = Tail(stack) /\ sup' = [sup EXCEPT !.cwd = "home"]
  BY DEF CurrentDirectory, Now, Top, Then, Return
<1>5. CASE /\ Top.at = "pwd" /\ sup' = sup
           /\ stack' = <<GetReply, Frame("pwd_reply")>> \o Tail(stack)
  <2> DEFINE f == GetReply
             g == Frame("pwd_reply")
  <2>1. Beneath(stack) # "-"
    BY <1>1, <1>2, <1>3, <1>5 DEF Fits
  <2>2. /\ f \in Frames /\ f.at = "reply" /\ f.arg = "-" /\ f.wait = "-"
        /\ g \in Frames /\ g.at = "pwd_reply"
    BY <1>1, <1>2, <1>5, <2>1 DEF Frame, With, Command, CommandOnly, CommandString,
       GetReply, Frames, Commands, Transfers, Places
  <2>3. stack' = <<f, g>> \o Tail(stack)
    BY <1>5
  <2> HIDE DEF f, g
  <2>4. /\ Fits(g, Beneath(stack)) /\ Fits(f, g.at) /\ Lowest1(g) = Lowest(stack)
        /\ Suits(g, Below(stack), Lowest(stack)) /\ Suits(f, g, Lowest(stack))
    BY <1>1, <1>2, <1>5, <2>1, <2>2, PopFits DEF Fits, Suits, Lowest1, Sending, Connecting,
       Operations, Awaits, Places, Transfers
  <2>5. /\ Args(stack') /\ This' = f /\ stack' # <<>> /\ Lowest(stack') = Lowest(stack)
        /\ Bottom(stack') = Bottom(stack) /\ Beneath(stack') = g.at
    BY <1>1, <1>2, <1>5, <2>1, <2>2, <2>3, <2>4, Put2, Put2Args, PopFits
  <2>6. SockUp' /\ NewSession' /\ Chdirs' /\ Reported' /\ Unsent'
    BY <1>1, <1>2, <1>3, <1>5, <2>2, <2>5, <2>1 DEF Told, SockUp, Unsent, NewSession,
       Chdirs, Reported, LoggingIn, Greeting, Waiting, Is, Still, Suits, Connecting, Operations
  <2>7. ~late' => Prelims' /\ Replies1' /\ Listing' /\ Storage'
    BY <1>1, <1>2, <1>3, <1>5, <2>2, <2>5, <2>1, NoPrelim, StillSame DEF Told, Prelims,
       Replies1, Listing, SameDir, Storage, Waiting, Is, Still, Greeting, LoggingIn
  <2>8. ~late' /\ net'.up => CmdIs' /\ Server1' /\ Session'
    BY <1>1, <1>2, <1>3, <1>5, <2>2, <2>5, <2>1, StillSame DEF Told, CmdIs, Server1,
       Session, LoggingIn, Greeting, Waiting, Is, Still, Elsewhere, Rejoining, SameDir,
       SameType, Sending
  <2> QED  BY <2>5, <2>6, <2>7, <2>8 DEF Told
<1>6. CASE stack' = Tail(stack) /\ sup' = [sup EXCEPT !.cwd = "home"]
  <2>1. Below(stack).at \in {"list", "command", "read", "store"}
    BY <1>1, <1>2, <1>3, <1>6 DEF Fits
  <2>2. /\ Args(stack') /\ This' = Below(stack) /\ stack' # <<>>
        /\ Lowest(stack') = Lowest(stack) /\ Bottom(stack') = Bottom(stack)
    BY <1>1, <1>2, <1>6, <2>1, Popped, PoppedArgs
  <2>3. sup'.sock = sup.sock /\ sup'.binary = sup.binary /\ sup'.cwd = "home"
    BY <1>1, <1>2, <1>3, <1>6 DEF Typed, Sup
  <2>4. SockUp' /\ NewSession' /\ Chdirs' /\ Reported' /\ Unsent'
    BY <1>1, <1>2, <1>3, <1>6, <2>1, <2>2, <2>3 DEF Told, SockUp, Unsent, NewSession,
       Chdirs, Reported, LoggingIn, Greeting, Waiting, Is, Still, Suits, Connecting, Operations
  <2>5. ~late' => Prelims' /\ Replies1' /\ Listing' /\ Storage'
    BY <1>1, <1>2, <1>3, <1>6, <2>1, <2>2, <2>3, NoPrelim, StillSame DEF Told, Prelims,
       Replies1, Listing, SameDir, Storage, Waiting, Is, Still, Greeting, LoggingIn, Suits,
       Connecting, Operations
  <2>6. ~late' /\ net'.up => CmdIs'
    BY <1>1, <1>2, <1>3, <1>6, <2>1, <2>2, <2>3 DEF Told, Still, CmdIs
  <2>7. ~late' /\ net'.up => Server1'
    BY <1>1, <1>2, <1>3, <1>6, <2>1, <2>2, <2>3, StillSame DEF Told, Server1, LoggingIn,
       Greeting, Waiting, Is, Still, Elsewhere, Rejoining, Sending, Suits, Connecting,
       Operations
  <2>8. ~late' /\ net'.up => Session'
    BY <1>1, <1>2, <1>3, <1>6, <2>1, <2>2, <2>3, StillSame DEF Told, Server1, Session,
       LoggingIn, Greeting, Waiting, Is, Still, SameDir, SameType, Suits, Connecting,
       Operations
  <2> QED  BY <2>2, <2>4, <2>5, <2>6, <2>7, <2>8 DEF Told
<1> QED  BY <1>4, <1>5, <1>6

\* A directory is entered; the server is asked if it is not the current one.
LEMMA ChdirTells == ASSUME Typed, Shape, Owed, Told, "copy" \notin opt.ops, Chdir PROVE Told'
<1>1. stack # <<>> /\ Top.at \in {"chdir", "chdired"} /\ Chain(stack) /\ Args(stack)
  BY DEF Chdir, Now, Top, Shape, Told
<1>2. /\ Top \in Frames /\ Fits(Top, Beneath(stack)) /\ This = Top
      /\ Suits(Top, Below(stack), Lowest(stack)) /\ Below(stack).at = Beneath(stack)
      /\ Lowest(stack).at = Bottom(stack) /\ (Beneath(stack) = "-" => Lowest(stack) = Top)
  BY <1>1, Running, ArgsHere
<1>3. /\ Still
      /\ report' = report
  BY DEF Chdir, remote, handles, Rest, Still
<1>4. \/ /\ Top.at = "chdir" /\ sup' = sup /\ sup.cwd = Top.arg
         /\ stack' = Tail(stack) /\ ret' = COMPLETE
      \/ /\ Top.at = "chdir" /\ sup' = sup
         /\ stack' = <<Command(Cwd(Top.arg)), With("chdired", Top.arg)>> \o Tail(stack)
      \/ /\ Top.at = "chdired" /\ stack' = Tail(stack) /\ ret' = ret
         /\ sup' = IF ret = COMPLETE THEN [sup EXCEPT !.cwd = Top.arg] ELSE sup
  BY DEF Chdir, Now, Top, Then, Return
<1>5. CASE /\ Top.at = "chdir" /\ sup' = sup /\ sup.cwd = Top.arg
           /\ stack' = Tail(stack) /\ ret' = COMPLETE
  <2>1. Below(stack).at \in {"rechdir", "there"}
    BY <1>1, <1>2, <1>3, <1>5 DEF Fits
  <2>2. /\ Args(stack') /\ This' = Below(stack) /\ stack' # <<>>
        /\ Lowest(stack') = Lowest(stack) /\ Bottom(stack') = Bottom(stack)
    BY <1>1, <1>2, <1>5, <2>1, Popped, PoppedArgs
  <2>3. SockUp' /\ NewSession' /\ Chdirs' /\ Reported' /\ Unsent'
    BY <1>1, <1>2, <1>3, <1>5, <2>1, <2>2 DEF Told, SockUp, Unsent, NewSession, Chdirs,
       Reported, LoggingIn, Greeting, Waiting, Is, Still, Suits, Connecting, Operations
  <2>4. ~late' => Prelims' /\ Replies1' /\ Listing' /\ Storage'
    BY <1>1, <1>2, <1>3, <1>5, <2>1, <2>2, NoPrelim, StillSame DEF Told, Prelims, Replies1,
       Listing, SameDir, Storage, Waiting, Is, Still, Greeting, LoggingIn
  <2>5. ~late' /\ net'.up => CmdIs' /\ Server1' /\ Session'
    BY <1>1, <1>2, <1>3, <1>5, <2>1, <2>2, StillSame DEF Told, CmdIs, Server1, Session,
       LoggingIn, Greeting, Waiting, Is, Still, Elsewhere, Rejoining, SameDir, SameType,
       Sending
  <2> QED  BY <2>2, <2>3, <2>4, <2>5 DEF Told
<1>6. CASE /\ Top.at = "chdir" /\ sup' = sup
           /\ stack' = <<Command(Cwd(Top.arg)), With("chdired", Top.arg)>> \o Tail(stack)
  <2> DEFINE f == Command(Cwd(Top.arg))
             g == With("chdired", Top.arg)
  <2>1. Beneath(stack) # "-" /\ Top.arg \in Places /\ Cwd(Top.arg) \in {"CWD home", "CWD sub"}
    BY <1>1, <1>2, <1>3, <1>6 DEF Fits, Cwd, Places
  <2>2. /\ f \in Frames /\ f.at = "command" /\ f.arg = Cwd(Top.arg) /\ f.wait = "reply" /\ f.arg \in {"CWD home", "CWD sub"}
        /\ g \in Frames /\ g.at = "chdired" /\ g.arg = Top.arg
    BY <1>1, <1>2, <1>6, <2>1 DEF Frame, With, Command, CommandOnly, CommandString,
       GetReply, Frames, Commands, Transfers, Places
  <2>3. stack' = <<f, g>> \o Tail(stack)
    BY <1>6
  <2> HIDE DEF f, g
  <2>4. /\ Fits(g, Beneath(stack)) /\ Fits(f, g.at) /\ Lowest1(g) = Lowest(stack)
        /\ Suits(g, Below(stack), Lowest(stack)) /\ Suits(f, g, Lowest(stack))
    BY <1>1, <1>2, <1>6, <2>1, <2>2, PopFits DEF Fits, Suits, Lowest1, Sending, Connecting,
       Operations, Awaits, Places, Transfers
  <2>5. /\ Args(stack') /\ This' = f /\ stack' # <<>> /\ Lowest(stack') = Lowest(stack)
        /\ Bottom(stack') = Bottom(stack) /\ Beneath(stack') = g.at
    BY <1>1, <1>2, <1>6, <2>1, <2>2, <2>3, <2>4, Put2, Put2Args, PopFits
  <2>6. SockUp' /\ NewSession' /\ Chdirs' /\ Reported' /\ Unsent'
    BY <1>1, <1>2, <1>3, <1>6, <2>2, <2>5, <2>1 DEF Told, SockUp, Unsent, NewSession,
       Chdirs, Reported, LoggingIn, Greeting, Waiting, Is, Still, Suits, Connecting, Operations
  <2>7. ~late' => Prelims' /\ Replies1' /\ Listing' /\ Storage'
    BY <1>1, <1>2, <1>3, <1>6, <2>2, <2>5, <2>1, NoPrelim, StillSame DEF Told, Prelims,
       Replies1, Listing, SameDir, Storage, Waiting, Is, Still, Greeting, LoggingIn
  <2>8. ~late' /\ net'.up => CmdIs' /\ Server1' /\ Session'
    BY <1>1, <1>2, <1>3, <1>6, <2>2, <2>5, <2>1, StillSame DEF Told, CmdIs, Server1,
       Session, LoggingIn, Greeting, Waiting, Is, Still, Elsewhere, Rejoining, SameDir,
       SameType, Sending
  <2> QED  BY <2>5, <2>6, <2>7, <2>8 DEF Told
<1>7. CASE /\ Top.at = "chdired" /\ stack' = Tail(stack) /\ ret' = ret
           /\ sup' = IF ret = COMPLETE THEN [sup EXCEPT !.cwd = Top.arg] ELSE sup
  <2>1. Below(stack).at \in {"rechdir", "there"}
    BY <1>1, <1>2, <1>3, <1>7 DEF Fits
  <2>2. /\ Args(stack') /\ This' = Below(stack) /\ stack' # <<>>
        /\ Lowest(stack') = Lowest(stack) /\ Bottom(stack') = Bottom(stack)
    BY <1>1, <1>2, <1>7, <2>1, Popped, PoppedArgs
  <2>3. /\ sup'.sock = sup.sock /\ sup'.binary = sup.binary
        /\ sup'.cwd = IF ret = COMPLETE THEN Top.arg ELSE sup.cwd
    BY <1>1, <1>2, <1>3, <1>7 DEF Typed, Sup
  <2>4. SockUp' /\ NewSession' /\ Chdirs' /\ Reported' /\ Unsent'
    BY <1>1, <1>2, <1>3, <1>7, <2>1, <2>2, <2>3 DEF Told, SockUp, Unsent, NewSession,
       Chdirs, Reported, LoggingIn, Greeting, Waiting, Is, Still, Suits, Connecting, Operations
  <2>5. ~late' => Prelims' /\ Replies1' /\ Listing' /\ Storage'
    BY <1>1, <1>2, <1>3, <1>7, <2>1, <2>2, <2>3, NoPrelim, StillSame DEF Told, Prelims,
       Replies1, Listing, SameDir, Storage, Waiting, Is, Still, Greeting, LoggingIn
  <2>6. ~late' /\ net'.up => CmdIs' /\ Server1' /\ Session'
    BY <1>1, <1>2, <1>3, <1>7, <2>1, <2>2, <2>3, StillSame DEF Told, CmdIs, Server1,
       Session, LoggingIn, Greeting, Waiting, Is, Still, Elsewhere, Rejoining, SameDir,
       SameType, Sending
  <2> QED  BY <2>2, <2>4, <2>5, <2>6 DEF Told
<1> QED  BY <1>4, <1>5, <1>6, <1>7

\* The second half of a renaming.
LEMMA RenamedTells == ASSUME Typed, Shape, Owed, Told, "copy" \notin opt.ops, Renamed PROVE Told'
<1>1. stack # <<>> /\ Top.at = "renamed" /\ Chain(stack) /\ Args(stack)
  BY DEF Renamed, Now, Top, Shape, Told
<1>2. /\ Top \in Frames /\ Fits(Top, Beneath(stack)) /\ This = Top
      /\ Suits(Top, Below(stack), Lowest(stack)) /\ Below(stack).at = Beneath(stack)
      /\ Lowest(stack).at = Bottom(stack) /\ (Beneath(stack) = "-" => Lowest(stack) = Top)
  BY <1>1, Running, ArgsHere
<1>3. /\ Still
      /\ report' = report
  BY DEF Renamed, remote, handles, Rest, Still
<1>4. \/ stack' = <<Command("RNTO")>> \o Tail(stack) /\ sup' = sup
  BY DEF Renamed, Then
<1>5. CASE stack' = <<Command("RNTO")>> \o Tail(stack) /\ sup' = sup
  <2> DEFINE f == Command("RNTO")
  <2>1. Beneath(stack) = "-"
    BY <1>1, <1>2, <1>3, <1>5 DEF Fits
  <2>2. f \in Frames /\ f.at = "command" /\ f.arg = "RNTO" /\ f.wait = "reply"
    BY <1>1, <1>2, <1>5, <2>1 DEF Frame, With, Command, CommandOnly, CommandString,
       GetReply, Frames, Commands, Transfers, Places
  <2>3. stack' = <<f>> \o Tail(stack)
    BY <1>5
  <2> HIDE DEF f
  <2>4. /\ Fits(f, Beneath(stack)) /\ Lowest1(f) = f /\ Suits(f, Below(stack), f)
    BY <1>1, <1>2, <1>5, <2>1, <2>2, PopFits DEF Fits, Suits, Lowest1, Sending, Connecting,
       Operations, Awaits, Places, Transfers
  <2>5. /\ Args(stack') /\ This' = f /\ stack' # <<>> /\ Lowest(stack') = f
        /\ Bottom(stack') = f.at /\ Beneath(stack') = Beneath(stack)
    BY <1>1, <1>2, <1>5, <2>1, <2>2, <2>3, <2>4, Put1, Put1Args, PopFits
  <2>6. Simple(This', Beneath(stack)')
    BY <1>1, <1>2, <1>3, <1>5, <2>2, <2>5, <2>1 DEF Simple, Ordinary, Suits, Connecting
  <2> QED  BY <1>1, <1>2, <1>3, <1>5, <2>2, <2>5, <2>1, <2>6, GoesOn DEF Quieter, Still
<1> QED  BY <1>4, <1>5

\* A data connection has been agreed on, or is asked for in another way.
LEMMA AgreedTells == ASSUME Typed, Shape, Owed, Told, "copy" \notin opt.ops, Agreed PROVE Told'
<1>1. stack # <<>> /\ Top.at = "agreed" /\ Chain(stack) /\ Args(stack)
  BY DEF Agreed, Now, Top, Shape, Told
<1>2. /\ Top \in Frames /\ Fits(Top, Beneath(stack)) /\ This = Top
      /\ Suits(Top, Below(stack), Lowest(stack)) /\ Below(stack).at = Beneath(stack)
      /\ Lowest(stack).at = Bottom(stack) /\ (Beneath(stack) = "-" => Lowest(stack) = Top)
  BY <1>1, Running, ArgsHere
<1>3. /\ Still
      /\ report' = report
  BY DEF Agreed, remote, handles, Rest, Still
<1>4. \/ sup' = sup \/ sup' = [sup EXCEPT !.passive = FALSE]
      \/ sup' = [sup EXCEPT !.passive = opt.passive]
  BY DEF Agreed, Top
<1>5. sup'.sock = sup.sock /\ sup'.cwd = sup.cwd /\ sup'.binary = sup.binary
  BY <1>4 DEF Typed, Sup
<1>6. \/ stack' = Tail(stack)
      \/ /\ stack' = <<Attempt(Next4(Top.arg)), With("agreed", Next4(Top.arg))>> \o Tail(stack)
         /\ Top.arg # "EPRT"
  BY DEF Agreed, Now, Top, Then, Return
<1>7. CASE stack' = Tail(stack)
  <2>1. Below(stack).at = "type"
    BY <1>1, <1>2, <1>3, <1>5, <1>7 DEF Fits
  <2>2. /\ Args(stack') /\ This' = Below(stack) /\ stack' # <<>>
        /\ Lowest(stack') = Lowest(stack) /\ Bottom(stack') = Bottom(stack)
    BY <1>1, <1>2, <1>7, <2>1, Popped, PoppedArgs
  <2>3. Simple(This', Beneath(stack)')
    BY <1>1, <1>2, <1>3, <1>5, <1>7, <2>1, <2>2 DEF Simple, Ordinary, Suits, Connecting
  <2> QED  BY <1>1, <1>2, <1>3, <1>5, <1>7, <2>1, <2>2, <2>3, GoesOn DEF Quieter, Still
<1>8. CASE /\ stack' = <<Attempt(Next4(Top.arg)), With("agreed", Next4(Top.arg))>> \o Tail(stack)
           /\ Top.arg # "EPRT"
  <2> DEFINE f == Attempt(Next4(Top.arg))
             g == With("agreed", Next4(Top.arg))
  <2>1. Beneath(stack) # "-" /\ Next4(Top.arg) \in {"EPSV", "PORT", "EPRT"}
    BY <1>1, <1>2, <1>3, <1>5, <1>8 DEF Fits, Next4
  <2>2. f \in Frames /\ f.at = "command" /\ f.arg = Next4(Top.arg) /\ f.wait # "none" /\ (f.wait = "string" => f.arg \in {"PASV", "EPSV"})
    BY <2>1, AttemptFrame
  <2>3. g \in Frames /\ g.at = "agreed" /\ g.arg = Next4(Top.arg)
    BY <1>1, <1>2, <1>8, <2>1 DEF With, Frames, Commands
  <2>4. stack' = <<f, g>> \o Tail(stack)
    BY <1>8
  <2> HIDE DEF f, g
  <2>5. /\ Fits(g, Beneath(stack)) /\ Fits(f, g.at) /\ Lowest1(g) = Lowest(stack)
        /\ Suits(g, Below(stack), Lowest(stack)) /\ Suits(f, g, Lowest(stack))
    BY <1>1, <1>2, <1>8, <2>1, <2>2, <2>3, PopFits DEF Fits, Suits, Lowest1, Sending,
       Connecting, Operations, Awaits, Places, Transfers
  <2>6. /\ Args(stack') /\ This' = f /\ stack' # <<>> /\ Lowest(stack') = Lowest(stack)
        /\ Bottom(stack') = Bottom(stack) /\ Beneath(stack') = g.at
    BY <1>1, <1>2, <1>8, <2>1, <2>2, <2>3, <2>4, <2>5, Put2, Put2Args, PopFits
  <2>7. Simple(This', Beneath(stack)')
    BY <1>1, <1>2, <1>3, <1>5, <1>8, <2>2, <2>3, <2>6, <2>1 DEF Simple, Ordinary, Suits,
       Connecting
  <2> QED  BY <1>1, <1>2, <1>3, <1>5, <1>8, <2>2, <2>3, <2>6, <2>1, <2>7, GoesOn DEF
              Quieter, Still
<1> QED  BY <1>6, <1>7, <1>8

\* The type is set, and the command of the transfer given.
LEMMA OpenTells == ASSUME Typed, Shape, Owed, Told, "copy" \notin opt.ops, Open PROVE Told'
<1>1. stack # <<>> /\ Top.at \in {"type", "typed", "prelim"} /\ Chain(stack) /\ Args(stack)
  BY DEF Open, Now, Top, Shape, Told
<1>2. /\ Top \in Frames /\ Fits(Top, Beneath(stack)) /\ This = Top
      /\ Suits(Top, Below(stack), Lowest(stack)) /\ Below(stack).at = Beneath(stack)
      /\ Lowest(stack).at = Bottom(stack) /\ (Beneath(stack) = "-" => Lowest(stack) = Top)
  BY <1>1, Running, ArgsHere
<1>3. /\ Still
      /\ report' = report
  BY DEF Open, remote, handles, Rest, Still
<1>4. \/ /\ stack' = Tail(stack) /\ ret' = -1 /\ sup' = sup
         /\ Top.at = "typed" => ret # COMPLETE
         /\ Top.at = "prelim" => ret # PRELIM
      \/ /\ Top.at = "type" /\ sup' = sup /\ sup.binary = Top.wait
         /\ stack' = <<Command(Top.arg), Frame("prelim")>> \o Tail(stack)
      \/ /\ Top.at = "type" /\ sup' = sup
         /\ stack' = <<Command(Type(Top.wait)), [Top EXCEPT !.at = "typed"]>> \o Tail(stack)
      \/ /\ Top.at = "typed" /\ ret = COMPLETE /\ sup' = [sup EXCEPT !.binary = Top.wait]
         /\ stack' = <<Command(Top.arg), Frame("prelim")>> \o Tail(stack)
      \/ stack' = Tail(stack) /\ Top.at = "prelim" /\ ret = PRELIM /\ ret' = 1 /\ sup' = sup
  BY DEF Open, Now, Top, Then, Return, PRELIM, COMPLETE
<1>5. CASE /\ stack' = Tail(stack) /\ ret' = -1 /\ sup' = sup
           /\ Top.at = "typed" => ret # COMPLETE
           /\ Top.at = "prelim" => ret # PRELIM
  <2>1. Below(stack).at \in {"started", "listing", "storing"}
    BY <1>1, <1>2, <1>3, <1>5 DEF Fits
  <2>2. /\ Args(stack') /\ This' = Below(stack) /\ stack' # <<>>
        /\ Lowest(stack') = Lowest(stack) /\ Bottom(stack') = Bottom(stack)
    BY <1>1, <1>2, <1>5, <2>1, Popped, PoppedArgs
  <2>3. SockUp' /\ NewSession' /\ Chdirs' /\ Reported' /\ Unsent'
    BY <1>1, <1>2, <1>3, <1>5, <2>1, <2>2 DEF Told, SockUp, Unsent, NewSession, Chdirs,
       Reported, LoggingIn, Greeting, Waiting, Is, Still, Suits, Connecting, Operations
  <2>4. ~late' => Prelims' /\ Replies1' /\ Listing' /\ Storage'
    BY <1>1, <1>2, <1>3, <1>5, <2>1, <2>2, NoPrelim, StillSame DEF Told, Prelims, Replies1,
       Listing, SameDir, Storage, Waiting, Is, Still, Greeting, LoggingIn
  <2>5. ~late' /\ net'.up => CmdIs' /\ Server1' /\ Session'
    BY <1>1, <1>2, <1>3, <1>5, <2>1, <2>2, StillSame DEF Told, CmdIs, Server1, Session,
       LoggingIn, Greeting, Waiting, Is, Still, Elsewhere, Rejoining, SameDir, SameType,
       Sending
  <2> QED  BY <2>2, <2>3, <2>4, <2>5 DEF Told
<1>6. CASE /\ Top.at = "type" /\ sup' = sup /\ sup.binary = Top.wait
           /\ stack' = <<Command(Top.arg), Frame("prelim")>> \o Tail(stack)
  <2> DEFINE f == Command(Top.arg)
             g == Frame("prelim")
  <2>1. Beneath(stack) # "-" /\ Top.arg \in Transfers /\ Top.wait \in {"yes", "no"}
    BY <1>1, <1>2, <1>3, <1>6 DEF Fits
  <2>2. /\ f \in Frames /\ f.at = "command" /\ f.arg = Top.arg /\ f.wait = "reply"
        /\ g \in Frames /\ g.at = "prelim"
    BY <1>1, <1>2, <1>6, <2>1 DEF Frame, With, Command, CommandOnly, CommandString,
       GetReply, Frames, Commands, Transfers, Places
  <2>3. stack' = <<f, g>> \o Tail(stack)
    BY <1>6
  <2> HIDE DEF f, g
  <2>4. /\ Fits(g, Beneath(stack)) /\ Fits(f, g.at) /\ Lowest1(g) = Lowest(stack)
        /\ Suits(g, Below(stack), Lowest(stack)) /\ Suits(f, g, Lowest(stack))
    BY <1>1, <1>2, <1>6, <2>1, <2>2, PopFits DEF Fits, Suits, Lowest1, Sending, Connecting,
       Operations, Awaits, Places, Transfers
  <2>5. /\ Args(stack') /\ This' = f /\ stack' # <<>> /\ Lowest(stack') = Lowest(stack)
        /\ Bottom(stack') = Bottom(stack) /\ Beneath(stack') = g.at
    BY <1>1, <1>2, <1>6, <2>1, <2>2, <2>3, <2>4, Put2, Put2Args, PopFits
  <2>6. SockUp' /\ NewSession' /\ Chdirs' /\ Reported' /\ Unsent'
    BY <1>1, <1>2, <1>3, <1>6, <2>2, <2>5, <2>1 DEF Told, SockUp, Unsent, NewSession,
       Chdirs, Reported, LoggingIn, Greeting, Waiting, Is, Still, Suits, Connecting,
       Operations, Transfers
  <2>7. ~late' => Prelims' /\ Replies1'
    BY <1>1, <1>2, <1>3, <1>6, <2>2, <2>5, <2>1, NoPrelim, StillSame DEF Told, Prelims,
       Replies1, Waiting, Is, Still, Greeting, LoggingIn, Transfers
  <2>8. ~late' => Listing'
    BY <1>1, <1>2, <1>3, <1>6, <2>2, <2>5, <2>1, NoPrelim, StillSame DEF Told, Listing,
       SameDir, Waiting, Is, Still, Transfers
  <2>9. ~late' => Storage'
    BY <1>1, <1>2, <1>3, <1>6, <2>2, <2>5, <2>1, NoPrelim, StillSame DEF Told, Storage,
       Waiting, Is, Still, Transfers
  <2>10. ~late' /\ net'.up => CmdIs' /\ Server1' /\ Session'
    BY <1>1, <1>2, <1>3, <1>6, <2>2, <2>5, <2>1, StillSame DEF Told, CmdIs, Server1,
       Session, LoggingIn, Greeting, Waiting, Is, Still, Elsewhere, Rejoining, SameDir,
       SameType, Sending, Transfers, Suits
  <2> QED  BY <2>5, <2>6, <2>7, <2>8, <2>9, <2>10 DEF Told
<1>7. CASE /\ Top.at = "type" /\ sup' = sup
           /\ stack' = <<Command(Type(Top.wait)), [Top EXCEPT !.at = "typed"]>> \o Tail(stack)
  <2> DEFINE f == Command(Type(Top.wait))
             g == [Top EXCEPT !.at = "typed"]
  <2>1. Beneath(stack) # "-" /\ Top.arg \in Transfers /\ Top.wait \in {"yes", "no"} /\ Type(Top.wait) \in {"TYPE I", "TYPE A"}
    BY <1>1, <1>2, <1>3, <1>7 DEF Fits, Type
  <2>2. /\ f \in Frames /\ f.at = "command" /\ f.arg = Type(Top.wait) /\ f.wait = "reply" /\ f.arg \in {"TYPE I", "TYPE A"}
        /\ g \in Frames /\ g.at = "typed" /\ g.arg = Top.arg /\ g.wait = Top.wait
    BY <1>1, <1>2, <1>7, <2>1 DEF Frame, With, Command, CommandOnly, CommandString,
       GetReply, Frames, Commands, Transfers, Places
  <2>3. stack' = <<f, g>> \o Tail(stack)
    BY <1>7
  <2> HIDE DEF f, g
  <2>4. /\ Fits(g, Beneath(stack)) /\ Fits(f, g.at) /\ Lowest1(g) = Lowest(stack)
        /\ Suits(g, Below(stack), Lowest(stack)) /\ Suits(f, g, Lowest(stack))
    BY <1>1, <1>2, <1>7, <2>1, <2>2, PopFits DEF Fits, Suits, Lowest1, Sending, Connecting,
       Operations, Awaits, Places, Transfers
  <2>5. /\ Args(stack') /\ This' = f /\ stack' # <<>> /\ Lowest(stack') = Lowest(stack)
        /\ Bottom(stack') = Bottom(stack) /\ Beneath(stack') = g.at
    BY <1>1, <1>2, <1>7, <2>1, <2>2, <2>3, <2>4, Put2, Put2Args, PopFits
  <2>6. SockUp' /\ NewSession' /\ Chdirs' /\ Reported' /\ Unsent'
    BY <1>1, <1>2, <1>3, <1>7, <2>2, <2>5, <2>1 DEF Told, SockUp, Unsent, NewSession,
       Chdirs, Reported, LoggingIn, Greeting, Waiting, Is, Still, Suits, Connecting, Operations
  <2>7. ~late' => Prelims' /\ Replies1' /\ Listing' /\ Storage'
    BY <1>1, <1>2, <1>3, <1>7, <2>2, <2>5, <2>1, NoPrelim, StillSame DEF Told, Prelims,
       Replies1, Listing, SameDir, Storage, Waiting, Is, Still, Greeting, LoggingIn
  <2>8. ~late' /\ net'.up => CmdIs' /\ Server1' /\ Session'
    BY <1>1, <1>2, <1>3, <1>7, <2>2, <2>5, <2>1, StillSame DEF Told, CmdIs, Server1,
       Session, LoggingIn, Greeting, Waiting, Is, Still, Elsewhere, Rejoining, SameDir,
       SameType, Sending
  <2> QED  BY <2>5, <2>6, <2>7, <2>8 DEF Told
<1>8. CASE /\ Top.at = "typed" /\ ret = COMPLETE /\ sup' = [sup EXCEPT !.binary = Top.wait]
           /\ stack' = <<Command(Top.arg), Frame("prelim")>> \o Tail(stack)
  <2> DEFINE f == Command(Top.arg)
             g == Frame("prelim")
  <2>1. Beneath(stack) # "-" /\ Top.arg \in Transfers /\ Top.wait \in {"yes", "no"}
    BY <1>1, <1>2, <1>3, <1>8 DEF Fits
  <2>2. /\ f \in Frames /\ f.at = "command" /\ f.arg = Top.arg /\ f.wait = "reply"
        /\ g \in Frames /\ g.at = "prelim"
    BY <1>1, <1>2, <1>8, <2>1 DEF Frame, With, Command, CommandOnly, CommandString,
       GetReply, Frames, Commands, Transfers, Places
  <2>3. stack' = <<f, g>> \o Tail(stack)
    BY <1>8
  <2> HIDE DEF f, g
  <2>4. /\ Fits(g, Beneath(stack)) /\ Fits(f, g.at) /\ Lowest1(g) = Lowest(stack)
        /\ Suits(g, Below(stack), Lowest(stack)) /\ Suits(f, g, Lowest(stack))
    BY <1>1, <1>2, <1>8, <2>1, <2>2, PopFits DEF Fits, Suits, Lowest1, Sending, Connecting,
       Operations, Awaits, Places, Transfers
  <2>5. /\ Args(stack') /\ This' = f /\ stack' # <<>> /\ Lowest(stack') = Lowest(stack)
        /\ Bottom(stack') = Bottom(stack) /\ Beneath(stack') = g.at
    BY <1>1, <1>2, <1>8, <2>1, <2>2, <2>3, <2>4, Put2, Put2Args, PopFits
  <2>6. sup'.sock = sup.sock /\ sup'.binary = Top.wait /\ sup'.cwd = sup.cwd
    BY <1>1, <1>2, <1>3, <1>8 DEF Typed, Sup, Fits
  <2>7. SockUp' /\ NewSession' /\ Chdirs' /\ Reported' /\ Unsent'
    BY <1>1, <1>2, <1>3, <1>8, <2>2, <2>5, <2>1, <2>6 DEF Told, SockUp, Unsent, NewSession,
       Chdirs, Reported, LoggingIn, Greeting, Waiting, Is, Still, Suits, Connecting,
       Operations, Transfers
  <2>8. ~late' => Prelims' /\ Replies1'
    BY <1>1, <1>2, <1>3, <1>8, <2>2, <2>5, <2>1, <2>6, NoPrelim, StillSame DEF Told,
       Prelims, Replies1, Waiting, Is, Still, Greeting, LoggingIn, Transfers
  <2>9. ~late' => Listing'
    BY <1>1, <1>2, <1>3, <1>8, <2>2, <2>5, <2>1, <2>6, NoPrelim, StillSame DEF Told,
       Listing, SameDir, Waiting, Is, Still, Transfers
  <2>10. ~late' => Storage'
    BY <1>1, <1>2, <1>3, <1>8, <2>2, <2>5, <2>1, <2>6, NoPrelim, StillSame DEF Told,
       Storage, Waiting, Is, Still, Transfers
  <2>11. ~late' /\ net'.up => CmdIs'
    BY <1>1, <1>2, <1>3, <1>8, <2>2, <2>5, <2>1, <2>6 DEF Told, Still, CmdIs
  <2>12. ~late' /\ net'.up => Server1'
    BY <1>1, <1>2, <1>3, <1>8, <2>2, <2>5, <2>1, <2>6, StillSame DEF Told, Server1,
       LoggingIn, Greeting, Waiting, Is, Still, Elsewhere, Rejoining, Sending, Transfers,
       Suits, Session, SameType
  <2>13. ~late' /\ net'.up => Session'
    BY <1>1, <1>2, <1>3, <1>8, <2>2, <2>5, <2>1, <2>6, StillSame DEF Told, Server1, Session,
       LoggingIn, Greeting, Waiting, Is, Still, SameDir, SameType, Transfers, Suits, Session,
       SameType
  <2> QED  BY <2>5, <2>7, <2>8, <2>9, <2>10, <2>11, <2>12, <2>13 DEF Told
<1>9. CASE stack' = Tail(stack) /\ Top.at = "prelim" /\ ret = PRELIM /\ ret' = 1 /\ sup' = sup
  <2>1. Below(stack).at \in {"started", "listing", "storing"}
    BY <1>1, <1>2, <1>3, <1>9 DEF Fits
  <2>2. /\ Args(stack') /\ This' = Below(stack) /\ stack' # <<>>
        /\ Lowest(stack') = Lowest(stack) /\ Bottom(stack') = Bottom(stack)
    BY <1>1, <1>2, <1>9, <2>1, Popped, PoppedArgs
  <2>3. SockUp' /\ NewSession' /\ Chdirs' /\ Reported' /\ Unsent'
    BY <1>1, <1>2, <1>3, <1>9, <2>1, <2>2 DEF Told, SockUp, Unsent, NewSession, Chdirs,
       Reported, LoggingIn, Greeting, Waiting, Is, Still, Suits, Connecting, Operations
  <2>4. ~late' => Prelims' /\ Replies1'
    BY <1>1, <1>2, <1>3, <1>9, <2>1, <2>2, NoPrelim, StillSame, LastCall DEF Told, Prelims,
       Replies1, Waiting, Is, Still, Greeting, LoggingIn, PRELIM
  <2>5. ~late' => Listing'
    BY <1>1, <1>2, <1>3, <1>9, <2>1, <2>2, NoPrelim, StillSame, LastCall DEF Told, Listing,
       SameDir, Waiting, Is, Still, PRELIM
  <2>6. ~late' => Storage'
    BY <1>1, <1>2, <1>3, <1>9, <2>1, <2>2, NoPrelim, StillSame, LastCall DEF Told, Storage,
       Waiting, Is, Still, PRELIM
  <2>7. ~late' /\ net'.up => CmdIs' /\ Server1' /\ Session'
    BY <1>1, <1>2, <1>3, <1>9, <2>1, <2>2, StillSame DEF Told, CmdIs, Server1, Session,
       LoggingIn, Greeting, Waiting, Is, Still, Elsewhere, Rejoining, SameDir, SameType,
       Sending
  <2> QED  BY <2>2, <2>3, <2>4, <2>5, <2>6, <2>7 DEF Told
<1> QED  BY <1>4, <1>5, <1>6, <1>7, <1>8, <1>9

\* A reply is left behind.
LEMMA NotAcceptedTells ==
  ASSUME Typed, Shape, Owed, Told, "copy" \notin opt.ops, NotAccepted
  PROVE  Told'
<1>1. stack # <<>> /\ Top.at = "prelim" /\ Chain(stack) /\ Args(stack)
  BY DEF NotAccepted, Now, Top, Shape, Told
<1>2. /\ Top \in Frames /\ Fits(Top, Beneath(stack)) /\ This = Top
      /\ Suits(Top, Below(stack), Lowest(stack)) /\ Below(stack).at = Beneath(stack)
      /\ Lowest(stack).at = Bottom(stack) /\ (Beneath(stack) = "-" => Lowest(stack) = Top)
  BY <1>1, Running, ArgsHere
<1>3. /\ net' = net /\ sup' = sup /\ late' = TRUE /\ report' = report /\ put' = put
      /\ stack' = Tail(stack)
  BY DEF NotAccepted, remote, handles, Rest, Return, PRELIM
<1>4. \/ stack' = Tail(stack)
  BY <1>3
<1>5. CASE stack' = Tail(stack)
  <2>1. Below(stack).at \in {"started", "listing", "storing"}
    BY <1>1, <1>2, <1>3, <1>5 DEF Fits
  <2>2. /\ Args(stack') /\ This' = Below(stack) /\ stack' # <<>>
        /\ Lowest(stack') = Lowest(stack) /\ Bottom(stack') = Bottom(stack)
    BY <1>1, <1>2, <1>5, <2>1, Popped, PoppedArgs
  <2>3. SockUp' /\ NewSession' /\ Chdirs' /\ Reported' /\ Unsent'
    BY <1>1, <1>2, <1>3, <1>5, <2>1, <2>2 DEF Told, SockUp, Unsent, NewSession, Chdirs,
       Reported, LoggingIn, Greeting, Waiting, Is, Still, Suits, Connecting, Operations
  <2>4. ~late' => Prelims' /\ Replies1' /\ Listing' /\ Storage'
    BY <1>1, <1>2, <1>3, <1>5, <2>1, <2>2, NoPrelim, StillSame DEF Told, Prelims, Replies1,
       Listing, SameDir, Storage, Waiting, Is, Still, Greeting, LoggingIn
  <2>5. ~late' /\ net'.up => CmdIs' /\ Server1' /\ Session'
    BY <1>1, <1>2, <1>3, <1>5, <2>1, <2>2, StillSame DEF Told, CmdIs, Server1, Session,
       LoggingIn, Greeting, Waiting, Is, Still, Elsewhere, Rejoining, SameDir, SameType,
       Sending
  <2> QED  BY <2>2, <2>3, <2>4, <2>5 DEF Told
<1> QED  BY <1>4, <1>5

\* So it is when the user does not wait for it ...
LEMMA ReplyInterruptedTells ==
  ASSUME Typed, Shape, Owed, Told, "copy" \notin opt.ops, ReplyInterrupted
  PROVE  Told'
<1>1. stack # <<>> /\ Top.at = "reply" /\ Chain(stack) /\ Args(stack)
  BY DEF ReplyInterrupted, Now, Top, Shape, Told
<1>2. /\ Top \in Frames /\ Fits(Top, Beneath(stack)) /\ This = Top
      /\ Suits(Top, Below(stack), Lowest(stack)) /\ Below(stack).at = Beneath(stack)
      /\ Lowest(stack).at = Bottom(stack) /\ (Beneath(stack) = "-" => Lowest(stack) = Top)
  BY <1>1, Running, ArgsHere
<1>3. /\ net' = net /\ late' = TRUE /\ report' = report /\ put' = put /\ file' = file
      /\ stack' = Tail(stack) /\ ret' # 1
  BY DEF ReplyInterrupted, remote, handles, Rest, Return, TRANSIENT
<1>4. sup'.sock = sup.sock /\ sup'.cwd = sup.cwd
  BY SupUnread DEF ReplyInterrupted, Typed
<1>5. Below(stack).at \in {"ended"}
  BY <1>1, <1>2 DEF Fits, ReplyInterrupted, Beneath, Caller, Frame
<1>6. /\ Args(stack') /\ This' = Below(stack) /\ stack' # <<>>
      /\ Lowest(stack') = Lowest(stack) /\ Bottom(stack') = Bottom(stack)
  BY <1>1, <1>2, <1>3, <1>5, Popped, PoppedArgs
<1>7. SockUp' /\ NewSession' /\ Chdirs' /\ Reported' /\ Unsent'
  BY <1>1, <1>2, <1>3, <1>4, <1>5, <1>6 DEF Told, SockUp, Unsent, NewSession, Chdirs,
     Reported, LoggingIn, Greeting, Waiting, Is, Suits, Connecting, Operations
<1> QED  BY <1>3, <1>6, <1>7 DEF Told

\* ... or has no password.
LEMMA NoPasswordTells ==
  ASSUME Typed, Shape, Owed, Told, "copy" \notin opt.ops, NoPassword
  PROVE  Told'
<1>1. stack # <<>> /\ Top.at = "login" /\ Chain(stack) /\ Args(stack)
  BY DEF NoPassword, Now, Top, Shape, Told
<1>2. /\ Top \in Frames /\ Fits(Top, Beneath(stack)) /\ This = Top
      /\ Suits(Top, Below(stack), Lowest(stack)) /\ Below(stack).at = Beneath(stack)
      /\ Lowest(stack).at = Bottom(stack) /\ (Beneath(stack) = "-" => Lowest(stack) = Top)
  BY <1>1, Running, ArgsHere
<1>3. /\ net' = net /\ late' = TRUE /\ report' = report /\ put' = put /\ file' = file
      /\ stack' = Tail(stack) /\ ret' # 1
  BY DEF NoPassword, remote, handles, Rest, Return, TRANSIENT
<1>4. sup'.sock = sup.sock /\ sup'.cwd = sup.cwd
  BY SupBinary DEF NoPassword, Typed
<1>5. Below(stack).at \in {"relogged", "connected"}
  BY <1>1, <1>2 DEF Fits, NoPassword, Beneath, Caller, Frame
<1>6. /\ Args(stack') /\ This' = Below(stack) /\ stack' # <<>>
      /\ Lowest(stack') = Lowest(stack) /\ Bottom(stack') = Bottom(stack)
  BY <1>1, <1>2, <1>3, <1>5, Popped, PoppedArgs
<1>7. SockUp' /\ NewSession' /\ Chdirs' /\ Reported' /\ Unsent'
  BY <1>1, <1>2, <1>3, <1>4, <1>5, <1>6 DEF Told, SockUp, Unsent, NewSession, Chdirs,
     Reported, LoggingIn, Greeting, Waiting, Is, Suits, Connecting, Operations
<1> QED  BY <1>3, <1>6, <1>7 DEF Told

\* The second reply to ABOR is read if the first one was that of the transfer.
LEMMA AbortedTells == ASSUME Typed, Shape, Owed, Told, "copy" \notin opt.ops, Aborted PROVE Told'
<1>1. stack # <<>> /\ Top.at = "aborted" /\ Chain(stack) /\ Args(stack)
  BY DEF Aborted, Now, Top, Shape, Told
<1>2. /\ Top \in Frames /\ Fits(Top, Beneath(stack)) /\ This = Top
      /\ Suits(Top, Below(stack), Lowest(stack)) /\ Below(stack).at = Beneath(stack)
      /\ Lowest(stack).at = Bottom(stack) /\ (Beneath(stack) = "-" => Lowest(stack) = Top)
  BY <1>1, Running, ArgsHere
<1>3. /\ net' = net /\ srv' = srv /\ sup' = sup /\ opt' = opt /\ report' = report /\ put' = put
      /\ (late => late')
  BY DEF Aborted, remote, handles, Rest
<1>4. Quieter
  BY <1>3 DEF Quieter
<1>5. Tail(stack) \in Seq(Frames)
  BY <1>1, TopFits
<1>6. <<>> \o Tail(stack) = Tail(stack)
  BY <1>5
<1>7. \/ stack' = Tail(stack)
      \/ stack' = <<GetReply>> \o Tail(stack)
  BY <1>6 DEF Aborted
<1>8. CASE stack' = Tail(stack)
  <2>1. Below(stack).at \in {"fail", "closeread"}
    BY <1>1, <1>2, <1>3, <1>4, <1>8 DEF Fits
  <2>2. /\ Args(stack') /\ This' = Below(stack) /\ stack' # <<>>
        /\ Lowest(stack') = Lowest(stack) /\ Bottom(stack') = Bottom(stack)
    BY <1>1, <1>2, <1>8, <2>1, Popped, PoppedArgs
  <2>3. Simple(This', Beneath(stack)')
    BY <1>1, <1>2, <1>3, <1>4, <1>8, <2>1, <2>2 DEF Simple, Ordinary, Suits, Connecting
  <2> QED  BY <1>1, <1>2, <1>3, <1>4, <1>8, <2>1, <2>2, <2>3, GoesOn DEF Quieter, Still
<1>9. CASE stack' = <<GetReply>> \o Tail(stack)
  <2> DEFINE f == GetReply
  <2>1. Beneath(stack) # "-" /\ Beneath(stack) \in {"fail", "closeread"}
    BY <1>1, <1>2, <1>3, <1>4, <1>9 DEF Fits
  <2>2. f \in Frames /\ f.at = "reply" /\ f.arg = "-" /\ f.wait = "-"
    BY <1>1, <1>2, <1>9, <2>1 DEF Frame, With, Command, CommandOnly, CommandString,
       GetReply, Frames, Commands, Transfers, Places
  <2>3. stack' = <<f>> \o Tail(stack)
    BY <1>9
  <2> HIDE DEF f
  <2>4. /\ Fits(f, Beneath(stack)) /\ Lowest1(f) = Lowest(stack) /\ Suits(f, Below(stack), Lowest(stack))
    BY <1>1, <1>2, <1>9, <2>1, <2>2, PopFits DEF Fits, Suits, Lowest1, Sending, Connecting,
       Operations, Awaits, Places, Transfers
  <2>5. /\ Args(stack') /\ This' = f /\ stack' # <<>> /\ Lowest(stack') = Lowest(stack)
        /\ Bottom(stack') = Bottom(stack) /\ Beneath(stack') = Beneath(stack)
    BY <1>1, <1>2, <1>9, <2>1, <2>2, <2>3, <2>4, Put1, Put1Args, PopFits
  <2>6. Simple(This', Beneath(stack)')
    BY <1>1, <1>2, <1>3, <1>4, <1>9, <2>2, <2>5, <2>1 DEF Simple, Ordinary, Suits,
       Connecting
  <2> QED  BY <1>1, <1>2, <1>3, <1>4, <1>9, <2>2, <2>5, <2>1, <2>6, GoesOn DEF Quieter,
              Still
<1> QED  BY <1>7, <1>8, <1>9

\* A piece or an error is followed by another read, or by the end.
LEMMA GotTells == ASSUME Typed, Shape, Owed, Told, "copy" \notin opt.ops, Got PROVE Told'
<1>1. stack # <<>> /\ Top.at = "got" /\ Chain(stack) /\ Args(stack)
  BY DEF Got, Now, Top, Shape, Told
<1>2. /\ Top \in Frames /\ Fits(Top, Beneath(stack)) /\ This = Top
      /\ Suits(Top, Below(stack), Lowest(stack)) /\ Below(stack).at = Beneath(stack)
      /\ Lowest(stack).at = Bottom(stack) /\ (Beneath(stack) = "-" => Lowest(stack) = Top)
  BY <1>1, Running, ArgsHere
<1>3. /\ Still
      /\ report' = report
  BY DEF Got, remote, handles, Rest, Still
<1>4. \/ stack' = Tail(stack) /\ sup' = sup
      \/ stack' = <<Frame("read"), Top>> \o Tail(stack) /\ sup' = sup
  BY DEF Got, Now, Top, Then, Return
<1>5. CASE stack' = Tail(stack) /\ sup' = sup
  <2>1. Below(stack).at = "closeread"
    BY <1>1, <1>2, <1>3, <1>5 DEF Fits
  <2>2. /\ Args(stack') /\ This' = Below(stack) /\ stack' # <<>>
        /\ Lowest(stack') = Lowest(stack) /\ Bottom(stack') = Bottom(stack)
    BY <1>1, <1>2, <1>5, <2>1, Popped, PoppedArgs
  <2>3. Simple(This', Beneath(stack)')
    BY <1>1, <1>2, <1>3, <1>5, <2>1, <2>2 DEF Simple, Ordinary, Suits, Connecting
  <2> QED  BY <1>1, <1>2, <1>3, <1>5, <2>1, <2>2, <2>3, GoesOn DEF Quieter, Still
<1>6. CASE stack' = <<Frame("read"), Top>> \o Tail(stack) /\ sup' = sup
  <2> DEFINE f == Frame("read")
             g == Top
  <2>1. Beneath(stack) # "-"
    BY <1>1, <1>2, <1>3, <1>6 DEF Fits
  <2>2. /\ f \in Frames /\ f.at = "read"
        /\ g \in Frames /\ g.at = "got"
    BY <1>1, <1>2, <1>6, <2>1 DEF Frame, With, Command, CommandOnly, CommandString,
       GetReply, Frames, Commands, Transfers, Places
  <2>3. stack' = <<f, g>> \o Tail(stack)
    BY <1>6
  <2> HIDE DEF f, g
  <2>4. /\ Fits(g, Beneath(stack)) /\ Fits(f, g.at) /\ Lowest1(g) = Lowest(stack)
        /\ Suits(g, Below(stack), Lowest(stack)) /\ Suits(f, g, Lowest(stack))
    BY <1>1, <1>2, <1>6, <2>1, <2>2, PopFits DEF Fits, Suits, Lowest1, Sending, Connecting,
       Operations, Awaits, Places, Transfers
  <2>5. /\ Args(stack') /\ This' = f /\ stack' # <<>> /\ Lowest(stack') = Lowest(stack)
        /\ Bottom(stack') = Bottom(stack) /\ Beneath(stack') = g.at
    BY <1>1, <1>2, <1>6, <2>1, <2>2, <2>3, <2>4, Put2, Put2Args, PopFits
  <2>6. Simple(This', Beneath(stack)')
    BY <1>1, <1>2, <1>3, <1>6, <2>2, <2>5, <2>1 DEF Simple, Ordinary, Suits, Connecting
  <2> QED  BY <1>1, <1>2, <1>3, <1>6, <2>2, <2>5, <2>1, <2>6, GoesOn DEF Quieter, Still
<1> QED  BY <1>4, <1>5, <1>6

\* A transfer is aborted.
LEMMA AbortTells == ASSUME Typed, Shape, Owed, Told, "copy" \notin opt.ops, Abort PROVE Told'
<1>1. stack # <<>> /\ Top.at = "abort" /\ Chain(stack) /\ Args(stack)
  BY DEF Abort, Now, Top, Shape, Told
<1>2. /\ Top \in Frames /\ Fits(Top, Beneath(stack)) /\ This = Top
      /\ Suits(Top, Below(stack), Lowest(stack)) /\ Below(stack).at = Beneath(stack)
      /\ Lowest(stack).at = Bottom(stack) /\ (Beneath(stack) = "-" => Lowest(stack) = Top)
  BY <1>1, Running, ArgsHere
<1>3. /\ srv' = srv /\ late' = late /\ opt' = opt /\ report' = report /\ put' = put
      /\ sup' = [sup EXCEPT !.busy = FALSE]
      /\ net' \in {net, [net EXCEPT !.reset = ~net.up]}
  BY DEF Abort, remote, handles, Rest
<1>4. Quieter
  BY <1>3 DEF Quieter, Typed, Sup, Net
<1>5. \/ stack' = Tail(stack)
      \/ stack' = <<CommandOnly("ABOR"), With("aborting", rd)>> \o Tail(stack)
  BY DEF Abort
<1>6. CASE stack' = Tail(stack)
  <2>1. Below(stack).at \in {"fail", "closeread"}
    BY <1>1, <1>2, <1>3, <1>4, <1>6 DEF Fits
  <2>2. /\ Args(stack') /\ This' = Below(stack) /\ stack' # <<>>
        /\ Lowest(stack') = Lowest(stack) /\ Bottom(stack') = Bottom(stack)
    BY <1>1, <1>2, <1>6, <2>1, Popped, PoppedArgs
  <2>3. Simple(This', Beneath(stack)')
    BY <1>1, <1>2, <1>3, <1>4, <1>6, <2>1, <2>2 DEF Simple, Ordinary, Suits, Connecting
  <2> QED  BY <1>1, <1>2, <1>3, <1>4, <1>6, <2>1, <2>2, <2>3, GoesOn DEF Quieter, Still
<1>7. CASE stack' = <<CommandOnly("ABOR"), With("aborting", rd)>> \o Tail(stack)
  <2> DEFINE f == CommandOnly("ABOR")
             g == With("aborting", rd)
  <2>1. Beneath(stack) # "-" /\ rd \in {"none", "preopen", "open", "dead"}
    BY <1>1, <1>2, <1>3, <1>4, <1>7 DEF Fits, Typed
  <2>2. /\ f \in Frames /\ f.at = "command" /\ f.arg = "ABOR" /\ f.wait = "none"
        /\ g \in Frames /\ g.at = "aborting"
    BY <1>1, <1>2, <1>7, <2>1 DEF Frame, With, Command, CommandOnly, CommandString,
       GetReply, Frames, Commands, Transfers, Places
  <2>3. stack' = <<f, g>> \o Tail(stack)
    BY <1>7
  <2> HIDE DEF f, g
  <2>4. /\ Fits(g, Beneath(stack)) /\ Fits(f, g.at) /\ Lowest1(g) = Lowest(stack)
        /\ Suits(g, Below(stack), Lowest(stack)) /\ Suits(f, g, Lowest(stack))
    BY <1>1, <1>2, <1>7, <2>1, <2>2, PopFits DEF Fits, Suits, Lowest1, Sending, Connecting,
       Operations, Awaits, Places, Transfers
  <2>5. /\ Args(stack') /\ This' = f /\ stack' # <<>> /\ Lowest(stack') = Lowest(stack)
        /\ Bottom(stack') = Bottom(stack) /\ Beneath(stack') = g.at
    BY <1>1, <1>2, <1>7, <2>1, <2>2, <2>3, <2>4, Put2, Put2Args, PopFits
  <2>6. Simple(This', Beneath(stack)')
    BY <1>1, <1>2, <1>3, <1>4, <1>7, <2>2, <2>5, <2>1 DEF Simple, Ordinary, Suits,
       Connecting
  <2> QED  BY <1>1, <1>2, <1>3, <1>4, <1>7, <2>2, <2>5, <2>1, <2>6, GoesOn DEF Quieter,
              Still
<1> QED  BY <1>5, <1>6, <1>7

\* ... until the data that are still coming have been thrown away.
LEMMA AbortingTells ==
  ASSUME Typed, Shape, Owed, Told, "copy" \notin opt.ops, Aborting
  PROVE  Told'
<1>1. stack # <<>> /\ Top.at = "aborting" /\ Chain(stack) /\ Args(stack)
  BY DEF Aborting, Now, Top, Shape, Told
<1>2. /\ Top \in Frames /\ Fits(Top, Beneath(stack)) /\ This = Top
      /\ Suits(Top, Below(stack), Lowest(stack)) /\ Below(stack).at = Beneath(stack)
      /\ Lowest(stack).at = Bottom(stack) /\ (Beneath(stack) = "-" => Lowest(stack) = Top)
  BY <1>1, Running, ArgsHere
<1>3. net' = net /\ srv' = srv /\ late' = late /\ opt' = opt /\ report' = report /\ put' = put /\ sup' = sup
  BY DEF Aborting, remote, handles, Rest
<1>4. Quieter
  BY <1>3 DEF Quieter
<1>5. \/ stack' = Tail(stack)
      \/ stack' = <<GetReply, Frame("aborted")>> \o Tail(stack)
      \/ stack' = <<Frame("reconnect")>> \o Tail(stack)
  BY DEF Aborting
<1>6. CASE stack' = Tail(stack)
  <2>1. Below(stack).at \in {"fail", "closeread"}
    BY <1>1, <1>2, <1>3, <1>4, <1>6 DEF Fits
  <2>2. /\ Args(stack') /\ This' = Below(stack) /\ stack' # <<>>
        /\ Lowest(stack') = Lowest(stack) /\ Bottom(stack') = Bottom(stack)
    BY <1>1, <1>2, <1>6, <2>1, Popped, PoppedArgs
  <2>3. Simple(This', Beneath(stack)')
    BY <1>1, <1>2, <1>3, <1>4, <1>6, <2>1, <2>2 DEF Simple, Ordinary, Suits, Connecting
  <2> QED  BY <1>1, <1>2, <1>3, <1>4, <1>6, <2>1, <2>2, <2>3, GoesOn DEF Quieter, Still
<1>7. CASE stack' = <<GetReply, Frame("aborted")>> \o Tail(stack)
  <2> DEFINE f == GetReply
             g == Frame("aborted")
  <2>1. Beneath(stack) # "-"
    BY <1>1, <1>2, <1>3, <1>4, <1>7 DEF Fits
  <2>2. /\ f \in Frames /\ f.at = "reply" /\ f.arg = "-" /\ f.wait = "-"
        /\ g \in Frames /\ g.at = "aborted"
    BY <1>1, <1>2, <1>7, <2>1 DEF Frame, With, Command, CommandOnly, CommandString,
       GetReply, Frames, Commands, Transfers, Places
  <2>3. stack' = <<f, g>> \o Tail(stack)
    BY <1>7
  <2> HIDE DEF f, g
  <2>4. /\ Fits(g, Beneath(stack)) /\ Fits(f, g.at) /\ Lowest1(g) = Lowest(stack)
        /\ Suits(g, Below(stack), Lowest(stack)) /\ Suits(f, g, Lowest(stack))
    BY <1>1, <1>2, <1>7, <2>1, <2>2, PopFits DEF Fits, Suits, Lowest1, Sending, Connecting,
       Operations, Awaits, Places, Transfers
  <2>5. /\ Args(stack') /\ This' = f /\ stack' # <<>> /\ Lowest(stack') = Lowest(stack)
        /\ Bottom(stack') = Bottom(stack) /\ Beneath(stack') = g.at
    BY <1>1, <1>2, <1>7, <2>1, <2>2, <2>3, <2>4, Put2, Put2Args, PopFits
  <2>6. Simple(This', Beneath(stack)')
    BY <1>1, <1>2, <1>3, <1>4, <1>7, <2>2, <2>5, <2>1 DEF Simple, Ordinary, Suits,
       Connecting
  <2> QED  BY <1>1, <1>2, <1>3, <1>4, <1>7, <2>2, <2>5, <2>1, <2>6, GoesOn DEF Quieter,
              Still
<1>8. CASE stack' = <<Frame("reconnect")>> \o Tail(stack)
  <2> DEFINE f == Frame("reconnect")
  <2>1. Beneath(stack) # "-" /\ Beneath(stack) \in {"fail", "closeread"}
    BY <1>1, <1>2, <1>3, <1>4, <1>8 DEF Fits
  <2>2. f \in Frames /\ f.at = "reconnect"
    BY <1>1, <1>2, <1>8, <2>1 DEF Frame, With, Command, CommandOnly, CommandString,
       GetReply, Frames, Commands, Transfers, Places
  <2>3. stack' = <<f>> \o Tail(stack)
    BY <1>8
  <2> HIDE DEF f
  <2>4. /\ Fits(f, Beneath(stack)) /\ Lowest1(f) = Lowest(stack) /\ Suits(f, Below(stack), Lowest(stack))
    BY <1>1, <1>2, <1>8, <2>1, <2>2, PopFits DEF Fits, Suits, Lowest1, Sending, Connecting,
       Operations, Awaits, Places, Transfers
  <2>5. /\ Args(stack') /\ This' = f /\ stack' # <<>> /\ Lowest(stack') = Lowest(stack)
        /\ Bottom(stack') = Bottom(stack) /\ Beneath(stack') = Beneath(stack)
    BY <1>1, <1>2, <1>8, <2>1, <2>2, <2>3, <2>4, Put1, Put1Args, PopFits
  <2>6. Simple(This', Beneath(stack)')
    BY <1>1, <1>2, <1>3, <1>4, <1>8, <2>2, <2>5, <2>1 DEF Simple, Ordinary, Suits,
       Connecting
  <2> QED  BY <1>1, <1>2, <1>3, <1>4, <1>8, <2>2, <2>5, <2>1, <2>6, GoesOn DEF Quieter,
              Still
<1> QED  BY <1>5, <1>6, <1>7, <1>8

\* A file is opened for reading.
LEMMA StartTells == ASSUME Typed, Shape, Owed, Told, "copy" \notin opt.ops, Start PROVE Told'
<1>1. stack # <<>> /\ Top.at \in {"start", "started"} /\ Chain(stack) /\ Args(stack)
  BY DEF Start, Now, Top, Shape, Told
<1>2. /\ Top \in Frames /\ Fits(Top, Beneath(stack)) /\ This = Top
      /\ Suits(Top, Below(stack), Lowest(stack)) /\ Below(stack).at = Beneath(stack)
      /\ Lowest(stack).at = Bottom(stack) /\ (Beneath(stack) = "-" => Lowest(stack) = Top)
  BY <1>1, Running, ArgsHere
<1>3. /\ Still
      /\ report' = report
  BY DEF Start, remote, handles, Rest, Still
<1>4. sup' = sup \/ sup' = [sup EXCEPT !.busy = TRUE]
  BY DEF Start
<1>5. sup'.sock = sup.sock /\ sup'.cwd = sup.cwd /\ sup'.binary = sup.binary
  BY <1>4 DEF Typed, Sup
<1>6. \/ /\ stack' = (DataConnection("RETR", "yes") \o <<Frame("started")>>) \o Tail(stack)
         /\ Top.at = "start"
      \/ stack' = Tail(stack)
  BY DEF Start, Now, Top, Then, Return
<1>7. CASE /\ stack' = (DataConnection("RETR", "yes") \o <<Frame("started")>>) \o Tail(stack)
           /\ Top.at = "start"
  <2> DEFINE i == Frame("started")
  <2>1. Beneath(stack) # "-" /\ Lowest(stack).at # "storing"
    BY <1>1, <1>2, <1>3, <1>5, <1>7, ReadsAbove DEF Fits
  <2>2. i \in Frames /\ i.at = "started"
    BY <1>1, <1>2, <1>7, <2>1 DEF Frame, Frames, Commands, Transfers, Places
  <2>3. stack' = (DataConnection("RETR", "yes") \o <<i>>) \o Tail(stack)
    BY <1>7
  <2> HIDE DEF i
  <2>4. Fits(i, Beneath(stack)) /\ Lowest1(i) = Lowest(stack) /\ Suits(i, Below(stack), Lowest(stack))
    BY <1>1, <1>2, <1>7, <2>1, <2>2, PopFits DEF Fits, Suits, Lowest1, Sending, Connecting,
       Operations, Places
  <2>5. /\ Chain(stack') /\ stack' # <<>> /\ This'.at = "command" /\ This'.arg \in {"PASV", "PORT"}
        /\ Bottom(stack') = Bottom(stack) /\ Beneath(stack') = "agreed"
    BY <1>1, <1>2, <1>7, <2>1, <2>2, <2>3, <2>4, PutTransfer, PopFits DEF This, Transfers
  <2>6. Args(stack') /\ Lowest(stack') = Lowest(stack)
    BY <1>1, <1>2, <1>7, <2>1, <2>2, <2>3, <2>4, PutTransferArgs DEF Transfers
  <2>7. Simple(This', Beneath(stack)')
    BY <1>1, <1>2, <1>3, <1>5, <1>7, <2>2, <2>6, <2>5, <2>1, ReadsAbove DEF Simple,
       Ordinary, Suits, Connecting
  <2> QED  BY <1>1, <1>2, <1>3, <1>5, <1>7, <2>2, <2>6, <2>5, <2>1, ReadsAbove, <2>7, GoesOn
              DEF Quieter, Still
<1>8. CASE stack' = Tail(stack)
  <2>1. Below(stack).at = "first"
    BY <1>1, <1>2, <1>3, <1>5, <1>8 DEF Fits
  <2>2. /\ Args(stack') /\ This' = Below(stack) /\ stack' # <<>>
        /\ Lowest(stack') = Lowest(stack) /\ Bottom(stack') = Bottom(stack)
    BY <1>1, <1>2, <1>8, <2>1, Popped, PoppedArgs
  <2>3. Simple(This', Beneath(stack)')
    BY <1>1, <1>2, <1>3, <1>5, <1>8, <2>1, <2>2 DEF Simple, Ordinary, Suits, Connecting
  <2> QED  BY <1>1, <1>2, <1>3, <1>5, <1>8, <2>1, <2>2, <2>3, GoesOn DEF Quieter, Still
<1> QED  BY <1>6, <1>7, <1>8

\* A file is read.
LEMMA ReadTells == ASSUME Typed, Shape, Owed, Told, "copy" \notin opt.ops, Read PROVE Told'
<1>1. stack # <<>> /\ Top.at \in {"read", "first", "ended", "fail"} /\ Chain(stack) /\ Args(stack)
  BY DEF Read, Now, Top, Shape, Told
<1>2. /\ Top \in Frames /\ Fits(Top, Beneath(stack)) /\ This = Top
      /\ Suits(Top, Below(stack), Lowest(stack)) /\ Below(stack).at = Beneath(stack)
      /\ Lowest(stack).at = Bottom(stack) /\ (Beneath(stack) = "-" => Lowest(stack) = Top)
  BY <1>1, Running, ArgsHere
<1>3. net' = net /\ srv' = srv /\ late' = late /\ opt' = opt /\ report' = report /\ put' = put
  BY DEF Read, remote, handles, Rest
<1>4. sup' = sup \/ sup' = [sup EXCEPT !.busy = FALSE]
  BY DEF Read
<1>5. Quieter
  BY <1>3, <1>4 DEF Quieter, Typed, Sup
<1>6. \/ /\ Top.at = "read"
         /\ stack' = <<Frame("start"), Frame("first")>> \o Tail(stack)
      \/ /\ Top.at = "first"
         /\ stack' = <<Frame("read")>> \o Tail(stack)
      \/ /\ Top.at = "read"
         /\ stack' = <<GetReply, Frame("ended")>> \o Tail(stack)
      \/ /\ Top.at = "read"
         /\ stack' = <<Frame("abort"), Frame("fail")>> \o Tail(stack)
      \/ stack' = Tail(stack)
  BY DEF Read, Now, Top, Then, Return
<1>7. CASE /\ Top.at = "read"
           /\ stack' = <<Frame("start"), Frame("first")>> \o Tail(stack)
  <2> DEFINE f == Frame("start")
             g == Frame("first")
  <2>1. Beneath(stack) # "-"
    BY <1>1, <1>2, <1>3, <1>5, <1>7 DEF Fits
  <2>2. /\ f \in Frames /\ f.at = "start"
        /\ g \in Frames /\ g.at = "first"
    BY <1>1, <1>2, <1>7, <2>1 DEF Frame, With, Command, CommandOnly, CommandString,
       GetReply, Frames, Commands, Transfers, Places
  <2>3. stack' = <<f, g>> \o Tail(stack)
    BY <1>7
  <2> HIDE DEF f, g
  <2>4. /\ Fits(g, Beneath(stack)) /\ Fits(f, g.at) /\ Lowest1(g) = Lowest(stack)
        /\ Suits(g, Below(stack), Lowest(stack)) /\ Suits(f, g, Lowest(stack))
    BY <1>1, <1>2, <1>7, <2>1, <2>2, PopFits DEF Fits, Suits, Lowest1, Sending, Connecting,
       Operations, Awaits, Places, Transfers
  <2>5. /\ Args(stack') /\ This' = f /\ stack' # <<>> /\ Lowest(stack') = Lowest(stack)
        /\ Bottom(stack') = Bottom(stack) /\ Beneath(stack') = g.at
    BY <1>1, <1>2, <1>7, <2>1, <2>2, <2>3, <2>4, Put2, Put2Args, PopFits
  <2>6. Simple(This', Beneath(stack)')
    BY <1>1, <1>2, <1>3, <1>5, <1>7, <2>2, <2>5, <2>1 DEF Simple, Ordinary, Suits,
       Connecting
  <2> QED  BY <1>1, <1>2, <1>3, <1>5, <1>7, <2>2, <2>5, <2>1, <2>6, GoesOn DEF Quieter,
              Still
<1>8. CASE /\ Top.at = "first"
           /\ stack' = <<Frame("read")>> \o Tail(stack)
  <2> DEFINE f == Frame("read")
  <2>1. Beneath(stack) # "-" /\ Beneath(stack) = "got"
    BY <1>1, <1>2, <1>3, <1>5, <1>8 DEF Fits
  <2>2. f \in Frames /\ f.at = "read"
    BY <1>1, <1>2, <1>8, <2>1 DEF Frame, With, Command, CommandOnly, CommandString,
       GetReply, Frames, Commands, Transfers, Places
  <2>3. stack' = <<f>> \o Tail(stack)
    BY <1>8
  <2> HIDE DEF f
  <2>4. /\ Fits(f, Beneath(stack)) /\ Lowest1(f) = Lowest(stack) /\ Suits(f, Below(stack), Lowest(stack))
    BY <1>1, <1>2, <1>8, <2>1, <2>2, PopFits DEF Fits, Suits, Lowest1, Sending, Connecting,
       Operations, Awaits, Places, Transfers
  <2>5. /\ Args(stack') /\ This' = f /\ stack' # <<>> /\ Lowest(stack') = Lowest(stack)
        /\ Bottom(stack') = Bottom(stack) /\ Beneath(stack') = Beneath(stack)
    BY <1>1, <1>2, <1>8, <2>1, <2>2, <2>3, <2>4, Put1, Put1Args, PopFits
  <2>6. Simple(This', Beneath(stack)')
    BY <1>1, <1>2, <1>3, <1>5, <1>8, <2>2, <2>5, <2>1 DEF Simple, Ordinary, Suits,
       Connecting
  <2> QED  BY <1>1, <1>2, <1>3, <1>5, <1>8, <2>2, <2>5, <2>1, <2>6, GoesOn DEF Quieter,
              Still
<1>9. CASE /\ Top.at = "read"
           /\ stack' = <<GetReply, Frame("ended")>> \o Tail(stack)
  <2> DEFINE f == GetReply
             g == Frame("ended")
  <2>1. Beneath(stack) # "-"
    BY <1>1, <1>2, <1>3, <1>5, <1>9 DEF Fits
  <2>2. /\ f \in Frames /\ f.at = "reply" /\ f.arg = "-" /\ f.wait = "-"
        /\ g \in Frames /\ g.at = "ended"
    BY <1>1, <1>2, <1>9, <2>1 DEF Frame, With, Command, CommandOnly, CommandString,
       GetReply, Frames, Commands, Transfers, Places
  <2>3. stack' = <<f, g>> \o Tail(stack)
    BY <1>9
  <2> HIDE DEF f, g
  <2>4. /\ Fits(g, Beneath(stack)) /\ Fits(f, g.at) /\ Lowest1(g) = Lowest(stack)
        /\ Suits(g, Below(stack), Lowest(stack)) /\ Suits(f, g, Lowest(stack))
    BY <1>1, <1>2, <1>9, <2>1, <2>2, PopFits DEF Fits, Suits, Lowest1, Sending, Connecting,
       Operations, Awaits, Places, Transfers
  <2>5. /\ Args(stack') /\ This' = f /\ stack' # <<>> /\ Lowest(stack') = Lowest(stack)
        /\ Bottom(stack') = Bottom(stack) /\ Beneath(stack') = g.at
    BY <1>1, <1>2, <1>9, <2>1, <2>2, <2>3, <2>4, Put2, Put2Args, PopFits
  <2>6. Simple(This', Beneath(stack)')
    BY <1>1, <1>2, <1>3, <1>5, <1>9, <2>2, <2>5, <2>1 DEF Simple, Ordinary, Suits,
       Connecting
  <2> QED  BY <1>1, <1>2, <1>3, <1>5, <1>9, <2>2, <2>5, <2>1, <2>6, GoesOn DEF Quieter,
              Still
<1>10. CASE /\ Top.at = "read"
            /\ stack' = <<Frame("abort"), Frame("fail")>> \o Tail(stack)
  <2> DEFINE f == Frame("abort")
             g == Frame("fail")
  <2>1. Beneath(stack) # "-"
    BY <1>1, <1>2, <1>3, <1>5, <1>10 DEF Fits
  <2>2. /\ f \in Frames /\ f.at = "abort"
        /\ g \in Frames /\ g.at = "fail"
    BY <1>1, <1>2, <1>10, <2>1 DEF Frame, With, Command, CommandOnly, CommandString,
       GetReply, Frames, Commands, Transfers, Places
  <2>3. stack' = <<f, g>> \o Tail(stack)
    BY <1>10
  <2> HIDE DEF f, g
  <2>4. /\ Fits(g, Beneath(stack)) /\ Fits(f, g.at) /\ Lowest1(g) = Lowest(stack)
        /\ Suits(g, Below(stack), Lowest(stack)) /\ Suits(f, g, Lowest(stack))
    BY <1>1, <1>2, <1>10, <2>1, <2>2, PopFits DEF Fits, Suits, Lowest1, Sending, Connecting,
       Operations, Awaits, Places, Transfers
  <2>5. /\ Args(stack') /\ This' = f /\ stack' # <<>> /\ Lowest(stack') = Lowest(stack)
        /\ Bottom(stack') = Bottom(stack) /\ Beneath(stack') = g.at
    BY <1>1, <1>2, <1>10, <2>1, <2>2, <2>3, <2>4, Put2, Put2Args, PopFits
  <2>6. Simple(This', Beneath(stack)')
    BY <1>1, <1>2, <1>3, <1>5, <1>10, <2>2, <2>5, <2>1 DEF Simple, Ordinary, Suits,
       Connecting
  <2> QED  BY <1>1, <1>2, <1>3, <1>5, <1>10, <2>2, <2>5, <2>1, <2>6, GoesOn DEF Quieter,
              Still
<1>11. CASE stack' = Tail(stack)
  <2>1. Below(stack).at \in {"got", "-"}
    BY <1>1, <1>2, <1>3, <1>5, <1>11 DEF Fits
  <2>2. /\ Args(stack') /\ This' = Below(stack) /\ (stack' = <<>> <=> Beneath(stack) = "-")
        /\ stack' # <<>> => /\ Lowest(stack') = Lowest(stack)
                            /\ Bottom(stack') = Bottom(stack)
    BY <1>1, <1>2, <1>11, Popped, PoppedArgs
  <2>3. Simple(This', Beneath(stack)')
    BY <1>1, <1>2, <1>3, <1>5, <1>11, <2>1, <2>2 DEF Simple, Ordinary, Suits, Connecting
  <2> QED  BY <1>1, <1>2, <1>3, <1>5, <1>11, <2>1, <2>2, <2>3, GoesOn DEF Quieter, Still
<1> QED  BY <1>6, <1>7, <1>8, <1>9, <1>10, <1>11

\* A file that is read is closed.
LEMMA CloseReadTells ==
  ASSUME Typed, Shape, Owed, Told, "copy" \notin opt.ops, CloseRead
  PROVE  Told'
<1>1. stack # <<>> /\ Top.at = "closeread" /\ Chain(stack) /\ Args(stack)
  BY DEF CloseRead, Now, Top, Shape, Told
<1>2. /\ Top \in Frames /\ Fits(Top, Beneath(stack)) /\ This = Top
      /\ Suits(Top, Below(stack), Lowest(stack)) /\ Below(stack).at = Beneath(stack)
      /\ Lowest(stack).at = Bottom(stack) /\ (Beneath(stack) = "-" => Lowest(stack) = Top)
  BY <1>1, Running, ArgsHere
<1>3. /\ Still
      /\ report' = report
  BY DEF CloseRead, remote, handles, Rest, Still
<1>4. wr' = wr /\ sup' = sup
  BY DEF CloseRead
<1>5. Beneath(stack) = "-"
  BY <1>1, <1>2, LastCall DEF Fits, Owed, Writing
<1>6. \/ stack' = <<Frame("abort"), Top>> \o Tail(stack)
      \/ stack' = Tail(stack)
  BY DEF CloseRead, Now, Top, Then, Return
<1>7. CASE stack' = <<Frame("abort"), Top>> \o Tail(stack)
  <2> DEFINE f == Frame("abort")
             g == Top
  <2>1. Beneath(stack) = "-"
    BY <1>1, <1>2, <1>3, <1>4, <1>5, <1>7 DEF Fits
  <2>2. /\ f \in Frames /\ f.at = "abort"
        /\ g \in Frames /\ g.at = "closeread"
    BY <1>1, <1>2, <1>5, <1>7, <2>1 DEF Frame, With, Command, CommandOnly, CommandString,
       GetReply, Frames, Commands, Transfers, Places
  <2>3. stack' = <<f, g>> \o Tail(stack)
    BY <1>7
  <2> HIDE DEF f, g
  <2>4. /\ Fits(g, Beneath(stack)) /\ Fits(f, g.at) /\ Lowest1(g) = g
        /\ Suits(g, Below(stack), g) /\ Suits(f, g, g)
    BY <1>1, <1>2, <1>5, <1>7, <2>1, <2>2, PopFits DEF Fits, Suits, Lowest1, Sending,
       Connecting, Operations, Awaits, Places, Transfers
  <2>5. /\ Args(stack') /\ This' = f /\ stack' # <<>> /\ Lowest(stack') = g
        /\ Bottom(stack') = g.at /\ Beneath(stack') = g.at
    BY <1>1, <1>2, <1>5, <1>7, <2>1, <2>2, <2>3, <2>4, Put2, Put2Args, PopFits
  <2>6. Simple(This', Beneath(stack)')
    BY <1>1, <1>2, <1>3, <1>4, <1>5, <1>7, <2>2, <2>5, <2>1 DEF Simple, Ordinary, Suits,
       Connecting
  <2> QED  BY <1>1, <1>2, <1>3, <1>4, <1>5, <1>7, <2>2, <2>5, <2>1, <2>6, GoesOn DEF
              Quieter, Still
<1>8. CASE stack' = Tail(stack)
  <2>1. Below(stack).at = "-"
    BY <1>1, <1>2, <1>3, <1>4, <1>5, <1>8 DEF Fits
  <2>2. /\ Args(stack') /\ This' = Below(stack) /\ (stack' = <<>> <=> Beneath(stack) = "-")
        /\ stack' # <<>> => /\ Lowest(stack') = Lowest(stack)
                            /\ Bottom(stack') = Bottom(stack)
    BY <1>1, <1>2, <1>5, <1>8, Popped, PoppedArgs
  <2>3. Simple(This', Beneath(stack)')
    BY <1>1, <1>2, <1>3, <1>4, <1>5, <1>8, <2>1, <2>2 DEF Simple, Ordinary, Suits,
       Connecting
  <2> QED  BY <1>1, <1>2, <1>3, <1>4, <1>5, <1>8, <2>1, <2>2, <2>3, GoesOn DEF Quieter,
              Still
<1> QED  BY <1>6, <1>7, <1>8

\* A directory is listed.
LEMMA ListTells == ASSUME Typed, Shape, Owed, Told, "copy" \notin opt.ops, List PROVE Told'
<1>1. stack # <<>> /\ Top.at \in {"list", "there", "listing", "listed"} /\ Chain(stack) /\ Args(stack)
  BY DEF List, Now, Top, Shape, Told
<1>2. /\ Top \in Frames /\ Fits(Top, Beneath(stack)) /\ This = Top
      /\ Suits(Top, Below(stack), Lowest(stack)) /\ Below(stack).at = Beneath(stack)
      /\ Lowest(stack).at = Bottom(stack) /\ (Beneath(stack) = "-" => Lowest(stack) = Top)
  BY <1>1, Running, ArgsHere
<1>3. net' = net /\ srv' = srv /\ late' = late /\ opt' = opt /\ put' = put /\ file' = file
  BY DEF List, remote, handles, Rest
<1>4. \/ sup' = sup \/ sup' = [sup EXCEPT !.strict = "strict"]
      \/ sup' = [sup EXCEPT !.strict = IF sup.strict = "auto" THEN "daring" ELSE sup.strict]
  BY DEF List
<1>5. sup'.sock = sup.sock /\ sup'.cwd = sup.cwd /\ sup'.binary = sup.binary
  BY <1>4 DEF Typed, Sup
<1>6. Quieter
  BY <1>3, <1>5 DEF Quieter
<1>7. Beneath(stack) = "-" /\ Lowest(stack) = Top
  BY <1>1, <1>2 DEF Fits
<1>8. Read1(PRELIM)' = Read1(PRELIM) /\ Read1(COMPLETE)' = Read1(COMPLETE)
  BY <1>3 DEF Read1, PRELIM, COMPLETE
<1> DEFINE cmd == IF sup.strict = "strict" THEN "LIST" ELSE "LIST -la"
<1>9. cmd \in {"LIST", "LIST -la"}
  OBVIOUS
<1>10. \/ /\ Top.at = "list" /\ report' = report
          /\ stack' = <<With("chdir", Top.arg), [Top EXCEPT !.at = "there", !.wait = "cd"]>> \o Tail(stack)
       \/ /\ Top.at = "list" /\ Top.wait # "cd" /\ report' = report
          /\ stack' = (DataConnection(cmd, "no") \o <<[Top EXCEPT !.at = "listing"]>>) \o Tail(stack)
       \/ /\ Top.at = "there" /\ ret = COMPLETE /\ report' = report
          /\ stack' = (DataConnection(cmd, "no") \o <<[Top EXCEPT !.at = "listing"]>>) \o Tail(stack)
       \/ /\ stack' = <<[Top EXCEPT !.at = "list", !.wait = "cd"]>> \o Tail(stack)
          /\ report' = report
       \/ /\ stack' = Tail(stack)
          /\ report' = report
       \/ /\ Top.at = "listing" /\ ret = 1 /\ report' = report
          /\ stack' = <<GetReply, [Top EXCEPT !.at = "listed"]>> \o Tail(stack)
       \/ /\ report' = report
          /\ stack' = <<GetReply, Frame("fail")>> \o Tail(stack)
       \/ /\ Top.at = "listed" /\ stack' = Tail(stack)
          /\ report' = IF Top.wait = "cd" /\ srv.cwd # Top.arg THEN "wrong" ELSE "listed"
  BY DEF List, Now, Top, Then, Return, COMPLETE
<1> HIDE DEF cmd
<1>11. CASE /\ Top.at = "list" /\ report' = report
            /\ stack' = <<With("chdir", Top.arg), [Top EXCEPT !.at = "there", !.wait = "cd"]>> \o Tail(stack)
  <2> DEFINE f == With("chdir", Top.arg)
             g == [Top EXCEPT !.at = "there", !.wait = "cd"]
  <2>1. Beneath(stack) = "-" /\ Top.arg \in Places
    BY <1>1, <1>2, <1>3, <1>5, <1>6, <1>7, <1>8, <1>9, <1>11 DEF Fits
  <2>2. /\ f \in Frames /\ f.at = "chdir" /\ f.arg = Top.arg
        /\ g \in Frames /\ g.at = "there" /\ g.arg = Top.arg
    BY <1>1, <1>2, <1>7, <1>9, <1>11, <2>1 DEF Frame, With, Command, CommandOnly,
       CommandString, GetReply, Frames, Commands, Transfers, Places
  <2>3. stack' = <<f, g>> \o Tail(stack)
    BY <1>11
  <2> HIDE DEF f, g
  <2>4. /\ Fits(g, Beneath(stack)) /\ Fits(f, g.at) /\ Lowest1(g) = g
        /\ Suits(g, Below(stack), g) /\ Suits(f, g, g)
    BY <1>1, <1>2, <1>7, <1>9, <1>11, <2>1, <2>2, PopFits DEF Fits, Suits, Lowest1, Sending,
       Connecting, Operations, Awaits, Places, Transfers
  <2>5. /\ Args(stack') /\ This' = f /\ stack' # <<>> /\ Lowest(stack') = g
        /\ Bottom(stack') = g.at /\ Beneath(stack') = g.at
    BY <1>1, <1>2, <1>7, <1>9, <1>11, <2>1, <2>2, <2>3, <2>4, Put2, Put2Args, PopFits
  <2>6. SockUp' /\ NewSession' /\ Chdirs' /\ Reported' /\ Unsent'
    BY <1>1, <1>2, <1>3, <1>5, <1>6, <1>7, <1>8, <1>9, <1>11, <2>2, <2>5, <2>1 DEF Told,
       SockUp, Unsent, NewSession, Chdirs, Reported, LoggingIn, Greeting, Waiting, Is, Still,
       Suits, Connecting, Operations
  <2>7. ~late' => Prelims' /\ Replies1' /\ Listing' /\ Storage'
    BY <1>1, <1>2, <1>3, <1>5, <1>6, <1>7, <1>8, <1>9, <1>11, <2>2, <2>5, <2>1, NoPrelim,
       StillSame DEF Told, Prelims, Replies1, Listing, SameDir, Storage, Waiting, Is, Still,
       Greeting, LoggingIn
  <2>8. ~late' /\ net'.up => CmdIs'
    BY <1>1, <1>2, <1>3, <1>5, <1>6, <1>7, <1>8, <1>9, <1>11, <2>2, <2>5, <2>1 DEF Told,
       Still, CmdIs
  <2>9. ~late' /\ net'.up => Server1'
    BY <1>1, <1>2, <1>3, <1>5, <1>6, <1>7, <1>8, <1>9, <1>11, <2>2, <2>5, <2>1, StillSame
       DEF Told, Server1, LoggingIn, Greeting, Waiting, Is, Still, Elsewhere, Rejoining,
       Sending
  <2>10. ~late' /\ net'.up => Session'
    BY <1>1, <1>2, <1>3, <1>5, <1>6, <1>7, <1>8, <1>9, <1>11, <2>2, <2>5, <2>1, SessionSame
       DEF Told, Still
  <2> QED  BY <2>5, <2>6, <2>7, <2>8, <2>9, <2>10 DEF Told
<1>12. CASE /\ Top.at = "list" /\ Top.wait # "cd" /\ report' = report
            /\ stack' = (DataConnection(cmd, "no") \o <<[Top EXCEPT !.at = "listing"]>>) \o Tail(stack)
  <2> DEFINE i == [Top EXCEPT !.at = "listing"]
  <2>1. Beneath(stack) = "-" /\ Top.arg \in Places
    BY <1>1, <1>2, <1>3, <1>5, <1>6, <1>7, <1>8, <1>9, <1>12 DEF Fits
  <2>2. i \in Frames /\ i.at = "listing" /\ i.arg = Top.arg /\ i.wait = Top.wait
    BY <1>1, <1>2, <1>7, <1>9, <1>12, <2>1 DEF Frame, Frames, Commands, Transfers, Places
  <2>3. stack' = (DataConnection(cmd, "no") \o <<i>>) \o Tail(stack)
    BY <1>12
  <2> HIDE DEF i
  <2>4. Fits(i, Beneath(stack)) /\ Lowest1(i) = i /\ Suits(i, Below(stack), i)
    BY <1>1, <1>2, <1>7, <1>9, <1>12, <2>1, <2>2, PopFits DEF Fits, Suits, Lowest1, Sending,
       Connecting, Operations, Places
  <2>5. /\ Chain(stack') /\ stack' # <<>> /\ This'.at = "command" /\ This'.arg \in {"PASV", "PORT"}
        /\ Bottom(stack') = i.at /\ Beneath(stack') = "agreed"
    BY <1>1, <1>2, <1>7, <1>9, <1>12, <2>1, <2>2, <2>3, <2>4, PutTransfer, PopFits DEF This,
       Transfers
  <2>6. Args(stack') /\ Lowest(stack') = i
    BY <1>1, <1>2, <1>7, <1>9, <1>12, <2>1, <2>2, <2>3, <2>4, PutTransferArgs DEF Transfers
  <2>7. Simple(This', Beneath(stack)')
    BY <1>1, <1>2, <1>3, <1>5, <1>6, <1>7, <1>8, <1>9, <1>12, <2>2, <2>6, <2>5, <2>1 DEF
       Simple, Ordinary, Suits, Connecting
  <2>8. Quieter /\ report' \notin {"stored", "wrong"}
    BY <1>1, <1>2, <1>3, <1>5, <1>6, <1>7, <1>8, <1>9, <1>12, <2>2, <2>6, <2>5, <2>1 DEF
       Quieter, Still, Told, Reported
  <2>9. Chdirs'
    BY <1>1, <1>2, <1>3, <1>5, <1>6, <1>7, <1>8, <1>9, <1>12, <2>2, <2>6, <2>5, <2>1 DEF
       Told, Chdirs, Suits, Still
  <2>10. stack' # <<>> /\ Bottom(stack') = "storing" => put' = 0
    BY <1>1, <1>2, <1>3, <1>5, <1>6, <1>7, <1>8, <1>9, <1>12, <2>2, <2>6, <2>5, <2>1 DEF
       Told, Unsent, Still
  <2> QED  BY <1>1, <1>2, <1>3, <1>5, <1>6, <1>7, <1>8, <1>9, <1>12, <2>2, <2>6, <2>5, <2>1,
              <2>7, <2>8, <2>9, <2>10, ToOrdinary
<1>13. CASE /\ Top.at = "there" /\ ret = COMPLETE /\ report' = report
            /\ stack' = (DataConnection(cmd, "no") \o <<[Top EXCEPT !.at = "listing"]>>) \o Tail(stack)
  <2> DEFINE i == [Top EXCEPT !.at = "listing"]
  <2>1. Beneath(stack) = "-" /\ Top.arg \in Places
    BY <1>1, <1>2, <1>3, <1>5, <1>6, <1>7, <1>8, <1>9, <1>13 DEF Fits
  <2>2. i \in Frames /\ i.at = "listing" /\ i.arg = Top.arg /\ i.wait = Top.wait
    BY <1>1, <1>2, <1>7, <1>9, <1>13, <2>1 DEF Frame, Frames, Commands, Transfers, Places
  <2>3. stack' = (DataConnection(cmd, "no") \o <<i>>) \o Tail(stack)
    BY <1>13
  <2> HIDE DEF i
  <2>4. Fits(i, Beneath(stack)) /\ Lowest1(i) = i /\ Suits(i, Below(stack), i)
    BY <1>1, <1>2, <1>7, <1>9, <1>13, <2>1, <2>2, PopFits DEF Fits, Suits, Lowest1, Sending,
       Connecting, Operations, Places
  <2>5. /\ Chain(stack') /\ stack' # <<>> /\ This'.at = "command" /\ This'.arg \in {"PASV", "PORT"}
        /\ Bottom(stack') = i.at /\ Beneath(stack') = "agreed"
    BY <1>1, <1>2, <1>7, <1>9, <1>13, <2>1, <2>2, <2>3, <2>4, PutTransfer, PopFits DEF This,
       Transfers
  <2>6. Args(stack') /\ Lowest(stack') = i
    BY <1>1, <1>2, <1>7, <1>9, <1>13, <2>1, <2>2, <2>3, <2>4, PutTransferArgs DEF Transfers
  <2>7. Simple(This', Beneath(stack)')
    BY <1>1, <1>2, <1>3, <1>5, <1>6, <1>7, <1>8, <1>9, <1>13, <2>2, <2>6, <2>5, <2>1 DEF
       Simple, Ordinary, Suits, Connecting
  <2>8. Quieter /\ report' \notin {"stored", "wrong"}
    BY <1>1, <1>2, <1>3, <1>5, <1>6, <1>7, <1>8, <1>9, <1>13, <2>2, <2>6, <2>5, <2>1 DEF
       Quieter, Still, Told, Reported
  <2>9. Chdirs'
    BY <1>1, <1>2, <1>3, <1>5, <1>6, <1>7, <1>8, <1>9, <1>13, <2>2, <2>6, <2>5, <2>1 DEF
       Told, Chdirs, Suits, Still
  <2>10. stack' # <<>> /\ Bottom(stack') = "storing" => put' = 0
    BY <1>1, <1>2, <1>3, <1>5, <1>6, <1>7, <1>8, <1>9, <1>13, <2>2, <2>6, <2>5, <2>1 DEF
       Told, Unsent, Still
  <2> QED  BY <1>1, <1>2, <1>3, <1>5, <1>6, <1>7, <1>8, <1>9, <1>13, <2>2, <2>6, <2>5, <2>1,
              <2>7, <2>8, <2>9, <2>10, ToOrdinary
<1>14. CASE /\ stack' = <<[Top EXCEPT !.at = "list", !.wait = "cd"]>> \o Tail(stack)
            /\ report' = report
  <2> DEFINE f == [Top EXCEPT !.at = "list", !.wait = "cd"]
  <2>1. Beneath(stack) = "-" /\ Top.arg \in Places
    BY <1>1, <1>2, <1>3, <1>5, <1>6, <1>7, <1>8, <1>9, <1>14 DEF Fits
  <2>2. f \in Frames /\ f.at = "list" /\ f.arg = Top.arg
    BY <1>2, ListAgain
  <2>3. stack' = <<f>> \o Tail(stack)
    BY <1>14
  <2> HIDE DEF f
  <2>4. /\ Fits(f, Beneath(stack)) /\ Lowest1(f) = f /\ Suits(f, Below(stack), f)
    BY <1>1, <1>2, <1>7, <1>9, <1>14, <2>1, <2>2, PopFits DEF Fits, Suits, Lowest1, Sending,
       Connecting, Operations, Awaits, Places, Transfers
  <2>5. /\ Args(stack') /\ This' = f /\ stack' # <<>> /\ Lowest(stack') = f
        /\ Bottom(stack') = f.at /\ Beneath(stack') = Beneath(stack)
    BY <1>1, <1>2, <1>7, <1>9, <1>14, <2>1, <2>2, <2>3, <2>4, Put1, Put1Args, PopFits
  <2>6. Simple(This', Beneath(stack)')
    BY <1>1, <1>2, <1>3, <1>5, <1>6, <1>7, <1>8, <1>9, <1>14, <2>2, <2>5, <2>1 DEF Simple,
       Ordinary, Suits, Connecting
  <2> QED  BY <1>1, <1>2, <1>3, <1>5, <1>6, <1>7, <1>8, <1>9, <1>14, <2>2, <2>5, <2>1, <2>6,
              GoesOn DEF Quieter, Still
<1>15. CASE /\ stack' = Tail(stack)
            /\ report' = report
  <2>1. Below(stack).at = "-"
    BY <1>1, <1>2, <1>3, <1>5, <1>6, <1>7, <1>8, <1>9, <1>15 DEF Fits
  <2>2. /\ Args(stack') /\ This' = Below(stack) /\ (stack' = <<>> <=> Beneath(stack) = "-")
        /\ stack' # <<>> => /\ Lowest(stack') = Lowest(stack)
                            /\ Bottom(stack') = Bottom(stack)
    BY <1>1, <1>2, <1>7, <1>9, <1>15, Popped, PoppedArgs
  <2>3. Simple(This', Beneath(stack)')
    BY <1>1, <1>2, <1>3, <1>5, <1>6, <1>7, <1>8, <1>9, <1>15, <2>1, <2>2 DEF Simple,
       Ordinary, Suits, Connecting
  <2> QED  BY <1>1, <1>2, <1>3, <1>5, <1>6, <1>7, <1>8, <1>9, <1>15, <2>1, <2>2, <2>3,
              GoesOn DEF Quieter, Still
<1>16. CASE /\ Top.at = "listing" /\ ret = 1 /\ report' = report
            /\ stack' = <<GetReply, [Top EXCEPT !.at = "listed"]>> \o Tail(stack)
  <2> DEFINE f == GetReply
             g == [Top EXCEPT !.at = "listed"]
  <2>1. Beneath(stack) = "-" /\ Top.arg \in Places
    BY <1>1, <1>2, <1>3, <1>5, <1>6, <1>7, <1>8, <1>9, <1>16 DEF Fits
  <2>2. /\ f \in Frames /\ f.at = "reply" /\ f.arg = "-" /\ f.wait = "-"
        /\ g \in Frames /\ g.at = "listed" /\ g.arg = Top.arg /\ g.wait = Top.wait
    BY <1>1, <1>2, <1>7, <1>9, <1>16, <2>1 DEF Frame, With, Command, CommandOnly,
       CommandString, GetReply, Frames, Commands, Transfers, Places
  <2>3. stack' = <<f, g>> \o Tail(stack)
    BY <1>16
  <2> HIDE DEF f, g
  <2>4. /\ Fits(g, Beneath(stack)) /\ Fits(f, g.at) /\ Lowest1(g) = g
        /\ Suits(g, Below(stack), g) /\ Suits(f, g, g)
    BY <1>1, <1>2, <1>7, <1>9, <1>16, <2>1, <2>2, PopFits DEF Fits, Suits, Lowest1, Sending,
       Connecting, Operations, Awaits, Places, Transfers
  <2>5. /\ Args(stack') /\ This' = f /\ stack' # <<>> /\ Lowest(stack') = g
        /\ Bottom(stack') = g.at /\ Beneath(stack') = g.at
    BY <1>1, <1>2, <1>7, <1>9, <1>16, <2>1, <2>2, <2>3, <2>4, Put2, Put2Args, PopFits
  <2>6. SockUp' /\ NewSession' /\ Chdirs' /\ Reported' /\ Unsent'
    BY <1>1, <1>2, <1>3, <1>5, <1>6, <1>7, <1>8, <1>9, <1>16, <2>2, <2>5, <2>1 DEF Told,
       SockUp, Unsent, NewSession, Chdirs, Reported, LoggingIn, Greeting, Waiting, Is, Still,
       Suits, Connecting, Operations
  <2>7. ~late' => Prelims' /\ Replies1' /\ Listing' /\ Storage'
    BY <1>1, <1>2, <1>3, <1>5, <1>6, <1>7, <1>8, <1>9, <1>16, <2>2, <2>5, <2>1, NoPrelim,
       StillSame DEF Told, Prelims, Replies1, Listing, SameDir, Storage, Waiting, Is, Still,
       Greeting, LoggingIn
  <2>8. ~late' /\ net'.up => CmdIs'
    BY <1>1, <1>2, <1>3, <1>5, <1>6, <1>7, <1>8, <1>9, <1>16, <2>2, <2>5, <2>1 DEF Told,
       Still, CmdIs
  <2>9. ~late' /\ net'.up => Server1'
    BY <1>1, <1>2, <1>3, <1>5, <1>6, <1>7, <1>8, <1>9, <1>16, <2>2, <2>5, <2>1, StillSame
       DEF Told, Server1, LoggingIn, Greeting, Waiting, Is, Still, Elsewhere, Rejoining,
       Sending
  <2>10. ~late' /\ net'.up => Session'
    BY <1>1, <1>2, <1>3, <1>5, <1>6, <1>7, <1>8, <1>9, <1>16, <2>2, <2>5, <2>1, SessionSame
       DEF Told, Still
  <2> QED  BY <2>5, <2>6, <2>7, <2>8, <2>9, <2>10 DEF Told
<1>17. CASE /\ report' = report
            /\ stack' = <<GetReply, Frame("fail")>> \o Tail(stack)
  <2> DEFINE f == GetReply
             g == Frame("fail")
  <2>1. Beneath(stack) = "-"
    BY <1>1, <1>2, <1>3, <1>5, <1>6, <1>7, <1>8, <1>9, <1>17 DEF Fits
  <2>2. /\ f \in Frames /\ f.at = "reply" /\ f.arg = "-" /\ f.wait = "-"
        /\ g \in Frames /\ g.at = "fail"
    BY <1>1, <1>2, <1>7, <1>9, <1>17, <2>1 DEF Frame, With, Command, CommandOnly,
       CommandString, GetReply, Frames, Commands, Transfers, Places
  <2>3. stack' = <<f, g>> \o Tail(stack)
    BY <1>17
  <2> HIDE DEF f, g
  <2>4. /\ Fits(g, Beneath(stack)) /\ Fits(f, g.at) /\ Lowest1(g) = g
        /\ Suits(g, Below(stack), g) /\ Suits(f, g, g)
    BY <1>1, <1>2, <1>7, <1>9, <1>17, <2>1, <2>2, PopFits DEF Fits, Suits, Lowest1, Sending,
       Connecting, Operations, Awaits, Places, Transfers
  <2>5. /\ Args(stack') /\ This' = f /\ stack' # <<>> /\ Lowest(stack') = g
        /\ Bottom(stack') = g.at /\ Beneath(stack') = g.at
    BY <1>1, <1>2, <1>7, <1>9, <1>17, <2>1, <2>2, <2>3, <2>4, Put2, Put2Args, PopFits
  <2>6. Simple(This', Beneath(stack)')
    BY <1>1, <1>2, <1>3, <1>5, <1>6, <1>7, <1>8, <1>9, <1>17, <2>2, <2>5, <2>1 DEF Simple,
       Ordinary, Suits, Connecting
  <2> QED  BY <1>1, <1>2, <1>3, <1>5, <1>6, <1>7, <1>8, <1>9, <1>17, <2>2, <2>5, <2>1, <2>6,
              GoesOn DEF Quieter, Still
<1>18. CASE /\ Top.at = "listed" /\ stack' = Tail(stack)
            /\ report' = IF Top.wait = "cd" /\ srv.cwd # Top.arg THEN "wrong" ELSE "listed"
  <2>1. Below(stack).at = "-"
    BY <1>1, <1>2, <1>3, <1>5, <1>6, <1>7, <1>8, <1>9, <1>18 DEF Fits
  <2>2. /\ Args(stack') /\ This' = Below(stack) /\ (stack' = <<>> <=> Beneath(stack) = "-")
        /\ stack' # <<>> => /\ Lowest(stack') = Lowest(stack)
                            /\ Bottom(stack') = Bottom(stack)
    BY <1>1, <1>2, <1>7, <1>9, <1>18, Popped, PoppedArgs
  <2>3. SockUp' /\ NewSession' /\ Chdirs' /\ Reported' /\ Unsent'
    BY <1>1, <1>2, <1>3, <1>5, <1>6, <1>7, <1>8, <1>9, <1>18, <2>1, <2>2 DEF Told, SockUp,
       Unsent, NewSession, Chdirs, Reported, LoggingIn, Greeting, Waiting, Is, Still, Suits,
       Connecting, Operations, Listing, SameDir
  <2>4. ~late' => Prelims' /\ Replies1' /\ Listing' /\ Storage'
    BY <1>1, <1>2, <1>3, <1>5, <1>6, <1>7, <1>8, <1>9, <1>18, <2>1, <2>2, NoPrelim,
       StillSame DEF Told, Prelims, Replies1, Listing, SameDir, Storage, Waiting, Is, Still,
       Greeting, LoggingIn
  <2>5. ~late' /\ net'.up => CmdIs' /\ Server1' /\ Session'
    BY <1>1, <1>2, <1>3, <1>5, <1>6, <1>7, <1>8, <1>9, <1>18, <2>1, <2>2, StillSame DEF
       Told, CmdIs, Server1, Session, LoggingIn, Greeting, Waiting, Is, Still, Elsewhere,
       Rejoining, SameDir, SameType, Sending
  <2> QED  BY <2>2, <2>3, <2>4, <2>5 DEF Told
<1> QED  BY <1>10, <1>11, <1>12, <1>13, <1>14, <1>15, <1>16, <1>17, <1>18

\* A file is to be stored.
LEMMA StoreTells == ASSUME Typed, Shape, Owed, Told, "copy" \notin opt.ops, Store PROVE Told'
<1>1. stack # <<>> /\ Top.at = "store" /\ Chain(stack) /\ Args(stack)
  BY DEF Store, Now, Top, Shape, Told
<1>2. /\ Top \in Frames /\ Fits(Top, Beneath(stack)) /\ This = Top
      /\ Suits(Top, Below(stack), Lowest(stack)) /\ Below(stack).at = Beneath(stack)
      /\ Lowest(stack).at = Bottom(stack) /\ (Beneath(stack) = "-" => Lowest(stack) = Top)
  BY <1>1, Running, ArgsHere
<1>3. net' = net /\ srv' = srv /\ sup' = sup /\ late' = late /\ opt' = opt /\ report' = report /\ put' = 0
  BY DEF Store, remote, handles, Rest
<1>4. Quieter
  BY <1>3 DEF Quieter
<1>5. \/ stack' = (DataConnection("STOR", "yes") \o <<Frame("storing")>>) \o Tail(stack)
  BY DEF Store, Then
<1>6. CASE stack' = (DataConnection("STOR", "yes") \o <<Frame("storing")>>) \o Tail(stack)
  <2> DEFINE i == Frame("storing")
  <2>1. Beneath(stack) = "-"
    BY <1>1, <1>2, <1>3, <1>4, <1>6 DEF Fits
  <2>2. i \in Frames /\ i.at = "storing"
    BY <1>1, <1>2, <1>6, <2>1 DEF Frame, Frames, Commands, Transfers, Places
  <2>3. stack' = (DataConnection("STOR", "yes") \o <<i>>) \o Tail(stack)
    BY <1>6
  <2> HIDE DEF i
  <2>4. Fits(i, Beneath(stack)) /\ Lowest1(i) = i /\ Suits(i, Below(stack), i)
    BY <1>1, <1>2, <1>6, <2>1, <2>2, PopFits DEF Fits, Suits, Lowest1, Sending, Connecting,
       Operations, Places
  <2>5. /\ Chain(stack') /\ stack' # <<>> /\ This'.at = "command" /\ This'.arg \in {"PASV", "PORT"}
        /\ Bottom(stack') = i.at /\ Beneath(stack') = "agreed"
    BY <1>1, <1>2, <1>6, <2>1, <2>2, <2>3, <2>4, PutTransfer, PopFits DEF This, Transfers
  <2>6. Args(stack') /\ Lowest(stack') = i
    BY <1>1, <1>2, <1>6, <2>1, <2>2, <2>3, <2>4, PutTransferArgs DEF Transfers
  <2>7. Simple(This', Beneath(stack)')
    BY <1>1, <1>2, <1>3, <1>4, <1>6, <2>2, <2>6, <2>5, <2>1 DEF Simple, Ordinary, Suits,
       Connecting
  <2>8. Quieter /\ report' \notin {"stored", "wrong"}
    BY <1>1, <1>2, <1>3, <1>4, <1>6, <2>2, <2>6, <2>5, <2>1 DEF Quieter, Still, Told,
       Reported
  <2>9. Chdirs'
    BY <1>1, <1>2, <1>3, <1>4, <1>6, <2>2, <2>6, <2>5, <2>1 DEF Told, Chdirs, Suits, Still
  <2>10. stack' # <<>> /\ Bottom(stack') = "storing" => put' = 0
    BY <1>1, <1>2, <1>3, <1>4, <1>6, <2>2, <2>6, <2>5, <2>1 DEF Told, Unsent, Still
  <2> QED  BY <1>1, <1>2, <1>3, <1>4, <1>6, <2>2, <2>6, <2>5, <2>1, <2>7, <2>8, <2>9, <2>10,
              ToOrdinary
<1> QED  BY <1>5, <1>6

\* The data are sent; every piece is on its way or received.
LEMMA StoringTells == ASSUME Typed, Shape, Owed, Told, "copy" \notin opt.ops, Storing PROVE Told'
<1>1. stack # <<>> /\ Top.at = "storing" /\ Chain(stack) /\ Args(stack)
  BY DEF Storing, Now, Top, Shape, Told
<1>2. /\ Top \in Frames /\ Fits(Top, Beneath(stack)) /\ This = Top
      /\ Suits(Top, Below(stack), Lowest(stack)) /\ Below(stack).at = Beneath(stack)
      /\ Lowest(stack).at = Bottom(stack) /\ (Beneath(stack) = "-" => Lowest(stack) = Top)
  BY <1>1, Running, ArgsHere
<1>3. net' = net /\ srv' = srv /\ file' = file /\ sup' = sup /\ late' = late /\ opt' = opt
  BY DEF Storing, remote, handles, Rest
<1>4. Beneath(stack) = "-" /\ Bottom(stack) = "storing" /\ rd = "none"
  BY <1>1, <1>2 DEF Fits, Owed, Writing
<1>5. Quieter
  BY <1>3 DEF Quieter
<1>6. Read1(PRELIM)' = Read1(PRELIM) /\ Read1(COMPLETE)' = Read1(COMPLETE)
  BY <1>3 DEF Read1, PRELIM, COMPLETE
<1>7. \/ /\ stack' = Tail(stack)
         /\ report' = "failed"
         /\ data' = data /\ put' = put
      \/ /\ stack' = stack /\ ret' = ret /\ report' = report
         /\ data' = data /\ put' = put
      \/ /\ stack' = stack /\ ret' = ret /\ report' = report
         /\ ret = 1
         /\ put' = put + 1
         /\ data' = [data EXCEPT !.n = @ + 1]
      \/ /\ stack' = <<Frame("closewrite")>> \o Tail(stack)
         /\ ret = 1
         /\ data' = data /\ put' = put /\ report' = report
  BY <1>1, <1>4 DEF Storing, Return, Then, Owed, Writing
<1>8. CASE /\ stack' = Tail(stack)
           /\ report' = "failed"
           /\ data' = data /\ put' = put
  <2>1. Below(stack).at = "-"
    BY <1>1, <1>2, <1>3, <1>4, <1>5, <1>6, <1>8 DEF Fits
  <2>2. /\ Args(stack') /\ This' = Below(stack) /\ (stack' = <<>> <=> Beneath(stack) = "-")
        /\ stack' # <<>> => /\ Lowest(stack') = Lowest(stack)
                            /\ Bottom(stack') = Bottom(stack)
    BY <1>1, <1>2, <1>4, <1>8, Popped, PoppedArgs
  <2>3. Simple(This', Beneath(stack)')
    BY <1>1, <1>2, <1>3, <1>4, <1>5, <1>6, <1>8, <2>1, <2>2 DEF Simple, Ordinary, Suits,
       Connecting
  <2> QED  BY <1>1, <1>2, <1>3, <1>4, <1>5, <1>6, <1>8, <2>1, <2>2, <2>3, GoesOn DEF
              Quieter, Still
<1>9. CASE /\ stack' = stack /\ ret' = ret /\ report' = report
           /\ data' = data /\ put' = put
  <2> QED  BY <1>3, <1>9, Unmoved DEF Still
<1>10. CASE /\ stack' = stack /\ ret' = ret /\ report' = report
            /\ ret = 1
            /\ put' = put + 1
            /\ data' = [data EXCEPT !.n = @ + 1]
  <2>1. This' = This /\ Args(stack') /\ Bottom(stack') = "storing"
    BY <1>1, <1>2, <1>3, <1>4, <1>10 DEF This, Top
  <2>2. Receives => Receives'
    BY <1>1, <1>2, <1>3, <1>4, <1>10, <1>6 DEF Receives, Kept, Typed, Data
  <2>3. SockUp' /\ NewSession' /\ Chdirs' /\ Reported' /\ Unsent'
    BY <1>1, <1>2, <1>3, <1>4, <1>10, <2>1 DEF Told, Unsent, SockUp, NewSession, LoggingIn,
       Greeting, Waiting, Is, Chdirs, Reported
  <2>4. ~late' => Prelims' /\ Replies1' /\ Listing'
    BY <1>1, <1>2, <1>3, <1>4, <1>10, <1>6, <2>1 DEF Told, Prelims, Replies1, Listing,
       Waiting, Is
  <2>5. ~late' => Storage'
    BY <1>1, <1>2, <1>3, <1>4, <1>10, <1>6, <2>1, <2>2 DEF Told, Storage, Waiting, Is
  <2>6. ~late' /\ net'.up => CmdIs' /\ Server1'
    BY <1>1, <1>2, <1>3, <1>4, <1>10, <2>1 DEF Told, CmdIs, Server1, LoggingIn, Greeting,
       Waiting, Is, Rejoining, Sending
  <2>7. ~late' /\ net'.up => Session'
    BY <1>1, <1>2, <1>3, <1>4, <1>10, <2>1, SessionSame DEF Told
  <2> QED  BY <2>1, <2>3, <2>4, <2>5, <2>6, <2>7 DEF Told
<1>11. CASE /\ stack' = <<Frame("closewrite")>> \o Tail(stack)
            /\ ret = 1
            /\ data' = data /\ put' = put /\ report' = report
  <2> DEFINE f == Frame("closewrite")
  <2>1. Beneath(stack) = "-"
    BY <1>1, <1>2, <1>3, <1>4, <1>5, <1>6, <1>11 DEF Fits
  <2>2. f \in Frames /\ f.at = "closewrite"
    BY <1>1, <1>2, <1>4, <1>11, <2>1 DEF Frame, With, Command, CommandOnly, CommandString,
       GetReply, Frames, Commands, Transfers, Places
  <2>3. stack' = <<f>> \o Tail(stack)
    BY <1>11
  <2> HIDE DEF f
  <2>4. /\ Fits(f, Beneath(stack)) /\ Lowest1(f) = f /\ Suits(f, Below(stack), f)
    BY <1>1, <1>2, <1>4, <1>11, <2>1, <2>2, PopFits DEF Fits, Suits, Lowest1, Sending,
       Connecting, Operations, Awaits, Places, Transfers
  <2>5. /\ Args(stack') /\ This' = f /\ stack' # <<>> /\ Lowest(stack') = f
        /\ Bottom(stack') = f.at /\ Beneath(stack') = Beneath(stack)
    BY <1>1, <1>2, <1>4, <1>11, <2>1, <2>2, <2>3, <2>4, Put1, Put1Args, PopFits
  <2>6. Still /\ sup' = sup
    BY <1>1, <1>2, <1>3, <1>4, <1>5, <1>6, <1>11 DEF Still
  <2>7. SockUp' /\ NewSession' /\ Chdirs' /\ Reported' /\ Unsent'
    BY <1>1, <1>2, <1>3, <1>4, <1>5, <1>6, <1>11, <2>2, <2>5, <2>1, <2>6 DEF Told, SockUp,
       Unsent, NewSession, Chdirs, Reported, LoggingIn, Greeting, Waiting, Is, Still, Suits,
       Connecting, Operations
  <2>8. ~late' => Prelims' /\ Replies1' /\ Listing' /\ Storage'
    BY <1>1, <1>2, <1>3, <1>4, <1>5, <1>6, <1>11, <2>2, <2>5, <2>1, <2>6, NoPrelim,
       StillSame DEF Told, Prelims, Replies1, Listing, SameDir, Storage, Waiting, Is, Still,
       Greeting, LoggingIn
  <2>9. ~late' /\ net'.up => CmdIs'
    BY <1>1, <1>2, <1>3, <1>4, <1>5, <1>6, <1>11, <2>2, <2>5, <2>1, <2>6 DEF Told, Still,
       CmdIs
  <2>10. ~late' /\ net'.up => Server1'
    BY <1>1, <1>2, <1>3, <1>4, <1>5, <1>6, <1>11, <2>2, <2>5, <2>1, <2>6, ServerSame DEF
       Told, Still
  <2>11. ~late' /\ net'.up => Session'
    BY <1>1, <1>2, <1>3, <1>4, <1>5, <1>6, <1>11, <2>2, <2>5, <2>1, <2>6, SessionSame DEF
       Told, Still
  <2> QED  BY <2>5, <2>7, <2>8, <2>9, <2>10, <2>11 DEF Told
<1> QED  BY <1>7, <1>8, <1>9, <1>10, <1>11

\* The file is closed; what the user is told is what the server says.
LEMMA CloseWriteTells ==
  ASSUME Typed, Shape, Owed, Told, "copy" \notin opt.ops, CloseWrite
  PROVE  Told'
<1>1. stack # <<>> /\ Top.at \in {"closewrite", "stored"} /\ Chain(stack) /\ Args(stack)
  BY DEF CloseWrite, Now, Top, Shape, Told
<1>2. /\ Top \in Frames /\ Fits(Top, Beneath(stack)) /\ This = Top
      /\ Suits(Top, Below(stack), Lowest(stack)) /\ Below(stack).at = Beneath(stack)
      /\ Lowest(stack).at = Bottom(stack) /\ (Beneath(stack) = "-" => Lowest(stack) = Top)
  BY <1>1, Running, ArgsHere
<1>3. net' = net /\ srv' = srv /\ file' = file /\ sup' = sup /\ late' = late /\ opt' = opt /\ put' = put
  BY DEF CloseWrite, remote, handles, Rest
<1>4. Beneath(stack) = "-"
  BY <1>1, <1>2 DEF Fits
<1>5. Top.at = "closewrite" /\ ~late /\ net.up => net.cmds = <<>>
  BY <1>1 DEF Told, SockUp, Owed, Live, Due, EndDue
<1>6. Read1(PRELIM)' = Read1(PRELIM) /\ Read1(COMPLETE)' = Read1(COMPLETE)
  BY <1>3 DEF Read1, PRELIM, COMPLETE
<1>7. Kept => Kept'
  BY <1>3 DEF CloseWrite, Hangup, Kept, Typed, Data
<1>8. \/ /\ Top.at = "closewrite" /\ report' = report
         /\ stack' = <<GetReply, Frame("stored")>> \o Tail(stack)
      \/ /\ Top.at = "stored"
         /\ stack' = Tail(stack)
         /\ report' \in {"stored", "failed"}
         /\ report' = "stored" => ret = COMPLETE /\ put = Pieces
         /\ data' = data
  BY DEF CloseWrite, Now, Top, Then, Return
<1>9. CASE /\ Top.at = "closewrite" /\ report' = report
           /\ stack' = <<GetReply, Frame("stored")>> \o Tail(stack)
  <2> DEFINE f == GetReply
             g == Frame("stored")
  <2>1. Beneath(stack) = "-"
    BY <1>1, <1>2, <1>3, <1>4, <1>5, <1>6, <1>7, <1>9 DEF Fits
  <2>2. /\ f \in Frames /\ f.at = "reply" /\ f.arg = "-" /\ f.wait = "-"
        /\ g \in Frames /\ g.at = "stored"
    BY <1>1, <1>2, <1>4, <1>9, <2>1 DEF Frame, With, Command, CommandOnly, CommandString,
       GetReply, Frames, Commands, Transfers, Places
  <2>3. stack' = <<f, g>> \o Tail(stack)
    BY <1>9
  <2> HIDE DEF f, g
  <2>4. /\ Fits(g, Beneath(stack)) /\ Fits(f, g.at) /\ Lowest1(g) = g
        /\ Suits(g, Below(stack), g) /\ Suits(f, g, g)
    BY <1>1, <1>2, <1>4, <1>9, <2>1, <2>2, PopFits DEF Fits, Suits, Lowest1, Sending,
       Connecting, Operations, Awaits, Places, Transfers
  <2>5. /\ Args(stack') /\ This' = f /\ stack' # <<>> /\ Lowest(stack') = g
        /\ Bottom(stack') = g.at /\ Beneath(stack') = g.at
    BY <1>1, <1>2, <1>4, <1>9, <2>1, <2>2, <2>3, <2>4, Put2, Put2Args, PopFits
  <2>6. SockUp' /\ NewSession' /\ Chdirs' /\ Reported' /\ Unsent'
    BY <1>1, <1>2, <1>3, <1>4, <1>5, <1>6, <1>7, <1>9, <2>2, <2>5, <2>1 DEF Told, SockUp,
       Unsent, NewSession, Chdirs, Reported, LoggingIn, Greeting, Waiting, Is, Still, Suits,
       Connecting, Operations
  <2>7. ~late' => Prelims' /\ Replies1'
    BY <1>1, <1>2, <1>3, <1>4, <1>5, <1>6, <1>7, <1>9, <2>2, <2>5, <2>1, NoPrelim, StillSame
       DEF Told, Prelims, Replies1, Waiting, Is, Still, Greeting, LoggingIn, Receives
  <2>8. ~late' => Listing'
    BY <1>1, <1>2, <1>3, <1>4, <1>5, <1>6, <1>7, <1>9, <2>2, <2>5, <2>1, NoPrelim, StillSame
       DEF Told, Listing, SameDir, Waiting, Is, Still, Receives
  <2>9. ~late' => Storage'
    BY <1>1, <1>2, <1>3, <1>4, <1>5, <1>6, <1>7, <1>9, <2>2, <2>5, <2>1, NoPrelim, StillSame
       DEF Told, Storage, Waiting, Is, Still, Receives
  <2>10. ~late' /\ net'.up => CmdIs'
    BY <1>1, <1>2, <1>3, <1>4, <1>5, <1>6, <1>7, <1>9, <2>2, <2>5, <2>1 DEF Told, Still,
       CmdIs
  <2>11. ~late' /\ net'.up => Server1'
    BY <1>1, <1>2, <1>3, <1>4, <1>5, <1>6, <1>7, <1>9, <2>2, <2>5, <2>1, StillSame DEF Told,
       Server1, LoggingIn, Greeting, Waiting, Is, Still, Elsewhere, Rejoining, Sending
  <2>12. ~late' /\ net'.up => Session'
    BY <1>1, <1>2, <1>3, <1>4, <1>5, <1>6, <1>7, <1>9, <2>2, <2>5, <2>1, SessionSame DEF
       Told, Still
  <2> QED  BY <2>5, <2>6, <2>7, <2>8, <2>9, <2>10, <2>11, <2>12 DEF Told
<1>10. CASE /\ Top.at = "stored"
            /\ stack' = Tail(stack)
            /\ report' \in {"stored", "failed"}
            /\ report' = "stored" => ret = COMPLETE /\ put = Pieces
            /\ data' = data
  <2>1. stack' = Tail(stack)
    BY <1>10
  <2>2. Below(stack).at = "-"
    BY <1>1, <1>2, <1>3, <1>4, <1>5, <1>6, <1>7, <1>10 DEF Fits
  <2>3. /\ Args(stack') /\ This' = Below(stack) /\ (stack' = <<>> <=> Beneath(stack) = "-")
        /\ stack' # <<>> => /\ Lowest(stack') = Lowest(stack)
                            /\ Bottom(stack') = Bottom(stack)
    BY <1>1, <1>2, <1>4, <2>1, Popped, PoppedArgs
  <2>4. SockUp' /\ NewSession' /\ Chdirs' /\ Reported' /\ Unsent'
    BY <1>1, <1>2, <1>3, <1>4, <1>5, <1>6, <1>7, <1>10, <2>2, <2>3 DEF Told, SockUp, Unsent,
       NewSession, Chdirs, Reported, LoggingIn, Greeting, Waiting, Is, Still, Suits,
       Connecting, Operations, Storage, Whole, Nobody, Frame
  <2>5. ~late' => Prelims' /\ Replies1' /\ Listing' /\ Storage'
    BY <1>1, <1>2, <1>3, <1>4, <1>5, <1>6, <1>7, <1>10, <2>2, <2>3, NoPrelim, StillSame DEF
       Told, Prelims, Replies1, Listing, SameDir, Storage, Waiting, Is, Still, Greeting,
       LoggingIn
  <2>6. ~late' /\ net'.up => CmdIs'
    BY <1>1, <1>2, <1>3, <1>4, <1>5, <1>6, <1>7, <1>10, <2>2, <2>3 DEF Told, Still, CmdIs
  <2>7. ~late' /\ net'.up => Server1'
    BY <1>1, <1>2, <1>3, <1>4, <1>5, <1>6, <1>7, <1>10, <2>2, <2>3, ServerSame DEF Told,
       Still
  <2>8. ~late' /\ net'.up => Session'
    BY <1>1, <1>2, <1>3, <1>4, <1>5, <1>6, <1>7, <1>10, <2>2, <2>3, SessionSame DEF Told,
       Still
  <2> QED  BY <2>3, <2>4, <2>5, <2>6, <2>7, <2>8 DEF Told
<1> QED  BY <1>8, <1>9, <1>10

-----------------------------------------------------------------------------
(* Commands                                                                 *)

\* Before a command nothing is due, except the end of a transfer that is aborted.
LEMMA Unanswered ==
  ASSUME Owed, Told, "copy" \notin opt.ops, stack # <<>>, ~late, net.up,
         Top.at \in {"command", "again", "retried"}
  PROVE  /\ net.cmds = <<>>
         /\ ~(Top.at = "command" /\ Top.arg = "ABOR") =>
              net.reps = <<>> /\ srv.at = "idle" /\ ~Read1(PRELIM) /\ ~Read1(COMPLETE)
<1>1. Live
  BY DEF Live, Told, SockUp
<1>2. \/ NoneDue
      \/ Top.at = "command" /\ Top.arg = "ABOR" /\ EndDue
  BY <1>1 DEF Owed, Due
<1>3. net.reps = <<>> => \A c : ~Read1(c)
  BY DEF Read1
<1> QED  BY <1>2, <1>3 DEF NoneDue, EndDue

\* The command is written.
LEMMA SentTells ==
  ASSUME Typed, Shape, Owed, Told, "copy" \notin opt.ops, stack # <<>>,
         Top.at \in {"command", "again", "retried"},
         net' = Sent(net, Top.arg), srv' = srv, data' = data, put' = put, file' = file,
         late' = late, opt' = opt, report' = report,
         sup'.sock = sup.sock, sup'.cwd = sup.cwd, sup'.binary = sup.binary,
         \/ Top.wait = "none" /\ stack' = Tail(stack) /\ ret' = COMPLETE
         \/ Top.wait # "none" /\ stack' = <<[Top EXCEPT !.at = "reply"]>> \o Tail(stack)
  PROVE  Told'
<1>1. Chain(stack) /\ Args(stack)
  BY DEF Shape, Told
<1>2. /\ Top \in Frames /\ Fits(Top, Beneath(stack)) /\ This = Top
      /\ Suits(Top, Below(stack), Lowest(stack)) /\ Below(stack).at = Beneath(stack)
      /\ Lowest(stack).at = Bottom(stack)
  BY <1>1, Running, ArgsHere
<1>3. /\ Awaits(Top.arg, Beneath(stack))
      /\ Top.wait = "none" <=> Top.arg \in {"PWD", "QUIT", "ABOR"}
      /\ Top.arg \in Logins => Top.at = "command"
  BY <1>2 DEF Fits, Suits, Logins
<1>4. /\ net'.up = net.up /\ net'.reps = net.reps
      /\ net'.cmds = (IF net.up THEN Append(net.cmds, Top.arg) ELSE net.cmds)
      /\ ~net.reset /\ net.up => ~net'.reset
      /\ net'.reset => net.reset \/ ~net.up
  <2>1. Top.arg \in Commands /\ net \in Net
    BY Arg DEF Typed
  <2> QED  BY <2>1, NetSent
<1>5. /\ Read1(PRELIM)' = Read1(PRELIM) /\ Read1(COMPLETE)' = Read1(COMPLETE)
      /\ Clean(0)' = Clean(0) /\ Clean(1)' = Clean(1) /\ (Clean(0) => Clean(1))
      /\ Receives' = Receives /\ Whole' = Whole
  BY <1>4 DEF Read1, Clean, Receives, Kept, Whole, PRELIM, COMPLETE
<1>6. ~late => ~Read1(PRELIM) /\ \A i \in 1 .. Len(net'.reps) : net'.reps[i].class # PRELIM
  <2>1. ~(This.at = "reply" /\ This.arg \in Transfers)
    BY <1>2
  <2> QED  BY <1>4, <2>1, NoPrelim DEF Told
<1>7. ~late /\ net.up => /\ net'.cmds = <<Top.arg>>
                         /\ Top.wait # "none" => net.reps = <<>> /\ srv.at = "idle" /\ ~Read1(COMPLETE)
  <2> SUFFICES ASSUME ~late, net.up
               PROVE  /\ net'.cmds = <<Top.arg>>
                      /\ Top.wait # "none" =>
                           net.reps = <<>> /\ srv.at = "idle" /\ ~Read1(COMPLETE)
    OBVIOUS
  <2>1. net.cmds = <<>>
    BY Unanswered
  <2>2. net'.cmds = <<Top.arg>>
    BY <1>4, <2>1
  <2> QED  BY <1>3, <2>2, Unanswered
<1>8. CASE Top.wait = "none" /\ stack' = Tail(stack) /\ ret' = COMPLETE
  <2>1. /\ Below(stack).at \in {"pwd", "close", "aborting"}
        /\ Below(stack).at = "pwd" => Top.at = "command" /\ Top.arg = "PWD"
    BY <1>2, <1>3, <1>8 DEF Awaits, Logins, Transfers
  <2>2. /\ Args(stack') /\ This' = Below(stack) /\ stack' # <<>>
        /\ Lowest(stack') = Lowest(stack) /\ Bottom(stack') = Bottom(stack)
    BY <1>1, <1>2, <1>8, <2>1, Popped, PoppedArgs
  <2>3. SockUp' /\ NewSession' /\ Chdirs' /\ Reported' /\ Unsent'
    BY <1>2, <1>4, <2>1, <2>2 DEF Told, SockUp, Unsent, NewSession, Chdirs, Reported, LoggingIn,
       Greeting, Waiting, Is
  <2>4. ~late' => Prelims' /\ Replies1' /\ Listing' /\ Storage'
    BY <1>6, <2>1, <2>2 DEF Prelims, Replies1, Listing, Storage, Waiting, Is
  <2>5. ~late' /\ net'.up => CmdIs'
    <3>1. ~late /\ net.up => \A i \in 1 .. Len(net'.cmds) : net'.cmds[i] = Top.arg
      BY <1>7
    <3> QED  BY <1>3, <1>4, <1>8, <2>1, <2>2, <3>1 DEF CmdIs
  <2>6. ~late' /\ net'.up => Server1'
    BY <1>2, <1>4, <2>1, <2>2 DEF Told, Server1, LoggingIn, Greeting, Waiting, Is, Rejoining,
       Sending
  <2>7. ~late' /\ net'.up => Session'
    BY <1>2, <1>4, <2>1, <2>2, SessionSame DEF Told
  <2> QED  BY <2>2, <2>3, <2>4, <2>5, <2>6, <2>7 DEF Told
<1>9. CASE Top.wait # "none" /\ stack' = <<[Top EXCEPT !.at = "reply"]>> \o Tail(stack)
  <2> DEFINE f == [Top EXCEPT !.at = "reply"]
  <2>1. f \in Frames /\ f.at = "reply" /\ f.arg = Top.arg /\ f.wait = Top.wait
    BY <1>2 DEF Frames
  <2>2. stack' = <<f>> \o Tail(stack)
    BY <1>9
  <2> HIDE DEF f
  <2>3. f.wait = "string" => f.arg \in {"PASV", "EPSV"}
    BY <1>2, <2>1 DEF Fits
  <2>4. Fits(f, Beneath(stack))
    BY <1>3, <1>9, <2>1, <2>3 DEF Fits
  <2>5. /\ Tail(stack) = <<>> <=> Beneath(stack) = "-"
        /\ Tail(stack) = <<>> => Top.arg \in {"DELE", "RNTO"}
    BY <1>1, <1>3, PopFits DEF Awaits
  <2>6. Suits(f, Below(stack), Lowest1(f))
    BY <1>2, <2>1, <2>5 DEF Suits, Sending, Connecting, Lowest1, Transfers
  <2>7. /\ Args(stack') /\ This' = f /\ stack' # <<>> /\ Beneath(stack') = Beneath(stack)
        /\ Lowest(stack') = Lowest1(f)
        /\ Bottom(stack') = IF Tail(stack) = <<>> THEN "reply" ELSE Bottom(stack)
    BY <1>1, <2>1, <2>2, <2>4, <2>6, Put1, Put1Args
  <2>8. Top.arg # "-" /\ Top.arg \notin {"PWD", "QUIT", "ABOR"}
    BY <1>3, <1>9 DEF Awaits, Transfers
  <2>9. SockUp' /\ NewSession' /\ Chdirs' /\ Reported' /\ Unsent'
    BY <1>2, <1>3, <1>4, <2>1, <2>7, <2>8 DEF Told, SockUp, Unsent, NewSession, Chdirs, Reported,
       LoggingIn, Greeting, Waiting, Is, Lowest1, Logins
  <2>10. ~late' => Prelims' /\ Replies1'
    BY <1>2, <1>3, <1>4, <1>5, <1>6, <2>1, <2>7, <2>8 DEF Told, Prelims, Replies1, Waiting, Is,
       Logins
  <2>11. ~late' => Listing' /\ Storage'
    BY <1>5, <1>6, <2>1, <2>7, <2>8 DEF Listing, Storage, Waiting, Is
  <2>12. ~late' /\ net'.up => CmdIs'
    <3>1. ~late /\ net.up => \A i \in 1 .. Len(net'.cmds) : net'.cmds[i] = Top.arg
      BY <1>7
    <3> QED  BY <1>4, <2>1, <2>7, <2>8, <3>1 DEF CmdIs
  <2>13. ~late' /\ net'.up => Server1'
    <3> SUFFICES ASSUME ~late, net.up, Server1 PROVE Server1'
      BY <1>4 DEF Told
    <3>1. srv'.at = "idle" /\ This'.at = "reply" /\ This'.arg # "-"
      BY <1>7, <1>9, <2>1, <2>7, <2>8
    <3>2. \A g \in {"greeted", "stored", "pwd_reply"} : ~(Waiting(g)')
      BY <3>1 DEF Waiting
    <3>3. /\ Is({"reply"}, {"PASS"})' => Is({"command"}, {"PASS"})
          /\ ~(Is({"command"}, {"PWD"})') /\ ~(Is({"command"}, {"PASS"})')
          /\ Is({"command", "reply"}, {"USER"})' => Is({"command", "reply"}, {"USER"})
      BY <1>2, <1>3, <2>1, <2>7 DEF Is, Logins
    <3>4. Greeting' => Greeting
      BY <3>1, <3>2, <3>3 DEF Greeting
    <3>5. Is({"command"}, {"PASS"}) => Greeting
      BY DEF Greeting
    <3>6. LoggingIn' => LoggingIn
      BY <3>1, <3>3, <3>4, <3>5 DEF LoggingIn
    <3>7. Rejoining' => Rejoining
      BY <1>2, <2>1, <2>7, <3>6, <2>5 DEF Rejoining, Elsewhere, Is, Sending
    <3>8. Is({"command", "reply"}, {"STOR"})' => Is({"command", "reply"}, {"STOR"}) \/ ~srv.set
      <4>1. Is({"command", "reply"}, {"STOR"})' => Top.arg = "STOR"
        BY <2>1, <2>7 DEF Is
      <4>2. Top.arg = "STOR" => Lowest(stack).at = "storing"
        BY <1>2 DEF Suits, Sending, Transfers
      <4>3. Top.arg = "STOR" /\ Top.at \in {"again", "retried"} => Rejoining
        BY <1>2, <4>2 DEF Rejoining, Elsewhere
      <4> QED  BY <1>2, <4>1, <4>3 DEF Is, Server1
    <3> QED  BY <3>1, <3>2, <3>3, <3>4, <3>5, <3>6, <3>7, <3>8 DEF Server1
  <2>14. ~late' /\ net'.up => Session'
    BY <1>2, <1>4, <1>5, <1>7, <1>9, <2>1, <2>7 DEF Told, Session, Is, SameDir, SameType
  <2> QED  BY <2>7, <2>9, <2>10, <2>11, <2>12, <2>13, <2>14 DEF Told
<1> QED  BY <1>8, <1>9

\* It cannot be written; where it began, no caller takes that for an answer.
LEMMA FailedTells ==
  ASSUME Shape, Told, stack # <<>>, Top.at \in {"command", "again", "retried"},
         stack' = Tail(stack), ret' = TRANSIENT \/ Top.at = "retried",
         put' = put, file' = file, late' = late, opt' = opt, report' = report,
         sup'.sock = sup.sock, sup'.cwd = sup.cwd, sup'.binary = sup.binary,
         \/ net' = net /\ srv' = srv
         \/ ~net'.up /\ net'.reps = <<>>
  PROVE  Told'
<1>1. Chain(stack) /\ Args(stack)
  BY DEF Shape, Told
<1>2. /\ Top \in Frames /\ Fits(Top, Beneath(stack)) /\ This = Top
      /\ Suits(Top, Below(stack), Lowest(stack)) /\ Below(stack).at = Beneath(stack)
  BY <1>1, Running, ArgsHere
<1>3. /\ Awaits(Top.arg, Beneath(stack)) /\ (Top.arg \in Logins => Top.at = "command")
      /\ Top.at = "retried" => Beneath(stack) = "agreed"
  BY <1>2 DEF Fits, Suits, Logins, Awaits, Transfers
<1>4. /\ Below(stack).at \in {"named", "passed", "pwd", "close", "aborting", "-", "renamed",
                              "agreed", "typed", "chdired", "prelim"}
      /\ Below(stack).at = "named" => Is({"command"}, {"USER"})
      /\ Below(stack).at = "passed" => Is({"command"}, {"PASS"})
      /\ Below(stack).at = "pwd" => Is({"command"}, {"PWD"})
      /\ Below(stack).at = "chdired" => Is(Sending, {"CWD home", "CWD sub"})
  BY <1>2, <1>3 DEF Awaits, Logins, Is, Sending, Transfers
<1>5. /\ Args(stack') /\ This' = Below(stack) /\ (stack' = <<>> <=> Beneath(stack) = "-")
      /\ stack' # <<>> => Lowest(stack') = Lowest(stack) /\ Bottom(stack') = Bottom(stack)
  BY <1>1, <1>2, Popped, PoppedArgs
<1>6. ret' = TRANSIENT \/ This'.at = "agreed"
  BY <1>2, <1>3, <1>5
<1>7. SockUp' /\ NewSession' /\ Chdirs' /\ Reported' /\ Unsent'
  <2>1. net'.up => net.up
    OBVIOUS
  <2>2. Greeting' => Is({"command"}, {"USER"})
    BY <1>4, <1>5 DEF Greeting, Waiting, Is
  <2>3. LoggingIn' => LoggingIn
    BY <1>4, <1>5, <2>2 DEF LoggingIn, Greeting, Is
  <2>4. /\ This.at \notin {"login", "connect", "connected"}
        /\ This'.at \notin {"connect", "connected", "command", "there"}
    BY <1>2, <1>4, <1>5
  <2>5. ~(Is({"command"}, {"PWD"})')
    BY <2>4 DEF Is
  <2>6. NewSession'
    BY <2>3, <2>4, <2>5 DEF Told, NewSession
  <2>7. Chdirs' /\ Reported' /\ Unsent'
    BY <1>2, <1>5, <2>4 DEF Told, Chdirs, Reported, Unsent
  <2> QED  BY <2>1, <2>6, <2>7 DEF Told, SockUp
<1>8. ~late' => Prelims' /\ Replies1'
  <2> SUFFICES ASSUME ~late PROVE Prelims' /\ Replies1'
    OBVIOUS
  <2>1. \A i \in 1 .. Len(<<>>) : FALSE
    OBVIOUS
  <2>2. ~(This.at = "reply" /\ This.arg \in Transfers)
    BY <1>2
  <2>3. Prelims'
    BY <2>1, <2>2, NoPrelim DEF Told, Prelims
  <2>4. This'.at \in {"named", "passed"} => Clean(0)'
    BY <1>4, <1>5, <2>1 DEF Told, Replies1, Is, Clean
  <2> QED  BY <1>4, <1>5, <1>6, <2>3, <2>4 DEF Replies1, Is, Waiting
<1>9. ~late' => Listing' /\ Storage'
  <2>1. This'.at \notin {"reply", "listing", "listed", "storing", "closewrite", "stored"}
    BY <1>4, <1>5
  <2>2. This'.at = "prelim" => ret' # PRELIM
    BY <1>6 DEF PRELIM, TRANSIENT
  <2> QED  BY <2>1, <2>2 DEF Listing, Storage, Waiting, Is
<1>10. ~late' /\ net'.up => CmdIs'
  BY <1>2, <1>4, <1>5 DEF Told, CmdIs
<1>11. ~late' /\ net'.up => Server1'
  <2> SUFFICES ASSUME Server1, srv' = srv PROVE Server1'
    BY DEF Told
  <2>1. /\ This'.at \notin {"login", "reply", "command", "relogged", "connected", "pwd_reply"}
        /\ This.at \in {"command", "again", "retried"}
    BY <1>2, <1>4, <1>5
  <2>2. \A at \in {{"command"}, {"reply"}, {"command", "reply"}} : \A args : ~(Is(at, args)')
    BY <2>1 DEF Is
  <2>3. \A g : ~(Waiting(g)')
    BY <2>1 DEF Waiting
  <2>4. This'.at \in {"greeted", "named", "passed"} => Greeting
    BY <1>4, <1>5 DEF Greeting, Is
  <2>5. LoggingIn' => Greeting
    BY <2>1, <2>2, <2>3, <2>4 DEF LoggingIn, Greeting
  <2>6. Rejoining' => Rejoining
    BY <1>4, <1>5, <2>1, <2>5 DEF Rejoining, Elsewhere, LoggingIn, Is, Sending
  <2>7. srv.at # "greet"
    BY <2>1 DEF Server1, Waiting
  <2>8. This'.at = "pwd" => Is({"command"}, {"PWD"})
    BY <1>4, <1>5
  <2>9. Greeting => LoggingIn
    BY DEF LoggingIn
  <2>10. Greeting' => LoggingIn'
    BY DEF LoggingIn
  <2> QED  BY <2>1, <2>2, <2>3, <2>4, <2>5, <2>6, <2>7, <2>8, <2>9, <2>10 DEF Server1
<1>12. ~late' /\ net'.up => Session'
  <2>1. This.at \notin {"reply", "chdired", "typed"} /\ This'.at # "reply"
    BY <1>2, <1>4, <1>5
  <2>2. This'.at \in {"chdired", "typed"} => ret' # COMPLETE
    BY <1>6 DEF COMPLETE, TRANSIENT
  <2> QED  BY <2>1, <2>2, SessionSame DEF Told
<1> QED  BY <1>5, <1>7, <1>8, <1>9, <1>10, <1>11, <1>12 DEF Told

\* A command is written, or the connection is made again before it is.
LEMMA WriteTells == ASSUME Typed, Shape, Owed, Told, "copy" \notin opt.ops, Write PROVE Told'
<1>1. stack # <<>> /\ Top.at = "command" /\ Chain(stack) /\ Args(stack)
  BY DEF Write, Now, Top, Shape, Told
<1>2. /\ Top \in Frames /\ Fits(Top, Beneath(stack)) /\ This = Top
      /\ Suits(Top, Below(stack), Lowest(stack)) /\ Below(stack).at = Beneath(stack)
      /\ Lowest(stack).at = Bottom(stack)
  BY <1>1, Running, ArgsHere
<1>3. opt' = opt /\ late' = late /\ file' = file /\ put' = put /\ report' = report
  BY DEF Write, Rest, handles
<1>4. sup'.sock = sup.sock /\ sup'.cwd = sup.cwd /\ sup'.binary = sup.binary
  <2>1. \/ sup' = [sup EXCEPT !.retry = FALSE]
        \/ sup' = [sup EXCEPT !.level = TRUE, !.code = "421"]
        \/ sup' = [sup EXCEPT !.code = "421"]
    BY DEF Write
  <2> QED  BY <2>1 DEF Typed, Sup
<1>5. \/ /\ net' = Sent(net, Top.arg) /\ srv' = srv /\ data' = data
         /\ \/ Top.wait = "none" /\ stack' = Tail(stack) /\ ret' = COMPLETE
            \/ Top.wait # "none" /\ stack' = <<[Top EXCEPT !.at = "reply"]>> \o Tail(stack)
      \/ /\ net.reset /\ net' = net /\ srv' = srv
         /\ stack' = <<Frame("reconnect"), [Top EXCEPT !.at = "again"]>> \o Tail(stack)
      \/ /\ stack' = Tail(stack) /\ ret' = TRANSIENT
         /\ \/ net' = [up |-> FALSE, reset |-> TRUE, cmds |-> <<>>, reps |-> <<>>]
            \/ net' = net /\ srv' = srv
  BY DEF Write, Then, Return, Gone, Top
<1>6. CASE /\ net' = Sent(net, Top.arg) /\ srv' = srv /\ data' = data
           /\ \/ Top.wait = "none" /\ stack' = Tail(stack) /\ ret' = COMPLETE
              \/ Top.wait # "none" /\ stack' = <<[Top EXCEPT !.at = "reply"]>> \o Tail(stack)
  BY <1>1, <1>3, <1>4, <1>6, SentTells
<1>7. CASE /\ net.reset /\ net' = net /\ srv' = srv
           /\ stack' = <<Frame("reconnect"), [Top EXCEPT !.at = "again"]>> \o Tail(stack)
  <2> DEFINE f == Frame("reconnect")
             g == [Top EXCEPT !.at = "again"]
  <2>1. f \in Frames /\ f.at = "reconnect"
    BY DEF Frame, Frames
  <2>2. g \in Frames /\ g.at = "again" /\ g.arg = Top.arg /\ g.wait = Top.wait
    BY <1>2 DEF Frames
  <2>3. stack' = <<f, g>> \o Tail(stack)
    BY <1>7
  <2> HIDE DEF f, g
  <2>4. Fits(g, Beneath(stack)) /\ Fits(f, g.at)
    BY <1>1, <1>2, <2>1, <2>2 DEF Fits
  <2>5. Top.arg \notin Logins
    BY <1>1, <1>2, <1>7 DEF Told, NewSession, Replies1, LoggingIn, Greeting, Is, Logins
  <2>6. Tail(stack) = <<>> => Top.arg \in {"DELE", "RNTO"}
    BY <1>1, <1>2, PopFits DEF Fits, Awaits
  <2>7. Suits(g, Below(stack), Lowest1(g)) /\ Suits(f, g, Lowest1(g))
    BY <1>1, <1>2, <2>1, <2>2, <2>5, <2>6 DEF Suits, Sending, Connecting, Lowest1, Transfers
  <2>8. /\ Args(stack') /\ This' = f /\ stack' # <<>> /\ Lowest(stack') = Lowest1(g)
        /\ Beneath(stack') = g.at
    BY <1>1, <2>1, <2>2, <2>3, <2>4, <2>7, Put2, Put2Args
  <2>9. Simple(This', Beneath(stack)')
    BY <2>1, <2>8 DEF Simple, Ordinary
  <2>10. Lowest(stack') = Lowest(stack) \/ Lowest(stack').at = "again"
    BY <2>2, <2>8 DEF Lowest1
  <2> QED  BY <1>1, <1>2, <1>3, <1>4, <1>7, <2>8, <2>9, <2>10, GoesOn DEF Quieter
<1>8. CASE /\ stack' = Tail(stack) /\ ret' = TRANSIENT
           /\ \/ net' = [up |-> FALSE, reset |-> TRUE, cmds |-> <<>>, reps |-> <<>>]
              \/ net' = net /\ srv' = srv
  BY <1>1, <1>3, <1>4, <1>8, FailedTells
<1> QED  BY <1>5, <1>6, <1>7, <1>8

\* ... after which it is written again.
LEMMA WriteAgainTells ==
  ASSUME Typed, Shape, Owed, Told, "copy" \notin opt.ops, WriteAgain PROVE Told'
<1>1. stack # <<>> /\ Top.at \in {"again", "retried"}
  BY DEF WriteAgain, Now, Top
<1>2. /\ opt' = opt /\ late' = late /\ file' = file /\ put' = put /\ report' = report
      /\ srv' = srv /\ data' = data
  BY DEF WriteAgain, Rest, handles
<1>3. sup'.sock = sup.sock /\ sup'.cwd = sup.cwd /\ sup'.binary = sup.binary
  <2>1. sup' = [sup EXCEPT !.level = FALSE, !.retry = sup.retry /\ ret = 1]
    BY DEF WriteAgain
  <2> QED  BY <2>1 DEF Typed, Sup
<1>4. \/ /\ net' = Sent(net, Top.arg)
         /\ \/ Top.wait = "none" /\ stack' = Tail(stack) /\ ret' = COMPLETE
            \/ Top.wait # "none" /\ stack' = <<[Top EXCEPT !.at = "reply"]>> \o Tail(stack)
      \/ /\ net' = net /\ stack' = Tail(stack)
         /\ ret' = TRANSIENT \/ Top.at # "again"
  BY DEF WriteAgain, Then, Return, Top
<1>5. CASE /\ net' = Sent(net, Top.arg)
           /\ \/ Top.wait = "none" /\ stack' = Tail(stack) /\ ret' = COMPLETE
              \/ Top.wait # "none" /\ stack' = <<[Top EXCEPT !.at = "reply"]>> \o Tail(stack)
  BY <1>1, <1>2, <1>3, <1>5, SentTells
<1>6. CASE net' = net /\ stack' = Tail(stack) /\ (ret' = TRANSIENT \/ Top.at # "again")
  BY <1>1, <1>2, <1>3, <1>6, FailedTells
<1> QED  BY <1>4, <1>5, <1>6

-----------------------------------------------------------------------------
(* Replies                                                                  *)

\* The first reply is read, if there is one.
LEMMA FirstRead ==
  ASSUME Typed, NEW c, c = (IF net.reps = <<>> THEN TRANSIENT ELSE Head(net.reps).class),
         net' = IF net.reps = <<>> THEN net ELSE [net EXCEPT !.reps = Tail(@)]
  PROVE  /\ net'.up = net.up /\ net'.reset = net.reset /\ net'.cmds = net.cmds
         /\ Clean(0) => Clean(0)' /\ c = TRANSIENT
         /\ Clean(1) => Clean(0)' /\ (Read1(COMPLETE) => c = COMPLETE)
         /\ Read1(PRELIM)' => Read1(PRELIM)
         /\ Read1(COMPLETE)' => Read1(COMPLETE)
         /\ c = PRELIM => Read1(PRELIM)
         /\ c = COMPLETE => Read1(COMPLETE)
         /\ Prelims => \A i \in 1 .. Len(net'.reps) : net'.reps[i].class # PRELIM
         /\ Len(net.reps) = 1 /\ Read1(COMPLETE) => c = COMPLETE
<1>1. net \in Net /\ net.reps \in Seq(Replies)
  BY NetFields DEF Typed
<1>2. PRELIM # TRANSIENT /\ COMPLETE # TRANSIENT
  BY DEF PRELIM, COMPLETE, TRANSIENT
<1>3. CASE net.reps = <<>>
  <2>1. net' = net /\ c = TRANSIENT
    BY <1>3
  <2>2. \A i \in 1 .. Len(net.reps) : FALSE
    BY <1>3
  <2> QED  BY <1>2, <2>1, <2>2 DEF Clean, Read1
<1>4. CASE net.reps # <<>>
  <2> DEFINE q == net.reps
  <2>1. /\ Tail(q) \in Seq(Replies) /\ Len(Tail(q)) = Len(q) - 1 /\ Len(q) \in Nat /\ Len(q) >= 1
        /\ Head(q) = q[1]
        /\ \A i \in 1 .. Len(q) - 1 : Tail(q)[i] = q[i + 1]
    BY <1>1, <1>4, SeqTail, SeqHead
  <2>2. /\ net'.up = net.up /\ net'.reset = net.reset /\ net'.cmds = net.cmds
        /\ net'.reps = Tail(q)
    <3>1. net' = [net EXCEPT !.reps = Tail(q)]
      BY <1>4
    <3> QED  BY <1>1, <2>1, <3>1, NetReps
  <2>3. c = q[1].class /\ 1 \in 1 .. Len(q)
    BY <1>4, <2>1
  <2> HIDE DEF q
  <2>4. \A i \in 1 .. Len(net'.reps) : i + 1 \in 1 .. Len(q) /\ i + 1 > 1 /\ net'.reps[i] = q[i + 1]
    BY <2>1, <2>2
  <2>5. \A i \in 1 .. Len(q) : i = 1 \/ i > 1
    BY <2>1
  <2>6. \A i \in 1 .. Len(q) : i > 0
    OBVIOUS
  <2>7. Clean(1) => Clean(0)' /\ (Read1(COMPLETE) => c = COMPLETE)
    <3>1. Clean(1) => Clean(0)'
      BY <2>4 DEF Clean, q
    <3>2. Clean(1) /\ Read1(COMPLETE) => c = COMPLETE
      BY <1>2, <2>3, <2>5 DEF Clean, Read1, q
    <3> QED  BY <3>1, <3>2
  <2>8. Clean(0) => Clean(1) /\ c = TRANSIENT
    BY <2>3, <2>6 DEF Clean, q
  <2>9. /\ Read1(PRELIM)' => Read1(PRELIM)
        /\ Read1(COMPLETE)' => Read1(COMPLETE)
    BY <2>4 DEF Read1, q, PRELIM, COMPLETE
  <2>10. (c = PRELIM => Read1(PRELIM)) /\ (c = COMPLETE => Read1(COMPLETE))
    BY <2>3 DEF Read1, q
  <2>11. Prelims => \A i \in 1 .. Len(net'.reps) : net'.reps[i].class # PRELIM
    <3> SUFFICES ASSUME Prelims, NEW i \in 1 .. Len(net'.reps) PROVE net'.reps[i].class # PRELIM
      OBVIOUS
    <3>1. i + 1 \in 1 .. Len(net.reps) /\ i + 1 # 1 /\ net'.reps[i] = net.reps[i + 1]
      BY <2>4 DEF q
    <3> QED  BY <3>1 DEF Prelims
  <2>12. Len(q) = 1 /\ Read1(COMPLETE) => c = COMPLETE
    BY <2>3 DEF Read1, q
  <2> QED  BY <2>2, <2>7, <2>8, <2>9, <2>10, <2>11, <2>12 DEF q
<1> QED  BY <1>3, <1>4

\* A reply is read where a command or a routine waits for it.
LEMMA TakenTells ==
  ASSUME Typed, Shape, Owed, Told, "copy" \notin opt.ops, stack # <<>>, Top.at = "reply",
         net.reps # <<>> \/ ~net.up,
         net' = IF net.reps = <<>> THEN net ELSE [net EXCEPT !.reps = Tail(@)],
         ret' = IF net.reps = <<>> THEN TRANSIENT ELSE Head(net.reps).class,
         stack' = Tail(stack), srv' = srv, data' = data, put' = put, file' = file,
         late' = late, opt' = opt, report' = report,
         sup'.sock = sup.sock, sup'.cwd = sup.cwd, sup'.binary = sup.binary
  PROVE  Told'
<1>1. Chain(stack) /\ Args(stack)
  BY DEF Shape, Told
<1>2. /\ Top \in Frames /\ Fits(Top, Beneath(stack)) /\ This = Top
      /\ Suits(Top, Below(stack), Lowest(stack)) /\ Below(stack).at = Beneath(stack)
      /\ Lowest(stack).at = Bottom(stack)
  BY <1>1, Running, ArgsHere
<1>3. \/ Top.arg # "-" /\ Awaits(Top.arg, Beneath(stack)) /\ Top.arg \notin {"PWD", "QUIT", "ABOR"}
      \/ /\ Top.arg = "-"
         /\ Beneath(stack) \in {"greeted", "pwd_reply", "ended", "fail", "listed", "stored",
                                "aborted", "closeread"}
  BY <1>2 DEF Fits, Awaits, Transfers
<1>4. /\ Args(stack') /\ This' = Below(stack) /\ (stack' = <<>> <=> Beneath(stack) = "-")
      /\ Chain(stack')
      /\ stack' # <<>> => /\ Lowest(stack') = Lowest(stack) /\ Bottom(stack') = Bottom(stack)
                          /\ Fits(This', Beneath(stack'))
  <2>1. /\ Args(stack') /\ This' = Below(stack) /\ (stack' = <<>> <=> Beneath(stack) = "-")
        /\ Chain(stack')
        /\ stack' # <<>> => /\ Lowest(stack') = Lowest(stack) /\ Bottom(stack') = Bottom(stack)
                            /\ This' = Top'
    BY <1>1, <1>2, Popped, PoppedArgs
  <2>2. stack' # <<>> => Fits(Head(stack'), Beneath(stack'))
    BY <2>1, TopFits
  <2> QED  BY <2>1, <2>2 DEF Top
<1>5. /\ net'.up = net.up /\ net'.reset = net.reset /\ net'.cmds = net.cmds
      /\ Clean(0) => Clean(0)' /\ ret' = TRANSIENT
      /\ Clean(1) => Clean(0)' /\ (Read1(COMPLETE) => ret' = COMPLETE)
      /\ Read1(PRELIM)' => Read1(PRELIM)
      /\ Read1(COMPLETE)' => Read1(COMPLETE)
      /\ ret' = PRELIM => Read1(PRELIM)
      /\ ret' = COMPLETE => Read1(COMPLETE)
      /\ Prelims => \A i \in 1 .. Len(net'.reps) : net'.reps[i].class # PRELIM
      /\ Len(net.reps) = 1 /\ Read1(COMPLETE) => ret' = COMPLETE
  BY FirstRead
\* what the routine that goes on has waited for
<1>6. /\ This'.at \in {"named", "passed", "-", "renamed", "agreed", "typed", "chdired", "prelim",
                       "greeted", "pwd_reply", "ended", "fail", "listed", "stored", "aborted",
                       "closeread"}
      /\ \A g \in {"greeted", "pwd_reply", "listed", "stored"} : This'.at = g => Waiting(g)
      /\ This'.at = "named" => Is({"reply"}, {"USER"})
      /\ This'.at = "passed" => Is({"reply"}, {"PASS"})
      /\ This'.at = "prelim" <=> Is({"reply"}, Transfers)
      /\ This'.at = "chdired" <=> Is({"reply"}, {"CWD home", "CWD sub"})
      /\ This'.at = "typed" <=> Is({"reply"}, {"TYPE I", "TYPE A"})
  BY <1>2, <1>3, <1>4 DEF Awaits, Is, Waiting, Transfers
<1>7. SockUp' /\ NewSession' /\ Chdirs' /\ Reported' /\ Unsent'
  <2>1. /\ \A g : ~(Waiting(g)') /\ ~(Is({"reply"}, {"PASS"})') /\ ~(Is({"command"}, {"PWD"})')
        /\ ~(Is({"command", "reply"}, {"USER"})') /\ ~(Is({"command"}, {"PASS"})')
    BY <1>6 DEF Waiting, Is
  <2>2. Greeting' => Greeting /\ This'.at # "login"
    BY <1>6, <2>1 DEF Greeting, Is
  <2>3. LoggingIn' => LoggingIn /\ This.at # "login"
    BY <1>2, <1>6, <2>1, <2>2 DEF LoggingIn
  <2>4. NewSession'
    BY <1>6, <2>1, <2>3 DEF Told, NewSession
  <2>5. Chdirs' /\ Reported' /\ Unsent'
    BY <1>2, <1>4, <1>6 DEF Told, Chdirs, Reported, Unsent
  <2> QED  BY <1>5, <2>4, <2>5 DEF Told, SockUp
<1>8. ~late' => Prelims' /\ Replies1'
  <2> SUFFICES ASSUME ~late PROVE Prelims' /\ Replies1'
    OBVIOUS
  <2>1. Prelims'
    BY <1>5 DEF Told, Prelims
  <2>2. /\ This'.at = "greeted" => ~net'.reset /\ Clean(0)'
        /\ This'.at \in {"named", "passed"} => Clean(0)' /\ (ret' # TRANSIENT => ~net'.reset)
    BY <1>5, <1>6 DEF Told, Replies1, Is
  <2> QED  BY <1>6, <2>1, <2>2 DEF Replies1, Is, Waiting
<1>9. ~late' => Listing' /\ Storage'
  <2> SUFFICES ASSUME ~late PROVE Listing' /\ Storage'
    OBVIOUS
  <2>1. SameDir' = SameDir /\ Kept' = Kept /\ Whole' = Whole
    BY DEF SameDir, Kept, Whole
  <2>2. Receives => Receives'
    BY <1>5, <2>1 DEF Receives
  <2>3. This'.at = "prelim" /\ ret' = PRELIM => SameDir' /\ (Bottom(stack') = "storing" => Receives')
    <3> SUFFICES ASSUME This'.at = "prelim", ret' = PRELIM
                 PROVE  SameDir' /\ (Bottom(stack') = "storing" => Receives')
      OBVIOUS
    <3>1. Is({"reply"}, Transfers) /\ Read1(PRELIM)
      BY <1>5, <1>6
    <3>2. SameDir'
      BY <2>1, <3>1 DEF Told, Listing
    <3>3. stack' # <<>>
      BY <1>2, <1>4
    <3>4. Bottom(stack') = "storing" => Is({"reply"}, {"STOR"})
      BY <1>2, <1>4, <3>1, <3>3 DEF Suits, Sending, Is
    <3> QED  BY <2>2, <3>1, <3>2, <3>4 DEF Told, Storage
  <2>4. This'.at = "listed" => SameDir'
    BY <1>6, <2>1 DEF Told, Listing
  <2>5. This'.at = "stored" /\ ret' = COMPLETE => Whole'
    BY <1>5, <1>6, <2>1 DEF Told, Storage
  <2> QED  BY <1>6, <2>3, <2>4, <2>5 DEF Listing, Storage, Waiting, Is
\* what is due when the connection stands
<1>10. ~late /\ net.up => /\ Top.arg = "-" \/ net.cmds = <<>>
                          /\ srv.at # "greet" \/ Beneath(stack) = "aborted" \/ Top.arg \in Transfers
                          /\ Top.arg \notin Transfers \cup {"-"} => Len(net.reps) = 1
                          /\ Waiting("greeted") => srv.at = "idle"
  <2> SUFFICES ASSUME ~late, net.up
               PROVE  /\ Top.arg = "-" \/ net.cmds = <<>>
                      /\ srv.at # "greet" \/ Beneath(stack) = "aborted" \/ Top.arg \in Transfers
                      /\ Top.arg \notin Transfers \cup {"-"} => Len(net.reps) = 1
                      /\ Waiting("greeted") => srv.at = "idle"
    OBVIOUS
  <2>1. Live /\ Due /\ net.reps # <<>>
    BY DEF Live, Told, SockUp, Owed
  <2>2. /\ Top.arg \in Transfers => Beneath(stack) # "aborted" /\ TransferDue
        /\ Top.arg \notin Transfers /\ Beneath(stack) # "aborted" => OneDue
        /\ Beneath(stack) = "aborted" => Top.arg = "-"
    <3>1. /\ Top.arg \in Transfers => Beneath(stack) # "aborted"
          /\ Beneath(stack) = "aborted" => Top.arg = "-"
      BY <1>3 DEF Awaits, Transfers
    <3> QED  BY <2>1, <3>1 DEF Due
  <2>3. TransferDue => net.cmds = <<>>
    BY <2>1 DEF TransferDue
  <2>4. OneDue => net.cmds = <<>> /\ srv.at = "idle" /\ Len(net.reps) = 1
    BY <2>1 DEF OneDue
  <2> QED  BY <1>2, <2>2, <2>3, <2>4 DEF Waiting, Transfers
<1>11. ~late' /\ net'.up => CmdIs'
  <2>1. \A i \in 1 .. Len(<<>>) : FALSE
    OBVIOUS
  <2> QED  BY <1>2, <1>5, <1>6, <1>10, <2>1 DEF Told, CmdIs
<1>12. ~late' /\ net'.up => Server1'
  <2> SUFFICES ASSUME ~late, net.up, Server1 PROVE Server1'
    BY <1>5 DEF Told
  <2>1. /\ \A g : ~(Waiting(g)')
        /\ \A at \in {{"command"}, {"reply"}, {"command", "reply"}} : \A args : ~(Is(at, args)')
        /\ This'.at \notin {"login", "reply", "relogged", "connected", "pwd"}
    BY <1>6 DEF Waiting, Is
  <2>2. Greeting' => Greeting
    BY <1>6, <2>1 DEF Greeting, Is
  <2>3. LoggingIn' => LoggingIn
    BY <1>6, <2>1, <2>2 DEF LoggingIn
  <2>4. Rejoining' => Rejoining
    BY <1>2, <1>4, <1>6, <2>1, <2>3 DEF Rejoining, Elsewhere, Is, Sending
  <2>5. srv.at # "greet"
    BY <1>2, <1>10 DEF Server1, Waiting
  <2>6. This'.at = "passed" /\ srv.in => ret' = COMPLETE
    <3> SUFFICES ASSUME This'.at = "passed", srv.in PROVE ret' = COMPLETE
      OBVIOUS
    <3>1. Read1(COMPLETE) /\ Clean(1)
      BY <1>6 DEF Told, Server1, Replies1, Is
    <3> QED  BY <1>5, <3>1
  <2>7. This'.at = "pwd_reply" => Waiting("pwd_reply")
    BY <1>6
  <2> QED  BY <2>1, <2>2, <2>3, <2>4, <2>5, <2>6, <2>7 DEF Server1
<1>13. ~late' /\ net'.up => Session'
  <2> SUFFICES ASSUME ~late, net.up, Session PROVE Session'
    BY <1>5 DEF Told
  <2>1. SameDir' = SameDir /\ SameType' = SameType
    BY DEF SameDir, SameType
  <2>2. /\ This'.at = "chdired" => (ret' = COMPLETE <=> Read1(COMPLETE))
        /\ This'.at = "typed" => (ret' = COMPLETE <=> Read1(COMPLETE))
    BY <1>2, <1>5, <1>6, <1>10 DEF Is, Transfers
  <2>3. This'.at = "chdired" => Place(Top.arg) = This'.arg
    <3> SUFFICES ASSUME This'.at = "chdired" PROVE Place(Top.arg) = This'.arg
      OBVIOUS
    <3>1. Top.arg = Cwd(This'.arg)
      BY <1>2, <1>4 DEF Suits, Sending
    <3>2. This'.arg \in Places
      BY <1>2, <1>4 DEF Fits
    <3> QED  BY <3>1, <3>2 DEF Cwd, Place, Places
  <2>4. This'.at = "typed" => ((Top.arg = "TYPE I") <=> (This'.wait = "yes"))
    <3> SUFFICES ASSUME This'.at = "typed" PROVE (Top.arg = "TYPE I") <=> (This'.wait = "yes")
      OBVIOUS
    <3>1. Top.arg = Type(This'.wait)
      BY <1>2, <1>4 DEF Suits, Sending
    <3>2. This'.wait \in {"yes", "no"}
      BY <1>2, <1>4 DEF Fits
    <3> QED  BY <3>1, <3>2 DEF Type
  <2>5. ~(Is({"reply"}, {"CWD home", "CWD sub"})') /\ ~(Is({"reply"}, {"TYPE I", "TYPE A"})')
    BY <1>6 DEF Is
  <2>6. IF This'.at = "chdired" /\ ret' = COMPLETE THEN srv.cwd = This'.arg ELSE srv.in => SameDir
    BY <1>2, <1>6, <2>2, <2>3 DEF Session
  <2>7. IF This'.at = "typed" /\ ret' = COMPLETE THEN srv.binary <=> (This'.wait = "yes")
        ELSE srv.in => SameType
    BY <1>2, <1>6, <2>2, <2>4 DEF Session
  <2>8. srv.binary \in BOOLEAN
    BY DEF Typed, Srv
  <2> QED  BY <2>1, <2>5, <2>6, <2>7, <2>8 DEF Session
<1> QED  BY <1>4, <1>7, <1>8, <1>9, <1>11, <1>12, <1>13 DEF Told

\* A reply is read, or the connection has gone.
LEMMA ReplyTells == ASSUME Typed, Shape, Owed, Told, "copy" \notin opt.ops, Reply PROVE Told'
<1>1. stack # <<>> /\ Top.at = "reply" /\ Chain(stack) /\ Args(stack)
  BY DEF Reply, Now, Top, Shape, Told
<1>2. /\ Top \in Frames /\ Fits(Top, Beneath(stack)) /\ This = Top
      /\ Suits(Top, Below(stack), Lowest(stack)) /\ Below(stack).at = Beneath(stack)
      /\ Lowest(stack).at = Bottom(stack)
  BY <1>1, Running, ArgsHere
<1>3. /\ opt' = opt /\ late' = late /\ file' = file /\ put' = put /\ report' = report
      /\ srv' = srv /\ data' = data
  BY DEF Reply, Rest, handles
<1>4. sup'.sock = sup.sock /\ sup'.cwd = sup.cwd /\ sup'.binary = sup.binary
  <2> DEFINE code == IF net.reps = <<>> THEN "421" ELSE Head(net.reps).code
             from == IF net.reps = <<>> THEN "-" ELSE Head(net.reps).to
             retry == IF Top.arg = "-" THEN sup.retry ELSE FALSE
  <2>1. \/ sup' = [sup EXCEPT !.retry = TRUE, !.level = TRUE, !.code = code]
        \/ sup' = [sup EXCEPT !.code = code, !.retry = retry, !.from = from]
    BY DEF Reply, Top
  <2> HIDE DEF code, from, retry
  <2>2. sup \in Sup
    BY DEF Typed
  <2> QED  BY <2>1, <2>2 DEF Sup
<1>5. /\ net.reps # <<>> \/ ~net.up
      /\ net' = IF net.reps = <<>> THEN net ELSE [net EXCEPT !.reps = Tail(@)]
  BY DEF Reply
<1>6. \/ /\ Top.wait = "string"
         /\ stack' = <<Frame("reconnect"), [Top EXCEPT !.at = "retried"]>> \o Tail(stack)
      \/ /\ stack' = Tail(stack)
         /\ ret' = IF net.reps = <<>> THEN TRANSIENT ELSE Head(net.reps).class
  BY DEF Reply, Then, Return, Top
<1>7. CASE /\ Top.wait = "string"
           /\ stack' = <<Frame("reconnect"), [Top EXCEPT !.at = "retried"]>> \o Tail(stack)
  <2> DEFINE f == Frame("reconnect")
             g == [Top EXCEPT !.at = "retried"]
  <2>1. f \in Frames /\ f.at = "reconnect"
    BY DEF Frame, Frames
  <2>2. g \in Frames /\ g.at = "retried" /\ g.arg = Top.arg /\ g.wait = Top.wait
    BY <1>2 DEF Frames
  <2>3. stack' = <<f, g>> \o Tail(stack)
    BY <1>7
  <2> HIDE DEF f, g
  <2>4. Top.arg \in {"PASV", "EPSV"} /\ Beneath(stack) = "agreed" /\ Tail(stack) # <<>>
    BY <1>1, <1>2, <1>7, PopFits DEF Fits, Awaits, Transfers
  <2>5. Fits(g, Beneath(stack)) /\ Fits(f, g.at)
    BY <1>7, <2>1, <2>2, <2>4 DEF Fits, Awaits
  <2>6. Suits(g, Below(stack), Lowest1(g)) /\ Suits(f, g, Lowest1(g))
    BY <1>2, <2>1, <2>2, <2>4 DEF Suits, Sending, Connecting, Transfers
  <2>7. /\ Args(stack') /\ This' = f /\ stack' # <<>> /\ Lowest(stack') = Lowest(stack)
        /\ Bottom(stack') = Bottom(stack) /\ Beneath(stack') = "retried"
    BY <1>1, <2>1, <2>2, <2>3, <2>4, <2>5, <2>6, Put2, Put2Args DEF Lowest1
  <2>8. PICK c : c = (IF net.reps = <<>> THEN TRANSIENT ELSE Head(net.reps).class)
    OBVIOUS
  <2>9. /\ net'.up = net.up /\ net'.cmds = net.cmds
        /\ Prelims => \A i \in 1 .. Len(net'.reps) : net'.reps[i].class # PRELIM
    BY <1>5, <2>8, FirstRead
  <2>10. SockUp' /\ NewSession' /\ Chdirs' /\ Reported' /\ Unsent'
    BY <1>1, <1>2, <1>3, <1>4, <2>1, <2>7, <2>9 DEF Told, SockUp, NewSession, LoggingIn, Greeting,
       Waiting, Is, Chdirs, Reported, Unsent
  <2>11. ~late' => Prelims' /\ Replies1' /\ Listing' /\ Storage'
    BY <1>3, <2>1, <2>7, <2>9 DEF Told, Prelims, Replies1, Listing, Storage, Waiting, Is
  <2>12. ~late' /\ net'.up => CmdIs'
    <3>1. \A i \in 1 .. Len(<<>>) : FALSE
      OBVIOUS
    <3>2. ~late /\ net.up => net.cmds = <<>>
      <4> SUFFICES ASSUME ~late, net.up PROVE net.cmds = <<>>
        OBVIOUS
      <4>1. Live /\ Due /\ net.reps # <<>>
        BY <1>1, <1>5 DEF Live, Told, SockUp, Owed
      <4>2. OneDue
        BY <1>1, <2>4, <4>1 DEF Due, Transfers
      <4> QED  BY <4>1, <4>2 DEF OneDue
    <3> QED  BY <1>3, <2>1, <2>7, <2>9, <3>1, <3>2 DEF CmdIs
  <2>13. ~late' /\ net'.up => Server1'
    BY <1>1, <1>2, <1>3, <2>1, <2>4, <2>7, <2>9 DEF Told, Server1, LoggingIn, Greeting, Waiting, Is,
       Rejoining, Sending
  <2>14. ~late' /\ net'.up => Session'
    BY <1>1, <1>2, <1>3, <1>4, <2>1, <2>4, <2>7, <2>9 DEF Told, Session, Is, SameDir, SameType
  <2> QED  BY <2>7, <2>10, <2>11, <2>12, <2>13, <2>14 DEF Told
<1>8. CASE /\ stack' = Tail(stack)
           /\ ret' = IF net.reps = <<>> THEN TRANSIENT ELSE Head(net.reps).class
  BY <1>1, <1>3, <1>4, <1>5, <1>8, TakenTells
<1> QED  BY <1>6, <1>7, <1>8

-----------------------------------------------------------------------------
(* Connections                                                              *)

\* Nothing is known of a new connection but the greeting that is due.
LEMMA FreshTells ==
  ASSUME Shape, Told, stack # <<>>, Top.at \in {"reconnect", "connect"}, Fresh,
         opt' = opt, put' = put, report' = report,
         sup'.sock = "open", sup'.cwd = "none", NEW g \in Frames,
         Fits(g, Beneath(stack)), g.at \in {"relogged", "connected"},
         Suits(g, Below(stack), Lowest(stack)), Beneath(stack) # "-",
         stack' = <<Frame("login"), g>> \o Tail(stack)
  PROVE  Told'
<1>1. Chain(stack) /\ Args(stack) /\ Tail(stack) # <<>>
  BY PopFits DEF Shape, Told
<1>2. This = Top /\ Lowest(stack).at = Bottom(stack)
  BY <1>1, ArgsHere
<1> DEFINE f == Frame("login")
<1>3. f \in Frames /\ f.at = "login"
  BY DEF Frame, Frames
<1> HIDE DEF f
<1>4. Fits(f, g.at) /\ Suits(f, g, Lowest(stack))
  BY <1>3 DEF Fits, Suits, Sending, Connecting
<1>5. /\ Args(stack') /\ This' = f /\ stack' # <<>> /\ Lowest(stack') = Lowest(stack)
      /\ Bottom(stack') = Bottom(stack) /\ Beneath(stack') = g.at
  BY <1>1, <1>3, <1>4, Put2, Put2Args DEF Lowest1, f
<1>6. /\ net'.up /\ ~net'.reset /\ net'.cmds = <<>> /\ net'.reps = <<>>
      /\ srv'.at = "greet" /\ ~srv'.in /\ ~srv'.set /\ srv'.cwd = "home" /\ ~late'
  BY DEF Fresh, NewSrv
<1>7. \A i \in 1 .. Len(<<>>) : FALSE
  OBVIOUS
<1>8. SockUp' /\ NewSession' /\ Chdirs' /\ Reported' /\ Unsent'
  BY <1>2, <1>3, <1>5, <1>6 DEF Told, SockUp, NewSession, Is, Chdirs, Reported, Unsent
<1>9. Prelims' /\ Replies1' /\ Listing' /\ Storage'
  BY <1>3, <1>5, <1>6, <1>7 DEF Prelims, Replies1, Clean, Listing, Storage, Waiting, Is
<1>10. CmdIs' /\ Server1' /\ Session'
  BY <1>3, <1>5, <1>6, <1>7 DEF CmdIs, Server1, Session, Waiting, Is
<1> QED  BY <1>5, <1>8, <1>9, <1>10 DEF Told

\* The connection is made again; the directory is kept for afterwards.
LEMMA ReconnectTells ==
  ASSUME Typed, Shape, Owed, Told, "copy" \notin opt.ops, Reconnect PROVE Told'
<1>1. stack # <<>> /\ Top.at = "reconnect" /\ Chain(stack) /\ Args(stack)
  BY DEF Reconnect, Now, Top, Shape, Told
<1>2. /\ Top \in Frames /\ Fits(Top, Beneath(stack)) /\ This = Top
      /\ Suits(Top, Below(stack), Lowest(stack)) /\ Below(stack).at = Beneath(stack)
      /\ Lowest(stack).at = Bottom(stack)
  BY <1>1, Running, ArgsHere
<1>3. Beneath(stack) \in {"again", "retried", "fail", "closeread"}
  BY <1>1, <1>2 DEF Fits
<1>4. opt' = opt /\ put' = put /\ report' = report
  BY DEF Reconnect, Rest
<1>5. \/ /\ Fresh /\ sup' = [sup EXCEPT !.sock = "open", !.cwd = "none"]
         /\ stack' = <<Frame("login"), With("relogged", sup.cwd)>> \o Tail(stack)
      \/ /\ stack' = Tail(stack) /\ ret' = 0 /\ late' = (late \/ net.up) /\ sup' = sup
         /\ net' = net /\ srv' = srv /\ data' = data /\ file' = file
  BY DEF Reconnect, Then, Return, remote
<1>6. CASE /\ Fresh /\ sup' = [sup EXCEPT !.sock = "open", !.cwd = "none"]
           /\ stack' = <<Frame("login"), With("relogged", sup.cwd)>> \o Tail(stack)
  <2> DEFINE g == With("relogged", sup.cwd)
  <2>1. sup'.sock = "open" /\ sup'.cwd = "none" /\ sup.cwd \in {"none", "home", "sub"}
    BY <1>6 DEF Typed, Sup
  <2>2. g \in Frames /\ g.at = "relogged" /\ g.arg = sup.cwd
    BY <2>1 DEF With, Frames
  <2>3. stack' = <<Frame("login"), g>> \o Tail(stack)
    BY <1>6
  <2> HIDE DEF g
  <2>4. Fits(g, Beneath(stack))
    BY <1>3, <2>1, <2>2 DEF Fits, Places
  <2>5. Suits(g, Below(stack), Lowest(stack))
    BY <1>1, <1>2, <1>3, <2>2 DEF Told, Chdirs, Suits, Sending, Connecting
  <2> QED  BY <1>1, <1>3, <1>4, <1>6, <2>1, <2>2, <2>3, <2>4, <2>5, FreshTells
<1>7. CASE /\ stack' = Tail(stack) /\ ret' = 0 /\ late' = (late \/ net.up) /\ sup' = sup
           /\ net' = net /\ srv' = srv /\ data' = data /\ file' = file
  <2>1. /\ Args(stack') /\ This' = Below(stack) /\ stack' # <<>>
        /\ Lowest(stack') = Lowest(stack) /\ Bottom(stack') = Bottom(stack)
    BY <1>1, <1>2, <1>3, <1>7, Popped, PoppedArgs
  <2>2. ~(This.at = "reply" /\ This.arg \in Transfers)
    BY <1>1, <1>2
  <2>3. SockUp' /\ NewSession' /\ Chdirs' /\ Reported' /\ Unsent'
    BY <1>1, <1>2, <1>3, <1>4, <1>7, <2>1 DEF Told, SockUp, NewSession, LoggingIn, Greeting,
       Waiting, Is, Chdirs, Reported, Unsent
  <2>4. ~late' => Prelims' /\ Replies1' /\ Listing' /\ Storage'
    BY <1>2, <1>3, <1>7, <2>1, <2>2, NoPrelim DEF Told, Prelims, Replies1, Listing, Storage,
       Waiting, Is
  <2>5. ~late' => ~net'.up
    BY <1>7
  <2> QED  BY <2>1, <2>3, <2>4, <2>5 DEF Told
<1> QED  BY <1>5, <1>6, <1>7

\* The first connection of an operation.
LEMMA ConnectTells ==
  ASSUME Typed, Shape, Owed, Told, "copy" \notin opt.ops, Connect PROVE Told'
<1>1. stack # <<>> /\ Top.at = "connect" /\ Chain(stack) /\ Args(stack)
  BY DEF Connect, Now, Top, Shape, Told
<1>2. /\ Top \in Frames /\ Fits(Top, Beneath(stack)) /\ This = Top
      /\ Suits(Top, Below(stack), Lowest(stack)) /\ Below(stack).at = Beneath(stack)
      /\ Lowest(stack).at = Bottom(stack)
  BY <1>1, Running, ArgsHere
<1>3. Beneath(stack) \in {"list", "command", "read", "store"}
  BY <1>1, <1>2 DEF Fits
<1>4. opt' = opt /\ put' = put /\ report' = report
  BY DEF Connect, Rest
<1>5. \/ /\ Fresh /\ sup' = [sup EXCEPT !.sock = "open", !.failed = FALSE]
         /\ stack' = <<Frame("login"), Frame("connected")>> \o Tail(stack)
      \/ /\ stack' = <<>> /\ late' = late
         /\ net' = net /\ srv' = srv /\ data' = data /\ file' = file
  BY DEF Connect, Then, remote
<1>6. CASE /\ Fresh /\ sup' = [sup EXCEPT !.sock = "open", !.failed = FALSE]
           /\ stack' = <<Frame("login"), Frame("connected")>> \o Tail(stack)
  <2> DEFINE g == Frame("connected")
  <2>1. sup'.sock = "open" /\ sup'.cwd = "none"
    BY <1>1, <1>2, <1>6 DEF Typed, Sup, Told, NewSession
  <2>2. g \in Frames /\ g.at = "connected"
    BY DEF Frame, Frames
  <2>3. stack' = <<Frame("login"), g>> \o Tail(stack)
    BY <1>6
  <2> HIDE DEF g
  <2>4. Fits(g, Beneath(stack))
    BY <1>3, <2>2 DEF Fits
  <2>5. Suits(g, Below(stack), Lowest(stack))
    BY <1>1, <1>2, <1>3, <2>2 DEF Suits, Sending, Connecting
  <2> QED  BY <1>1, <1>3, <1>4, <1>6, <2>1, <2>2, <2>3, <2>4, <2>5, FreshTells
<1>7. CASE /\ stack' = <<>> /\ late' = late
           /\ net' = net /\ srv' = srv /\ data' = data /\ file' = file
  <2>1. ~net'.up
    BY <1>1, <1>7 DEF Told, SockUp, Shape
  <2>2. This' = Nobody /\ Args(stack')
    <3>1. \A i \in 1 .. Len(<<>>) : FALSE
      OBVIOUS
    <3> QED  BY <1>7, <3>1 DEF This, Args
  <2>3. This'.at = "-" /\ ~(This.at = "reply" /\ This.arg \in Transfers)
    BY <1>1, <1>2, <2>2 DEF Nobody, Frame
  <2>4. SockUp' /\ NewSession' /\ Chdirs' /\ Reported' /\ Unsent'
    BY <1>1, <1>4, <1>7, <2>1, <2>3 DEF Told, SockUp, NewSession, LoggingIn, Greeting, Waiting, Is,
       Chdirs, Reported, Unsent
  <2>5. ~late' => Prelims' /\ Replies1' /\ Listing' /\ Storage'
    BY <1>7, <2>3, NoPrelim DEF Told, Prelims, Replies1, Listing, Storage, Waiting, Is
  <2> QED  BY <2>1, <2>2, <2>4, <2>5 DEF Told
<1> QED  BY <1>5, <1>6, <1>7

\* One call.
LEMMA OneArgs ==
  ASSUME NEW f \in Frames, Suits(f, Nobody, f)
  PROVE  Args(<<f>>) /\ Lowest(<<f>>) = f /\ First1(<<f>>) = f
<1> DEFINE s == <<>>
<1>1. s \in Seq(Frames) /\ First1(s) = Nobody /\ s = <<>>
  BY DEF First1
<1>2. Args(s)
  <2>1. \A i \in 1 .. Len(<<>>) : FALSE
    OBVIOUS
  <2> QED  BY <2>1 DEF Args
<1>3. <<f>> = <<f>> \o s
  OBVIOUS
<1> HIDE DEF s
<1>4. Args(<<f>> \o s) /\ Lowest(<<f>> \o s) = f /\ First1(<<f>> \o s) = f
  BY <1>1, <1>2, ArgsCons
<1> QED  BY <1>3, <1>4

\* An operation that begins with one.
LEMMA FirstArgs ==
  ASSUME NEW f \in Frames, stack' = <<f>>, Suits(f, Nobody, f)
  PROVE  Args(stack') /\ This' = f /\ Lowest(stack') = f
<1>1. Args(<<f>>) /\ Lowest(<<f>>) = f /\ First1(<<f>>) = f
  BY OneArgs
<1> QED  BY <1>1 DEF This, First1, Top

\* Before a new connection is made there is none.
LEMMA ClosedTells ==
  ASSUME Told, This.at \in {"connected", "-"}, report' \notin {"stored", "wrong"}, late' = late,
         sup'.cwd = "none", ~net'.up, net'.reps = net.reps, net'.reset = net.reset,
         Args(stack'), stack' # <<>>, Lowest(stack').at \in Operations,
         \/ This'.at \in {"connect", "list", "read", "store"}
         \/ This'.at = "command" /\ This'.arg \in {"DELE", "RNFR"}
  PROVE  Told'
<1>1. Bottom(stack') = Lowest(stack').at
  BY DEF Bottom, Lowest
<1>2. SockUp' /\ NewSession' /\ Chdirs' /\ Reported' /\ Unsent'
  BY <1>1 DEF Told, SockUp, NewSession, LoggingIn, Greeting, Waiting, Is, Chdirs, Reported, Unsent,
     Operations
<1>3. ~(This.at = "reply" /\ This.arg \in Transfers)
  OBVIOUS
<1>4. ~late' => Prelims' /\ Replies1'
  BY <1>3, NoPrelim DEF Told, Prelims, Replies1, Waiting, Is
<1>5. ~late' => Listing' /\ Storage'
  BY DEF Listing, Storage, Waiting, Is
<1> QED  BY <1>2, <1>4, <1>5 DEF Told

\* A login that failed is tried again, or the connection is given up.
LEMMA ConnectedTells ==
  ASSUME Typed, Shape, Owed, Told, "copy" \notin opt.ops, Connected PROVE Told'
<1>1. stack # <<>> /\ Top.at = "connected" /\ Chain(stack) /\ Args(stack)
  BY DEF Connected, Now, Top, Shape, Told
<1>2. /\ Top \in Frames /\ Fits(Top, Beneath(stack)) /\ This = Top
      /\ Suits(Top, Below(stack), Lowest(stack)) /\ Below(stack).at = Beneath(stack)
      /\ Lowest(stack).at = Bottom(stack)
  BY <1>1, Running, ArgsHere
<1>3. /\ opt' = opt /\ late' = late /\ file' = file /\ put' = put /\ report' = report
      /\ srv' = srv /\ data' = data
  BY DEF Connected, Rest
<1>4. Beneath(stack) \in {"list", "command", "read", "store"} /\ Tail(stack) # <<>>
  <2>1. Beneath(stack) \in {"list", "command", "read", "store"}
    BY <1>1, <1>2 DEF Fits
  <2> QED  BY <1>1, <2>1, PopFits
<1>5. /\ Lowest(stack).at \in Operations
      /\ Below(stack).at = "command" => Below(stack).arg \in {"DELE", "RNFR"}
  BY <1>1, <1>2 DEF Suits, Connecting
<1>6. \/ /\ stack' = <<CommandOnly("PWD"), Frame("pwd")>> \o Tail(stack)
         /\ sup' = sup /\ net' = net /\ ret = 1
      \/ /\ sup' = [sup EXCEPT !.sock = "closed"] /\ net' = [net EXCEPT !.up = FALSE]
         /\ stack' = <<Frame("connect")>> \o Tail(stack) \/ stack' = Tail(stack)
      \/ stack' = <<Frame("quit")>> /\ sup' = sup /\ net' = net /\ ret' = ret
  BY DEF Connected, Then, Return
<1>7. CASE /\ stack' = <<CommandOnly("PWD"), Frame("pwd")>> \o Tail(stack)
           /\ sup' = sup /\ net' = net /\ ret = 1
  <2> DEFINE f == CommandOnly("PWD")
             g == Frame("pwd")
  <2>1. f \in Frames /\ f.at = "command" /\ f.arg = "PWD" /\ f.wait = "none"
    BY DEF CommandOnly, Frames, Commands
  <2>2. g \in Frames /\ g.at = "pwd"
    BY DEF Frame, Frames
  <2>3. stack' = <<f, g>> \o Tail(stack)
    BY <1>7
  <2> HIDE DEF f, g
  <2>4. Fits(g, Beneath(stack)) /\ Fits(f, g.at)
    BY <1>4, <2>1, <2>2 DEF Fits, Awaits
  <2>5. Suits(g, Below(stack), Lowest1(g)) /\ Suits(f, g, Lowest1(g))
    BY <1>2, <1>4, <1>5, <2>1, <2>2 DEF Suits, Sending, Connecting, Transfers, Lowest1
  <2>6. /\ Args(stack') /\ This' = f /\ stack' # <<>> /\ Lowest(stack') = Lowest(stack)
        /\ Bottom(stack') = Bottom(stack) /\ Beneath(stack') = "pwd"
    BY <1>1, <1>4, <2>1, <2>2, <2>3, <2>4, <2>5, Put2, Put2Args DEF Lowest1
  <2>7. Still
    BY <1>3, <1>7 DEF Still
  <2>8. Bottom(stack) \in Operations
    BY <1>2, <1>5
  <2>9. SockUp' /\ NewSession' /\ Chdirs' /\ Reported' /\ Unsent'
    BY <1>1, <1>2, <1>3, <1>5, <1>7, <2>1, <2>6, <2>8 DEF Told, SockUp, NewSession, LoggingIn,
       Greeting,
       Waiting, Is, Chdirs, Reported, Unsent, Operations
  <2>10. ~late' => Prelims' /\ Replies1' /\ Listing' /\ Storage'
    <3>1. ~(This.at = "reply" /\ This.arg \in Transfers)
      BY <1>1, <1>2
    <3> QED  BY <1>1, <1>2, <1>3, <1>7, <2>1, <2>6, <3>1, NoPrelim DEF Told, Prelims, Replies1,
       Listing,
               Storage, Waiting, Is
  <2>11. ~late' /\ net'.up => CmdIs' /\ Server1'
    BY <1>1, <1>2, <1>3, <1>7, <2>1, <2>6, <2>8 DEF Told, CmdIs, Server1, LoggingIn, Greeting,
       Waiting, Is,
       Elsewhere, Rejoining, Sending
  <2>12. ~late' /\ net'.up => Session'
    BY <1>1, <1>2, <1>3, <1>7, <2>1, <2>6, SessionSame DEF Told
  <2> QED  BY <2>6, <2>9, <2>10, <2>11, <2>12 DEF Told
<1>8. ASSUME sup' = [sup EXCEPT !.sock = "closed"], net' = [net EXCEPT !.up = FALSE],
             stack' = <<Frame("connect")>> \o Tail(stack) \/ stack' = Tail(stack)
      PROVE  Told'
  <2>1. sup'.cwd = "none" /\ report' \notin {"stored", "wrong"}
    BY <1>1, <1>2, <1>3, <1>8 DEF Typed, Sup, Told, NewSession, Reported
  <2>2. ~net'.up /\ net'.reps = net.reps /\ net'.reset = net.reset
    BY <1>8 DEF Typed, Net
  <2>3. CASE stack' = Tail(stack)
    <3>1. /\ Args(stack') /\ This' = Below(stack) /\ stack' # <<>>
          /\ Lowest(stack') = Lowest(stack)
      BY <1>1, <1>4, <2>3, PoppedArgs
    <3>2. Lowest(stack').at \in Operations
      BY <1>5, <3>1
    <3>3. \/ This'.at \in {"connect", "list", "read", "store"}
          \/ This'.at = "command" /\ This'.arg \in {"DELE", "RNFR"}
      BY <1>2, <1>4, <1>5, <3>1
    <3>4. This.at = "connected"
      BY <1>1, <1>2
    <3> QED  BY <1>1, <1>3, <2>1, <2>2, <3>1, <3>2, <3>3, <3>4, ClosedTells
  <2>4. CASE stack' = <<Frame("connect")>> \o Tail(stack)
    <3> DEFINE f == Frame("connect")
    <3>1. f \in Frames /\ f.at = "connect"
      BY DEF Frame, Frames
    <3>2. stack' = <<f>> \o Tail(stack)
      BY <2>4
    <3> HIDE DEF f
    <3>3. Fits(f, Beneath(stack))
      BY <1>4, <3>1 DEF Fits
    <3>4. Suits(f, Below(stack), Lowest1(f))
      BY <1>4, <1>5, <3>1, <1>2 DEF Suits, Sending, Connecting, Lowest1
    <3>5. Args(stack') /\ This' = f /\ stack' # <<>> /\ Lowest(stack') = Lowest(stack)
      BY <1>1, <1>4, <3>1, <3>2, <3>3, <3>4, Put1, Put1Args DEF Lowest1
    <3>6. Lowest(stack').at \in Operations
      BY <1>5, <3>5
    <3>7. This.at = "connected" /\ This'.at = "connect"
      BY <1>1, <1>2, <3>1, <3>5
    <3> QED  BY <1>1, <1>3, <2>1, <2>2, <3>5, <3>6, <3>7, ClosedTells
  <2> QED  BY <1>8, <2>3, <2>4
<1>9. CASE stack' = <<Frame("quit")>> /\ sup' = sup /\ net' = net /\ ret' = ret
  <2> DEFINE f == Frame("quit")
  <2>1. f \in Frames /\ f.at = "quit" /\ f.arg = "-"
    BY DEF Frame, Frames
  <2>2. stack' = <<f>>
    BY <1>9
  <2> HIDE DEF f
  <2>3. Suits(f, Nobody, f)
    BY <2>1 DEF Suits, Sending, Connecting, Nobody, Frame
  <2>4. Args(stack') /\ This' = f /\ Lowest(stack') = f
    BY <2>1, <2>2, <2>3, FirstArgs
  <2>5. Quieter
    BY <1>3, <1>9 DEF Quieter
  <2>6. Simple(This', Beneath(stack)')
    BY <2>1, <2>4 DEF Simple, Ordinary
  <2>7. This.at \notin {"reply", "login", "chdired", "typed"}
    BY <1>1, <1>2
  <2>8. Lowest(stack').at \notin {"listing", "listed", "storing"}
    BY <2>1, <2>4
  <2> QED  BY <1>1, <1>3, <2>4, <2>5, <2>6, <2>7, <2>8, GoesOn
<1> QED  BY <1>6, <1>7, <1>8, <1>9

\* A connection is freed.
LEMMA DisconnectTells ==
  ASSUME Typed, Shape, Owed, Told, "copy" \notin opt.ops, Disconnect PROVE Told'
<1>1. stack # <<>> /\ Top.at \in {"quit", "close"} /\ Chain(stack) /\ Args(stack)
  BY DEF Disconnect, Now, Top, Shape, Told
<1>2. /\ Top \in Frames /\ Fits(Top, Beneath(stack)) /\ This = Top
      /\ (Beneath(stack) = "-" => Lowest(stack) = Top)
  BY <1>1, Running, ArgsHere
<1>3. /\ opt' = opt /\ late' = late /\ file' = file /\ put' = put /\ report' = report
      /\ srv' = srv /\ data' = data
  BY DEF Disconnect, Rest, handles
<1>4. Beneath(stack) = "-" /\ Tail(stack) = <<>>
  <2>1. Beneath(stack) = "-"
    BY <1>1, <1>2 DEF Fits
  <2> QED  BY <1>1, <2>1, PopFits
<1>5. \/ /\ stack' = <<CommandOnly("QUIT"), Frame("close")>> \o Tail(stack)
         /\ sup' = sup /\ net' = net
      \/ /\ sup' = [sup EXCEPT !.sock = "none", !.cwd = "none"] /\ net' = [net EXCEPT !.up = FALSE]
         /\ stack' = Tail(stack)
  BY DEF Disconnect, Then, Return
<1>6. CASE /\ stack' = <<CommandOnly("QUIT"), Frame("close")>> \o Tail(stack)
           /\ sup' = sup /\ net' = net
  <2> DEFINE f == CommandOnly("QUIT")
             g == Frame("close")
  <2>1. f \in Frames /\ f.at = "command" /\ f.arg = "QUIT" /\ f.wait = "none"
    BY DEF CommandOnly, Frames, Commands
  <2>2. g \in Frames /\ g.at = "close" /\ g.arg = "-"
    BY DEF Frame, Frames
  <2>3. stack' = <<f, g>> \o Tail(stack)
    BY <1>6
  <2> HIDE DEF f, g
  <2>4. Below(stack) = Nobody
    BY <1>1, <1>4, ArgsTail DEF Told
  <2>5. Suits(g, Below(stack), Lowest1(g)) /\ Suits(f, g, Lowest1(g))
    BY <1>4, <2>1, <2>2, <2>4 DEF Suits, Sending, Connecting, Transfers, Lowest1, Nobody, Frame
  <2>6. Args(stack') /\ This' = f /\ Lowest(stack') = g
    BY <1>1, <1>4, <2>1, <2>2, <2>3, <2>5, Put2Args DEF Lowest1
  <2>7. Quieter
    BY <1>3, <1>6 DEF Quieter
  <2>8. Simple(This', Beneath(stack)')
    BY <2>1, <2>6 DEF Simple, Ordinary
  <2>9. This.at \notin {"reply", "login", "chdired", "typed"}
    BY <1>1, <1>2
  <2>10. Lowest(stack').at \notin {"listing", "listed", "storing"}
    BY <2>2, <2>6
  <2> QED  BY <1>1, <1>3, <2>6, <2>7, <2>8, <2>9, <2>10, GoesOn
<1>7. CASE /\ sup' = [sup EXCEPT !.sock = "none", !.cwd = "none"]
           /\ net' = [net EXCEPT !.up = FALSE] /\ stack' = Tail(stack)
  <2>1. stack' = <<>> /\ This' = Nobody /\ This'.at = "-" /\ Args(stack')
    <3>1. \A i \in 1 .. Len(<<>>) : FALSE
      OBVIOUS
    <3> QED  BY <1>4, <1>7, <3>1 DEF This, Args, Nobody, Frame
  <2>2. ~net'.up /\ net'.reps = net.reps /\ net'.reset = net.reset
    BY <1>7 DEF Typed, Net
  <2>3. ~(This.at = "reply" /\ This.arg \in Transfers)
    BY <1>1, <1>2
  <2>4. SockUp' /\ NewSession' /\ Chdirs' /\ Reported' /\ Unsent'
    BY <1>1, <1>3, <2>1, <2>2 DEF Told, SockUp, NewSession, LoggingIn, Greeting, Waiting, Is,
       Chdirs, Reported, Unsent
  <2>5. ~late' => Prelims' /\ Replies1' /\ Listing' /\ Storage'
    BY <1>3, <2>1, <2>2, <2>3, NoPrelim DEF Told, Prelims, Replies1, Listing, Storage, Waiting, Is
  <2> QED  BY <2>1, <2>2, <2>4, <2>5 DEF Told
<1> QED  BY <1>5, <1>6, <1>7

-----------------------------------------------------------------------------
(* The user                                                                 *)

\* Two calls, the first one by the second.
LEMMA TwoArgs ==
  ASSUME NEW f \in Frames, NEW g \in Frames, Suits(g, Nobody, g), Suits(f, g, g)
  PROVE  Args(<<f, g>>) /\ Lowest(<<f, g>>) = g /\ First1(<<f, g>>) = f
<1> DEFINE s == <<g>>
<1>1. Args(s) /\ Lowest(s) = g /\ First1(s) = g
  BY OneArgs
<1>2. s \in Seq(Frames) /\ s # <<>>
  OBVIOUS
<1>3. <<f, g>> = <<f>> \o s
  <2>1. /\ <<f, g>> \in Seq(Frames) /\ Len(<<f, g>>) = 2 /\ <<f, g>>[1] = f /\ <<f, g>>[2] = g
        /\ s \in Seq(Frames) /\ Len(s) = 1 /\ s[1] = g
    OBVIOUS
  <2> HIDE DEF s
  <2>2. /\ <<f>> \o s \in Seq(Frames) /\ Len(<<f>> \o s) = 2
        /\ (<<f>> \o s)[1] = f /\ (<<f>> \o s)[1 + 1] = g
    <3>1. 1 \in 1 .. Len(s)
      BY <2>1
    <3>2. /\ <<f>> \o s \in Seq(Frames) /\ Len(<<f>> \o s) = Len(s) + 1
          /\ (<<f>> \o s)[1] = f
          /\ \A i \in 1 .. Len(s) : (<<f>> \o s)[i + 1] = s[i]
      BY <2>1, SeqCons
    <3> QED  BY <2>1, <3>1, <3>2
  <2>3. \A i \in 1 .. 2 : i = 1 \/ i = 2
    OBVIOUS
  <2> QED  BY <2>1, <2>2, <2>3, SeqEqual
<1> HIDE DEF s
<1>4. Args(<<f>> \o s) /\ Lowest(<<f>> \o s) = g /\ First1(<<f>> \o s) = f
  BY <1>1, <1>2, ArgsCons
<1> QED  BY <1>3, <1>4

\* Three calls.
LEMMA ThreeArgs ==
  ASSUME NEW f \in Frames, NEW g \in Frames, NEW h \in Frames,
         Suits(h, Nobody, h), Suits(g, h, h), Suits(f, g, h)
  PROVE  Args(<<f, g, h>>) /\ Lowest(<<f, g, h>>) = h /\ First1(<<f, g, h>>) = f
<1> DEFINE s == <<g, h>>
<1>1. /\ s \in Seq(Frames) /\ s # <<>> /\ Args(s) /\ Lowest(s) = h /\ First1(s) = g
      /\ <<f, g, h>> = <<f>> \o s
  BY TwoArgs
<1> HIDE DEF s
<1>2. Args(<<f>> \o s) /\ Lowest(<<f>> \o s) = h /\ First1(<<f>> \o s) = f
  BY <1>1, ArgsCons
<1> QED  BY <1>1, <1>2

\* The calls that an operation begins with.
LEMMA CallsSuit ==
  ASSUME NEW op \in Ops
  PROVE  LET s == Calls(op)
         IN /\ Args(s) /\ s # <<>> /\ Lowest(s).at \in Operations
            /\ \/ First1(s).at \in {"list", "read", "store"}
               \/ First1(s).at = "command" /\ First1(s).arg \in {"DELE", "RNFR"}
<1>1. CASE op \in {"list", "sub"}
  <2> DEFINE f == With("list", IF op = "list" THEN "home" ELSE "sub")
  <2>1. f \in Frames /\ f.at = "list"
    BY DEF With, Frames
  <2>2. Calls(op) = <<f>>
    BY <1>1 DEF Calls
  <2> HIDE DEF f
  <2>3. Suits(f, Nobody, f)
    BY <2>1 DEF Suits, Sending, Connecting, Nobody, Frame
  <2> QED  BY <2>1, <2>2, <2>3, OneArgs DEF Operations
<1>2. CASE op = "remove"
  <2> DEFINE f == Command("DELE")
  <2>1. f \in Frames /\ f.at = "command" /\ f.arg = "DELE"
    BY DEF Command, Frames, Commands
  <2>2. Calls(op) = <<f>>
    BY <1>2 DEF Calls
  <2> HIDE DEF f
  <2>3. Suits(f, Nobody, f)
    BY <2>1 DEF Suits, Sending, Connecting, Nobody, Frame, Transfers
  <2> QED  BY <2>1, <2>2, <2>3, OneArgs DEF Operations
<1>3. CASE op = "rename"
  <2> DEFINE f == Command("RNFR")
             g == Frame("renamed")
  <2>1. f \in Frames /\ f.at = "command" /\ f.arg = "RNFR"
    BY DEF Command, Frames, Commands
  <2>2. g \in Frames /\ g.at = "renamed" /\ g.arg = "-"
    BY DEF Frame, Frames
  <2>3. Calls(op) = <<f, g>>
    BY <1>3 DEF Calls
  <2> HIDE DEF f, g
  <2>4. Suits(g, Nobody, g) /\ Suits(f, g, g)
    BY <2>1, <2>2 DEF Suits, Sending, Connecting, Nobody, Frame, Transfers
  <2> QED  BY <2>1, <2>2, <2>3, <2>4, TwoArgs DEF Operations
<1>4. CASE op \in {"view", "download"}
  <2> DEFINE f == Frame("read")
             g == With("got", op)
             h == Frame("closeread")
  <2>1. f \in Frames /\ f.at = "read" /\ h \in Frames /\ h.at = "closeread"
    BY DEF Frame, Frames
  <2>2. g \in Frames /\ g.at = "got"
    BY <1>4 DEF With, Frames
  <2>3. Calls(op) = <<f, g, h>>
    BY <1>4 DEF Calls
  <2> HIDE DEF f, g, h
  <2>4. Suits(h, Nobody, h) /\ Suits(g, h, h) /\ Suits(f, g, h)
    BY <2>1, <2>2 DEF Suits, Sending, Connecting, Nobody, Frame
  <2> QED  BY <2>1, <2>2, <2>3, <2>4, ThreeArgs DEF Operations
<1>5. CASE op \in {"save", "upload", "copy"}
  <2> DEFINE f == Frame("store")
  <2>1. f \in Frames /\ f.at = "store"
    BY DEF Frame, Frames
  <2>2. Calls(op) = <<f>>
    BY <1>5 DEF Calls
  <2> HIDE DEF f
  <2>3. Suits(f, Nobody, f)
    BY <2>1 DEF Suits, Sending, Connecting, Nobody, Frame
  <2> QED  BY <2>1, <2>2, <2>3, OneArgs DEF Operations
<1> QED  BY <1>1, <1>2, <1>3, <1>4, <1>5 DEF Ops

\* An operation begins.
LEMMA OperateTells ==
  ASSUME Typed, Shape, Owed, Told, "copy" \notin opt.ops, Operate PROVE Told'
<1>1. /\ stack = <<>> /\ opt' = opt /\ late' = late /\ net' = net /\ srv' = srv /\ put' = put
      /\ report' = "none" /\ ret' = ret
  BY DEF Operate, Quiet, remote
<1>2. This.at = "-"
  BY <1>1 DEF This, Nobody, Frame
<1>3. PICK op \in opt.ops :
        stack' = (IF sup.sock = "none" THEN <<Frame("connect")>> ELSE <<>>) \o Calls(op)
  BY DEF Operate
<1>4. op \in Ops
  BY FtpAssumption DEF Typed
<1> DEFINE s == Calls(op)
<1>5. /\ Args(s) /\ s # <<>> /\ Lowest(s).at \in Operations
      /\ \/ First1(s).at \in {"list", "read", "store"}
         \/ First1(s).at = "command" /\ First1(s).arg \in {"DELE", "RNFR"}
  BY <1>4, CallsSuit
<1>6. s \in Seq(Frames)
  BY <1>4, CallsFit DEF Chain
<1>7. stack' = (IF sup.sock = "none" THEN <<Frame("connect")>> ELSE <<>>) \o s
  BY <1>3
<1> HIDE DEF s
<1>8. sup' = IF sup.sock = "none" THEN NewSup ELSE sup
  BY DEF Operate
<1>9. CASE sup.sock = "none"
  <2> DEFINE f == Frame("connect")
  <2>1. f \in Frames /\ f.at = "connect"
    BY DEF Frame, Frames
  <2>2. stack' = <<f>> \o s
    BY <1>7, <1>9
  <2> HIDE DEF f
  <2>3. Suits(f, First1(s), Lowest(s))
    BY <1>5, <2>1 DEF Suits, Sending, Connecting
  <2>4. /\ Args(<<f>> \o s) /\ Lowest(<<f>> \o s) = Lowest(s) /\ First1(<<f>> \o s) = f
        /\ <<f>> \o s # <<>>
    BY <1>5, <1>6, <2>1, <2>3, ArgsCons, SeqCons
  <2>5. Args(stack') /\ stack' # <<>> /\ Lowest(stack').at \in Operations /\ This'.at = "connect"
    BY <1>5, <2>1, <2>2, <2>4 DEF This, First1, Top
  <2>6. ~net'.up
    BY <1>1, <1>9 DEF Told, SockUp
  <2>7. sup'.cwd = "none"
    BY <1>8, <1>9 DEF NewSup
  <2> QED  BY <1>1, <1>2, <2>5, <2>6, <2>7, ClosedTells
<1>10. CASE sup.sock # "none"
  <2>1. stack' = s
    BY <1>6, <1>7, <1>10
  <2>2. Args(stack') /\ stack' # <<>> /\ Lowest(stack').at \in Operations /\ This' = First1(s)
    BY <1>5, <2>1 DEF This, First1, Top
  <2>3. Quieter
    BY <1>1, <1>8, <1>10 DEF Quieter
  <2>4. Simple(This', Beneath(stack)')
    BY <1>5, <2>2 DEF Simple, Ordinary
  <2>5. Chdirs'
    BY <1>5, <2>2 DEF Chdirs, Operations
  <2>6. Bottom(stack') # "storing"
    BY <2>2 DEF Bottom, Lowest, Operations
  <2> QED  BY <1>1, <1>2, <2>2, <2>3, <2>4, <2>5, <2>6, ToOrdinary
<1> QED  BY <1>9, <1>10

\* The connection is to be freed.
LEMMA LeaveTells ==
  ASSUME Typed, Shape, Owed, Told, "copy" \notin opt.ops, Leave PROVE Told'
<1>1. /\ stack = <<>> /\ opt' = opt /\ late' = late /\ net' = net /\ srv' = srv /\ put' = put
      /\ report' = "none" /\ ret' = ret /\ sup' = sup
  BY DEF Leave, Quiet, remote, handles
<1>2. This.at = "-"
  BY <1>1 DEF This, Nobody, Frame
<1> DEFINE f == Frame("quit")
<1>3. f \in Frames /\ f.at = "quit" /\ f.arg = "-"
  BY DEF Frame, Frames
<1>4. stack' = <<f>>
  BY DEF Leave
<1> HIDE DEF f
<1>5. Suits(f, Nobody, f)
  BY <1>3 DEF Suits, Sending, Connecting, Nobody, Frame
<1>6. Args(stack') /\ This' = f /\ Lowest(stack') = f
  BY <1>3, <1>4, <1>5, FirstArgs
<1>7. Quieter
  BY <1>1 DEF Quieter
<1>8. Simple(This', Beneath(stack)')
  BY <1>3, <1>6 DEF Simple, Ordinary
<1>9. Chdirs'
  BY <1>3, <1>6 DEF Chdirs
<1>10. Bottom(stack') # "storing"
  BY <1>3, <1>6 DEF Bottom, Lowest
<1> QED  BY <1>1, <1>2, <1>6, <1>7, <1>8, <1>9, <1>10, ToOrdinary

-----------------------------------------------------------------------------
(* The server                                                               *)

\* One more reply.
LEMMA OneMore ==
  ASSUME NEW r \in Replies, net.reps \in Seq(Replies), net'.reps = Append(net.reps, r)
  PROVE  /\ Read1(PRELIM)' <=> Read1(PRELIM) \/ r.class = PRELIM
         /\ Read1(COMPLETE)' <=> Read1(COMPLETE) \/ r.class = COMPLETE
         /\ r.class = TRANSIENT => (Clean(0) => Clean(0)') /\ (Clean(1) => Clean(1)')
         /\ net.reps = <<>> => Clean(1)'
         /\ r.class # PRELIM /\ Prelims /\ This' = This => Prelims'
<1> DEFINE q == net.reps
           p == net'.reps
<1>1. /\ Len(p) = Len(q) + 1 /\ Len(q) \in Nat /\ p[Len(q) + 1] = r
      /\ \A i \in 1 .. Len(q) : p[i] = q[i]
      /\ q = <<>> => Len(q) = 0
  OBVIOUS
<1> HIDE DEF q, p
<1>2. \A i \in 1 .. Len(p) : i \in 1 .. Len(q) \/ i = Len(q) + 1
  BY <1>1
<1>3. \A i \in 1 .. Len(q) : i \in 1 .. Len(p)
  BY <1>1
<1>4. Len(q) + 1 \in 1 .. Len(p)
  BY <1>1
<1>5. ASSUME NEW c
      PROVE  (\E i \in 1 .. Len(p) : p[i].class = c)
               <=> (\E i \in 1 .. Len(q) : q[i].class = c) \/ r.class = c
  BY <1>1, <1>2, <1>3, <1>4
<1>6. /\ Read1(PRELIM)' <=> Read1(PRELIM) \/ r.class = PRELIM
      /\ Read1(COMPLETE)' <=> Read1(COMPLETE) \/ r.class = COMPLETE
  BY <1>5 DEF Read1, q, p, PRELIM, COMPLETE
<1>7. ASSUME NEW k, \A i \in 1 .. Len(q) : i > k => q[i].class = TRANSIENT, r.class = TRANSIENT
      PROVE  \A i \in 1 .. Len(p) : i > k => p[i].class = TRANSIENT
  BY <1>1, <1>2, <1>7
<1>8. r.class = TRANSIENT => (Clean(0) => Clean(0)') /\ (Clean(1) => Clean(1)')
  BY <1>7 DEF Clean, q, p, TRANSIENT
<1>9. net.reps = <<>> => Clean(1)'
  <2>1. net.reps = <<>> => \A i \in 1 .. Len(p) : ~(i > 1)
    BY <1>1 DEF q
  <2> QED  BY <2>1 DEF Clean, p, TRANSIENT
<1>10. r.class # PRELIM /\ Prelims /\ This' = This => Prelims'
  <2>1. ASSUME r.class # PRELIM, Prelims
        PROVE  \A i \in 1 .. Len(p) : p[i].class = PRELIM =>
                 i = 1 /\ This.at = "reply" /\ This.arg \in Transfers
    BY <1>1, <1>2, <2>1 DEF Prelims, q
  <2> QED  BY <2>1 DEF Prelims, p, PRELIM, Transfers
<1> QED  BY <1>6, <1>8, <1>9, <1>10

\* The client waits meanwhile.
LEMMA ServeTold ==
  ASSUME Told, UNCHANGED Client, net'.up => net.up, file' = file \/ (~late => stack # <<>>),
         ~late => Prelims' /\ Replies1' /\ Listing' /\ Storage',
         ~late /\ net'.up => CmdIs' /\ Server1' /\ Session'
  PROVE  Told'
<1>1. /\ stack' = stack /\ ret' = ret /\ sup' = sup /\ late' = late /\ report' = report /\ put' = put
      /\ opt' = opt /\ This' = This
  BY DEF Client, handles, This, Top
<1>2. SockUp' /\ Args(stack') /\ NewSession' /\ Chdirs' /\ Reported' /\ Unsent'
  BY <1>1 DEF Told, SockUp, NewSession, LoggingIn, Greeting, Waiting, Is, Chdirs, Reported, Unsent
<1> QED  BY <1>1, <1>2 DEF Told

\* Where the client can be while the server owes it something.
LEMMA Owing ==
  ASSUME Shape, Owed, Told, "copy" \notin opt.ops, net.up, ~late, ~NoneDue
  PROVE  /\ stack # <<>> /\ Chain(stack) /\ This = Top /\ Fits(This, Beneath(stack)) /\ This.at # "-"
         /\ Suits(This, Below(stack), Lowest(stack)) /\ Lowest(stack).at = Bottom(stack)
         /\ This.at \in {"reply", "login", "pwd", "prelim", "started", "listing", "storing",
                         "closewrite",
                         "read", "first", "got", "closeread", "abort", "command", "aborting", "aborted",
                         "reconnect", "connect", "close"}
         /\ This.at \in {"prelim", "started", "listing", "storing", "closewrite", "read", "first",
                         "got",
                         "closeread", "abort", "command"} => EndDue
         /\ This.at = "command" => This.arg = "ABOR"
         /\ This.at = "reply" /\ This.arg \in Transfers => TransferDue
         /\ This.at = "reply" /\ This.arg \notin Transfers /\ Beneath(stack) # "aborted" => OneDue
         /\ This.at = "login" => OneDue
         /\ This.at = "pwd" => OneDue
         /\ This.at = "aborted" => AborDue
<1>1. Live
  BY DEF Live, Told, SockUp
<1>2. stack # <<>> /\ Due
  BY <1>1 DEF Owed
<1>3. Chain(stack) /\ Args(stack)
  BY DEF Shape, Told
<1>4. /\ This = Top /\ Top \in Frames /\ Fits(Top, Beneath(stack))
      /\ Suits(Top, Below(stack), Lowest(stack)) /\ Lowest(stack).at = Bottom(stack)
  BY <1>2, <1>3, Running, ArgsHere
<1>5. /\ Top.at \in {"reply", "login", "pwd", "prelim", "started", "listing", "storing",
                     "closewrite",
                     "read", "first", "got", "closeread", "abort", "command", "aborting", "aborted",
                     "reconnect", "connect", "close"}
      /\ Top.at \in {"prelim", "started", "listing", "storing", "closewrite", "read", "first",
                     "got",
                     "closeread", "abort", "command"} => EndDue
      /\ Top.at = "command" => Top.arg = "ABOR"
  BY <1>2 DEF Due
<1>6. /\ Top.at = "reply" /\ Top.arg \in Transfers => TransferDue
      /\ Top.at = "reply" /\ Top.arg \notin Transfers /\ Beneath(stack) # "aborted" => OneDue
      /\ Top.at = "login" => OneDue
      /\ Top.at = "pwd" => OneDue
      /\ Top.at = "aborted" => AborDue
  <2>1. Top.at = "reply" /\ Top.arg \in Transfers => Beneath(stack) # "aborted"
    BY <1>4 DEF Fits, Awaits, Transfers
  <2> QED  BY <1>2, <2>1 DEF Due
<1> QED  BY <1>2, <1>3, <1>4, <1>5, <1>6

\* What a server that is done still has of the session.
LEMMA IdleFields ==
  ASSUME Typed
  PROVE  /\ Idle.at = "idle" /\ Idle.in = srv.in /\ Idle.set = srv.set
         /\ Idle.cwd = srv.cwd /\ Idle.binary = srv.binary
<1>1. srv \in Srv
  BY DEF Typed
<1> QED  BY <1>1 DEF Idle, Srv

\* the session stays what it is
SameServer == srv'.in = srv.in /\ srv'.set = srv.set /\ srv'.cwd = srv.cwd /\ srv'.binary = srv.binary

\* The greeting is sent.
LEMMA SrvGreetTells ==
  ASSUME Typed, Shape, Owed, Told, "copy" \notin opt.ops, SrvGreet PROVE Told'
<1>1. /\ srv.at = "greet" /\ net.up /\ srv' = Idle /\ UNCHANGED Client /\ data' = data /\ file' = file
      /\ net' = Replied(net, COMPLETE, "-", "greeting")
  BY DEF SrvGreet
<1>2. /\ stack' = stack /\ ret' = ret /\ sup' = sup /\ late' = late /\ put' = put /\ This' = This
      /\ Beneath(stack') = Beneath(stack)
  BY <1>1 DEF Client, handles, This, Top
<1>3. SameServer /\ srv'.at = "idle"
  BY <1>1, IdleFields DEF SameServer
<1> DEFINE r == [class |-> COMPLETE, code |-> "-", to |-> "greeting"]
<1>4. r \in Replies /\ r.class = COMPLETE
  BY DEF Replies, Answers, COMPLETE
<1>5. /\ net'.up = net.up /\ net'.reset = net.reset /\ net'.cmds = net.cmds
      /\ net'.reps = Append(net.reps, r)
  <2>1. COMPLETE \in 1 .. 5 /\ "greeting" \in Answers /\ net \in Net
    BY DEF COMPLETE, Answers, Typed
  <2> QED  BY <1>1, <2>1, NetReplied
<1> HIDE DEF r
<1>6. net.reps \in Seq(Replies)
  BY NetFields DEF Typed
<1>7. ASSUME ~late
      PROVE  /\ Prelims' /\ Replies1' /\ Listing' /\ Storage'
             /\ CmdIs' /\ Server1' /\ Session'
  <2>1. CmdIs /\ Server1 /\ Session /\ Prelims /\ Replies1
    BY <1>1, <1>7 DEF Told
  <2>2. This.at = "login" \/ Waiting("greeted")
    BY <1>1, <2>1 DEF Server1
  <2>3. ~NoneDue
    BY <1>1 DEF NoneDue
  <2>4. OneDue
    BY <1>1, <1>7, <2>2, <2>3, Owing DEF Waiting, Transfers
  <2>5. net.reps = <<>> /\ net.cmds = <<>>
    BY <1>1, <2>4 DEF OneDue
  <2>6. PRELIM # COMPLETE
    BY DEF PRELIM, COMPLETE
  <2>7. Clean(1)' /\ Prelims'
    BY <1>2, <1>4, <1>5, <1>6, <2>1, <2>5, <2>6, OneMore
  <2>8. Replies1'
    BY <1>2, <1>5, <2>1, <2>2, <2>7 DEF Replies1, Waiting, Is
  <2>9. Listing' /\ Storage'
    BY <1>2, <2>2 DEF Listing, Storage, Waiting, Is, Transfers
  <2>10. CmdIs'
    <3>1. \A i \in 1 .. Len(<<>>) : FALSE
      OBVIOUS
    <3> QED  BY <1>5, <2>5, <3>1 DEF CmdIs
  <2>11. ~srv.in
    BY <2>1, <2>2 DEF Server1, Greeting
  <2>12. Server1'
    BY <1>2, <1>3, <1>5, <2>1, <2>2, <2>11 DEF SameServer, Server1, LoggingIn, Greeting, Waiting,
       Is,
       Elsewhere, Rejoining
  <2>13. Session'
    BY <1>2, <1>3, <2>2, <2>11 DEF SameServer, Session, Waiting, Is
  <2> QED  BY <2>7, <2>8, <2>9, <2>10, <2>12, <2>13
<1> QED  BY <1>1, <1>5, <1>7, ServeTold

\* A step of the server leaves the client where it is.
LEMMA SameWords ==
  ASSUME UNCHANGED Client
  PROVE  /\ This' = This /\ LoggingIn' = LoggingIn /\ Greeting' = Greeting /\ Rejoining' = Rejoining
         /\ Waiting("greeted")' = Waiting("greeted") /\ Waiting("stored")' = Waiting("stored")
         /\ Waiting("pwd_reply")' = Waiting("pwd_reply")
<1>1. stack' = stack /\ This' = This /\ Beneath(stack') = Beneath(stack) /\ Bottom(stack') = Bottom(stack)
  BY DEF Client, This, Top
<1> QED  BY <1>1 DEF LoggingIn, Greeting, Rejoining, Waiting, Is, Elsewhere

\* What is said of the server holds on when its session stays.
LEMMA SameServer1 ==
  ASSUME UNCHANGED Client, SameServer, Server1, srv'.at \in {srv.at, "idle"},
         Waiting("stored") => net'.cmds = <<>>, Read1(COMPLETE) => Read1(COMPLETE)'
  PROVE  Server1'
<1>1. ret' = ret
  BY DEF Client
<1> QED  BY <1>1, SameWords DEF Server1, SameServer, Is

\* Data are on the way, and no reply.
LEMMA MovingTells ==
  ASSUME Typed, Shape, Owed, Told, "copy" \notin opt.ops, UNCHANGED Client, net' = net, file' = file,
         net.up, srv.at \in {"send", "recv"}, srv'.at = srv.at, SameServer, data'.mine = data.mine,
         srv.at = "recv" => data'.n + data'.done = data.n + data.done
  PROVE  Told'
<1>1. /\ stack' = stack /\ ret' = ret /\ sup' = sup /\ late' = late /\ put' = put /\ This' = This
      /\ Beneath(stack') = Beneath(stack)
  BY DEF Client, handles, This, Top
<1>2. ASSUME ~late
      PROVE  /\ Prelims' /\ Replies1' /\ Listing' /\ Storage'
             /\ CmdIs' /\ Server1' /\ Session'
  <2>1. CmdIs /\ Server1 /\ Session /\ Prelims /\ Replies1 /\ Listing /\ Storage
    BY <1>2 DEF Told
  <2>2. Prelims' /\ Replies1' /\ CmdIs'
    BY <1>1, <2>1 DEF Prelims, Replies1, CmdIs, Clean, Waiting, Is
  <2>3. Listing'
    BY <1>1, <2>1 DEF Listing, SameDir, Read1, Waiting, Is, SameServer
  <2>4. srv.at = "recv" => Kept' = Kept
    BY <1>1 DEF Kept, SameServer
  <2>5. Receives => Receives'
    BY <2>4 DEF Receives, Read1
  <2>6. Storage'
    BY <1>1, <2>1, <2>4, <2>5 DEF Storage, Whole, Read1, Waiting, Is
  <2>7. Server1'
    <3>1. Waiting("stored") => net'.cmds = <<>>
      BY <2>1 DEF Server1
    <3>2. Read1(COMPLETE)' = Read1(COMPLETE)
      BY DEF Read1, COMPLETE
    <3> QED  BY <2>1, <3>1, <3>2, SameServer1
  <2>8. Session'
    BY <1>1, <2>1 DEF SameServer, Session, SameDir, SameType, Is, Read1
  <2> QED  BY <2>2, <2>3, <2>6, <2>7, <2>8
<1> QED  BY <1>2, ServeTold

\* A piece is sent.
LEMMA SrvSendTells ==
  ASSUME Typed, Shape, Owed, Told, "copy" \notin opt.ops, SrvSend PROVE Told'
<1>1. /\ srv.at = "send" /\ net.up /\ srv' = [srv EXCEPT !.left = srv.left - 1]
      /\ UNCHANGED Client /\ net' = net /\ file' = file /\ data' = [data EXCEPT !.n = data.n + 1]
  BY DEF SrvSend
<1>2. srv \in Srv /\ data \in Data
  BY DEF Typed
<1>3. srv'.at = srv.at /\ SameServer
  BY <1>1, <1>2 DEF SameServer, Srv
<1>4. data'.mine = data.mine
  BY <1>1, <1>2 DEF Data
<1> QED  BY <1>1, <1>3, <1>4, MovingTells

\* A piece is received.
LEMMA SrvRecvTells ==
  ASSUME Typed, Shape, Owed, Told, "copy" \notin opt.ops, SrvRecv PROVE Told'
<1>1. /\ srv.at = "recv" /\ net.up /\ srv' = srv /\ data.n > 0
      /\ UNCHANGED Client /\ net' = net /\ file' = file
      /\ data' = [data EXCEPT !.n = data.n - 1, !.done = data.done + 1]
  BY DEF SrvRecv
<1>2. data \in Data /\ data.n \in Nat /\ data.done \in Nat
  BY DataFields DEF Typed
<1> DEFINE d == [data EXCEPT !.n = data.n - 1]
<1>3. d \in Data /\ d.mine = data.mine /\ d.n = data.n - 1 /\ d.done = data.done
  <2>1. data.n - 1 \in Nat
    BY <1>1, <1>2
  <2> QED  BY <1>2, <2>1 DEF Data
<1>4. data' = [d EXCEPT !.done = data.done + 1]
  BY <1>1
<1> HIDE DEF d
<1>5. data'.mine = data.mine /\ data'.n = data.n - 1 /\ data'.done = data.done + 1
  BY <1>3, <1>4 DEF Data
<1>6. data'.n + data'.done = data.n + data.done
  BY <1>2, <1>5
<1>7. srv'.at = srv.at /\ SameServer
  BY <1>1 DEF SameServer
<1> QED  BY <1>1, <1>5, <1>6, <1>7, MovingTells

\* The reply that ends a transfer: it says that all went well only where all that
\* was sent has been received.
LEMMA EndTells ==
  ASSUME Typed, Shape, Owed, Told, "copy" \notin opt.ops, UNCHANGED Client, net.up,
         srv.at \in {"send", "recv"}, srv' = Idle, NEW r \in Replies, r.class # PRELIM,
         net'.up = net.up, net'.reset = net.reset, net'.cmds = net.cmds,
         net'.reps = Append(net.reps, r),
         data'.mine = data.mine, data'.n = data.n, data'.done = data.done,
         \/ file' = file /\ r.class # COMPLETE
         \/ /\ srv.at = "send" \/ (srv.at = "recv" /\ data.n = 0 /\ ~data.mine)
            /\ file' = IF srv.at = "recv" /\ srv.binary /\ data.done = Pieces THEN "whole" ELSE file
  PROVE  Told'
<1>1. /\ stack' = stack /\ ret' = ret /\ sup' = sup /\ late' = late /\ put' = put /\ This' = This
      /\ Beneath(stack') = Beneath(stack) /\ Bottom(stack') = Bottom(stack)
  BY DEF Client, handles, This, Top
<1>2. SameServer /\ srv'.at = "idle"
  BY IdleFields DEF SameServer
<1>3. net.reps \in Seq(Replies)
  BY NetFields DEF Typed
<1>4. ~NoneDue
  BY DEF NoneDue
<1>5. ASSUME ~late
      PROVE  /\ stack # <<>> /\ Prelims' /\ Replies1' /\ Listing' /\ Storage'
             /\ CmdIs' /\ Server1' /\ Session'
  <2>1. CmdIs /\ Server1 /\ Session /\ Prelims /\ Replies1 /\ Listing /\ Storage
    BY <1>5 DEF Told
  <2>2. /\ stack # <<>>
        /\ This.at \in {"reply", "login", "pwd", "prelim", "started", "listing", "storing",
                        "closewrite",
                        "read", "first", "got", "closeread", "abort", "command", "aborting", "aborted",
                        "reconnect", "connect", "close"}
        /\ This.at = "command" => This.arg = "ABOR"
        /\ This.at = "login" => OneDue
        /\ This.at = "reply" /\ This.arg \notin Transfers /\ Beneath(stack) # "aborted" => OneDue
    BY <1>4, <1>5, Owing
  <2>3. This.at = "reply" => This.arg \in Transfers \cup {"-"}
    BY <2>1 DEF Server1
  <2>4. Prelims'
    BY <1>1, <1>3, <2>1, OneMore
  <2>5. This.at = "login" \/ Waiting("greeted") => Clean(1)'
    <3>1. "-" \notin Transfers
      BY DEF Transfers
    <3>2. This.at = "login" \/ Waiting("greeted") => OneDue
      BY <2>2, <3>1 DEF Waiting
    <3>3. OneDue => net.reps = <<>>
      BY DEF OneDue
    <3> QED  BY <1>3, <3>2, <3>3, OneMore
  <2>6. Replies1'
    BY <1>1, <2>1, <2>2, <2>3, <2>5 DEF Replies1, Waiting, Is, Transfers
  <2>7. Read1(PRELIM)' <=> Read1(PRELIM)
    BY <1>3, OneMore
  <2>8. Listing'
    BY <1>1, <1>2, <2>1, <2>7 DEF Listing, SameDir, Waiting, Is, SameServer
  <2>9. Read1(COMPLETE)' <=> Read1(COMPLETE) \/ r.class = COMPLETE
    BY <1>3, OneMore
  <2>10. Kept' = Kept
    BY <1>1, <1>2 DEF Kept, SameServer
  <2>11. Receives => Receives'
    BY <1>2, <2>9, <2>10 DEF Receives
  <2>12. Waiting("stored") => (Read1(COMPLETE)' => Whole')
    <3> SUFFICES ASSUME Waiting("stored"), Read1(COMPLETE)' PROVE Whole'
      OBVIOUS
    <3>1. srv.at = "recv" /\ Kept /\ (Read1(COMPLETE) => Whole)
      BY <2>1 DEF Storage
    <3>2. CASE Read1(COMPLETE)
      BY <1>1, <3>1, <3>2 DEF Whole
    <3>3. CASE ~Read1(COMPLETE)
      <4>1. r.class = COMPLETE
        BY <2>9, <3>3
      <4>2. /\ data.n = 0
            /\ file' = IF srv.binary /\ data.done = Pieces THEN "whole" ELSE file
        BY <3>1, <4>1
      <4>3. srv.binary /\ data.done = put
        BY <3>1, <4>2, DataFields DEF Kept, Typed
      <4> QED  BY <1>1, <4>2, <4>3 DEF Whole
    <3> QED  BY <3>2, <3>3
  <2>13. Storage'
    BY <1>1, <1>2, <2>1, <2>2, <2>7, <2>11, <2>12 DEF Storage, Waiting, Is
  <2>14. CmdIs'
    BY <1>1, <2>1 DEF CmdIs
  <2>15. Server1'
    <3>1. Waiting("stored") => net'.cmds = <<>>
      BY <2>1 DEF Server1
    <3> QED  BY <1>2, <2>1, <2>9, <3>1, SameServer1
  <2>16. Session'
    BY <1>1, <1>2, <2>1, <2>2, <2>3 DEF SameServer, Session, SameDir, SameType, Is, Transfers
  <2> QED  BY <2>2, <2>4, <2>6, <2>8, <2>13, <2>14, <2>15, <2>16
<1> QED  BY <1>5, ServeTold

\* A transfer ends.
LEMMA SrvDoneTells ==
  ASSUME Typed, Shape, Owed, Told, "copy" \notin opt.ops, SrvDone PROVE Told'
<1>1. /\ net.up /\ srv' = Idle /\ net' = Replied(net, COMPLETE, "-", "transfer") /\ UNCHANGED Client
      /\ data' = [data EXCEPT !.theirs = FALSE]
      /\ srv.at = "send" \/ (srv.at = "recv" /\ data.n = 0 /\ ~data.mine)
      /\ file' = IF srv.at = "recv" /\ srv.binary /\ data.done = Pieces THEN "whole" ELSE file
  BY DEF SrvDone
<1> DEFINE r == [class |-> COMPLETE, code |-> "-", to |-> "transfer"]
<1>2. r \in Replies /\ r.class = COMPLETE /\ r.class # PRELIM
  BY DEF Replies, Answers, COMPLETE, PRELIM
<1>3. /\ net'.up = net.up /\ net'.reset = net.reset /\ net'.cmds = net.cmds
      /\ net'.reps = Append(net.reps, r)
  <2>1. COMPLETE \in 1 .. 5 /\ "transfer" \in Answers /\ net \in Net
    BY DEF COMPLETE, Answers, Typed
  <2> QED  BY <1>1, <2>1, NetReplied
<1> HIDE DEF r
<1>4. data'.mine = data.mine /\ data'.n = data.n /\ data'.done = data.done
  BY <1>1 DEF Typed, Data
<1> QED  BY <1>1, <1>2, <1>3, <1>4, EndTells

\* A transfer fails.
LEMMA SrvFailTells ==
  ASSUME Typed, Shape, Owed, Told, "copy" \notin opt.ops, SrvFail PROVE Told'
<1>1. /\ net.up /\ srv' = Idle /\ UNCHANGED Client /\ file' = file
      /\ data' = [data EXCEPT !.theirs = FALSE] /\ srv.at \in {"send", "recv"}
      /\ \/ net' = Replied(net, TRANSIENT, "426", "transfer")
         \/ net' = Replied(net, 5, "-", "transfer")
  BY DEF SrvFail
<1>2. PICK c \in {TRANSIENT, 5}, d \in {"-", "426"} : net' = Replied(net, c, d, "transfer")
  BY <1>1
<1> DEFINE r == [class |-> c, code |-> d, to |-> "transfer"]
<1>3. c \in 1 .. 5 /\ c # PRELIM /\ c # COMPLETE /\ d \in {"-", "421", "426"} /\ "transfer" \in Answers
  BY DEF TRANSIENT, PRELIM, COMPLETE, Answers
<1>4. r \in Replies /\ r.class = c
  BY <1>3 DEF Replies
<1>5. /\ net'.up = net.up /\ net'.reset = net.reset /\ net'.cmds = net.cmds
      /\ net'.reps = Append(net.reps, r)
  <2>1. net \in Net
    BY DEF Typed
  <2> QED  BY <1>2, <1>3, <2>1, NetReplied
<1> HIDE DEF r
<1>6. data'.mine = data.mine /\ data'.n = data.n /\ data'.done = data.done
  BY <1>1 DEF Typed, Data
<1> QED  BY <1>1, <1>3, <1>4, <1>5, <1>6, EndTells

\* The answer to ABOR is waited for where nothing else is.
LEMMA SrvAbortTells ==
  ASSUME Typed, Shape, Owed, Told, "copy" \notin opt.ops, SrvAbort PROVE Told'
<1> DEFINE n == [net EXCEPT !.cmds = Tail(@)]
           m == Replied(n, TRANSIENT, "426", "transfer")
           k == Replied(m, COMPLETE, "-", "ABOR")
           r == [class |-> TRANSIENT, code |-> "426", to |-> "transfer"]
           s == [class |-> COMPLETE, code |-> "-", to |-> "ABOR"]
<1>1. /\ net \in Net /\ net.cmds # <<>> /\ net.reps \in Seq(Replies) /\ srv.at \in {"send", "recv"}
      /\ net.cmds \in Seq(Commands) /\ Head(net.cmds) = "ABOR" /\ net.up
  BY NetFields DEF Typed, SrvAbort
<1>2. net' = k /\ srv' = Idle /\ UNCHANGED Client /\ file' = file
  BY DEF SrvAbort
<1>3. /\ Tail(net.cmds) \in Seq(Commands) /\ net.cmds[1] = "ABOR" /\ Len(net.cmds) \in Nat
      /\ Len(net.cmds) >= 1 /\ Len(Tail(net.cmds)) = Len(net.cmds) - 1
      /\ \A i \in 1 .. Len(net.cmds) - 1 : Tail(net.cmds)[i] = net.cmds[i + 1]
  BY <1>1, SeqHead, SeqTail
<1>4. /\ n \in Net /\ n.up = net.up /\ n.reset = net.reset /\ n.cmds = Tail(net.cmds)
      /\ n.reps = net.reps
  BY <1>1, <1>3, NetCmds
<1>5. /\ TRANSIENT \in 1 .. 5 /\ COMPLETE \in 1 .. 5 /\ "transfer" \in Answers /\ "ABOR" \in Answers
      /\ COMPLETE # PRELIM /\ TRANSIENT # PRELIM
  BY DEF TRANSIENT, COMPLETE, PRELIM, Answers, Commands
<1>6. r \in Replies /\ r.class # PRELIM /\ s \in Replies /\ s.class # PRELIM
  BY <1>5 DEF Replies
<1> HIDE DEF n
<1>7. /\ m \in Net /\ m.up = n.up /\ m.reset = n.reset /\ m.cmds = n.cmds
      /\ m.reps = Append(n.reps, r)
  BY <1>4, <1>5, NetReplied
<1> HIDE DEF m
<1>8. /\ k \in Net /\ k.up = m.up /\ k.reset = m.reset /\ k.cmds = m.cmds
      /\ k.reps = Append(m.reps, s)
  BY <1>5, <1>7, NetReplied
<1> HIDE DEF k, r, s
<1>9. /\ net'.up /\ net'.reset = net.reset /\ net'.cmds = Tail(net.cmds)
      /\ net'.reps = Append(Append(net.reps, r), s)
  BY <1>1, <1>2, <1>4, <1>7, <1>8
<1>10. /\ stack' = stack /\ ret' = ret /\ sup' = sup /\ late' = late /\ put' = put /\ This' = This
       /\ Beneath(stack') = Beneath(stack)
  BY <1>2 DEF Client, handles, This, Top
<1>11. SameServer /\ srv'.at = "idle"
  BY <1>2, IdleFields DEF SameServer
<1>12. ASSUME ~late
       PROVE  /\ Prelims' /\ Replies1' /\ Listing' /\ Storage'
              /\ CmdIs' /\ Server1' /\ Session'
  <2>1. CmdIs /\ Server1 /\ Session /\ Prelims
    BY <1>1, <1>12 DEF Told
  <2>2. ~NoneDue /\ ~OneDue /\ ~EndDue /\ ~TransferDue /\ ~AborDue
    BY <1>1 DEF NoneDue, OneDue, EndDue, TransferDue, AborDue
  <2>3. \/ This.at = "reply" /\ This.arg = "-" /\ Beneath(stack) = "aborted"
        \/ This.at \in {"aborting", "reconnect", "connect", "close"}
    <3>1. /\ Fits(This, Beneath(stack))
          /\ \/ This.at = "reply" /\ This.arg \notin Transfers /\ Beneath(stack) = "aborted"
             \/ This.at \in {"aborting", "reconnect", "connect", "close"}
      BY <1>1, <1>12, <2>2, Owing
    <3> QED  BY <3>1 DEF Fits, Awaits
  <2>4. This.at \in {"reply", "aborting", "reconnect", "connect", "close"}
        /\ (This.at = "reply" => This.arg = "-") /\ \A g : g # "aborted" => ~Waiting(g)
    BY <2>3 DEF Waiting
  <2>5. /\ ~(This.at = "reply" /\ This.arg \in Transfers)
    BY <2>4 DEF Transfers
  <2>6. Prelims'
    <3>1. \A i \in 1 .. Len(net.reps) : net.reps[i].class # PRELIM
      BY <2>1, <2>5, NoPrelim
    <3> DEFINE p == Append(net.reps, r)
               q == Append(p, s)
    <3>2. /\ p \in Seq(Replies) /\ Len(p) = Len(net.reps) + 1 /\ Len(net.reps) \in Nat
          /\ p[Len(net.reps) + 1] = r /\ \A i \in 1 .. Len(net.reps) : p[i] = net.reps[i]
      BY <1>1, <1>6
    <3> HIDE DEF p
    <3>3. Len(q) = Len(p) + 1 /\ q[Len(p) + 1] = s /\ \A i \in 1 .. Len(p) : q[i] = p[i]
      BY <1>6, <3>2
    <3> HIDE DEF q
    <3>4. \A i \in 1 .. Len(p) : i \in 1 .. Len(net.reps) \/ i = Len(net.reps) + 1
      BY <3>2
    <3>5. \A i \in 1 .. Len(p) : p[i].class # PRELIM
      BY <1>6, <3>1, <3>2, <3>4
    <3>6. \A i \in 1 .. Len(q) : i \in 1 .. Len(p) \/ i = Len(p) + 1
      BY <3>2, <3>3
    <3>7. \A i \in 1 .. Len(q) : q[i].class # PRELIM
      BY <1>6, <3>3, <3>5, <3>6
    <3>8. net'.reps = q
      BY <1>9 DEF p, q
    <3> QED  BY <3>7, <3>8 DEF Prelims, PRELIM
  <2>7. \A g : g # "aborted" => ~(Waiting(g)')
    BY <1>10, <2>3 DEF Waiting
  <2>8. Replies1' /\ Listing' /\ Storage'
    BY <1>10, <2>4, <2>5, <2>7 DEF Replies1, Listing, Storage, Is, Transfers
  <2>9. CmdIs'
    <3>1. \A i \in 1 .. Len(net.cmds) : net.cmds[i] \in {"PWD", "QUIT", "ABOR"}
      BY <2>1, <2>4 DEF CmdIs
    <3>2. \A i \in 1 .. Len(net.cmds) - 1 : i + 1 \in 1 .. Len(net.cmds)
      BY <1>3
    <3>3. \A i \in 1 .. Len(Tail(net.cmds)) : Tail(net.cmds)[i] \in {"PWD", "QUIT", "ABOR"}
      BY <1>3, <3>1, <3>2
    <3> QED  BY <1>9, <1>10, <2>4, <3>3 DEF CmdIs
  <2>10. Server1'
    BY <1>10, <1>11, <2>4, <2>7 DEF Server1, LoggingIn, Greeting, Is, Rejoining, Sending
  <2>11. Session'
    BY <1>10, <1>11, <2>1, <2>4 DEF SameServer, Session, SameDir, SameType, Is
  <2> QED  BY <2>6, <2>8, <2>9, <2>10, <2>11
<1> QED  BY <1>1, <1>2, <1>12, ServeTold

\* A connection dropped by the server leaves at most a word that it is closed.
LEMMA SrvDropTells ==
  ASSUME Typed, Shape, Owed, Told, "copy" \notin opt.ops, SrvDrop PROVE Told'
<1>1. UNCHANGED Client /\ file' = file /\ net.up /\ net.reps \in Seq(Replies)
  BY NetFields DEF SrvDrop, Typed
<1>2. /\ stack' = stack /\ ret' = ret /\ sup' = sup /\ late' = late /\ put' = put /\ This' = This
      /\ Beneath(stack') = Beneath(stack) /\ Bottom(stack') = Bottom(stack)
  BY <1>1 DEF Client, handles, This, Top
<1> DEFINE r == [class |-> TRANSIENT, code |-> "421", to |-> "-"]
<1>3. r \in Replies /\ r.class = TRANSIENT /\ r.class # PRELIM /\ r.class # COMPLETE
  BY DEF Replies, Answers, TRANSIENT, PRELIM, COMPLETE
<1>4. Replied(net, TRANSIENT, "421", "-").reps = Append(net.reps, r)
  <2>1. TRANSIENT \in 1 .. 5 /\ "-" \in Answers /\ net \in Net
    BY DEF TRANSIENT, Answers, Typed
  <2> QED  BY <2>1, NetReplied
<1> HIDE DEF r
<1>5. PICK reps \in {net.reps, Append(net.reps, r)} : Gone(reps, FALSE)
  BY <1>4 DEF SrvDrop
<1>6. /\ ~net'.up /\ ~net'.reset /\ net'.reps \in {net.reps, Append(net.reps, r)}
      /\ srv' = [srv EXCEPT !.at = "idle"] /\ data' = [data EXCEPT !.theirs = FALSE]
  BY <1>5 DEF Gone
<1>7. /\ srv'.at = "idle" /\ SameServer
      /\ data'.mine = data.mine /\ data'.n = data.n /\ data'.done = data.done
  BY <1>6 DEF Typed, Srv, Data, SameServer
<1>8. /\ Read1(PRELIM)' <=> Read1(PRELIM)
      /\ Read1(COMPLETE)' <=> Read1(COMPLETE)
      /\ (Clean(0) => Clean(0)') /\ (Clean(1) => Clean(1)')
      /\ Prelims => Prelims'
  <2>1. CASE net'.reps = net.reps
    BY <1>2, <2>1 DEF Read1, Clean, Prelims, PRELIM, COMPLETE
  <2>2. CASE net'.reps = Append(net.reps, r)
    BY <1>1, <1>2, <1>3, <2>2, OneMore
  <2> QED  BY <1>6, <2>1, <2>2
<1>9. ASSUME ~late
      PROVE  Prelims' /\ Replies1' /\ Listing' /\ Storage'
  <2>1. Prelims /\ Replies1 /\ Listing /\ Storage
    BY <1>9 DEF Told
  <2>2. Replies1'
    BY <1>2, <1>6, <1>8, <2>1 DEF Replies1, Waiting, Is
  <2>3. Listing'
    BY <1>2, <1>7, <1>8, <2>1 DEF Listing, SameDir, Waiting, Is, SameServer
  <2>4. Kept' = Kept /\ Whole' = Whole
    BY <1>1, <1>2, <1>7 DEF Kept, Whole, SameServer
  <2>5. Receives => Receives'
    BY <1>7, <1>8, <2>4 DEF Receives
  <2>6. Storage'
    BY <1>2, <1>7, <1>8, <2>1, <2>4, <2>5 DEF Storage, Waiting, Is
  <2> QED  BY <1>8, <2>1, <2>2, <2>3, <2>6
<1> QED  BY <1>1, <1>6, <1>9, ServeTold

\* What a command changes of the session.
LEMMA AcceptedFields ==
  ASSUME srv \in Srv, NEW cmd \in Commands, NEW t \in Accepted(cmd)
  PROVE  /\ t.cwd = (IF cmd \in {"CWD home", "CWD sub"} THEN Place(cmd) ELSE srv.cwd)
         /\ t.binary = (IF cmd \in {"TYPE I", "TYPE A"} THEN cmd = "TYPE I" ELSE srv.binary)
         /\ cmd # "PASS" => t.in = srv.in
         /\ cmd \in Transfers => t.set = FALSE
         /\ cmd \notin Transfers \cup {"PASV", "EPSV", "PORT", "EPRT"} => t.set = srv.set
         /\ cmd \in Transfers => t.at = (IF cmd = "STOR" THEN "recv" ELSE "send")
         /\ cmd \in {"USER", "PWD", "QUIT", "ABOR"} => t = srv
<1>1. CASE cmd \in {"PASS", "RNFR", "RNTO", "PASV", "EPSV", "PORT", "EPRT"}
  <2>1. \/ t = [srv EXCEPT !.in = TRUE] /\ cmd = "PASS"
        \/ t = [srv EXCEPT !.rnfr = TRUE] \/ t = [srv EXCEPT !.rnfr = FALSE]
        \/ t = [srv EXCEPT !.set = TRUE] /\ cmd \in {"PASV", "EPSV", "PORT", "EPRT"}
    BY <1>1 DEF Accepted
  <2>2. /\ t.cwd = srv.cwd /\ t.binary = srv.binary /\ (cmd # "PASS" => t.in = srv.in)
        /\ cmd \notin {"PASV", "EPSV", "PORT", "EPRT"} => t.set = srv.set
    BY <2>1 DEF Srv
  <2> QED  BY <1>1, <2>2 DEF Transfers
<1>2. CASE cmd \in {"TYPE I", "TYPE A"}
  <2> DEFINE b == cmd = "TYPE I"
  <2>1. t = [srv EXCEPT !.binary = b]
    BY <1>2 DEF Accepted
  <2> HIDE DEF b
  <2>2. t.cwd = srv.cwd /\ t.binary = b /\ t.in = srv.in /\ t.set = srv.set
    BY <2>1 DEF Srv
  <2>3. t.binary = (cmd = "TYPE I")
    BY <2>2 DEF b
  <2> QED  BY <1>2, <2>2, <2>3 DEF Transfers
<1>3. CASE cmd \in {"CWD home", "CWD sub"}
  <2>1. t = [srv EXCEPT !.cwd = Place(cmd)]
    BY <1>3 DEF Accepted, Place
  <2>2. t.cwd = Place(cmd) /\ t.binary = srv.binary /\ t.in = srv.in /\ t.set = srv.set
    BY <2>1 DEF Srv
  <2> QED  BY <1>3, <2>2 DEF Transfers
<1>4. CASE cmd \in Transfers
  <2> DEFINE a == IF cmd = "STOR" THEN "recv" ELSE "send"
             u == [srv EXCEPT !.at = a]
             v == [u EXCEPT !.set = FALSE]
  <2>1. \/ t = [srv EXCEPT !.at = a, !.set = FALSE]
        \/ \E n \in {0, Pieces} : t = [srv EXCEPT !.at = a, !.set = FALSE, !.left = n]
    BY <1>4 DEF Accepted, Transfers
  <2>2. t = v \/ \E n \in {0, Pieces} : t = [v EXCEPT !.left = n]
    BY <2>1
  <2>3. /\ u.at = a /\ u.cwd = srv.cwd /\ u.binary = srv.binary /\ u.in = srv.in
        /\ u \in [DOMAIN srv -> UNION {{u[x]} : x \in DOMAIN srv}]
        /\ DOMAIN srv = {"at", "left", "in", "set", "rnfr", "binary", "cwd"} /\ DOMAIN u = DOMAIN srv
    BY DEF Srv
  <2> HIDE DEF u, a
  <2>4. /\ v.at = a /\ v.cwd = srv.cwd /\ v.binary = srv.binary /\ v.in = srv.in /\ v.set = FALSE
        /\ DOMAIN v = DOMAIN srv
    BY <2>3
  <2> HIDE DEF v
  <2>5. t.at = a /\ t.cwd = srv.cwd /\ t.binary = srv.binary /\ t.in = srv.in /\ t.set = FALSE
    BY <2>2, <2>3, <2>4
  <2> QED  BY <1>4, <2>5 DEF a, Transfers
<1>5. CASE cmd \in {"USER", "PWD", "QUIT", "ABOR", "DELE"}
  <2>1. t = srv
    BY <1>5 DEF Accepted
  <2> QED  BY <1>5, <2>1 DEF Transfers
<1> QED  BY <1>1, <1>2, <1>3, <1>4, <1>5 DEF Commands, Transfers

\* A transfer is accepted where there is a session and an address only.
LEMMA AnswerPrelim ==
  ASSUME NEW cmd \in Transfers, Answer(cmd) = PRELIM
  PROVE  srv.in /\ srv.set
<1>1. Answer(cmd) = IF cmd = "USER" THEN CONTINUE
                    ELSE IF cmd \in {"PASS", "QUIT", "ABOR"} THEN COMPLETE
                    ELSE IF ~srv.in THEN 5
                    ELSE IF cmd = "RNFR" THEN CONTINUE
                    ELSE IF cmd = "RNTO" THEN IF srv.rnfr THEN COMPLETE ELSE 5
                    ELSE IF cmd \in {"LIST", "LIST -la", "RETR", "STOR"}
                         THEN IF srv.set THEN PRELIM ELSE 5
                    ELSE COMPLETE
  BY DEF Answer
<1>2. Answer(cmd) = IF ~srv.in THEN 5 ELSE IF srv.set THEN PRELIM ELSE 5
  BY <1>1 DEF Transfers
<1> QED  BY <1>2 DEF PRELIM

\* A command is answered.
LEMMA SrvCommandTells ==
  ASSUME Typed, Shape, Owed, Told, "copy" \notin opt.ops, SrvCommand PROVE Told'
<1>1. /\ net \in Net /\ srv \in Srv /\ net.cmds # <<>> /\ srv.at = "idle" /\ net.up
      /\ net.reps \in Seq(Replies) /\ net.cmds \in Seq(Commands) /\ UNCHANGED Client
  BY NetFields DEF SrvCommand, Typed
<1> DEFINE cmd == Head(net.cmds)
           n == [net EXCEPT !.cmds = Tail(@)]
<1>2. /\ cmd \in Commands /\ Tail(net.cmds) \in Seq(Commands) /\ net.cmds[1] = cmd
      /\ Len(net.cmds) \in Nat /\ Len(net.cmds) >= 1 /\ Len(Tail(net.cmds)) = Len(net.cmds) - 1
      /\ \A i \in 1 .. Len(net.cmds) - 1 : Tail(net.cmds)[i] = net.cmds[i + 1]
      /\ \A c : net.cmds = <<c>> => cmd = c /\ Tail(net.cmds) = <<>>
  BY <1>1, SeqHead, SeqTail
<1>3. /\ n \in Net /\ n.up = net.up /\ n.reset = net.reset /\ n.cmds = Tail(net.cmds)
      /\ n.reps = net.reps
  BY <1>1, <1>2, NetCmds
<1>4. PICK class \in {Answer(cmd), 5} :
        /\ net' = Replied(n, class, "-", cmd)
        /\ srv' \in IF class = 5 THEN {srv} ELSE Accepted(cmd)
        /\ data' = IF class = PRELIM THEN [mine |-> TRUE, theirs |-> TRUE, n |-> 0, done |-> 0]
                   ELSE data
        /\ file' = IF class = PRELIM /\ cmd = "STOR" THEN "part" ELSE file
  BY DEF SrvCommand
<1> HIDE DEF cmd, n
<1> DEFINE r == [class |-> class, code |-> "-", to |-> cmd]
<1>5. class \in 1 .. 5 /\ cmd \in Answers
  BY <1>2, Answered DEF PRELIM, COMPLETE, CONTINUE, Answers
<1>6. r \in Replies /\ r.class = class
  BY <1>5 DEF Replies
<1>7. /\ net'.up = net.up /\ net'.reset = net.reset /\ net'.cmds = Tail(net.cmds)
      /\ net'.reps = Append(net.reps, r)
  <2> DEFINE m == Replied(n, class, "-", cmd)
  <2>1. /\ m.up = n.up /\ m.reset = n.reset /\ m.cmds = n.cmds
        /\ m.reps = Append(n.reps, r)
    BY <1>3, <1>5, NetReplied
  <2>2. net' = m
    BY <1>4
  <2> HIDE DEF m, r
  <2> QED  BY <1>3, <2>1, <2>2
<1> HIDE DEF r
<1>8. /\ stack' = stack /\ ret' = ret /\ sup' = sup /\ late' = late /\ put' = put /\ This' = This
      /\ Beneath(stack') = Beneath(stack) /\ Bottom(stack') = Bottom(stack)
  BY <1>1 DEF Client, handles, This, Top
<1>9. /\ class = 5 \/ class = Answer(cmd)
      /\ class = 5 => srv' = srv
      /\ class # 5 => srv' \in Accepted(cmd)
  BY <1>4
<1>10. PRELIM = 1 /\ COMPLETE = 2
  BY DEF PRELIM, COMPLETE
<1>11. cmd \notin Transfers => class # PRELIM
  BY <1>2, <1>9, <1>10, Answered
<1>12. /\ Read1(PRELIM)' <=> Read1(PRELIM) \/ class = PRELIM
       /\ Read1(COMPLETE)' <=> Read1(COMPLETE) \/ class = COMPLETE
       /\ net.reps = <<>> => Clean(1)'
       /\ class # PRELIM /\ Prelims => Prelims'
  BY <1>1, <1>6, <1>7, <1>8, OneMore
<1>13. net.reps = <<>> => ~Read1(PRELIM) /\ ~Read1(COMPLETE)
  <2>1. \A i \in 1 .. Len(<<>>) : FALSE
    OBVIOUS
  <2> QED  BY <2>1 DEF Read1
<1>14. ~net.reset
  BY <1>1 DEF Shape
<1>15. ASSUME ~late
       PROVE  /\ stack # <<>> /\ Prelims' /\ Replies1' /\ Listing' /\ Storage'
              /\ CmdIs' /\ Server1' /\ Session'
  <2>1. CmdIs /\ Server1 /\ Session /\ Prelims /\ Replies1 /\ Listing /\ Storage
    BY <1>1, <1>15 DEF Told
  <2>2. ~NoneDue /\ ~EndDue
    BY <1>1 DEF NoneDue, EndDue
  <2>3. /\ stack # <<>> /\ Fits(This, Beneath(stack)) /\ Suits(This, Below(stack), Lowest(stack))
        /\ Lowest(stack).at = Bottom(stack)
        /\ This.at \in {"reply", "login", "pwd", "aborting", "aborted", "reconnect", "connect", "close"}
        /\ This.at = "reply" /\ This.arg \in Transfers => TransferDue
        /\ This.at = "reply" /\ This.arg \notin Transfers /\ Beneath(stack) # "aborted" => OneDue
        /\ This.at = "login" => OneDue
    BY <1>1, <1>15, <2>2, Owing
  <2>4. OneDue \/ TransferDue => /\ net.reps = <<>> /\ net.cmds = <<cmd>> /\ Tail(net.cmds) = <<>>
    BY <1>1, <1>2 DEF OneDue, TransferDue
  <2>5. \A i \in 1 .. Len(<<>>) : FALSE
    OBVIOUS
  <2>6. CASE ~(This.at = "reply" /\ This.arg # "-")
    <3>1. \A i \in 1 .. Len(net.cmds) : net.cmds[i] \in {"PWD", "QUIT", "ABOR"}
      BY <2>1, <2>6 DEF CmdIs
    <3>2. cmd \in {"PWD", "QUIT", "ABOR"} /\ cmd \notin Transfers
      <4>1. 1 \in 1 .. Len(net.cmds)
        BY <1>2
      <4> QED  BY <1>2, <3>1, <4>1 DEF Transfers
    <3>3. srv' = srv /\ data' = data /\ file' = file /\ class # PRELIM
      BY <1>1, <1>2, <1>4, <1>9, <1>11, <3>2, AcceptedFields
    <3>4. Prelims'
      BY <1>12, <2>1, <3>3
    <3>5. This.at = "login" \/ Waiting("greeted") => Clean(1)'
      <4>1. "-" \notin Transfers
        BY DEF Transfers
      <4>2. This.at = "login" \/ Waiting("greeted") => OneDue
        BY <2>3, <4>1 DEF Waiting
      <4> QED  BY <1>12, <2>4, <4>2
    <3>6. Replies1'
      BY <1>7, <1>8, <1>14, <2>3, <2>6, <3>5 DEF Replies1, Waiting, Is
    <3>7. Listing'
      BY <1>8, <2>1, <2>3, <2>6, <3>3 DEF Listing, SameDir, Waiting, Is, Transfers
    <3>8. ~Waiting("stored")
      BY <1>1, <2>1 DEF Server1
    <3>9. Storage'
      BY <1>8, <2>3, <2>6, <3>8 DEF Storage, Waiting, Is
    <3>10. CmdIs'
      <4>1. \A i \in 1 .. Len(net.cmds) - 1 : i + 1 \in 1 .. Len(net.cmds)
        BY <1>2
      <4>2. \A i \in 1 .. Len(Tail(net.cmds)) : Tail(net.cmds)[i] \in {"PWD", "QUIT", "ABOR"}
        BY <1>2, <3>1, <4>1
      <4> QED  BY <1>7, <1>8, <2>6, <4>2 DEF CmdIs
    <3>11. Server1'
      <4>1. SameServer /\ srv'.at = srv.at
        BY <3>3 DEF SameServer
      <4> QED  BY <1>1, <1>12, <2>1, <3>8, <4>1, SameServer1
    <3>12. Session'
      BY <1>8, <2>1, <2>3, <2>6, <3>3 DEF Session, SameDir, SameType, Is
    <3> QED  BY <2>3, <3>4, <3>6, <3>7, <3>9, <3>10, <3>11, <3>12
  <2>7. CASE This.at = "reply" /\ This.arg # "-"
    <3>1. OneDue \/ TransferDue
      <4>1. Beneath(stack) # "aborted"
        BY <2>3, <2>7 DEF Fits, Awaits
      <4> QED  BY <2>3, <2>7, <4>1
    <3>2. net.reps = <<>> /\ net'.cmds = <<>> /\ cmd = This.arg
      <4>1. 1 \in 1 .. Len(net.cmds)
        BY <1>2
      <4>2. net.cmds[1] = This.arg
        BY <2>1, <2>7, <4>1 DEF CmdIs
      <4> QED  BY <1>2, <1>7, <2>4, <3>1, <4>2
    <3>3. /\ Clean(1)' /\ (Read1(PRELIM)' <=> class = PRELIM) /\ (Read1(COMPLETE)' <=> class = COMPLETE)
          /\ ~Read1(PRELIM) /\ ~Read1(COMPLETE)
      BY <1>12, <1>13, <3>2
    <3>4. \A g : ~Waiting(g)
      BY <2>7 DEF Waiting
    <3>5. \A g : ~(Waiting(g)')
      BY <1>8, <2>7 DEF Waiting
    <3>6. cmd \notin {"PWD", "QUIT", "ABOR"}
      BY <2>3, <2>7, <3>2 DEF Fits
    <3>7. class # PRELIM \/ This.arg \in Transfers
      BY <1>11, <3>2
    <3>8. Prelims'
      <4>1. CASE class # PRELIM
        BY <1>12, <2>1, <4>1
      <4>2. CASE class = PRELIM
        <5>1. This'.at = "reply" /\ This'.arg \in Transfers
          BY <1>8, <2>7, <3>7, <4>2
        <5>2. \A i \in 1 .. Len(net'.reps) : i = 1
          <6>1. net'.reps = <<r>>
            BY <1>1, <1>6, <1>7, <3>2, AfterReplies
          <6>2. \A x : \A i \in 1 .. Len(<<x>>) : i = 1
            OBVIOUS
          <6> QED  BY <6>1, <6>2
        <5> QED  BY <5>1, <5>2 DEF Prelims, Transfers, PRELIM
      <4> QED  BY <4>1, <4>2
    <3>9. Replies1'
      BY <1>7, <1>8, <1>14, <2>7, <3>3, <3>5 DEF Replies1, Is
    <3>10. /\ srv'.cwd = IF class # 5 /\ cmd \in {"CWD home", "CWD sub"} THEN Place(cmd) ELSE srv.cwd
           /\ srv'.binary = IF class # 5 /\ cmd \in {"TYPE I", "TYPE A"} THEN cmd = "TYPE I"
                            ELSE srv.binary
           /\ cmd # "PASS" \/ class = 5 => srv'.in = srv.in
           /\ class = 5 => srv' = srv
           /\ cmd \in Transfers /\ class # 5 => srv'.set = FALSE
           /\ cmd \notin Transfers \cup {"PASV", "EPSV", "PORT", "EPRT"} => srv'.set = srv.set
      <4>1. CASE class = 5
        <5>1. srv' = srv /\ ~(cmd \in Transfers /\ class # 5)
          BY <1>9, <4>1
        <5> QED  BY <4>1, <5>1
      <4>2. CASE class # 5
        <5>1. srv' \in Accepted(cmd)
          BY <1>9, <4>2
        <5> DEFINE t == srv'
        <5>2. t \in Accepted(cmd)
          BY <5>1
        <5> HIDE DEF t
        <5>3. /\ t.cwd = (IF cmd \in {"CWD home", "CWD sub"} THEN Place(cmd) ELSE srv.cwd)
              /\ t.binary = (IF cmd \in {"TYPE I", "TYPE A"} THEN cmd = "TYPE I" ELSE srv.binary)
              /\ cmd # "PASS" => t.in = srv.in
              /\ cmd \in Transfers => t.set = FALSE
              /\ cmd \notin Transfers \cup {"PASV", "EPSV", "PORT", "EPRT"} => t.set = srv.set
              /\ cmd \in Transfers => t.at = (IF cmd = "STOR" THEN "recv" ELSE "send")
              /\ cmd \in {"USER", "PWD", "QUIT", "ABOR"} => t = srv
          <6>1. srv \in Srv /\ cmd \in Commands
            BY <1>1, <1>2
          <6> QED  BY <5>2, <6>1, AcceptedFields
        <5> QED  BY <4>2, <5>3 DEF t
      <4> QED  BY <4>1, <4>2
    <3>11. cmd \in Transfers => /\ class \in {PRELIM, 5}
                                /\ class = PRELIM => srv.in /\ srv.set
      BY <1>2, <1>9, <1>10, Answered, AnswerPrelim
    <3>12. /\ srv.in /\ cmd \notin {"CWD home", "CWD sub"} => SameDir
           /\ srv.in /\ cmd \notin {"TYPE I", "TYPE A"} => SameType
      BY <2>1, <2>7, <3>2 DEF Session, Is
    <3>13. cmd \in Transfers /\ class = PRELIM => SameDir'
      <4> SUFFICES ASSUME cmd \in Transfers, class = PRELIM PROVE SameDir'
        OBVIOUS
      <4>1. cmd \notin {"CWD home", "CWD sub"}
        BY DEF Transfers
      <4> QED  BY <1>8, <3>10, <3>11, <3>12, <4>1 DEF SameDir
    <3>14. Listing'
      BY <1>8, <2>7, <3>2, <3>3, <3>5, <3>13 DEF Listing, Is, Transfers, PRELIM
    <3>15. cmd = "STOR" /\ class = PRELIM => Receives'
      <4> SUFFICES ASSUME cmd = "STOR", class = PRELIM PROVE Receives'
        OBVIOUS
      <4>1. cmd \in Transfers /\ cmd \notin {"TYPE I", "TYPE A"} /\ class # 5
        BY <1>10 DEF Transfers
      <4>2. srv.binary
        BY <2>1, <2>7, <3>2, <3>11, <4>1 DEF Server1, Is
      <4>3. srv'.binary
        BY <3>10, <4>1, <4>2
      <4>4. Bottom(stack) = "storing"
        BY <2>3, <2>7, <3>2, <4>1 DEF Suits, Sending
      <4>5. put = 0
        BY <2>3, <2>7, <4>4 DEF Told, Unsent
      <4>6. data' = [mine |-> TRUE, theirs |-> TRUE, n |-> 0, done |-> 0]
        BY <1>4
      <4>7. Kept'
        BY <1>8, <4>3, <4>5, <4>6 DEF Kept
      <4>8. srv'.at = "recv"
        BY <1>1, <1>2, <1>9, <4>1, AcceptedFields
      <4>9. ~(Read1(COMPLETE)')
        BY <1>10, <3>3
      <4> QED  BY <4>6, <4>7, <4>8, <4>9 DEF Receives
    <3>16. Storage'
      BY <1>8, <2>7, <3>2, <3>3, <3>5, <3>15 DEF Storage, Is
    <3>17. CmdIs'
      BY <2>5, <3>2 DEF CmdIs
    <3>18. cmd \in Transfers => class \in {1, 5}
      BY <1>10, <3>11
    <3>19. /\ srv'.at = "greet" => srv.at = "greet"
           /\ srv'.at \in {"send", "recv"} => This.arg \in Transfers
      <4>1. class # 5 /\ cmd \notin Transfers => srv'.at = srv.at
        BY <1>1, <1>2, <1>9, AcceptedSrv
      <4>2. class # 5 /\ cmd \in Transfers => srv'.at \in {"send", "recv"}
        BY <1>1, <1>2, <1>9, AcceptedSrv
      <4> QED  BY <1>1, <1>9, <3>2, <4>1, <4>2
    <3>20. /\ LoggingIn <=> This.arg \in {"USER", "PASS"}
           /\ Greeting <=> This.arg = "USER"
           /\ Rejoining => This.arg \in {"USER", "PASS", "CWD home", "CWD sub"}
           /\ This' = This /\ LoggingIn' = LoggingIn /\ Greeting' = Greeting /\ Rejoining' = Rejoining
      <4>1. LoggingIn <=> This.arg \in {"USER", "PASS"}
        BY <2>7, <3>4 DEF LoggingIn, Greeting, Is
      <4>2. Greeting <=> This.arg = "USER"
        BY <2>7, <3>4 DEF Greeting, Is
      <4>3. Rejoining => This.arg \in {"USER", "PASS", "CWD home", "CWD sub"}
        BY <2>7, <4>1 DEF Rejoining, Is
      <4> QED  BY <1>1, <4>1, <4>2, <4>3, SameWords
    <3>21. cmd = "PASS" /\ srv'.in => class = COMPLETE
      <4> SUFFICES ASSUME cmd = "PASS", srv'.in, class # COMPLETE PROVE FALSE
        OBVIOUS
      <4>1. Answer(cmd) = COMPLETE
        BY DEF Answer
      <4>2. class = 5 /\ srv.in
        BY <1>9, <4>1
      <4> QED  BY <2>1, <2>7, <3>2, <3>3, <4>2 DEF Server1, Is
    <3>22. Server1'
      <4>1. srv'.at = "greet" => This'.at = "login" \/ Waiting("greeted")'
        BY <1>1, <3>19
      <4>2. srv'.at \in {"send", "recv"} /\ This'.at = "reply" => This'.arg \in Transfers \cup {"-"}
        BY <1>8, <3>19
      <4>3. Waiting("stored")' => net'.cmds = <<>>
        BY <3>2
      <4>4. Greeting' => ~srv'.in
        BY <2>1, <3>2, <3>10, <3>20 DEF Server1
      <4>5. Is({"reply"}, {"PASS"})' /\ srv'.in => Read1(COMPLETE)'
        BY <1>8, <3>2, <3>3, <3>21 DEF Is
      <4>6. LoggingIn' \/ This'.at \in {"connected", "pwd", "pwd_reply"} \/ Waiting("pwd_reply")'
              \/ Is({"command"}, {"PWD"})' => srv'.cwd = "home"
        <5>1. LoggingIn => srv'.cwd = "home"
          BY <2>1, <3>2, <3>10, <3>20 DEF Server1
        <5> QED  BY <1>8, <2>7, <3>5, <3>20, <5>1 DEF Is
      <4>7. Rejoining' => ~srv'.set
        BY <2>1, <3>2, <3>10, <3>20 DEF Server1, Transfers
      <4>8. Is({"command", "reply"}, {"STOR"})' /\ srv'.in /\ srv'.set => srv'.binary
        <5> SUFFICES ASSUME This.arg = "STOR", srv'.in, srv'.set PROVE srv'.binary
          BY <1>8 DEF Is
        <5>1. cmd \in Transfers /\ cmd # "PASS"
          BY <3>2 DEF Transfers
        <5>2. srv' = srv
          BY <3>10, <5>1
        <5> QED  BY <2>1, <2>7, <3>2, <5>2 DEF Server1, Is
      <4> QED  BY <1>8, <2>7, <4>1, <4>2, <4>3, <4>4, <4>5, <4>6, <4>7, <4>8 DEF Server1
    <3>23. cmd \in {"CWD home", "CWD sub", "TYPE I", "TYPE A"} => class \in {COMPLETE, 5}
      <4>1. cmd \in {"CWD home", "CWD sub", "TYPE I", "TYPE A"} => Answer(cmd) \in {COMPLETE, 5}
        BY DEF Answer
      <4> QED  BY <1>9, <4>1
    <3>24. ~Read1(COMPLETE)' /\ class # 5 => cmd \notin {"CWD home", "CWD sub", "TYPE I", "TYPE A"}
      BY <3>3, <3>23
    <3>25. This'.at # "chdired" /\ This'.at # "typed" /\ This'.at = "reply" /\ This'.arg = cmd
      BY <1>8, <2>7, <3>2
    <3>26. IF cmd \in {"CWD home", "CWD sub"} /\ Read1(COMPLETE)' THEN srv'.cwd = Place(cmd)
           ELSE srv'.in => SameDir'
      <4>1. CASE cmd \in {"CWD home", "CWD sub"} /\ Read1(COMPLETE)'
        <5>1. class # 5
          <6>1. class = COMPLETE
            BY <3>3, <4>1
          <6> QED  BY <1>10, <6>1
        <5> QED  BY <3>10, <4>1, <5>1
      <4>2. CASE cmd \in {"CWD home", "CWD sub"} /\ ~Read1(COMPLETE)'
        <5>1. class = 5 /\ srv' = srv
          BY <3>10, <3>24, <4>2
        <5>2. srv.in => SameDir
          BY <2>1, <2>7, <3>3 DEF Session, Is
        <5> QED  BY <1>8, <4>2, <5>1, <5>2 DEF SameDir
      <4>3. CASE cmd = "PASS"
        <5>1. sup.cwd = "none"
          BY <3>2, <3>20, <4>3 DEF Told, NewSession
        <5> QED  BY <1>8, <4>3, <5>1 DEF SameDir
      <4>4. CASE cmd \notin {"CWD home", "CWD sub", "PASS"}
        <5>1. srv'.in = srv.in /\ srv'.cwd = srv.cwd
          BY <3>10, <4>4
        <5> QED  BY <1>8, <3>12, <4>4, <5>1 DEF SameDir
      <4> QED  BY <4>1, <4>2, <4>3, <4>4
    <3>27. IF cmd \in {"TYPE I", "TYPE A"} /\ Read1(COMPLETE)' THEN srv'.binary = (cmd = "TYPE I")
           ELSE srv'.in => SameType'
      <4>1. CASE cmd \in {"TYPE I", "TYPE A"} /\ Read1(COMPLETE)'
        <5>1. class # 5
          <6>1. class = COMPLETE
            BY <3>3, <4>1
          <6> QED  BY <1>10, <6>1
        <5> QED  BY <3>10, <4>1, <5>1
      <4>2. CASE cmd \in {"TYPE I", "TYPE A"} /\ ~Read1(COMPLETE)'
        <5>1. class = 5 /\ srv' = srv
          BY <3>10, <3>24, <4>2
        <5>2. srv.in => SameType
          BY <2>1, <2>7, <3>3 DEF Session, Is
        <5> QED  BY <1>8, <4>2, <5>1, <5>2 DEF SameType
      <4>3. CASE cmd = "PASS"
        <5>1. sup.binary = "unknown"
          BY <2>7, <3>2, <3>20, <4>3 DEF Told, NewSession
        <5> QED  BY <1>8, <4>3, <5>1 DEF SameType
      <4>4. CASE cmd \notin {"TYPE I", "TYPE A", "PASS"}
        <5>1. srv'.in = srv.in /\ srv'.binary = srv.binary
          BY <3>10, <4>4
        <5> QED  BY <1>8, <3>12, <4>4, <5>1 DEF SameType
      <4> QED  BY <4>1, <4>2, <4>3, <4>4
    <3>28. Session'
      BY <3>25, <3>26, <3>27 DEF Session, Is
    <3> QED  BY <2>3, <3>8, <3>9, <3>14, <3>16, <3>17, <3>22, <3>28
  <2> QED  BY <2>6, <2>7
<1> QED  BY <1>1, <1>7, <1>15, ServeTold

-----------------------------------------------------------------------------
(* Theorems                                                                 *)

\* The setting never changes.
LEMMA SameSetting == ASSUME [Next]_vars PROVE opt' = opt
<1>1. CASE Write
  BY <1>1 DEF Write, Rest
<1>2. CASE WriteAgain
  BY <1>2 DEF WriteAgain, Rest
<1>3. CASE Reply
  BY <1>3 DEF Reply, Rest
<1>4. CASE Reconnect
  BY <1>4 DEF Reconnect, Rest
<1>5. CASE Relogged
  BY <1>5 DEF Relogged, Rest
<1>6. CASE Rechdir
  BY <1>6 DEF Rechdir, Rest
<1>7. CASE Login
  BY <1>7 DEF Login, Rest
<1>8. CASE Connect
  BY <1>8 DEF Connect, Rest
<1>9. CASE Connected
  BY <1>9 DEF Connected, Rest
<1>10. CASE CurrentDirectory
  BY <1>10 DEF CurrentDirectory, Rest
<1>11. CASE Disconnect
  BY <1>11 DEF Disconnect, Rest
<1>12. CASE Chdir
  BY <1>12 DEF Chdir, Rest
<1>13. CASE Agreed
  BY <1>13 DEF Agreed, Rest
<1>14. CASE Open
  BY <1>14 DEF Open, Rest
<1>15. CASE NotAccepted
  BY <1>15 DEF NotAccepted, Rest
<1>16. CASE Abort
  BY <1>16 DEF Abort, Rest
<1>17. CASE Aborting
  BY <1>17 DEF Aborting, Rest
<1>18. CASE Aborted
  BY <1>18 DEF Aborted, Rest
<1>19. CASE Start
  BY <1>19 DEF Start, Rest
<1>20. CASE Read
  BY <1>20 DEF Read, Rest
<1>21. CASE Got
  BY <1>21 DEF Got, Rest
<1>22. CASE CloseRead
  BY <1>22 DEF CloseRead, Rest
<1>23. CASE List
  BY <1>23 DEF List
<1>24. CASE Store
  BY <1>24 DEF Store, Rest
<1>25. CASE Storing
  BY <1>25 DEF Storing
<1>26. CASE CloseWrite
  BY <1>26 DEF CloseWrite
<1>27. CASE Renamed
  BY <1>27 DEF Renamed, Rest
<1>28. CASE Operate
  BY <1>28 DEF Operate
<1>29. CASE Leave
  BY <1>29 DEF Leave
<1>30. CASE SrvGreet
  BY <1>30 DEF SrvGreet, Client
<1>31. CASE SrvCommand
  BY <1>31 DEF SrvCommand, Client
<1>32. CASE SrvSend
  BY <1>32 DEF SrvSend, Client
<1>33. CASE SrvRecv
  BY <1>33 DEF SrvRecv, Client
<1>34. CASE SrvDone
  BY <1>34 DEF SrvDone, Client
<1>35. CASE SrvFail
  BY <1>35 DEF SrvFail, Client
<1>36. CASE SrvAbort
  BY <1>36 DEF SrvAbort, Client
<1>37. CASE SrvDrop
  BY <1>37 DEF SrvDrop, Client
<1>38. CASE UNCHANGED vars
  BY <1>38 DEF vars
<1>39. CASE ReplyInterrupted
  BY <1>39 DEF ReplyInterrupted, Rest
<1>40. CASE NoPassword
  BY <1>40 DEF NoPassword, Rest
<1> QED  BY <1>1, <1>2, <1>3, <1>4, <1>5, <1>6, <1>7, <1>8, <1>9, <1>10, <1>11, <1>12, <1>13,
            <1>14, <1>15, <1>16, <1>17, <1>18, <1>19, <1>20, <1>21, <1>22, <1>23, <1>24, <1>25,
            <1>26, <1>27, <1>28, <1>29, <1>30, <1>31, <1>32, <1>33, <1>34, <1>35, <1>36, <1>37,
            <1>38, <1>39, <1>40 DEF Next, Run, Serve

\* At first nothing has been said ...
LEMMA InitTold == Init => Told
<1> SUFFICES ASSUME Init PROVE Told
  OBVIOUS
<1>1. /\ stack = <<>> /\ ~net.up /\ ~net.reset /\ net.reps = <<>> /\ report = "none"
      /\ This.at = "-" /\ This.arg = "-"
  BY DEF Init, This, Nobody, Frame
<1>2. \A i \in 1 .. Len(<<>>) : FALSE
  OBVIOUS
<1>3. SockUp /\ Args(stack) /\ NewSession /\ Chdirs /\ Reported /\ Unsent
  BY <1>1, <1>2 DEF SockUp, Args, NewSession, LoggingIn, Greeting, Waiting, Is, Chdirs, Reported,
     Unsent
<1>4. Prelims /\ Replies1 /\ Listing /\ Storage
  BY <1>1, <1>2 DEF Prelims, Replies1, Listing, Storage, Waiting, Is
<1> QED  BY <1>1, <1>3, <1>4 DEF Told

\* ... and every step keeps to what is so.
LEMMA NextTold ==
  ASSUME Inv, Told, "copy" \notin opt.ops, [Next]_vars PROVE Told'
<1>0. Typed /\ Shape /\ Owed
  BY DEF Inv
<1> USE <1>0
<1>1. CASE Write
  BY <1>1, WriteTells
<1>2. CASE WriteAgain
  BY <1>2, WriteAgainTells
<1>3. CASE Reply
  BY <1>3, ReplyTells
<1>4. CASE Reconnect
  BY <1>4, ReconnectTells
<1>5. CASE Relogged
  BY <1>5, ReloggedTells
<1>6. CASE Rechdir
  BY <1>6, RechdirTells
<1>7. CASE Login
  BY <1>7, LoginTells
<1>8. CASE Connect
  BY <1>8, ConnectTells
<1>9. CASE Connected
  BY <1>9, ConnectedTells
<1>10. CASE CurrentDirectory
  BY <1>10, CurrentDirectoryTells
<1>11. CASE Disconnect
  BY <1>11, DisconnectTells
<1>12. CASE Chdir
  BY <1>12, ChdirTells
<1>13. CASE Agreed
  BY <1>13, AgreedTells
<1>14. CASE Open
  BY <1>14, OpenTells
<1>15. CASE NotAccepted
  BY <1>15, NotAcceptedTells
<1>16. CASE Abort
  BY <1>16, AbortTells
<1>17. CASE Aborting
  BY <1>17, AbortingTells
<1>18. CASE Aborted
  BY <1>18, AbortedTells
<1>19. CASE Start
  BY <1>19, StartTells
<1>20. CASE Read
  BY <1>20, ReadTells
<1>21. CASE Got
  BY <1>21, GotTells
<1>22. CASE CloseRead
  BY <1>22, CloseReadTells
<1>23. CASE List
  BY <1>23, ListTells
<1>24. CASE Store
  BY <1>24, StoreTells
<1>25. CASE Storing
  BY <1>25, StoringTells
<1>26. CASE CloseWrite
  BY <1>26, CloseWriteTells
<1>27. CASE Renamed
  BY <1>27, RenamedTells
<1>28. CASE Operate
  BY <1>28, OperateTells
<1>29. CASE Leave
  BY <1>29, LeaveTells
<1>30. CASE SrvGreet
  BY <1>30, SrvGreetTells
<1>31. CASE SrvCommand
  BY <1>31, SrvCommandTells
<1>32. CASE SrvSend
  BY <1>32, SrvSendTells
<1>33. CASE SrvRecv
  BY <1>33, SrvRecvTells
<1>34. CASE SrvDone
  BY <1>34, SrvDoneTells
<1>35. CASE SrvFail
  BY <1>35, SrvFailTells
<1>36. CASE SrvAbort
  BY <1>36, SrvAbortTells
<1>37. CASE SrvDrop
  BY <1>37, SrvDropTells
<1>39. CASE ReplyInterrupted
  BY <1>39, ReplyInterruptedTells
<1>40. CASE NoPassword
  BY <1>40, NoPasswordTells
<1>38. CASE UNCHANGED vars
  <2>1. Still /\ stack' = stack /\ ret' = ret /\ sup' = sup /\ report' = report
    BY <1>38 DEF vars, Still
  <2> QED  BY <2>1, Unmoved
<1> QED  BY <1>1, <1>2, <1>3, <1>4, <1>5, <1>6, <1>7, <1>8, <1>9, <1>10, <1>11, <1>12, <1>13,
            <1>14, <1>15, <1>16, <1>17, <1>18, <1>19, <1>20, <1>21, <1>22, <1>23, <1>24, <1>25,
            <1>26, <1>27, <1>28, <1>29, <1>30, <1>31, <1>32, <1>33, <1>34, <1>35, <1>36, <1>37,
            <1>38, <1>39, <1>40 DEF Next, Run, Serve

\* What the user is told is so: a file that is reported as stored is whole on the
\* server, and a listing of another directory is shown only where mc knows that
\* it has lost its directory (ftpfs_dir_load, ftpfs_fh_close, ftpfs_file_store).
\* A copy within one server is left out, as it is in RepliesInStep.
THEOREM ReportsAreTrue == Spec => []("copy" \notin opt.ops => ReportsTrue)
<1> DEFINE J == Inv /\ ("copy" \notin opt.ops => Told)
<1>1. Init => J
  BY InitInv, InitTold
<1>2. J /\ [Next]_vars => J'
  <2> SUFFICES ASSUME J, [Next]_vars PROVE J'
    OBVIOUS
  <2>1. Inv' /\ opt' = opt
    BY NextInv, SameSetting
  <2>2. "copy" \notin opt.ops => Told'
    BY NextTold
  <2> QED  BY <2>1, <2>2
<1>3. J => ("copy" \notin opt.ops => ReportsTrue)
  BY DEF Told, Reported, ReportsTrue
<1> QED  BY <1>1, <1>2, <1>3, PTL DEF Spec
=============================================================================
