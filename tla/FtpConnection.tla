---------------------------- MODULE FtpConnection ----------------------------
(***************************************************************************)
(* The client of an FTP server: lib/vfs/mc-vfs/ftpfs.c, with the calls of  *)
(* direntry.c and src/filemanager/file.c that use it.                      *)
(*                                                                         *)
(* All commands to a server go over one connection, and every routine has  *)
(* to read exactly the replies that its commands cause: two for a          *)
(* transfer, one before and one after the data, another two when it is     *)
(* aborted.  The server may drop the connection at any time; the client    *)
(* then connects and logs in again in the middle of whatever it was doing. *)
(*                                                                         *)
(* The variable stack is the C call stack, the running function at its     *)
(* head; an action runs it up to the next call or the next wait.  The      *)
(* server is external.  It does one command after the other, as RFC 959    *)
(* has it, and looks only for ABOR during a transfer.  Left out: proxies,  *)
(* accounts (ACCT), IPv6, Amiga paths, APPE and REST, which differ from    *)
(* STOR and RETR in what the server does with the data only.               *)
(***************************************************************************)
EXTENDS Integers, Sequences

CONSTANTS
  Settings,    \* a set of Setting records
  Pieces,      \* pieces of a file or a listing
  MaxOps,      \* bound: operations of a session
  MaxTrouble   \* bound: calls, commands and connections that fail, interrupts

Ops == {"list", "sub", "remove", "rename", "view", "save", "download", "upload", "copy"}

\* refuses: commands the server does not know; ops: what the user does;
\* passive, strict, first: ftpfs_use_passive_connections,
\* ~ftpfs_use_unix_list_options, ftpfs_first_cd_then_ls
Setting ==
  [refuses : SUBSET STRING, ops : SUBSET Ops,
   passive : BOOLEAN, strict : BOOLEAN, first : BOOLEAN]

ASSUME FtpAssumption ==
  /\ \A o \in Settings : o.ops \subseteq Ops /\ {o.passive, o.strict, o.first} \subseteq BOOLEAN
  /\ Pieces \in Nat \ {0} /\ MaxOps \in Nat /\ MaxTrouble \in Nat

VARIABLES
  opt,     \* the setting; never changes
  stack,   \* the call stack
  ret,     \* what the last call returned
  sup,     \* the connection's variables in mc, see Sup
  rd,      \* the file being read: "none", "preopen", "open", "dead" (FH_SOCK is -1)
  wr,      \* the file being written: "none", "stream", "broken" (its server has gone)
  put,     \* pieces written to it
  net,     \* the control connection, see Net
  srv,     \* the server's end of it, see Srv
  data,    \* the data connection, see Data
  file,    \* the uploaded file on the server: "old", "part", "whole"
  report,  \* what the user was told of the operation: "none", "stored", "failed",
           \* "listed", "wrong" (the listing of another directory)
  late,    \* a reply is due that nobody will read (history)
  ops, trouble  \* operations so far, things gone wrong so far

vars == <<opt, stack, ret, sup, rd, wr, put, net, srv, data, file, report, late, ops, trouble>>
remote == <<net, srv, data, file>>
handles == <<rd, wr, put>>

Commands ==
  {"USER", "PASS", "PWD", "QUIT", "ABOR", "DELE", "RNFR", "RNTO", "CWD home", "CWD sub",
   "PASV", "EPSV", "PORT", "EPRT", "TYPE I", "TYPE A", "LIST", "LIST -la", "RETR", "STOR"}
Transfers == {"LIST", "LIST -la", "RETR", "STOR"}
Answers == Commands \cup {"greeting", "transfer", "-"}

\* sock: "none" (-1), "open", "closed" (closed, but not forgotten); level, retry:
\* the static variables of ftpfs_command; code: that of the last reply; from:
\* the command it answered (history); failed: the login was refused, and the
\* password is forgotten
Sup == [sock : {"none", "open", "closed"}, level : BOOLEAN, retry : BOOLEAN,
        code : {"-", "421", "426"}, from : Answers, binary : {"unknown", "yes", "no"},
        passive : BOOLEAN, strict : {"auto", "daring", "strict"},
        cwd : {"none", "home", "sub"}, busy : BOOLEAN, failed : BOOLEAN]
\* up: the server's end is open; reset: writing to it fails
Replies == [class : 1 .. 5, code : {"-", "421", "426"}, to : Answers]
Net == [up : BOOLEAN, reset : BOOLEAN, cmds : Seq(Commands), reps : Seq(Replies)]
\* in: logged in; set: PASV or PORT was agreed; rnfr: a name to be changed was
\* given; binary, cwd: what the server has of the session
Srv == [at : {"greet", "idle", "send", "recv"}, left : 0 .. Pieces, in : BOOLEAN,
        set : BOOLEAN, rnfr : BOOLEAN, binary : BOOLEAN, cwd : {"home", "sub"}]
NewSrv == [at |-> "greet", left |-> 0, in |-> FALSE, set |-> FALSE, rnfr |-> FALSE,
           binary |-> FALSE, cwd |-> "home"]
\* mine, theirs: the two ends are open; n: pieces on the way; done: received
Data == [mine : BOOLEAN, theirs : BOOLEAN, n : Nat, done : Nat]
NoData == [mine |-> FALSE, theirs |-> FALSE, n |-> 0, done |-> 0]

PRELIM == 1
COMPLETE == 2
CONTINUE == 3
TRANSIENT == 4

NewSup ==
  [sock |-> "none", level |-> FALSE, retry |-> FALSE, code |-> "-", from |-> "-",
   binary |-> "unknown", passive |-> opt.passive, cwd |-> "none", busy |-> FALSE,
   strict |-> IF opt.strict THEN "strict" ELSE "auto", failed |-> FALSE]

-----------------------------------------------------------------------------
(* The call stack                                                           *)

\* at: where the function is; arg: its command, directory or purpose; wait: what
\* it waits for, or whether CWD comes first, or the mode of the transfer
Frames ==
  [at : {"command", "again", "retried", "reply", "reconnect", "relogged", "rechdir", "login",
         "greeted", "named", "passed", "connect", "connected", "pwd", "pwd_reply", "quit", "close",
         "chdir", "chdired", "agreed", "type", "typed", "prelim", "start", "started", "read",
         "first", "ended", "fail", "abort", "aborting", "aborted", "got", "closeread", "list",
         "there", "listing", "listed", "store", "storing", "closewrite", "stored", "renamed"},
   arg : Commands \cup {"-", "none", "home", "sub", "view", "download", "copy",
                        "preopen", "open", "dead"},
   wait : {"-", "reply", "none", "string", "cd", "yes", "no"}]

Frame(at) == [at |-> at, arg |-> "-", wait |-> "-"]
With(at, arg) == [at |-> at, arg |-> arg, wait |-> "-"]
Command(cmd) == [at |-> "command", arg |-> cmd, wait |-> "reply"]
CommandOnly(cmd) == [at |-> "command", arg |-> cmd, wait |-> "none"]
CommandString(cmd) == [at |-> "command", arg |-> cmd, wait |-> "string"]
GetReply == [at |-> "reply", arg |-> "-", wait |-> "-"]

Now(at) == stack # <<>> /\ Head(stack).at = at
Top == Head(stack)
Then(frames) == stack' = frames \o Tail(stack) /\ UNCHANGED ret
Return(v) == stack' = Tail(stack) /\ ret' = v
Fine == UNCHANGED trouble
Trouble == trouble < MaxTrouble /\ trouble' = trouble + 1
Rest == UNCHANGED <<opt, ops, report>>

-----------------------------------------------------------------------------
(* Commands and replies                                                     *)

Sent(n, cmd) ==
  IF n.up THEN [n EXCEPT !.cmds = Append(@, cmd)] ELSE [n EXCEPT !.reset = TRUE]

\* the server goes, and leaves replies to be read
Gone(reps, reset) ==
  /\ net' = [up |-> FALSE, reset |-> reset, cmds |-> <<>>, reps |-> reps]
  /\ srv' = [srv EXCEPT !.at = "idle"]
  /\ data' = [data EXCEPT !.theirs = FALSE]

\* ftpfs_command up to the wait: the write succeeds, or the connection is
\* broken and made again once, or it fails (reset by the server just now, or
\* to a descriptor that is closed)
Write ==
  /\ Now("command")
  /\ UNCHANGED <<file, late, handles>> /\ Rest
  /\ LET awaits == [Top EXCEPT !.at = "reply"] IN
     \/ /\ sup.sock = "open" /\ ~net.reset
        /\ net' = Sent(net, Top.arg) /\ UNCHANGED <<srv, data>>
        /\ sup' = [sup EXCEPT !.retry = FALSE]
        /\ IF Top.wait = "none" THEN Return(COMPLETE) ELSE Then(<<awaits>>)
        /\ Fine
     \/ /\ sup.sock = "open" /\ net.reset /\ ~sup.level
        /\ sup' = [sup EXCEPT !.level = TRUE, !.code = "421"]
        /\ Then(<<Frame("reconnect"), [Top EXCEPT !.at = "again"]>>)
        /\ UNCHANGED <<net, srv, data>> /\ Fine
     \/ /\ sup' = [sup EXCEPT !.code = "421"]
        /\ Return(TRANSIENT)
        /\ \/ sup.sock = "open" /\ net.up /\ Gone(<<>>, TRUE) /\ Trouble
           \/ /\ sup.sock = "closed" \/ (net.reset /\ sup.level)
              /\ UNCHANGED <<net, srv, data>> /\ Fine

\* ... after ftpfs_reconnect: the command is written again
WriteAgain ==
  /\ Now("again") \/ Now("retried")
  /\ sup' = [sup EXCEPT !.level = FALSE, !.retry = @ /\ ret = 1]
  /\ IF ret = 1
     THEN /\ net' = Sent(net, Top.arg)
          /\ IF Top.wait = "none" THEN Return(COMPLETE)
             ELSE Then(<<[Top EXCEPT !.at = "reply"]>>)
     ELSE /\ Return(IF Top.at = "again" THEN TRANSIENT ELSE ret)
          /\ UNCHANGED net
  /\ UNCHANGED <<srv, data, file, late, handles>> /\ Rest /\ Fine

\* ftpfs_get_reply; when the connection has gone while PASV or EPSV waits, it is
\* made again once
Reply ==
  /\ Now("reply")
  /\ net.reps # <<>> \/ ~net.up
  /\ LET gone == net.reps = <<>>
         code == IF gone THEN "421" ELSE Head(net.reps).code
     IN /\ net' = IF gone THEN net ELSE [net EXCEPT !.reps = Tail(@)]
        /\ IF Top.wait = "string" /\ ~sup.retry /\ ~sup.level /\ code = "421"
           THEN /\ sup' = [sup EXCEPT !.retry = TRUE, !.level = TRUE, !.code = code]
                /\ Then(<<Frame("reconnect"), [Top EXCEPT !.at = "retried"]>>)
           ELSE /\ sup' = [sup EXCEPT !.code = code,
                             !.retry = IF Top.arg = "-" THEN @ ELSE FALSE,
                             !.from = IF gone THEN "-" ELSE Head(net.reps).to]
                /\ Return(IF gone THEN TRANSIENT ELSE Head(net.reps).class)
  /\ UNCHANGED <<srv, data, file, late, handles>> /\ Rest /\ Fine

\* vfs_s_retrieve_file is interrupted while it waits for the reply that ends a
\* file: mc takes it for a broken connection, and the reply stays unread
ReplyInterrupted ==
  /\ Now("reply") /\ Len(stack) > 2
  /\ stack[2] = Frame("ended") /\ stack[3] = With("got", "view")
  /\ net.up \/ net.reps # <<>>
  /\ Trouble /\ Return(TRANSIENT)
  /\ sup' = [sup EXCEPT !.code = "421", !.from = "-"]
  /\ late' = TRUE
  /\ UNCHANGED <<remote, handles>> /\ Rest

-----------------------------------------------------------------------------
(* Connecting and logging in                                                *)

\* a new control connection, and what becomes of the server of the old one
Fresh ==
  /\ net' = [up |-> TRUE, reset |-> FALSE, cmds |-> <<>>, reps |-> <<>>]
  /\ srv' = NewSrv
  /\ data' = [data EXCEPT !.theirs = FALSE]
  /\ wr' = IF wr = "stream" THEN "broken" ELSE wr
  /\ late' = FALSE
  /\ UNCHANGED file

\* Mutant: the directory of the old connection is not forgotten
ReconnectKeeping ==
  /\ Now("reconnect")
  /\ \/ /\ Fresh /\ Fine
        /\ sup' = [sup EXCEPT !.sock = "open"]
        /\ Then(<<Frame("login"), With("relogged", sup.cwd)>>)
     \/ /\ Trouble /\ Return(0)
        /\ late' = (late \/ net.up)  \* the replies to an abort stay unread
        /\ UNCHANGED <<sup, remote, wr>>
  /\ UNCHANGED <<rd, put>> /\ Rest

\* ftpfs_reconnect; the directory is kept for afterwards
Reconnect ==
  /\ Now("reconnect")
  /\ \/ /\ Fresh /\ Fine
        /\ sup' = [sup EXCEPT !.sock = "open", !.cwd = "none"]
        /\ Then(<<Frame("login"), With("relogged", sup.cwd)>>)
     \/ /\ Trouble /\ Return(0)
        /\ late' = (late \/ net.up)  \* the replies to an abort stay unread
        /\ UNCHANGED <<sup, remote, wr>>
  /\ UNCHANGED <<rd, put>> /\ Rest

Relogged ==
  /\ Now("relogged")
  /\ IF ret = 1 THEN /\ UNCHANGED sup
                     /\ IF Top.arg = "none" THEN Return(1)
                        ELSE Then(<<With("chdir", Top.arg), Frame("rechdir")>>)
     ELSE Return(0) /\ sup' = [sup EXCEPT !.cwd = Top.arg]
  /\ UNCHANGED <<remote, late, handles>> /\ Rest /\ Fine

Rechdir ==
  /\ Now("rechdir")
  /\ Return(IF ret = COMPLETE THEN 1 ELSE 0)
  /\ UNCHANGED <<remote, sup, late, handles>> /\ Rest /\ Fine

\* ftpfs_login_server: greeting, USER, PASS
Login ==
  /\ \/ /\ Now("login")
        /\ Then(<<GetReply, Frame("greeted")>>)
        /\ sup' = [sup EXCEPT !.binary = "unknown", !.failed = FALSE]
     \/ /\ Now("greeted")
        /\ IF ret = COMPLETE THEN Then(<<Command("USER"), Frame("named")>>) ELSE Return(0)
        /\ UNCHANGED sup
     \/ /\ Now("named")
        /\ CASE ret = CONTINUE -> Then(<<Command("PASS"), Frame("passed")>>) /\ UNCHANGED sup
             [] ret = COMPLETE -> Return(1) /\ UNCHANGED sup
             [] OTHER -> Return(0) /\ sup' = [sup EXCEPT !.failed = TRUE]
     \/ /\ Now("passed")
        /\ Return(IF ret = COMPLETE THEN 1 ELSE 0)
        /\ UNCHANGED sup
  /\ UNCHANGED <<remote, late, handles>> /\ Rest /\ Fine

\* the user is asked for a password that is not known, or was forgotten when it
\* was refused, and has none: the greeting stays unread
NoPassword ==
  /\ Now("login") /\ Len(stack) > 1
  /\ stack[2].at = "connected" \/ sup.failed
  /\ Trouble /\ Return(0)
  /\ sup' = [sup EXCEPT !.binary = "unknown"]
  /\ late' = TRUE
  /\ UNCHANGED <<remote, handles>> /\ Rest

\* ftpfs_open_archive_int
Connect ==
  /\ Now("connect")
  /\ \/ /\ Fresh /\ Fine
        /\ sup' = [sup EXCEPT !.sock = "open", !.failed = FALSE]
        /\ UNCHANGED rd
        /\ Then(<<Frame("login"), Frame("connected")>>)
     \/ /\ Trouble
        /\ sup' = [sup EXCEPT !.sock = "none", !.failed = FALSE]
        /\ stack' = <<>> /\ ret' = -1 /\ rd' = "none"
        /\ UNCHANGED <<remote, late, wr>>
  /\ UNCHANGED put /\ Rest

\* a login that failed is tried again, until the user has enough of it; a
\* connection that failed is given up, and the operation with it
Connected ==
  /\ Now("connected")
  /\ IF ret = 1 THEN /\ Then(<<CommandOnly("PWD"), Frame("pwd")>>)
                     /\ UNCHANGED <<sup, net, rd>>
     ELSE IF sup.failed
     THEN /\ sup' = [sup EXCEPT !.sock = "closed"]
          /\ net' = [net EXCEPT !.up = FALSE]
          /\ Then(<<Frame("connect")>>) \/ Return(0)
          /\ UNCHANGED rd
     ELSE /\ stack' = <<Frame("quit")>> /\ rd' = "none"
          /\ UNCHANGED <<ret, sup, net>>
  /\ UNCHANGED <<srv, data, file, late, wr, put>> /\ Rest /\ Fine

\* ftpfs_get_current_directory
CurrentDirectory ==
  /\ \/ /\ Now("pwd")
        /\ IF ret = COMPLETE THEN Then(<<GetReply, Frame("pwd_reply")>>) /\ UNCHANGED sup
           ELSE Return(0) /\ sup' = [sup EXCEPT !.cwd = "home"]
     \/ /\ Now("pwd_reply")
        /\ Return(0) /\ sup' = [sup EXCEPT !.cwd = "home"]
  /\ UNCHANGED <<remote, late, handles>> /\ Rest /\ Fine

\* ftpfs_free_archive: after QUIT the descriptor is closed
Disconnect ==
  /\ \/ /\ Now("quit")
        /\ Then(<<CommandOnly("QUIT"), Frame("close")>>)
        /\ UNCHANGED <<sup, net>>
     \/ /\ Now("close")
        /\ Return(-1)
        /\ sup' = [sup EXCEPT !.sock = "none", !.cwd = "none"]
        /\ net' = [net EXCEPT !.up = FALSE]
  /\ UNCHANGED <<srv, data, file, late, handles>> /\ Rest /\ Fine

\* ftpfs_chdir_internal
Cwd(dir) == IF dir = "home" THEN "CWD home" ELSE "CWD sub"
Chdir ==
  /\ \/ /\ Now("chdir")
        /\ IF sup.cwd = Top.arg THEN Return(COMPLETE)
           ELSE Then(<<Command(Cwd(Top.arg)), With("chdired", Top.arg)>>)
        /\ UNCHANGED sup
     \/ /\ Now("chdired")
        /\ Return(ret)
        /\ sup' = IF ret = COMPLETE THEN [sup EXCEPT !.cwd = Top.arg] ELSE sup
  /\ UNCHANGED <<remote, late, handles>> /\ Rest /\ Fine

-----------------------------------------------------------------------------
(* Data connections                                                         *)

\* ftpfs_initconn: PASV, else EPSV, else PORT, else EPRT; then TYPE and the
\* command of the transfer
Attempt(cmd) == IF cmd \in {"PASV", "EPSV"} THEN CommandString(cmd) ELSE Command(cmd)
Next4(cmd) ==
  CASE cmd = "PASV" -> "EPSV" [] cmd = "EPSV" -> "PORT" [] OTHER -> "EPRT"
DataConnection(cmd, binary) ==
  LET first == IF sup.passive THEN "PASV" ELSE "PORT"
  IN <<Attempt(first), With("agreed", first), [at |-> "type", arg |-> cmd, wait |-> binary]>>

Agreed ==
  /\ Now("agreed")
  /\ \/ /\ ret = COMPLETE
        /\ Return(1) /\ UNCHANGED sup /\ Fine
     \/ /\ IF ret = COMPLETE THEN sup.passive /\ Trouble ELSE Fine  \* connect fails
        /\ IF Top.arg = "EPRT" THEN Return(0)
           ELSE Then(<<Attempt(Next4(Top.arg)), With("agreed", Next4(Top.arg))>>)
        /\ sup' = CASE Top.arg = "EPSV" -> [sup EXCEPT !.passive = FALSE]
                    [] Top.arg = "EPRT" -> [sup EXCEPT !.passive = opt.passive]
                    [] OTHER -> sup
  /\ UNCHANGED <<remote, late, handles>> /\ Rest

Type(binary) == IF binary = "yes" THEN "TYPE I" ELSE "TYPE A"

\* ftpfs_changetype, and ftpfs_open_data_connection up to the data
Open ==
  /\ \/ /\ Now("type")
        /\ UNCHANGED sup
        /\ IF ret = 0 THEN Return(-1)
           ELSE IF sup.binary = Top.wait THEN Then(<<Command(Top.arg), Frame("prelim")>>)
           ELSE Then(<<Command(Type(Top.wait)), [Top EXCEPT !.at = "typed"]>>)
     \/ /\ Now("typed")
        /\ IF ret # COMPLETE THEN Return(-1) /\ UNCHANGED sup
           ELSE /\ sup' = [sup EXCEPT !.binary = Top.wait]
                /\ Then(<<Command(Top.arg), Frame("prelim")>>)
     \/ /\ Now("prelim")
        /\ UNCHANGED sup
        /\ Return(IF ret = PRELIM THEN 1 ELSE -1)
  /\ UNCHANGED <<remote, late, handles>> /\ Rest /\ Fine

\* accept is interrupted: the reply that ends the transfer stays unread
NotAccepted ==
  /\ Now("prelim") /\ ret = PRELIM /\ ~sup.passive
  /\ Trouble /\ Return(-1)
  /\ data' = [data EXCEPT !.mine = FALSE]
  /\ late' = TRUE
  /\ UNCHANGED <<sup, net, srv, file, handles>> /\ Rest

Hangup == data' = [data EXCEPT !.mine = FALSE]

\* Mutant: the connection stays busy
AbortBusy ==
  /\ Now("abort")
  /\ rd' = "dead"
  /\ IF net.reset \/ sup.sock = "closed"
     THEN stack' = Tail(stack) /\ Hangup /\ UNCHANGED net
     ELSE /\ stack' = <<CommandOnly("ABOR"), With("aborting", rd)>> \o Tail(stack)
          /\ net' \in {net, [net EXCEPT !.reset = ~net.up]}
          /\ UNCHANGED data
  /\ UNCHANGED <<ret, sup, srv, file, late, wr, put>> /\ Rest /\ Fine

\* ftpfs_linear_abort
Abort ==
  /\ Now("abort")
  /\ rd' = "dead"
  /\ sup' = [sup EXCEPT !.busy = FALSE]
  /\ IF net.reset \/ sup.sock = "closed"
     THEN stack' = Tail(stack) /\ Hangup /\ UNCHANGED net
     ELSE /\ stack' = <<CommandOnly("ABOR"), With("aborting", rd)>> \o Tail(stack)
          /\ net' \in {net, [net EXCEPT !.reset = ~net.up]}
          /\ UNCHANGED data
  /\ UNCHANGED <<ret, srv, file, late, wr, put>> /\ Rest /\ Fine

\* the rest of the data is thrown away, unless there is too much of it
Aborting ==
  /\ Now("aborting")
  /\ UNCHANGED <<net, srv, file, handles>> /\ Rest /\ Fine
  /\ \/ /\ ret # COMPLETE
        /\ Hangup /\ stack' = Tail(stack)
     \/ /\ ret = COMPLETE
        /\ Top.arg = "open" => ~data.theirs
        /\ Hangup /\ stack' = <<GetReply, Frame("aborted")>> \o Tail(stack)
     \/ /\ ret = COMPLETE /\ Top.arg = "open" /\ data.theirs /\ data.n > 0
        /\ Hangup /\ stack' = <<Frame("reconnect")>> \o Tail(stack)
  /\ UNCHANGED <<ret, sup, late>>

\* Mutants: one reply, or two, whatever the first one is
AbortedOnce ==
  /\ Now("aborted")
  /\ stack' = Tail(stack)
  /\ late' = (late \/ (ret # TRANSIENT /\ sup.from # "ABOR"))
  /\ UNCHANGED <<ret, remote, sup, handles>> /\ Rest /\ Fine

AbortedTwice ==
  /\ Now("aborted")
  /\ stack' = <<GetReply>> \o Tail(stack)
  /\ late' = (late \/ (ret # TRANSIENT /\ sup.from # "ABOR"))
  /\ UNCHANGED <<ret, remote, sup, handles>> /\ Rest /\ Fine

Aborted ==
  /\ Now("aborted")
  /\ stack' = (IF ret = TRANSIENT /\ sup.code = "426" THEN <<GetReply>> ELSE <<>>) \o Tail(stack)
  /\ late' = (late \/ (ret # TRANSIENT /\ sup.from # "ABOR"))
  /\ UNCHANGED <<ret, remote, sup, handles>> /\ Rest /\ Fine

-----------------------------------------------------------------------------
(* Reading, listing, writing                                                *)

\* ftpfs_linear_start
Start ==
  /\ \/ /\ Now("start")
        /\ Then(DataConnection("RETR", "yes") \o <<Frame("started")>>)
        /\ UNCHANGED <<rd, sup>>
     \/ /\ Now("started")
        /\ Return(ret)
        /\ rd' = IF ret = 1 THEN "open" ELSE rd
        /\ sup' = IF ret = 1 THEN [sup EXCEPT !.busy = TRUE] ELSE sup
  /\ UNCHANGED <<remote, late, wr, put>> /\ Rest /\ Fine

\* vfs_s_read and ftpfs_linear_read: a piece, the end, or an error
Read ==
  /\ \/ /\ Now("read") /\ rd = "preopen"
        /\ Then(<<Frame("start"), Frame("first")>>)
        /\ UNCHANGED <<data, rd, sup>> /\ Fine
     \/ /\ Now("first")
        /\ IF ret = 1 THEN Then(<<Frame("read")>>) ELSE Return(-1)
        /\ UNCHANGED <<data, rd, sup>> /\ Fine
     \/ /\ Now("read") /\ rd = "open" /\ data.n > 0
        /\ Return(1)
        /\ data' = [data EXCEPT !.n = @ - 1, !.done = @ + 1]
        /\ UNCHANGED <<rd, sup>> /\ Fine
     \/ /\ Now("read") /\ rd = "open" /\ data.n = 0 /\ ~data.theirs
        /\ Then(<<GetReply, Frame("ended")>>)
        /\ Hangup /\ rd' = "dead"
        /\ sup' = [sup EXCEPT !.busy = FALSE] /\ Fine
     \/ /\ Now("read") /\ rd \in {"open", "dead"}
        /\ IF rd = "open" THEN Trouble ELSE Fine
        /\ Then(<<Frame("abort"), Frame("fail")>>)
        /\ UNCHANGED <<data, rd, sup>>
     \/ /\ Now("ended")
        /\ Return(IF ret = COMPLETE THEN 0 ELSE -1)
        /\ UNCHANGED <<data, rd, sup>> /\ Fine
     \/ /\ Now("fail")
        /\ Return(-1)
        /\ UNCHANGED <<data, rd, sup>> /\ Fine
  /\ UNCHANGED <<net, srv, file, late, wr, put>> /\ Rest

\* what follows a read: vfs_s_retrieve_file reads on until it is interrupted;
\* copy_file_file asks the user after an error, and may be aborted.  The target
\* of a copy within the server has lost its server by then, and cannot be written
Got ==
  /\ Now("got")
  /\ LET more == Then(<<Frame("read"), Top>>)
     IN \/ ret = 1 /\ (Top.arg = "copy" => wr # "broken") /\ more /\ Fine
        \/ ret = 1 /\ Return(-1) /\ (IF wr = "broken" THEN Fine ELSE Trouble)
        \/ ret = -1 /\ Top.arg # "view" /\ more /\ Trouble
        \/ ret # 1 /\ Return(ret) /\ Fine
  /\ UNCHANGED <<remote, sup, late, handles>> /\ Rest

\* vfs_s_close of a file read, with ftpfs_linear_close
CloseRead ==
  /\ Now("closeread")
  /\ IF rd = "open" THEN Then(<<Frame("abort"), Top>>) /\ UNCHANGED rd
     ELSE Return(ret) /\ rd' = "none"
  /\ UNCHANGED <<remote, sup, late, wr, put>> /\ Rest /\ Fine

\* ftpfs_dir_load; wait says whether CWD comes first
List ==
  LET again(cd) == [Top EXCEPT !.at = "list", !.wait = cd]
      strictly == /\ sup' = [sup EXCEPT !.strict = "strict"]
                  /\ Then(<<again("cd")>>)
      cmd == IF sup.strict = "strict" THEN "LIST" ELSE "LIST -la"
      load == DataConnection(cmd, "no") \o <<[Top EXCEPT !.at = "listing"]>>
      fallback == IF sup.strict = "auto" THEN strictly ELSE Return(-1) /\ UNCHANGED sup
  IN
  /\ \/ /\ Now("list")
        /\ IF Top.wait = "cd" \/ sup.strict = "strict" \/ opt.first
           THEN Then(<<With("chdir", Top.arg), [Top EXCEPT !.at = "there", !.wait = "cd"]>>)
           ELSE Then(load)
        /\ UNCHANGED <<sup, data>> /\ Fine
     \/ /\ Now("there")
        /\ IF ret = COMPLETE THEN Then(load) ELSE Return(-1)
        /\ UNCHANGED <<sup, data>> /\ Fine
     \/ /\ Now("listing") /\ ret # 1
        /\ fallback /\ UNCHANGED data /\ Fine
     \/ /\ Now("listing") /\ ret = 1 /\ ~data.theirs
        /\ Then(<<GetReply, [Top EXCEPT !.at = "listed"]>>)
        /\ data' = [data EXCEPT !.mine = FALSE, !.done = data.n]
        /\ UNCHANGED sup /\ Fine
     \/ /\ Now("listing") /\ ret = 1 /\ Trouble       \* interrupted
        /\ Then(<<GetReply, Frame("fail")>>)
        /\ Hangup /\ UNCHANGED sup
     \/ /\ Now("listed") /\ Fine
        /\ IF ret # COMPLETE THEN fallback
           ELSE IF data.done = 0 /\ Top.wait # "cd" THEN Then(<<again("cd")>>) /\ UNCHANGED sup
           ELSE /\ Return(0)
                /\ sup' = [sup EXCEPT !.strict = IF @ = "auto" THEN "daring" ELSE @]
        /\ UNCHANGED data
  /\ report' = IF Now("listed") /\ ret = COMPLETE /\ stack' = Tail(stack)
               THEN (IF Top.wait = "cd" /\ srv.cwd # Top.arg THEN "wrong" ELSE "listed")
               ELSE report
  /\ UNCHANGED <<opt, ops, net, srv, file, late, handles>>

\* a file goes to the server: from its local copy by ftpfs_file_store, or as it
\* is copied, when ftpfs_fh_open opens the connection and ftpfs_fh_close ends it
Store ==
  /\ Now("store")
  /\ Then(DataConnection("STOR", "yes") \o <<Frame("storing")>>)
  /\ put' = 0
  /\ UNCHANGED <<remote, sup, late, rd, wr>> /\ Rest /\ Fine

Storing ==
  /\ Now("storing")
  /\ \/ /\ ret # 1
        /\ report' = "failed"
        /\ IF rd = "none" THEN Return(-1) ELSE Then(<<Frame("closeread")>>)
        /\ UNCHANGED <<wr, put, data>> /\ Fine
     \/ /\ ret = 1 /\ wr = "none"
        /\ wr' = "stream"
        /\ IF rd = "none" THEN UNCHANGED <<stack, ret>>
           ELSE Then(<<Frame("read"), With("got", "copy"), Frame("closeread"), Frame("closewrite")>>)
        /\ UNCHANGED <<put, data, report>> /\ Fine
     \/ /\ wr = "stream" /\ data.theirs /\ put < Pieces
        /\ put' = put + 1 /\ data' = [data EXCEPT !.n = @ + 1]
        /\ UNCHANGED <<stack, ret, wr, report>> /\ Fine
     \/ /\ wr = "stream"
        /\ IF data.theirs /\ put < Pieces THEN Trouble ELSE Fine
        /\ Then(<<Frame("closewrite")>>) /\ UNCHANGED <<wr, put, data, report>>
  /\ UNCHANGED <<opt, ops, net, srv, file, sup, late, rd>>

CloseWrite ==
  /\ \/ /\ Now("closewrite")
        /\ Hangup /\ Then(<<GetReply, Frame("stored")>>)
        /\ UNCHANGED <<report, wr>>
     \/ /\ Now("stored")
        /\ wr' = "none" /\ Return(ret)
        /\ report' = IF ret = COMPLETE /\ put = Pieces THEN "stored" ELSE "failed"
        /\ UNCHANGED data
  /\ UNCHANGED <<opt, ops, net, srv, file, sup, late, rd, put>> /\ Fine

\* ftpfs_rename goes on whatever the answer to RNFR is
Renamed ==
  /\ Now("renamed")
  /\ Then(<<Command("RNTO")>>)
  /\ UNCHANGED <<remote, sup, late, handles>> /\ Rest /\ Fine

-----------------------------------------------------------------------------
(* The user                                                                 *)

Calls(op) ==
  CASE op = "list" -> <<With("list", "home")>>
    [] op = "sub" -> <<With("list", "sub")>>
    [] op = "remove" -> <<Command("DELE")>>
    [] op = "rename" -> <<Command("RNFR"), Frame("renamed")>>
    [] op \in {"view", "download"} -> <<Frame("read"), With("got", op), Frame("closeread")>>
    [] op \in {"save", "upload"} -> <<Frame("store")>>
    [] op = "copy" -> <<Frame("store")>>

Quiet == stack = <<>> /\ rd = "none" /\ wr = "none"

\* an operation, after a connection has been made if there is none; the source
\* of a copy is open before its target is, but read only afterwards
Operate ==
  /\ Quiet /\ ops < MaxOps
  /\ \E op \in opt.ops :
       /\ stack' = (IF sup.sock = "none" THEN <<Frame("connect")>> ELSE <<>>) \o Calls(op)
       /\ rd' = IF op \in {"view", "download", "copy"} THEN "preopen" ELSE "none"
  /\ sup' = IF sup.sock = "none" THEN NewSup ELSE sup
  /\ ops' = ops + 1 /\ report' = "none"
  /\ UNCHANGED <<opt, ret, wr, put, remote, late, trouble>>

\* the collector frees the connection
Leave ==
  /\ Quiet /\ sup.sock # "none" /\ ops < MaxOps
  /\ stack' = <<Frame("quit")>>
  /\ ops' = ops + 1 /\ report' = "none"
  /\ UNCHANGED <<opt, ret, sup, handles, remote, late, trouble>>

-----------------------------------------------------------------------------
(* The server                                                               *)

Replied(n, class, code, to) ==
  [n EXCEPT !.reps = Append(@, [class |-> class, code |-> code, to |-> to])]
Idle == [srv EXCEPT !.at = "idle", !.left = 0]
Client == <<opt, stack, ret, sup, handles, report, late, ops>>

SrvGreet ==
  /\ srv.at = "greet" /\ net.up
  /\ srv' = Idle
  /\ net' = Replied(net, COMPLETE, "-", "greeting")
  /\ UNCHANGED <<Client, data, file, trouble>>

\* what a server answers that has nothing against a command
Answer(cmd) ==
  CASE cmd = "USER" -> CONTINUE
    [] cmd \in {"PASS", "QUIT", "ABOR"} -> COMPLETE
    [] OTHER ->
         IF ~srv.in THEN 5 ELSE
         CASE cmd = "RNFR" -> CONTINUE
           [] cmd = "RNTO" -> IF srv.rnfr THEN COMPLETE ELSE 5
           [] cmd \in {"LIST", "LIST -la", "RETR", "STOR"} -> IF srv.set THEN PRELIM ELSE 5
           [] OTHER -> COMPLETE

\* the session after a command that was accepted; a listing with options is
\* empty where the server takes them for a name
Accepted(cmd) ==
  CASE cmd = "PASS" -> {[srv EXCEPT !.in = TRUE]}
    [] cmd = "RNFR" -> {[srv EXCEPT !.rnfr = TRUE]}
    [] cmd = "RNTO" -> {[srv EXCEPT !.rnfr = FALSE]}
    [] cmd \in {"PASV", "EPSV", "PORT", "EPRT"} -> {[srv EXCEPT !.set = TRUE]}
    [] cmd \in {"TYPE I", "TYPE A"} -> {[srv EXCEPT !.binary = cmd = "TYPE I"]}
    [] cmd \in {"CWD home", "CWD sub"} -> {[srv EXCEPT !.cwd = IF cmd = "CWD sub" THEN "sub" ELSE "home"]}
    [] cmd = "STOR" -> {[srv EXCEPT !.at = "recv", !.set = FALSE]}
    [] cmd \in {"LIST", "LIST -la", "RETR"} ->
         {[srv EXCEPT !.at = "send", !.set = FALSE, !.left = n] :
            n \in IF cmd = "LIST -la" THEN {0, Pieces} ELSE {Pieces}}
    [] OTHER -> {srv}

SrvCommand ==
  /\ srv.at = "idle" /\ net.up /\ net.cmds # <<>>
  /\ LET cmd == Head(net.cmds)
     IN \E class \in {Answer(cmd), 5} :
          /\ net' = Replied([net EXCEPT !.cmds = Tail(@)], class, "-", cmd)
          /\ IF cmd \in opt.refuses THEN class = 5 /\ Fine
             ELSE IF class # Answer(cmd) THEN Trouble ELSE Fine
          /\ srv' \in IF class = 5 THEN {srv} ELSE Accepted(cmd)
          /\ data' = IF class = PRELIM THEN [mine |-> TRUE, theirs |-> TRUE, n |-> 0, done |-> 0]
                     ELSE data
          /\ file' = IF class = PRELIM /\ cmd = "STOR" THEN "part" ELSE file
  /\ UNCHANGED Client

SrvSend ==
  /\ srv.at = "send" /\ net.up /\ srv.left > 0 /\ data.mine
  /\ srv' = [srv EXCEPT !.left = @ - 1]
  /\ data' = [data EXCEPT !.n = @ + 1]
  /\ UNCHANGED <<Client, net, file, trouble>>

SrvRecv ==
  /\ srv.at = "recv" /\ net.up /\ data.n > 0
  /\ data' = [data EXCEPT !.n = @ - 1, !.done = @ + 1]
  /\ UNCHANGED <<Client, net, srv, file, trouble>>

\* all has been sent, or the client has no more: a file that ends early looks
\* like any other
SrvDone ==
  /\ net.up
  /\ \/ srv.at = "send" /\ srv.left = 0
     \/ srv.at = "recv" /\ data.n = 0 /\ ~data.mine
  /\ srv' = Idle
  /\ net' = Replied(net, COMPLETE, "-", "transfer")
  /\ data' = [data EXCEPT !.theirs = FALSE]
  /\ file' = IF srv.at = "recv" /\ srv.binary /\ data.done = Pieces THEN "whole" ELSE file
  /\ UNCHANGED <<Client, trouble>>

\* the client has hung up, or the disk is full, or the data connection breaks
SrvFail ==
  /\ srv.at \in {"send", "recv"} /\ net.up
  /\ \/ srv.at = "send" /\ srv.left > 0 /\ ~data.mine /\ Fine
        /\ net' = Replied(net, TRANSIENT, "426", "transfer")
     \/ /\ Trouble
        /\ net' = Replied(net, 5, "-", "transfer")
  /\ srv' = Idle
  /\ data' = [data EXCEPT !.theirs = FALSE]
  /\ UNCHANGED <<Client, file>>

SrvAbort ==
  /\ srv.at \in {"send", "recv"} /\ net.up
  /\ net.cmds # <<>> /\ Head(net.cmds) = "ABOR"
  /\ srv' = Idle
  /\ net' = Replied(Replied([net EXCEPT !.cmds = Tail(@)], TRANSIENT, "426", "transfer"),
                    COMPLETE, "-", "ABOR")
  /\ data' = [data EXCEPT !.theirs = FALSE]
  /\ UNCHANGED <<Client, file, trouble>>

\* the server closes the connection, sometimes with a last word
SrvDrop ==
  /\ net.up /\ sup.sock = "open" /\ Trouble
  /\ Gone(net.reps, FALSE) \/ Gone(Replied(net, TRANSIENT, "421", "-").reps, FALSE)
  /\ UNCHANGED <<Client, file>>

-----------------------------------------------------------------------------
Init ==
  /\ opt \in Settings
  /\ stack = <<>> /\ ret = 0 /\ sup = NewSup
  /\ rd = "none" /\ wr = "none" /\ put = 0
  /\ net = [up |-> FALSE, reset |-> FALSE, cmds |-> <<>>, reps |-> <<>>]
  /\ srv = NewSrv
  /\ data = NoData /\ file = "old" /\ report = "none" /\ late = FALSE
  /\ ops = 0 /\ trouble = 0

Run ==
  \/ Write \/ WriteAgain \/ Reply \/ ReplyInterrupted
  \/ Reconnect \/ Relogged \/ Rechdir \/ Login \/ NoPassword
  \/ Connect \/ Connected \/ CurrentDirectory \/ Disconnect \/ Chdir
  \/ Agreed \/ Open \/ NotAccepted \/ Abort \/ Aborting \/ Aborted
  \/ Start \/ Read \/ Got \/ CloseRead \/ List \/ Store \/ Storing \/ CloseWrite \/ Renamed

Serve == SrvGreet \/ SrvCommand \/ SrvSend \/ SrvRecv \/ SrvDone \/ SrvFail \/ SrvAbort

Next == Run \/ Operate \/ Leave \/ Serve \/ SrvDrop

\* mc runs on while it has something to do, and so does the server
Spec == Init /\ [][Next]_vars /\ WF_vars(Run) /\ WF_vars(Serve)

-----------------------------------------------------------------------------
(* Properties                                                               *)

\* Variables have their types, and ctl_connection_busy is set exactly while the
\* data of a file is being read, whatever ends the transfer
\* (ftpfs_linear_start, ftpfs_linear_read, ftpfs_linear_abort).
TypeOK ==
  /\ opt \in Settings /\ sup \in Sup /\ srv \in Srv /\ data \in Data
  /\ stack \in Seq(Frames) /\ net \in Net
  /\ ret \in -1 .. 5 /\ rd \in {"none", "preopen", "open", "dead"}
  /\ wr \in {"none", "stream", "broken"} /\ put \in 0 .. Pieces /\ late \in BOOLEAN
  /\ file \in {"old", "part", "whole"} /\ report \in {"none", "stored", "failed", "listed", "wrong"}
  /\ ops \in 0 .. MaxOps /\ trouble \in 0 .. MaxTrouble
  /\ sup.busy <=> rd = "open"

\* When an operation has ended, however it went, every command that was sent has
\* been answered and every answer has been read: the next command gets its own
\* reply.  The five exceptions of the code set the history variable late; a copy
\* from a server to itself, which uses one connection for two transfers, is left out.
InStep ==
  "copy" \notin opt.ops /\ Quiet /\ sup.sock = "open" /\ net.up /\ ~late =>
    net.cmds = <<>> /\ net.reps = <<>> /\ srv.at = "idle"

\* What the user is told is so, through broken connections, full disks and
\* connections made again on the way: a file that is stored is whole on the
\* server, and what is shown as a directory is the one that was asked for.  The
\* one exception is known to mc, which forgets its directory: a connection made
\* again while the listing is prepared, where the server refuses the directory.
ReportsTrue ==
  ~late => /\ report = "stored" => file = "whole"
           /\ report = "wrong" => sup.cwd = "none"

\* No operation waits for ever: mc never waits for a reply or for data that the
\* server does not owe it (as long as no reply is late).
OpsEnd == stack # <<>> ~> (stack = <<>> \/ late)
=============================================================================
