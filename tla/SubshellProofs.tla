---------------------------- MODULE SubshellProofs ----------------------------
(***************************************************************************)
(* What src/subshell.c guarantees for any directories, any number of       *)
(* commands and whatever users do: the types, and the handshake of pipe,   *)
(* SIGSTOP, SIGCHLD and SIGCONT by which mc and the shell keep in step.    *)
(*                                                                         *)
(*   TypeCorrect     the types; mc never believes in a shell that is gone  *)
(*   KeptInStep      an idle shell waits at its prompt where mc takes it   *)
(*                   to be                                                 *)
(*   CommandsFinish  a command given is executed before mc takes the shell *)
(*                   for idle, or its shell was killed                     *)
(***************************************************************************)
EXTENDS Subshell, SequenceTheorems, TLAPS

(***************************************************************************)
(* Types, with names for the sets of values so that the provers need not   *)
(* look inside.                                                            *)
(***************************************************************************)
Pcs == {"panels", "invoke", "check", "enter", "select", "sync", "resume",
        "back", "restart", "cd", "quit", "fork", "end"}
Callers == {"init", "cd", "invoke"}
Afters == {"panels", "invoke", "restart", "cd"}
States == {"INACTIVE", "ACTIVE", "RUNNING_COMMAND"}
Lines == Line \cup {NoLine}
Places == Dirs \cup {Joined}
Lives == {"run", "stop", "dead", "gone"}
Ats == {"prompt", "exec", "pwd", "kill"}
Newses == {"none", "stopped", "suspended", "exited", "killed"}

LEMMA McFields ==
  Mc = [pc : Pcs, job : Callers, after : Afters, ok : BOOLEAN, line : Lines,
        moved : BOOLEAN, state : States, ready : BOOLEAN, alive : BOOLEAN,
        stopped : BOOLEAN, use : BOOLEAN, quit : BOOLEAN, cwd : Places]
  BY DEF Mc, Pcs, Callers, Afters, States, Lines, Places

LEMMA ShellFields ==
  Shell = [life : Lives, at : Ats, cwd : Dirs, line : Lines, hooked : BOOLEAN, news : Newses]
  BY DEF Shell, Lives, Ats, Lines, Newses

LEMMA Values ==
  /\ {"panels", "invoke", "check", "enter", "select", "sync", "resume",
      "back", "restart", "cd", "quit", "fork", "end"} \subseteq Pcs
  /\ {"init", "cd", "invoke"} \subseteq Callers
  /\ {"panels", "invoke", "restart", "cd"} \subseteq Afters
  /\ Afters \subseteq Pcs
  /\ {"INACTIVE", "ACTIVE", "RUNNING_COMMAND"} \subseteq States
  /\ Line \subseteq Lines /\ NoLine \in Lines
  /\ Dirs \subseteq Places /\ Joined \in Places
  /\ {"run", "stop", "dead", "gone"} \subseteq Lives
  /\ {"prompt", "exec", "pwd", "kill"} \subseteq Ats
  /\ {"none", "stopped", "suspended", "exited", "killed"} \subseteq Newses
  BY DEF Pcs, Callers, Afters, States, Lines, Places, Lives, Ats, Newses

LEMMA LineValues ==
  /\ \A d \in Dirs \cup {"stay", "exit"} :
       /\ [by |-> "user", does |-> d] \in Line /\ [by |-> "run", does |-> d] \in Line
  /\ \A d \in Dirs : [by |-> "cd", does |-> d] \in Line
  /\ [by |-> "init", does |-> "setup"] \in Line
  BY DEF Line

LEMMA AppendType ==
  ASSUME NEW S, NEW s \in Seq(S), NEW e \in S
  PROVE  Append(s, e) \in Seq(S)
  BY AppendProperties

\* do_subshell_chdir.
LEMMA ChdirTypes ==
  ASSUME NEW m \in Mc, NEW d, NEW after \in Afters, Chdir(m, d, after) PROVE mc' \in Mc
  BY McFields, Values DEF Chdir

\* A step of the main thread that goes on elsewhere.
LEMMA McTypes ==
  ASSUME TypeOK, McRuns \/ UserActs \/ Handle \/ ReadPrompt PROVE mc' \in Mc
<1> USE Values
<1>1. mc \in [pc : Pcs, job : Callers, after : Afters, ok : BOOLEAN, line : Lines,
              moved : BOOLEAN, state : States, ready : BOOLEAN, alive : BOOLEAN,
              stopped : BOOLEAN, use : BOOLEAN, quit : BOOLEAN, cwd : Places]
  BY McFields DEF TypeOK
<1>2. CASE FeedCheck
  BY <1>1, <1>2, McFields DEF FeedCheck, MainStep
<1>3. CASE FeedEnter
  BY <1>1, <1>3, McFields DEF FeedEnter, MainStep
<1>4. CASE FeedPty
  BY <1>1, <1>4, McFields DEF FeedPty, MainStep
<1>5. CASE FeedPipe
  <2> DEFINE d == IF Len(pipe) = 1 THEN Head(pipe) ELSE Joined
  <2>1. mc' = [mc EXCEPT !.pc = "sync", !.cwd = d]
    BY <1>5 DEF FeedPipe, MainStep
  <2>2. d \in Places
    BY <1>5, HeadTailProperties DEF FeedPipe, TypeOK
  <2> HIDE DEF d
  <2> QED  BY <1>1, <2>1, <2>2, McFields
<1>6. CASE FeedTimeout
  BY <1>1, <1>6, McFields DEF FeedTimeout, MainStep
<1>7. CASE KeySwitch
  BY <1>1, <1>7, McFields DEF KeySwitch, MainStep
<1>8. CASE KeyLine
  <2>1. PICK hidden \in BOOLEAN : mc' = [mc EXCEPT !.pc = "check", !.ready = @ /\ hidden]
    BY <1>8 DEF KeyLine, MainStep, TypeOK, User, SubshellAssumption
  <2> QED  BY <1>1, <2>1, McFields
<1>25. CASE KeyLineSwitch
  BY <1>1, <1>25, McFields DEF KeyLineSwitch, MainStep
<1>9. CASE SyncWait
  BY <1>1, <1>9, McFields DEF SyncWait, MainStep
<1>10. CASE SyncResume
  BY <1>1, <1>10, McFields DEF SyncResume, MainStep, Resumed
<1>11. CASE Fork
  BY <1>1, <1>11, McFields DEF Fork, MainStep
<1>12. CASE InitBack
  BY <1>1, <1>12, McFields DEF InitBack, MainStep
<1>13. CASE ChdirBack
  BY <1>1, <1>13, McFields DEF ChdirBack, MainStep
<1>14. CASE Show
  BY <1>1, <1>14, McFields DEF Show, MainStep
<1>15. CASE Give
  BY <1>1, <1>15, McFields DEF Give, MainStep
<1>16. CASE InvokeBack
  BY <1>1, <1>16, McFields DEF InvokeBack, MainStep
<1>17. CASE Restart
  BY <1>1, <1>17, McFields DEF Restart, MainStep
<1>18. CASE FollowShell
  BY <1>1, <1>18, McFields DEF FollowShell, MainStep
<1>19. CASE Quit
  BY <1>1, <1>19, McFields DEF Quit
<1>20. CASE PanelCd
  <2>1. PICK d \in Dirs : Chdir(mc, d, "panels")
    BY <1>20 DEF PanelCd
  <2> QED  BY <2>1, ChdirTypes DEF TypeOK
<1>21. CASE RunCommand
  <2>1. PICK l \in Line : Chdir(Calling(l), panel, "invoke")
    BY <1>21, LineValues DEF RunCommand
  <2>2. Calling(l) \in Mc
    BY <1>1, McFields DEF Calling
  <2> QED  BY <2>1, <2>2, ChdirTypes
<1>22. CASE TogglePanels
  <2>1. Calling(NoLine) \in Mc
    BY <1>1, McFields DEF Calling
  <2> QED  BY <1>22, <2>1, ChdirTypes DEF TogglePanels
<1>23. CASE Handle
  BY <1>1, <1>23, McFields DEF Handle, Interrupted
<1>24. CASE ReadPrompt
  BY <1>24 DEF ReadPrompt, TypeOK
<1> QED
  BY <1>2, <1>3, <1>4, <1>5, <1>6, <1>7, <1>8, <1>9, <1>10, <1>11, <1>12, <1>13, <1>14,
     <1>15, <1>16, <1>17, <1>18, <1>19, <1>20, <1>21, <1>22, <1>23, <1>24, <1>25
     DEF McRuns, UserActs

\* A step of the shell, and what signals do to it.
LEMMA ShellTypes ==
  ASSUME TypeOK, ShellRuns \/ ShellKilled \/ ShellSuspended \/ Handle \/ SyncResume \/ Fork
  PROVE  sh' \in Shell
<1> USE Values
<1>1. sh \in [life : Lives, at : Ats, cwd : Dirs, line : Lines, hooked : BOOLEAN, news : Newses]
  BY ShellFields DEF TypeOK
<1>2. CASE ShellRead
  <2>1. Head(input) \in Lines
    BY <1>2, HeadTailProperties DEF ShellRead, TypeOK
  <2> QED  BY <1>1, <1>2, <2>1, ShellFields DEF ShellRead, ShellStep
<1>3. CASE ShellExec
  <2>1. PICK d \in Dirs : sh' = LET hooked == sh.hooked \/ sh.line.does = "setup"
                                IN [sh EXCEPT !.cwd = d, !.hooked = hooked, !.line = NoLine,
                                              !.at = IF hooked THEN "pwd" ELSE "prompt"]
    BY <1>3 DEF ShellExec, ShellStep
  <2> QED  BY <1>1, <2>1, ShellFields
<1>4. CASE ShellExit \/ ShellPwd \/ ShellStop
  BY <1>1, <1>4, ShellFields DEF ShellExit, ShellPwd, ShellStop, ShellStep
<1>5. CASE ShellKilled \/ ShellSuspended
  BY <1>1, <1>5, ShellFields DEF ShellKilled, ShellSuspended, ShellStep
<1>6. CASE Handle
  <2> DEFINE life == CASE sh.news = "suspended" -> "run"
                       [] sh.news \in {"exited", "killed"} -> "gone"
                       [] OTHER -> sh.life
  <2>1. sh' = [sh EXCEPT !.news = "none", !.life = life]
    BY <1>6 DEF Handle
  <2>2. life \in Lives
    BY <1>1
  <2> HIDE DEF life
  <2> QED  BY <1>1, <2>1, <2>2, ShellFields
<1>7. CASE SyncResume
  BY <1>1, <1>7, ShellFields DEF SyncResume, TypeOK
<1>8. CASE Fork
  BY <1>8, ShellFields, SubshellAssumption DEF Fork, NewShell
<1> QED
  BY <1>2, <1>3, <1>4, <1>5, <1>6, <1>7, <1>8 DEF ShellRuns

\* A cd that is sent.
LEMMA ChdirInput ==
  ASSUME TypeOK, NEW m, NEW d \in Dirs, NEW after, Chdir(m, d, after)
  PROVE  input' \in Seq(Line)
<1>1. input \in Seq(Line) /\ [by |-> "cd", does |-> d] \in Line
  BY LineValues DEF TypeOK
<1>2. Append(input, [by |-> "cd", does |-> d]) \in Seq(Line)
  BY <1>1, AppendType
<1> QED  BY <1>1, <1>2 DEF Chdir

\* What is written to the shell.
LEMMA InputTypes == ASSUME TypeOK, Next PROVE input' \in Seq(Line)
<1>1. input \in Seq(Line) /\ panel \in Dirs
  BY DEF TypeOK
<1>2. CASE ShellRead
  BY <1>1, <1>2, HeadTailProperties DEF ShellRead
<1>3. CASE KeyLine \/ KeyLineSwitch
  <2>1. PICK d \in Dirs \cup {"stay", "exit"} :
          input' = Append(input, [by |-> "user", does |-> d])
    BY <1>3 DEF KeyLine, KeyLineSwitch, TypeLine
  <2> QED  BY <1>1, <2>1, LineValues, AppendType
<1>4. CASE SyncResume
  <2>1. <<>> \in Seq(Line)
    OBVIOUS
  <2> QED  BY <1>1, <1>4, <2>1 DEF SyncResume
<1>5. CASE Fork
  BY <1>1, <1>5, LineValues, AppendType DEF Fork
<1>6. CASE Give
  <2>1. mc.line \in Line
    BY <1>6 DEF Give, TypeOK, Mc
  <2> QED  BY <1>1, <1>6, <2>1, AppendType DEF Give
<1>7. CASE PanelCd \/ RunCommand \/ TogglePanels
  BY <1>1, <1>7, ChdirInput DEF PanelCd, RunCommand, TogglePanels
<1>8. CASE ~(ShellRead \/ KeyLine \/ KeyLineSwitch \/ SyncResume \/ Fork \/ Give
             \/ PanelCd \/ RunCommand \/ TogglePanels)
  BY <1>1, <1>8
     DEF Next, ShellRuns, McRuns, UserActs, ShellExec, ShellExit, ShellPwd, ShellStop,
         ShellKilled, ShellSuspended, Handle, FeedCheck, FeedEnter, FeedPty, FeedPipe,
         FeedTimeout, KeySwitch, SyncWait, InitBack, ChdirBack, Show, InvokeBack, Restart,
         FollowShell, Quit, ReadPrompt
<1> QED  BY <1>2, <1>3, <1>4, <1>5, <1>6, <1>7, <1>8

\* The type invariant is inductive.
LEMMA InitType == Init => TypeOK
<1> SUFFICES ASSUME Init PROVE TypeOK
  OBVIOUS
<1>1. mc \in Mc
  BY McFields, Values, SubshellAssumption DEF Init
<1>2. sh \in Shell
  BY ShellFields, Values, SubshellAssumption DEF Init, NewShell
<1>3. /\ opt \in Users /\ panel \in Dirs /\ chld \in BOOLEAN /\ out \in BOOLEAN
      /\ input = <<>> /\ pipe = <<>> /\ order = "none" /\ deeds = 0 /\ mc.alive = FALSE
  BY DEF Init
<1>4. deeds \in 0 .. MaxDeeds
  BY <1>3, SubshellAssumption
<1>5. input \in Seq(Line) /\ pipe \in Seq(Dirs)
  BY <1>3
<1> QED  BY <1>1, <1>2, <1>3, <1>4, <1>5 DEF TypeOK

LEMMA NextType == TypeOK /\ [Next]_vars => TypeOK'
<1> SUFFICES ASSUME TypeOK, Next PROVE TypeOK'
  BY DEF TypeOK, vars
<1> USE DEF ShellRuns, McRuns, UserActs
<1>1. mc' \in Mc
  <2>1. CASE McRuns \/ UserActs \/ Handle \/ ReadPrompt
    BY <2>1, McTypes
  <2>2. CASE ShellRuns \/ ShellKilled \/ ShellSuspended
    BY <2>2 DEF ShellRead, ShellExec, ShellExit, ShellPwd, ShellStop, ShellKilled,
                ShellSuspended, TypeOK
  <2> QED  BY <2>1, <2>2 DEF Next
<1>2. sh' \in Shell
  <2>1. CASE ShellRuns \/ ShellKilled \/ ShellSuspended \/ Handle \/ SyncResume \/ Fork
    BY <2>1, ShellTypes
  <2>2. CASE ~(ShellRuns \/ ShellKilled \/ ShellSuspended \/ Handle \/ SyncResume \/ Fork)
    BY <2>2
       DEF Next, FeedCheck, FeedEnter, FeedPty, FeedPipe, FeedTimeout, KeySwitch, KeyLine,
           KeyLineSwitch, SyncWait, InitBack, ChdirBack, Show, Give, InvokeBack, Restart,
           FollowShell, Quit, PanelCd, RunCommand, TogglePanels, ReadPrompt, TypeOK
  <2> QED  BY <2>1, <2>2
<1>3. input' \in Seq(Line)
  BY InputTypes
<1>4. pipe' \in Seq(Dirs)
  <2>1. pipe \in Seq(Dirs) /\ <<>> \in Seq(Dirs) /\ sh.cwd \in Dirs
    BY ShellFields DEF TypeOK
  <2>2. Append(pipe, sh.cwd) \in Seq(Dirs)
    BY <2>1, AppendType
  <2>3. pipe' \in {pipe, <<>>, Append(pipe, sh.cwd)}
    BY DEF Next, ShellRead, ShellExec, ShellExit, ShellPwd, ShellStop,
           ShellKilled, ShellSuspended, Handle, FeedCheck, FeedEnter, FeedPty, FeedPipe,
           FeedTimeout, KeySwitch, KeyLine, KeyLineSwitch, TypeLine, SyncWait, SyncResume, Fork,
           InitBack, ChdirBack,
           Show, Give, InvokeBack, Restart, FollowShell, Quit, PanelCd, RunCommand,
           TogglePanels, ReadPrompt
  <2> QED  BY <2>1, <2>2, <2>3
<1>5. opt' = opt /\ panel' \in Dirs
  <2>1. opt' = opt
    BY DEF Next, ShellRead, ShellExec, ShellExit, ShellPwd, ShellStop,
           ShellKilled, ShellSuspended, Handle, FeedCheck, FeedEnter, FeedPty, FeedPipe,
           FeedTimeout, KeySwitch, KeyLine, KeyLineSwitch, TypeLine, SyncWait, SyncResume, Fork,
           InitBack, ChdirBack,
           Show, Give, InvokeBack, Restart, FollowShell, Quit, PanelCd, RunCommand,
           TogglePanels, ReadPrompt
  <2>2. panel \in Dirs
    BY DEF TypeOK
  <2>3. panel' \in Dirs
    BY <2>2
       DEF Next, ShellRead, ShellExec, ShellExit, ShellPwd, ShellStop,
           ShellKilled, ShellSuspended, Handle, FeedCheck, FeedEnter, FeedPty, FeedPipe,
           FeedTimeout, KeySwitch, KeyLine, KeyLineSwitch, TypeLine, SyncWait, SyncResume, Fork,
           InitBack, ChdirBack,
           Show, Give, InvokeBack, Restart, FollowShell, Quit, PanelCd, RunCommand,
           TogglePanels, ReadPrompt
  <2> QED  BY <2>1, <2>3
<1>6. chld' \in BOOLEAN /\ out' \in BOOLEAN
  <2>1. chld \in BOOLEAN /\ out \in BOOLEAN
    BY DEF TypeOK
  <2>2. chld' \in {chld, TRUE, FALSE}
    BY DEF Next, Signal, ShellRead, ShellExec, ShellExit, ShellPwd, ShellStop,
           ShellKilled, ShellSuspended, Handle, FeedCheck, FeedEnter, FeedPty, FeedPipe,
           FeedTimeout, KeySwitch, KeyLine, KeyLineSwitch, TypeLine, SyncWait, SyncResume, Fork,
           InitBack, ChdirBack,
           Show, Give, InvokeBack, Restart, FollowShell, Quit, PanelCd, RunCommand,
           TogglePanels, ReadPrompt
  <2>3. out' \in {out, TRUE, FALSE, out \/ sh.life = "stop"}
    BY DEF Next, ShellRead, ShellExec, ShellExit, ShellPwd, ShellStop,
           ShellKilled, ShellSuspended, Handle, FeedCheck, FeedEnter, FeedPty, FeedPipe,
           FeedTimeout, KeySwitch, KeyLine, KeyLineSwitch, TypeLine, SyncWait, SyncResume, Fork,
           InitBack, ChdirBack,
           Show, Give, InvokeBack, Restart, FollowShell, Quit, PanelCd, RunCommand,
           TogglePanels, ReadPrompt
  <2> QED  BY <2>1, <2>2, <2>3
<1>7. order' \in {"none", "given", "done", "lost"}
  <2>1. order \in {"none", "given", "done", "lost"}
    BY DEF TypeOK
  <2> QED
    BY <2>1
       DEF Next, Executed, ShellRead, ShellExec, ShellExit, ShellPwd, ShellStop,
           ShellKilled, ShellSuspended, Handle, FeedCheck, FeedEnter, FeedPty, FeedPipe,
           FeedTimeout, KeySwitch, KeyLine, KeyLineSwitch, TypeLine, SyncWait, SyncResume, Fork,
           InitBack, ChdirBack,
           Show, Give, InvokeBack, Restart, FollowShell, Quit, PanelCd, RunCommand,
           TogglePanels, ReadPrompt
<1>8. deeds' \in 0 .. MaxDeeds
  <2>1. deeds \in 0 .. MaxDeeds /\ MaxDeeds \in Nat
    BY SubshellAssumption DEF TypeOK
  <2>2. deeds' = deeds \/ (deeds < MaxDeeds /\ deeds' = deeds + 1)
    BY DEF Next, Do, ShellRead, ShellExec, ShellExit, ShellPwd, ShellStop,
           ShellKilled, ShellSuspended, Handle, FeedCheck, FeedEnter, FeedPty, FeedPipe,
           FeedTimeout, KeySwitch, KeyLine, KeyLineSwitch, TypeLine, SyncWait, SyncResume, Fork,
           InitBack, ChdirBack,
           Show, Give, InvokeBack, Restart, FollowShell, Quit, PanelCd, RunCommand,
           TogglePanels, ReadPrompt
  <2> QED  BY <2>1, <2>2
<1>9. mc'.alive => sh'.life # "gone"
  <2>1. mc.alive => sh.life # "gone"
    BY DEF TypeOK
  <2>2. mc \in Mc /\ sh \in Shell
    BY DEF TypeOK
  <2>3. CASE Handle
    BY <2>1, <2>2, <2>3, McFields, ShellFields DEF Handle, Interrupted
  <2>4. CASE Fork
    BY <2>4 DEF Fork, NewShell
  <2>5. CASE ShellRuns \/ ShellKilled \/ ShellSuspended
    <3> USE <2>2, ShellFields
    <3>1. CASE ShellRead
      BY <3>1 DEF ShellRead, ShellStep
    <3>2. CASE ShellExec
      BY <3>2 DEF ShellExec, ShellStep
    <3>3. CASE ShellExit
      BY <3>3 DEF ShellExit, ShellStep
    <3>4. CASE ShellPwd
      BY <3>4 DEF ShellPwd, ShellStep
    <3>5. CASE ShellStop
      BY <3>5 DEF ShellStop, ShellStep
    <3>6. CASE ShellKilled
      BY <3>6 DEF ShellKilled
    <3>7. CASE ShellSuspended
      BY <3>7 DEF ShellSuspended, ShellStep
    <3> QED  BY <2>5, <3>1, <3>2, <3>3, <3>4, <3>5, <3>6, <3>7
  <2>6. CASE SyncResume
    BY <2>1, <2>2, <2>6, McFields, ShellFields DEF SyncResume, MainStep, Resumed
  <2>7. CASE (McRuns /\ ~Fork /\ ~SyncResume) \/ UserActs \/ ReadPrompt
    <3>1. sh' = sh
      BY <2>7
         DEF FeedCheck, FeedEnter, FeedPty, FeedPipe, FeedTimeout, KeySwitch, KeyLine,
             KeyLineSwitch, SyncWait, InitBack, ChdirBack, Show, Give, InvokeBack, Restart,
             FollowShell, Quit, PanelCd, RunCommand, TogglePanels, ReadPrompt
    <3>2. mc'.alive = mc.alive
      BY <2>2, <2>7, McFields
         DEF FeedCheck, FeedEnter, FeedPty, FeedPipe, FeedTimeout, KeySwitch, KeyLine,
             KeyLineSwitch, SyncWait, InitBack, ChdirBack, Show, Give, InvokeBack, Restart,
             FollowShell, Quit, PanelCd, RunCommand, TogglePanels, ReadPrompt, MainStep,
             Chdir, Calling
    <3> QED  BY <2>1, <3>1, <3>2
  <2> QED  BY <2>3, <2>4, <2>5, <2>6, <2>7 DEF Next
<1> QED
  BY <1>1, <1>2, <1>3, <1>4, <1>5, <1>6, <1>7, <1>8, <1>9 DEF TypeOK

(***************************************************************************)
(* The strengthening of InStep.  Once a line is given to the shell it goes *)
(* through the stages below in turn; mc knows at any time no more than     *)
(* whether it still owes the shell a line (Idle), waits for the rest of    *)
(* the stages (Busy), or has waited for its end (Gone).  Place says what   *)
(* mc relies on at the points of its own code.                             *)
(***************************************************************************)
Quiet == ~opt.kills /\ ~opt.ahead

\* init_subshell has not given up
Trusted == mc.use /\ ~(mc.pc = "back" /\ mc.job = "init" /\ ~mc.ok)

Syncing == mc.pc \in {"sync", "resume"}

\* No change of state is on its way to mc.
Settled == ~chld /\ sh.news = "none" /\ ~mc.stopped

AtPrompt ==
  /\ Settled /\ sh.life = "run" /\ sh.at = "prompt" /\ sh.hooked
  /\ input = <<>> /\ pipe = <<>>

Told ==
  /\ Settled /\ sh.life = "run" /\ sh.at = "prompt" /\ pipe = <<>>
  /\ \E l \in Line :
       /\ input = <<l>>
       /\ sh.hooked \/ l.does = "setup"
       /\ mc.ready => l.does # "exit"

Executing ==
  /\ Settled /\ sh.life = "run" /\ sh.at = "exec"
  /\ input = <<>> /\ pipe = <<>>
  /\ sh.hooked \/ sh.line.does = "setup"
  /\ mc.ready => sh.line.does # "exit"

Reporting ==
  /\ Settled /\ sh.life = "run" /\ sh.at = "pwd" /\ sh.hooked
  /\ input = <<>> /\ pipe = <<>>

\* Where the directory is that the shell has written.
Reported ==
  /\ input = <<>>
  /\ pipe = IF Syncing THEN <<>> ELSE <<sh.cwd>>
  /\ Syncing => mc.cwd = sh.cwd

Stopping ==
  /\ Settled /\ sh.life = "run" /\ sh.at = "kill" /\ sh.hooked
  /\ Reported /\ mc.pc # "resume"

Stopped ==
  /\ sh.life = "stop" /\ sh.at = "prompt" /\ sh.hooked
  /\ Reported
  /\ \/ chld /\ sh.news = "stopped" /\ ~mc.stopped /\ mc.pc # "resume"
     \/ ~chld /\ sh.news = "none" /\ mc.stopped

Exited ==
  /\ sh.life = "dead" /\ sh.news = "exited" /\ chld /\ ~mc.stopped /\ ~mc.ready
  /\ input = <<>> /\ pipe = <<>>

Gone ==
  /\ Settled /\ sh.life = "gone" /\ ~mc.ready /\ ~mc.alive
  /\ input = <<>> /\ pipe = <<>>
  /\ ~Syncing
  /\ mc.state # "INACTIVE" \/ mc.pc = "fork"

Idle ==
  /\ AtPrompt /\ mc.alive /\ mc.ready /\ mc.cwd = sh.cwd
  /\ mc.state # "RUNNING_COMMAND" /\ ~Syncing

Busy ==
  /\ mc.alive /\ mc.state # "INACTIVE"
  /\ mc.ready => mc.state = "RUNNING_COMMAND" /\ mc.job = "cd" /\ Feeding
  /\ \/ ~Syncing /\ (Told \/ Executing \/ Reporting \/ Exited)
     \/ Stopping \/ Stopped

\* What mc believes, where it is in its own code.
Place ==
  /\ mc.quit => ~mc.alive
  /\ mc.pc = "fork" => ~mc.alive /\ ~mc.quit /\ mc.after # "invoke"
  /\ mc.job = "init" /\ (Feeding \/ mc.pc = "back") => mc.after # "invoke"
  /\ mc.job = "cd" /\ Feeding => mc.alive /\ mc.ready /\ mc.state = "RUNNING_COMMAND"
  /\ mc.job = "cd" /\ mc.pc = "back" => mc.alive /\ mc.state = "INACTIVE"
  /\ mc.pc = "invoke" /\ mc.line # NoLine => mc.alive /\ mc.state = "INACTIVE"
  /\ Feeding => mc.state # "INACTIVE"

Phases == Idle \/ Busy \/ Gone

Handshake == Quiet /\ Trusted => Place /\ Phases

(***************************************************************************)
(* The main thread.                                                        *)
(***************************************************************************)
\* A step of mc that the shell does not see.
LEMMA Walk ==
  ASSUME TypeOK, Phases, ~Syncing, ~Syncing', UNCHANGED <<sh, chld, input, pipe>>,
         mc'.ready = mc.ready, mc'.alive = mc.alive, mc'.stopped = mc.stopped,
         mc'.cwd = mc.cwd,
         Idle => mc'.state # "RUNNING_COMMAND",
         Busy => /\ mc'.state # "INACTIVE"
                 /\ mc.ready => mc'.state = "RUNNING_COMMAND" /\ mc'.job = "cd" /\ Feeding',
         Gone => mc'.state # "INACTIVE" \/ mc'.pc = "fork"
  PROVE  Phases'
<1>1. CASE Idle
  BY <1>1 DEF Idle, AtPrompt, Settled, Phases, Syncing
<1>2. CASE Gone
  BY <1>2 DEF Gone, Settled, Phases, Syncing
<1>3. CASE Busy
  <2>1. Settled' <=> Settled
    BY DEF Settled
  <2>2. Told => Told'
    BY <2>1 DEF Told
  <2>3. Executing => Executing'
    BY <2>1 DEF Executing
  <2>4. Reporting => Reporting'
    BY <2>1 DEF Reporting
  <2>5. Reported => Reported'
    BY DEF Reported
  <2>6. mc.pc # "resume" /\ mc'.pc # "resume"
    BY DEF Syncing
  <2>7. (Stopping => Stopping') /\ (Stopped => Stopped') /\ (Exited => Exited')
    BY <2>1, <2>5, <2>6 DEF Stopping, Stopped, Exited
  <2> QED  BY <1>3, <2>2, <2>3, <2>4, <2>7 DEF Busy, Phases
<1> QED  BY <1>1, <1>2, <1>3 DEF Phases

\* feed_subshell, up to what comes in.
LEMMA FeedCheckInStep ==
  ASSUME TypeOK, Quiet, Trusted, Place, Phases, FeedCheck, Trusted'
  PROVE  Place' /\ Phases'
<1>1. /\ mc'.pc = (IF mc.alive THEN "enter" ELSE "back") /\ mc'.job = mc.job
      /\ mc'.after = mc.after /\ mc'.ok = (IF mc.alive THEN mc.ok ELSE FALSE)
      /\ mc'.line = mc.line /\ mc'.state = mc.state /\ mc'.ready = mc.ready
      /\ mc'.alive = mc.alive /\ mc'.stopped = mc.stopped /\ mc'.use = mc.use
      /\ mc'.quit = mc.quit /\ mc'.cwd = mc.cwd
  BY McFields DEF TypeOK, FeedCheck, MainStep
<1>2. mc.pc = "check" /\ UNCHANGED <<sh, chld, input, pipe>>
  BY DEF FeedCheck, MainStep
<1>3. Place'
  BY <1>1, <1>2 DEF Place, Feeding, Trusted, Phases, Idle, Busy, Gone
<1>4. Phases'
  BY <1>1, <1>2, Walk DEF Phases, Idle, Busy, Gone, Syncing, Feeding, Place
<1> QED  BY <1>3, <1>4

LEMMA FeedEnterInStep ==
  ASSUME TypeOK, Quiet, Trusted, Place, Phases, FeedEnter, Trusted'
  PROVE  Place' /\ Phases'
<1>1. /\ mc'.pc = "select" /\ mc'.job = mc.job /\ mc'.after = mc.after /\ mc'.ok = mc.ok
      /\ mc'.line = mc.line /\ mc'.state = mc.state /\ mc'.ready = mc.ready
      /\ mc'.alive = mc.alive /\ mc'.stopped = mc.stopped /\ mc'.use = mc.use
      /\ mc'.quit = mc.quit /\ mc'.cwd = mc.cwd
  BY McFields DEF TypeOK, FeedEnter, MainStep
<1>2. mc.pc = "enter" /\ UNCHANGED <<sh, chld, input, pipe>>
  BY DEF FeedEnter, MainStep
<1>3. Place'
  BY <1>1, <1>2 DEF Place, Feeding, Trusted, Phases, Idle, Busy, Gone
<1>4. Phases'
  BY <1>1, <1>2, Walk DEF Phases, Idle, Busy, Gone, Syncing, Feeding, Place
<1> QED  BY <1>3, <1>4

LEMMA FeedPtyInStep ==
  ASSUME TypeOK, Quiet, Trusted, Place, Phases, FeedPty, Trusted'
  PROVE  Place' /\ Phases'
<1>1. /\ mc'.pc = "check" /\ mc'.job = mc.job /\ mc'.after = mc.after /\ mc'.ok = mc.ok
      /\ mc'.line = mc.line /\ mc'.state = mc.state /\ mc'.ready = mc.ready
      /\ mc'.alive = mc.alive /\ mc'.stopped = mc.stopped /\ mc'.use = mc.use
      /\ mc'.quit = mc.quit /\ mc'.cwd = mc.cwd
  BY McFields DEF TypeOK, FeedPty, MainStep
<1>2. mc.pc = "select" /\ UNCHANGED <<sh, chld, input, pipe>>
  BY DEF FeedPty, MainStep
<1>3. Place'
  BY <1>1, <1>2 DEF Place, Feeding, Trusted, Phases, Idle, Busy, Gone
<1>4. Phases'
  BY <1>1, <1>2, Walk DEF Phases, Idle, Busy, Gone, Syncing, Feeding, Place
<1> QED  BY <1>3, <1>4

\* The callers of feed_subshell.
LEMMA InitBackInStep ==
  ASSUME TypeOK, Quiet, Trusted, Place, Phases, InitBack, Trusted'
  PROVE  Place' /\ Phases'
<1>1. /\ mc'.pc = mc.after /\ mc'.job = mc.job /\ mc'.after = mc.after /\ mc'.ok = mc.ok
      /\ mc'.line = mc.line /\ mc'.state = mc.state /\ mc'.ready = mc.ready
      /\ mc'.alive = mc.alive /\ mc'.stopped = mc.stopped
      /\ mc'.use = (mc.use /\ mc.ok /\ mc.alive) /\ mc'.quit = mc.quit /\ mc'.cwd = mc.cwd
  BY McFields DEF TypeOK, InitBack, MainStep
<1>2. mc.pc = "back" /\ mc.job = "init" /\ UNCHANGED <<sh, chld, input, pipe>>
  BY DEF InitBack, MainStep
<1>3. mc.after \in {"panels", "invoke", "restart", "cd"}
  BY McFields DEF TypeOK, Afters
<1>4. Place'
  BY <1>1, <1>2, <1>3 DEF Place, Feeding, Trusted, Phases, Idle, Busy, Gone
<1>5. Phases'
  BY <1>1, <1>2, <1>3, Walk DEF Phases, Idle, Busy, Gone, Syncing, Feeding, Place
<1> QED  BY <1>4, <1>5

LEMMA ChdirBackInStep ==
  ASSUME TypeOK, Quiet, Trusted, Place, Phases, ChdirBack, Trusted'
  PROVE  Place' /\ Phases'
<1>1. /\ mc'.pc = mc.after /\ mc'.job = mc.job /\ mc'.after = mc.after /\ mc'.ok = mc.ok
      /\ mc'.line = mc.line /\ mc'.state = mc.state /\ mc'.ready = mc.ready
      /\ mc'.alive = mc.alive /\ mc'.stopped = mc.stopped /\ mc'.use = mc.use
      /\ mc'.quit = mc.quit /\ mc'.cwd = mc.cwd
  BY McFields DEF TypeOK, ChdirBack, MainStep
<1>2. mc.pc = "back" /\ mc.job = "cd" /\ UNCHANGED <<sh, chld, input, pipe>>
  BY DEF ChdirBack, MainStep
<1>3. mc.after \in {"panels", "invoke", "restart", "cd"}
  BY McFields DEF TypeOK, Afters
<1>4. Place'
  BY <1>1, <1>2, <1>3 DEF Place, Feeding, Trusted, Phases, Idle, Busy, Gone
<1>5. Phases'
  BY <1>1, <1>2, <1>3, Walk DEF Phases, Idle, Busy, Gone, Syncing, Feeding, Place
<1> QED  BY <1>4, <1>5

LEMMA ShowInStep ==
  ASSUME TypeOK, Quiet, Trusted, Place, Phases, Show, Trusted'
  PROVE  Place' /\ Phases'
<1>1. /\ mc'.pc = "check" /\ mc'.job = "invoke" /\ mc'.after = mc.after /\ mc'.ok = mc.ok
      /\ mc'.line = mc.line
      /\ mc'.state = (IF mc.state = "INACTIVE" THEN "ACTIVE" ELSE mc.state)
      /\ mc'.ready = mc.ready /\ mc'.alive = mc.alive /\ mc'.stopped = mc.stopped
      /\ mc'.use = mc.use /\ mc'.quit = mc.quit /\ mc'.cwd = mc.cwd
  BY McFields DEF TypeOK, Show, MainStep
<1>2. mc.pc = "invoke" /\ mc.line = NoLine /\ UNCHANGED <<sh, chld, input, pipe>>
  BY DEF Show, MainStep
<1>3. Place'
  BY <1>1, <1>2 DEF Place, Feeding, Trusted, Phases, Idle, Busy, Gone
<1>4. Phases'
  BY <1>1, <1>2, Walk DEF Phases, Idle, Busy, Gone, Syncing, Feeding, Place
<1> QED  BY <1>3, <1>4

LEMMA InvokeBackInStep ==
  ASSUME TypeOK, Quiet, Trusted, Place, Phases, InvokeBack, Trusted'
  PROVE  Place' /\ Phases'
<1>1. /\ mc'.pc = "restart" /\ mc'.job = mc.job /\ mc'.after = mc.after /\ mc'.ok = mc.ok
      /\ mc'.line = mc.line /\ mc'.state = mc.state /\ mc'.ready = mc.ready
      /\ mc'.alive = mc.alive /\ mc'.stopped = mc.stopped /\ mc'.use = mc.use
      /\ mc'.quit = mc.quit /\ mc'.cwd = mc.cwd
  BY McFields DEF TypeOK, InvokeBack, MainStep
<1>2. mc.pc = "back" /\ mc.job = "invoke" /\ UNCHANGED <<sh, chld, input, pipe>>
  BY DEF InvokeBack, MainStep
<1>3. Place'
  BY <1>1, <1>2 DEF Place, Feeding, Trusted, Phases, Idle, Busy, Gone
<1>4. Phases'
  BY <1>1, <1>2, Walk DEF Phases, Idle, Busy, Gone, Syncing, Feeding, Place
<1> QED  BY <1>3, <1>4

\* The user goes back to the panels.
LEMMA KeySwitchInStep ==
  ASSUME TypeOK, Quiet, Trusted, Place, Phases, KeySwitch, Trusted'
  PROVE  Place' /\ Phases'
<1>1. /\ mc'.pc = "back" /\ mc'.job = mc.job /\ mc'.after = mc.after /\ mc'.ok = TRUE
      /\ mc'.line = mc.line /\ mc'.state = (IF mc.ready THEN "INACTIVE" ELSE mc.state)
      /\ mc'.ready = mc.ready /\ mc'.alive = mc.alive /\ mc'.stopped = mc.stopped
      /\ mc'.use = mc.use /\ mc'.quit = mc.quit /\ mc'.cwd = mc.cwd
  BY McFields DEF TypeOK, KeySwitch, MainStep, Keyboard, Quietly
<1>2. mc.pc = "select" /\ mc.job = "invoke" /\ UNCHANGED <<sh, chld, input, pipe>>
  BY DEF KeySwitch, MainStep, Keyboard, Quietly
<1>3. Place'
  BY <1>1, <1>2 DEF Place, Feeding, Trusted, Phases, Idle, Busy, Gone
<1>4. Phases'
  BY <1>1, <1>2, Walk DEF Phases, Idle, Busy, Gone, Syncing, Feeding, Place
<1> QED  BY <1>3, <1>4

LEMMA RestartInStep ==
  ASSUME TypeOK, Quiet, Trusted, Place, Phases, Restart, Trusted'
  PROVE  Place' /\ Phases'
<1>1. /\ mc'.pc = (IF ~mc.alive /\ ~mc.quit /\ mc.use THEN "fork"
               ELSE IF mc.line = NoLine THEN "quit" ELSE "cd")
      /\ mc'.job = mc.job
      /\ mc'.after = (IF ~mc.alive /\ ~mc.quit /\ mc.use THEN "restart" ELSE mc.after)
      /\ mc'.ok = mc.ok /\ mc'.line = mc.line /\ mc'.state = mc.state
      /\ mc'.ready = mc.ready /\ mc'.alive = mc.alive /\ mc'.stopped = mc.stopped
      /\ mc'.use = mc.use /\ mc'.quit = mc.quit /\ mc'.cwd = mc.cwd
  BY McFields DEF TypeOK, Restart, MainStep
<1>2. mc.pc = "restart" /\ UNCHANGED <<sh, chld, input, pipe>>
  BY DEF Restart, MainStep
<1>3. Place'
  BY <1>1, <1>2 DEF Place, Feeding, Trusted, Phases, Idle, Busy, Gone
<1>4. Phases'
  BY <1>1, <1>2, Walk DEF Phases, Idle, Busy, Gone, Syncing, Feeding, Place
<1> QED  BY <1>3, <1>4

LEMMA FollowShellInStep ==
  ASSUME TypeOK, Quiet, Trusted, Place, Phases, FollowShell, Trusted'
  PROVE  Place' /\ Phases'
<1>1. /\ mc'.pc = (IF mc.line = NoLine THEN "panels" ELSE "quit") /\ mc'.job = mc.job
      /\ mc'.after = mc.after /\ mc'.ok = mc.ok /\ mc'.line = mc.line
      /\ mc'.state = mc.state /\ mc'.ready = mc.ready /\ mc'.alive = mc.alive
      /\ mc'.stopped = mc.stopped /\ mc'.use = mc.use /\ mc'.quit = mc.quit
      /\ mc'.cwd = mc.cwd
  BY McFields DEF TypeOK, FollowShell, MainStep
<1>2. mc.pc = "cd" /\ UNCHANGED <<sh, chld, input, pipe>>
  BY DEF FollowShell, MainStep
<1>3. Place'
  BY <1>1, <1>2 DEF Place, Feeding, Trusted, Phases, Idle, Busy, Gone
<1>4. Phases'
  BY <1>1, <1>2, Walk DEF Phases, Idle, Busy, Gone, Syncing, Feeding, Place
<1> QED  BY <1>3, <1>4

LEMMA QuitInStep ==
  ASSUME TypeOK, Quiet, Trusted, Place, Phases, Quit, Trusted'
  PROVE  Place' /\ Phases'
<1> DEFINE on == IF mc.line = NoLine THEN "cd" ELSE "panels"
<1>1. /\ mc.pc = "quit" /\ UNCHANGED <<sh, chld, input, pipe>>
      /\ mc'.job = mc.job /\ mc'.ok = mc.ok /\ mc'.line = mc.line /\ mc'.state = mc.state
      /\ mc'.ready = mc.ready /\ mc'.alive = mc.alive /\ mc'.stopped = mc.stopped
      /\ mc'.use = mc.use /\ mc'.cwd = mc.cwd
  BY McFields DEF TypeOK, Quit
<1>2. \/ mc'.pc \in {on, "end"} /\ mc'.quit = mc.quit
      \/ mc.quit /\ ~mc'.quit /\ mc'.after = on /\ mc'.pc \in {"fork", on}
  BY McFields DEF TypeOK, Quit
<1>3. Place'
  BY <1>1, <1>2 DEF Place, Feeding
<1>4. Phases'
  BY <1>1, <1>2, Walk DEF Phases, Idle, Busy, Gone, Syncing, Feeding, Place
<1> QED  BY <1>3, <1>4

\* A line for a shell that owes nothing.
LEMMA Sent ==
  ASSUME TypeOK, Idle, UNCHANGED <<sh, chld, pipe>>, ~Syncing',
         NEW l \in Line, input' = Append(input, l),
         mc'.alive = mc.alive, mc'.stopped = mc.stopped, mc'.state # "INACTIVE",
         mc'.ready => /\ l.does # "exit" /\ Feeding'
                      /\ mc'.state = "RUNNING_COMMAND" /\ mc'.job = "cd"
  PROVE  Phases'
<1>1. input' = <<l>>
  BY DEF Idle, AtPrompt
<1>2. Told'
  BY <1>1 DEF Idle, AtPrompt, Told, Settled
<1> QED  BY <1>2 DEF Idle, Busy, Phases

\* do_subshell_chdir with the main thread at its panels.
LEMMA ChdirInStep ==
  ASSUME TypeOK, Place, Phases, UNCHANGED <<sh, chld, pipe>>, mc.pc = "panels",
         NEW m \in Mc, m.pc = mc.pc, m.job = mc.job, m.state = mc.state, m.ready = mc.ready,
         m.alive = mc.alive, m.stopped = mc.stopped, m.quit = mc.quit, m.cwd = mc.cwd,
         NEW d \in Dirs, NEW after, Chdir(m, d, after),
         after = "panels" \/ (after = "invoke" /\ (m.line # NoLine => m.state = "INACTIVE"))
  PROVE  Place' /\ Phases'
<1>1. CASE m.state = "INACTIVE" /\ m.cwd # d
  <2>1. /\ mc'.pc = "check" /\ mc'.job = "cd" /\ mc'.after = after
        /\ mc'.state = "RUNNING_COMMAND" /\ mc'.ready = m.ready /\ mc'.alive = m.alive
        /\ mc'.stopped = m.stopped /\ mc'.quit = m.quit /\ mc'.line = m.line
    BY <1>1, McFields DEF Chdir
  <2>2. input' = Append(input, [by |-> "cd", does |-> d])
    BY <1>1 DEF Chdir
  <2>3. Idle
    BY <1>1 DEF Phases, Busy, Gone
  <2>4. [by |-> "cd", does |-> d] \in Line /\ d # "exit"
    BY LineValues, SubshellAssumption
  <2>5. Phases'
    BY <2>1, <2>2, <2>3, <2>4, Sent DEF Syncing, Feeding
  <2>6. Place'
    BY <2>1, <2>3 DEF Place, Idle, Feeding
  <2> QED  BY <2>5, <2>6
<1>2. CASE ~(m.state = "INACTIVE" /\ m.cwd # d)
  <2>1. /\ mc'.pc = after /\ mc'.job = m.job /\ mc'.state = m.state
        /\ mc'.ready = m.ready /\ mc'.alive = m.alive /\ mc'.stopped = m.stopped
        /\ mc'.quit = m.quit /\ mc'.line = m.line /\ mc'.cwd = m.cwd /\ input' = input
    BY <1>2, McFields DEF Chdir
  <2>2. Phases'
    BY <2>1, Walk DEF Phases, Idle, Busy, Gone, Syncing, Feeding
  <2>3. m.state = "INACTIVE" => m.alive
    BY DEF Phases, Idle, Busy, Gone
  <2>4. Place'
    BY <2>1, <2>3 DEF Place, Feeding
  <2> QED  BY <2>2, <2>4
<1> QED  BY <1>1, <1>2

LEMMA PanelsInStep ==
  ASSUME TypeOK, Quiet, Trusted, Place, Phases, PanelCd \/ RunCommand \/ TogglePanels
  PROVE  Place' /\ Phases'
<1>1. mc \in Mc /\ mc.pc = "panels" /\ UNCHANGED <<sh, chld, pipe>> /\ panel \in Dirs
  BY DEF PanelCd, RunCommand, TogglePanels, AtPanels, TypeOK
<1>2. CASE PanelCd
  <2>1. PICK d \in Dirs : Chdir(mc, d, "panels")
    BY <1>2 DEF PanelCd
  <2> QED  BY <1>1, <2>1, ChdirInStep
<1>3. ASSUME NEW l \in Lines
      PROVE  LET m == Calling(l)
             IN /\ m \in Mc /\ m.pc = mc.pc /\ m.job = mc.job /\ m.state = mc.state
                /\ m.ready = mc.ready /\ m.alive = mc.alive /\ m.stopped = mc.stopped
                /\ m.quit = mc.quit /\ m.cwd = mc.cwd /\ m.line = l
  <2>1. mc \in Mc
    BY DEF TypeOK
  <2> QED  BY <2>1, McFields DEF Calling
<1>4. CASE RunCommand
  <2>1. PICK l \in Line : Chdir(Calling(l), panel, "invoke")
    BY <1>4, LineValues DEF RunCommand
  <2>2. mc.state = "INACTIVE" /\ l \in Lines
    BY <1>4, Values DEF RunCommand
  <2> DEFINE m == Calling(l)
  <2>3. /\ m \in Mc /\ m.pc = mc.pc /\ m.job = mc.job /\ m.state = mc.state
        /\ m.ready = mc.ready /\ m.alive = mc.alive /\ m.stopped = mc.stopped
        /\ m.quit = mc.quit /\ m.cwd = mc.cwd /\ Chdir(m, panel, "invoke")
    BY <1>3, <2>1, <2>2
  <2> HIDE DEF m
  <2> QED  BY <1>1, <2>2, <2>3, ChdirInStep
<1>5. CASE TogglePanels
  <2> DEFINE m == Calling(NoLine)
  <2>1. /\ m \in Mc /\ m.pc = mc.pc /\ m.job = mc.job /\ m.state = mc.state
        /\ m.ready = mc.ready /\ m.alive = mc.alive /\ m.stopped = mc.stopped
        /\ m.quit = mc.quit /\ m.cwd = mc.cwd /\ m.line = NoLine
        /\ Chdir(m, panel, "invoke")
    BY <1>3, <1>5, Values DEF TogglePanels
  <2> HIDE DEF m
  <2> QED  BY <1>1, <2>1, ChdirInStep
<1> QED  BY <1>2, <1>4, <1>5

LEMMA ReadPromptInStep ==
  ASSUME TypeOK, Quiet, Trusted, Place, Phases, ReadPrompt PROVE Place' /\ Phases'
<1>1. UNCHANGED <<mc, sh, chld, input, pipe>> /\ mc.pc = "panels"
  BY DEF ReadPrompt, AtPanels
<1>2. Phases'
  BY <1>1, Walk DEF Phases, Idle, Busy, Gone, Syncing, Feeding
<1> QED  BY <1>1, <1>2 DEF Place, Feeding

LEMMA FeedTimeoutInStep ==
  ASSUME TypeOK, FeedTimeout PROVE ~Trusted'
<1>1. mc'.pc = "back" /\ mc'.job = "init" /\ ~mc'.ok
  BY McFields DEF TypeOK, FeedTimeout, MainStep
<1> QED  BY <1>1 DEF Trusted

\* The shell has written its directory.
LEMMA FeedPipeInStep ==
  ASSUME TypeOK, Quiet, Trusted, Place, Phases, FeedPipe PROVE Place' /\ Phases'
<1>1. mc.pc = "select" /\ pipe # <<>> /\ pipe' = <<>> /\ UNCHANGED <<sh, chld, input>>
  BY DEF FeedPipe, MainStep
<1>2. Busy /\ (Stopping \/ Stopped) /\ pipe = <<sh.cwd>>
  BY <1>1 DEF Phases, Idle, AtPrompt, Gone, Busy, Told, Executing, Reporting, Exited,
              Stopping, Stopped, Reported, Syncing
<1>3. Len(pipe) = 1 /\ Head(pipe) = sh.cwd
  BY <1>2
<1>4. /\ mc'.pc = "sync" /\ mc'.cwd = sh.cwd /\ mc'.job = mc.job /\ mc'.after = mc.after
      /\ mc'.line = mc.line /\ mc'.state = mc.state /\ mc'.ready = mc.ready
      /\ mc'.alive = mc.alive /\ mc'.stopped = mc.stopped /\ mc'.quit = mc.quit
  BY <1>3, McFields DEF TypeOK, FeedPipe, MainStep
<1>5. Reported'
  BY <1>1, <1>2, <1>4 DEF Stopping, Stopped, Reported, Syncing
<1>6. Stopping' \/ Stopped'
  BY <1>1, <1>2, <1>4, <1>5 DEF Stopping, Stopped, Settled
<1>7. Place'
  BY <1>1, <1>4 DEF Place, Feeding
<1>8. Phases'
  BY <1>1, <1>2, <1>4, <1>6 DEF Busy, Phases, Feeding
<1> QED  BY <1>7, <1>8

LEMMA SyncWaitInStep ==
  ASSUME TypeOK, Quiet, Trusted, Place, Phases, SyncWait PROVE Place' /\ Phases'
<1>1. /\ mc.pc = "sync" /\ UNCHANGED <<sh, chld, input, pipe>>
      /\ mc.stopped \/ ~mc.alive
  BY DEF SyncWait, MainStep
<1>2. /\ mc'.pc = "resume" /\ mc'.cwd = mc.cwd /\ mc'.job = mc.job /\ mc'.after = mc.after
      /\ mc'.line = mc.line /\ mc'.state = mc.state /\ mc'.ready = mc.ready
      /\ mc'.alive = mc.alive /\ mc'.stopped = mc.stopped /\ mc'.quit = mc.quit
  BY McFields DEF TypeOK, SyncWait, MainStep
<1>3. Busy /\ Stopped /\ mc.stopped
  BY <1>1 DEF Phases, Idle, Gone, Busy, Syncing, Stopping, Stopped, Settled
<1>4. Stopped'
  BY <1>1, <1>2, <1>3 DEF Stopped, Reported, Syncing
<1>5. Place'
  BY <1>1, <1>2 DEF Place, Feeding
<1>6. Phases'
  BY <1>1, <1>2, <1>3, <1>4 DEF Busy, Phases, Feeding
<1> QED  BY <1>5, <1>6

\* SIGCONT.
LEMMA SyncResumeInStep ==
  ASSUME TypeOK, Quiet, Trusted, Place, Phases, SyncResume PROVE Place' /\ Phases'
<1>1. /\ mc.pc = "resume" /\ UNCHANGED <<chld, pipe>>
      /\ input' = IF mc.state = "ACTIVE" THEN input ELSE <<>>
  BY DEF SyncResume, MainStep
<1>2. Busy /\ Stopped /\ mc.stopped /\ ~chld /\ pipe = <<>> /\ input = <<>>
      /\ mc.cwd = sh.cwd
  BY <1>1 DEF Phases, Idle, Gone, Busy, Syncing, Stopping, Stopped, Reported
<1>3. sh' = [sh EXCEPT !.life = "run", !.news = "none"]
  BY <1>2 DEF SyncResume, Stopped
<1>4. /\ sh'.life = "run" /\ sh'.news = "none" /\ sh'.at = "prompt" /\ sh'.hooked
      /\ sh'.cwd = sh.cwd
  BY <1>2, <1>3, ShellFields DEF TypeOK, Stopped
<1>5. /\ mc'.ready /\ ~mc'.stopped /\ mc'.cwd = mc.cwd /\ mc'.job = mc.job
      /\ mc'.after = mc.after /\ mc'.line = mc.line /\ mc'.alive = mc.alive
      /\ mc'.quit = mc.quit
  BY McFields DEF TypeOK, SyncResume, MainStep, Resumed
<1>6. \/ /\ mc.state = "RUNNING_COMMAND" /\ mc'.pc = "back" /\ mc'.state = "INACTIVE"
      \/ mc.state # "RUNNING_COMMAND" /\ mc'.pc = "check" /\ mc'.state = mc.state
  BY McFields DEF TypeOK, SyncResume, MainStep, Resumed
<1>7. Idle'
  BY <1>1, <1>2, <1>4, <1>5, <1>6 DEF Idle, AtPrompt, Settled, Syncing, Busy
<1>8. Place'
  BY <1>1, <1>2, <1>5, <1>6 DEF Place, Feeding, Busy
<1> QED  BY <1>7, <1>8 DEF Phases

\* Lines from the user, from invoke_subshell and from init_subshell.
LEMMA KeyLineInStep ==
  ASSUME TypeOK, Quiet, Trusted, Place, Phases, KeyLine PROVE Place' /\ Phases'
<1>1. /\ mc.pc = "select" /\ mc.job # "cd" /\ mc.job = "invoke" /\ UNCHANGED <<sh, chld, pipe>>
      /\ mc.ready
  BY DEF KeyLine, MainStep, Keyboard, Quietly, Quiet
<1>2. PICK l \in Line : input' = Append(input, l)
  BY LineValues DEF KeyLine, TypeLine
<1>3. /\ mc'.pc = "check" /\ mc'.job = mc.job /\ mc'.after = mc.after
      /\ mc'.line = mc.line /\ mc'.state = mc.state /\ ~mc'.ready
      /\ mc'.alive = mc.alive /\ mc'.stopped = mc.stopped /\ mc'.quit = mc.quit
  BY McFields DEF TypeOK, KeyLine, MainStep, Quiet
<1>4. Idle /\ mc.state # "INACTIVE"
  BY <1>1 DEF Phases, Busy, Gone, Place, Feeding
<1>5. Phases'
  BY <1>1, <1>2, <1>3, <1>4, Sent DEF Syncing
<1>6. Place'
  BY <1>1, <1>3, <1>4 DEF Place, Feeding
<1> QED  BY <1>5, <1>6

LEMMA GiveInStep ==
  ASSUME TypeOK, Quiet, Trusted, Place, Phases, Give PROVE Place' /\ Phases'
<1>1. /\ mc.pc = "invoke" /\ mc.line # NoLine /\ UNCHANGED <<sh, chld, pipe>>
      /\ input' = Append(input, mc.line)
  BY DEF Give, MainStep
<1>2. mc.line \in Line
  BY <1>1, McFields DEF TypeOK, Lines
<1>3. /\ mc'.pc = "check" /\ mc'.job = "invoke" /\ mc'.after = mc.after
      /\ mc'.line = mc.line /\ mc'.state = "RUNNING_COMMAND" /\ ~mc'.ready
      /\ mc'.alive = mc.alive /\ mc'.stopped = mc.stopped /\ mc'.quit = mc.quit
  BY McFields DEF TypeOK, Give, MainStep
<1>4. Idle
  BY <1>1 DEF Phases, Busy, Gone, Place
<1>5. Phases'
  BY <1>1, <1>2, <1>3, <1>4, Sent DEF Syncing
<1>6. Place'
  BY <1>1, <1>3, <1>4 DEF Place, Feeding
<1> QED  BY <1>5, <1>6

LEMMA ForkInStep ==
  ASSUME TypeOK, Quiet, Trusted, Place, Phases, Fork PROVE Place' /\ Phases'
<1>1. /\ mc.pc = "fork" /\ UNCHANGED <<chld, pipe>> /\ sh' = NewShell
      /\ input' = Append(input, [by |-> "init", does |-> "setup"])
  BY DEF Fork, MainStep
<1>2. Gone
  BY <1>1 DEF Place, Phases, Idle, Busy
<1>3. /\ mc'.pc = "check" /\ mc'.job = "init" /\ mc'.after = mc.after
      /\ mc'.line = mc.line /\ mc'.state = "RUNNING_COMMAND" /\ mc'.ready = mc.ready
      /\ mc'.alive /\ ~mc'.stopped /\ mc'.quit = mc.quit
  BY McFields DEF TypeOK, Fork, MainStep
<1>4. /\ sh'.life = "run" /\ sh'.at = "prompt" /\ sh'.news = "none"
  BY <1>1 DEF NewShell
<1>5. [by |-> "init", does |-> "setup"] \in Line /\ input' = <<[by |-> "init", does |-> "setup"]>>
  BY <1>1, <1>2, LineValues DEF Gone
<1>6. Told'
  BY <1>1, <1>2, <1>3, <1>4, <1>5 DEF Told, Gone, Settled
<1>7. Phases'
  BY <1>2, <1>3, <1>6 DEF Busy, Phases, Gone, Syncing
<1>8. Place'
  BY <1>1, <1>3 DEF Place, Feeding
<1> QED  BY <1>7, <1>8

(***************************************************************************)
(* The shell and the signal handler.                                       *)
(***************************************************************************)
LEMMA ShellInStep ==
  ASSUME TypeOK, Quiet, Place, Phases, ShellRuns PROVE Place' /\ Phases'
<1>1. mc' = mc /\ sh.life = "run" /\ sh \in Shell
  BY DEF ShellRuns, ShellRead, ShellExec, ShellExit, ShellPwd, ShellStop, ShellStep, TypeOK
<1>2. Place'
  BY <1>1 DEF Place, Feeding
<1>3. CASE ShellRead
  <2>1. sh.at = "prompt" /\ input # <<>> /\ UNCHANGED <<chld, pipe>> /\ input' = Tail(input)
    BY <1>3 DEF ShellRead
  <2>2. Busy /\ Told /\ ~Syncing
    BY <1>1, <2>1 DEF Phases, Idle, AtPrompt, Gone, Busy, Executing, Reporting, Exited,
                      Stopping, Stopped, Reported
  <2>3. PICK l \in Line : /\ input = <<l>>
                          /\ sh.hooked \/ l.does = "setup"
                          /\ mc.ready => l.does # "exit"
    BY <2>2 DEF Told
  <2>4. sh' = [sh EXCEPT !.line = l, !.at = "exec"] /\ input' = <<>>
    <3>1. Head(<<l>>) = l /\ Tail(<<l>>) = <<>>
      OBVIOUS
    <3>2. Head(input) = l /\ Tail(input) = <<>>
      BY <2>3, <3>1
    <3> QED  BY <1>3, <2>1, <3>2 DEF ShellRead, ShellStep
  <2>5. /\ sh'.life = "run" /\ sh'.at = "exec" /\ sh'.line = l /\ sh'.news = sh.news
        /\ sh'.hooked = sh.hooked
    BY <1>1, <2>4, ShellFields
  <2>6. Executing'
    BY <1>1, <2>1, <2>2, <2>3, <2>4, <2>5 DEF Told, Executing, Settled
  <2> QED  BY <1>1, <1>2, <2>2, <2>6 DEF Busy, Phases, Feeding, Syncing
<1>4. CASE ShellExec
  <2>1. sh.at = "exec" /\ UNCHANGED <<chld, pipe, input>>
    BY <1>4 DEF ShellExec
  <2>2. Busy /\ Executing /\ ~Syncing
    BY <1>1, <2>1 DEF Phases, Idle, AtPrompt, Gone, Busy, Told, Reporting, Exited,
                      Stopping, Stopped
  <2>3. PICK d \in Dirs : sh' = [sh EXCEPT !.cwd = d, !.hooked = TRUE, !.line = NoLine,
                                           !.at = "pwd"]
    BY <1>4, <2>2 DEF ShellExec, ShellStep, Executing
  <2>4. /\ sh'.life = "run" /\ sh'.at = "pwd" /\ sh'.news = sh.news /\ sh'.hooked
    BY <1>1, <2>3, ShellFields
  <2>5. Reporting'
    BY <1>1, <2>1, <2>2, <2>4 DEF Executing, Reporting, Settled
  <2> QED  BY <1>1, <1>2, <2>2, <2>5 DEF Busy, Phases, Feeding, Syncing
<1>5. CASE ShellExit
  <2>1. sh.at = "exec" /\ sh.line.does = "exit" /\ chld' = TRUE /\ UNCHANGED <<pipe, input>>
    BY <1>5 DEF ShellExit
  <2>2. Busy /\ Executing /\ ~Syncing
    BY <1>1, <2>1 DEF Phases, Idle, AtPrompt, Gone, Busy, Told, Reporting, Exited,
                      Stopping, Stopped
  <2>3. /\ sh'.life = "dead" /\ sh'.news = "exited"
    BY <1>1, <1>5, ShellFields DEF ShellExit, ShellStep
  <2>4. Exited'
    BY <1>1, <2>1, <2>2, <2>3 DEF Executing, Exited, Settled
  <2> QED  BY <1>1, <1>2, <2>2, <2>4 DEF Busy, Phases, Feeding, Syncing
<1>6. CASE ShellPwd
  <2>1. sh.at = "pwd" /\ pipe' = Append(pipe, sh.cwd) /\ UNCHANGED <<chld, input>>
    BY <1>6 DEF ShellPwd
  <2>2. Busy /\ Reporting /\ ~Syncing
    BY <1>1, <2>1 DEF Phases, Idle, AtPrompt, Gone, Busy, Told, Executing, Exited,
                      Stopping, Stopped
  <2>3. /\ sh'.life = "run" /\ sh'.at = "kill" /\ sh'.news = sh.news /\ sh'.hooked = sh.hooked
        /\ sh'.cwd = sh.cwd
    BY <1>1, <1>6, ShellFields DEF ShellPwd, ShellStep
  <2>4. pipe' = <<sh.cwd>> /\ input = <<>>
    BY <2>1, <2>2 DEF Reporting
  <2>5. Stopping'
    BY <1>1, <2>1, <2>2, <2>3, <2>4 DEF Reporting, Stopping, Settled, Reported, Syncing
  <2> QED  BY <1>1, <1>2, <2>2, <2>5 DEF Busy, Phases, Feeding, Syncing
<1>7. CASE ShellStop
  <2>1. sh.at = "kill" /\ chld' = TRUE /\ UNCHANGED <<pipe, input>>
    BY <1>7 DEF ShellStop
  <2>2. Busy /\ Stopping
    BY <1>1, <2>1 DEF Phases, Idle, AtPrompt, Gone, Busy, Told, Executing, Reporting, Exited,
                      Stopped
  <2>3. /\ sh'.life = "stop" /\ sh'.at = "prompt" /\ sh'.news = "stopped"
        /\ sh'.hooked = sh.hooked /\ sh'.cwd = sh.cwd
    BY <1>1, <1>7, ShellFields DEF ShellStop, ShellStep
  <2>4. Stopped'
    BY <1>1, <2>1, <2>2, <2>3 DEF Stopping, Stopped, Settled, Reported, Syncing
  <2> QED  BY <1>1, <1>2, <2>2, <2>4 DEF Busy, Phases, Feeding
<1> QED  BY <1>3, <1>4, <1>5, <1>6, <1>7 DEF ShellRuns

LEMMA HandleInStep ==
  ASSUME TypeOK, Quiet, Place, Phases, Handle PROVE Place' /\ Phases'
<1>1. chld /\ mc.pc # "resume" /\ ~chld' /\ UNCHANGED <<input, pipe>> /\ mc \in Mc /\ sh \in Shell
  BY DEF Handle, Signal, TypeOK
<1>2. /\ mc'.job = mc.job /\ mc'.after = mc.after /\ mc'.line = mc.line
      /\ mc'.state = mc.state /\ mc'.ready = mc.ready /\ mc'.cwd = mc.cwd
      /\ mc'.pc = IF mc.pc = "select" THEN "check" ELSE mc.pc
      /\ mc'.stopped = (mc.stopped \/ sh.news = "stopped")
      /\ mc'.alive = (mc.alive /\ sh.news \notin {"exited", "killed"})
      /\ mc'.quit = (mc.quit \/ sh.news = "exited")
  BY <1>1, McFields DEF Handle, Interrupted
<1>3. /\ sh'.news = "none" /\ sh'.at = sh.at /\ sh'.hooked = sh.hooked /\ sh'.cwd = sh.cwd
      /\ sh.news = "stopped" => sh'.life = sh.life
      /\ sh.news = "exited" => sh'.life = "gone"
  BY <1>1, ShellFields DEF Handle
<1>4. Busy /\ (Stopped \/ (Exited /\ ~Syncing))
  BY <1>1 DEF Phases, Idle, AtPrompt, Gone, Busy, Told, Executing, Reporting, Stopping, Settled
<1>5. CASE Stopped
  <2>1. sh.news = "stopped" /\ ~mc.stopped
    BY <1>1, <1>5 DEF Stopped
  <2>2. Stopped'
    BY <1>1, <1>2, <1>3, <1>5, <2>1 DEF Stopped, Reported, Syncing
  <2>3. Phases'
    BY <1>2, <1>4, <2>1, <2>2 DEF Busy, Phases, Feeding
  <2>4. Place'
    BY <1>2, <2>1 DEF Place, Feeding
  <2> QED  BY <2>3, <2>4
<1>6. CASE Exited /\ ~Syncing
  <2>1. sh.news = "exited" /\ ~mc.ready /\ ~mc.stopped
    BY <1>6 DEF Exited
  <2>2. Gone'
    BY <1>1, <1>2, <1>3, <1>4, <1>6, <2>1 DEF Gone, Settled, Exited, Syncing, Busy
  <2>3. Place'
    BY <1>2, <1>4, <2>1 DEF Place, Feeding, Busy
  <2> QED  BY <2>2, <2>3 DEF Phases
<1> QED  BY <1>4, <1>5, <1>6

(***************************************************************************)
(* The handshake is kept.                                                  *)
(***************************************************************************)
\* Once init_subshell has given up, mc does without a subshell.
LEMMA TrustLost == ASSUME TypeOK, Next, Trusted' PROVE Trusted
<1> USE McFields DEF TypeOK
<1>1. CASE ShellRuns \/ ShellKilled \/ ShellSuspended \/ ReadPrompt
  <2>1. mc' = mc
    BY <1>1 DEF ShellRuns, ShellRead, ShellExec, ShellExit, ShellPwd, ShellStop, ShellKilled,
                ShellSuspended, ReadPrompt
  <2> QED  BY <2>1 DEF Trusted
<1>2. CASE Handle
  <2>1. /\ mc'.use = mc.use /\ mc'.job = mc.job /\ mc'.ok = mc.ok
        /\ mc.pc = "back" => mc'.pc = "back"
    BY <1>2 DEF Handle, Interrupted
  <2> QED  BY <2>1 DEF Trusted
<1>3. CASE InitBack
  <2>1. mc'.use = (mc.use /\ mc.ok /\ mc.alive)
    BY <1>3 DEF InitBack, MainStep
  <2> QED  BY <2>1 DEF Trusted
<1>4. CASE (McRuns /\ ~InitBack) \/ UserActs
  <2>1. ~(mc.pc = "back" /\ mc.job = "init")
    BY <1>4 DEF McRuns, UserActs, FeedCheck, FeedEnter, FeedPty, FeedPipe, FeedTimeout,
                KeySwitch, KeyLine, KeyLineSwitch, SyncWait, SyncResume, Fork, ChdirBack,
                Show, Give,
                InvokeBack, Restart, FollowShell, Quit, PanelCd, RunCommand, TogglePanels,
                MainStep, AtPanels
  <2>2. mc'.use = mc.use
    BY <1>4 DEF McRuns, UserActs, FeedCheck, FeedEnter, FeedPty, FeedPipe, FeedTimeout,
                KeySwitch, KeyLine, KeyLineSwitch, SyncWait, SyncResume, Fork, ChdirBack,
                Show, Give,
                InvokeBack, Restart, FollowShell, Quit, PanelCd, RunCommand, TogglePanels,
                MainStep, AtPanels, Calling, Chdir, Resumed
  <2> QED  BY <2>1, <2>2 DEF Trusted
<1> QED  BY <1>1, <1>2, <1>3, <1>4 DEF Next

LEMMA HandshakeInit == Init => Handshake
<1> SUFFICES ASSUME Init PROVE Place /\ Phases
  BY DEF Handshake
<1>1. /\ mc.pc = "fork" /\ mc.job = "init" /\ mc.after = "panels" /\ ~mc.ready /\ ~mc.alive
      /\ ~mc.stopped /\ ~mc.quit /\ mc.line = NoLine
      /\ ~chld /\ input = <<>> /\ pipe = <<>>
  BY DEF Init
<1>2. sh.life = "gone" /\ sh.news = "none"
  BY DEF Init, NewShell
<1>3. Gone
  BY <1>1, <1>2 DEF Gone, Settled, Syncing
<1> QED  BY <1>1, <1>3 DEF Phases, Place, Feeding

LEMMA HandshakeNext == TypeOK /\ Handshake /\ [Next]_vars => Handshake'
<1>1. ASSUME TypeOK, Handshake, UNCHANGED vars PROVE Handshake'
  BY <1>1 DEF vars, Handshake, Quiet, Trusted, Place, Feeding, Phases, Idle, Busy, Gone,
              AtPrompt, Told, Executing, Reporting, Stopping, Stopped, Exited, Reported,
              Settled, Syncing
<1>2. ASSUME TypeOK, Handshake, Next, Quiet', Trusted' PROVE Place' /\ Phases'
  <2>1. opt' = opt
    BY <1>2 DEF Next, ShellRuns, McRuns, UserActs,
           ShellRead, ShellExec, ShellExit, ShellPwd, ShellStop,
           ShellKilled, ShellSuspended, Handle, FeedCheck, FeedEnter, FeedPty, FeedPipe,
           FeedTimeout, KeySwitch, KeyLine, KeyLineSwitch, TypeLine, SyncWait, SyncResume, Fork,
           InitBack, ChdirBack,
           Show, Give, InvokeBack, Restart, FollowShell, Quit, PanelCd, RunCommand,
           TogglePanels, ReadPrompt
  <2>2. Quiet /\ Trusted /\ Place /\ Phases
    BY <1>2, <2>1, TrustLost DEF Quiet, Handshake
  <2>3. CASE ShellRuns \/ Handle \/ ReadPrompt
    BY <1>2, <2>2, <2>3, ShellInStep, HandleInStep, ReadPromptInStep
  <2>4. CASE ShellKilled \/ ShellSuspended
    BY <2>2, <2>4 DEF ShellKilled, ShellSuspended, Quiet
  <2>5. CASE FeedCheck \/ FeedEnter \/ FeedPty \/ FeedPipe \/ FeedTimeout
    BY <1>2, <2>2, <2>5, FeedCheckInStep, FeedEnterInStep, FeedPtyInStep, FeedPipeInStep,
       FeedTimeoutInStep
  <2>6. CASE SyncWait \/ SyncResume \/ KeySwitch \/ KeyLine
    BY <1>2, <2>2, <2>6, SyncWaitInStep, SyncResumeInStep, KeySwitchInStep, KeyLineInStep
  <2>10. CASE KeyLineSwitch
    BY <2>2, <2>10 DEF KeyLineSwitch, Quiet
  <2>7. CASE Fork \/ InitBack \/ ChdirBack \/ Show \/ Give \/ InvokeBack
    BY <1>2, <2>2, <2>7, ForkInStep, InitBackInStep, ChdirBackInStep, ShowInStep, GiveInStep,
       InvokeBackInStep
  <2>8. CASE Restart \/ FollowShell \/ Quit
    BY <1>2, <2>2, <2>8, RestartInStep, FollowShellInStep, QuitInStep
  <2>9. CASE PanelCd \/ RunCommand \/ TogglePanels
    BY <1>2, <2>2, <2>9, PanelsInStep
  <2> QED
    BY <1>2, <2>3, <2>4, <2>5, <2>6, <2>7, <2>8, <2>9, <2>10
       DEF Next, McRuns, UserActs
<1> QED  BY <1>1, <1>2 DEF Handshake

(***************************************************************************)
(* The theorems.                                                           *)
(***************************************************************************)
\* The variables keep their types, and mc never believes in a shell it has waited
\* for already, whoever kills and suspends shells (sigchld_handler).
THEOREM TypeCorrect == Spec => []TypeOK
<1> QED  BY InitType, NextType, PTL DEF Spec

\* As long as nobody kills the shell or types ahead, mc and the shell agree whenever
\* mc is at its panels and holds the shell for idle, after any number of commands,
\* cds, visits to the shell, exits and restarts, for any directories
\* (feed_subshell, synchronize, sigchld_handler, invoke_subshell).
THEOREM KeptInStep == Spec => []InStep
<1>1. Init => TypeOK /\ Handshake
  BY InitType, HandshakeInit
<1>2. TypeOK /\ Handshake /\ [Next]_vars => TypeOK' /\ Handshake'
  BY NextType, HandshakeNext
<1>3. TypeOK /\ Handshake => InStep
  BY DEF InStep, Handshake, Quiet, Trusted, Phases, Idle, Busy, Gone, AtPrompt, Settled
<1> QED  BY <1>1, <1>2, <1>3, PTL DEF Spec

(***************************************************************************)
(* Commands given from the panels.                                         *)
(***************************************************************************)
\* The shell has not ended.
Living == sh.life \in {"run", "stop"}
\* What mc does not know of the shell's life yet, and when it starts another.
News ==
  /\ ~mc.alive => sh.life = "gone" /\ sh.news = "none"
  /\ sh.news \in {"stopped", "suspended"} => sh.life = "stop"
  /\ sh.news \in {"exited", "killed"} => sh.life = "dead"
  /\ mc.quit => ~mc.alive
  /\ mc.pc = "fork" => ~mc.alive /\ ~mc.quit
\* A shell that stopped itself is at its prompt until mc resumes it, and mc waits for that.
Stops ==
  Living =>
    /\ sh.news = "stopped" => sh.at = "prompt" /\ ~mc.stopped
    /\ mc.stopped => sh.life = "stop" /\ sh.at = "prompt" /\ sh.news = "none"
    /\ mc.pc = "resume" => mc.stopped
\* The shell waits for a line, and no stop of it is unanswered.
NoStop == sh.at = "prompt" /\ ~mc.stopped /\ sh.news # "stopped"
\* Whose turn it is, as mc has it: an idle shell waits for a line, a shell the user works in
\* has at most the one line typed at its prompt, and ready is not left over from before.
Turns ==
  Living =>
    /\ mc.state = "INACTIVE" => input = <<>> /\ NoStop
    /\ mc.state = "ACTIVE" =>
         IF mc.ready THEN input = <<>> /\ NoStop ELSE input # <<>> => Len(input) = 1 /\ NoStop
    /\ mc.state = "RUNNING_COMMAND" /\ mc.ready /\ mc.use =>
         /\ mc.job \in {"init", "cd"}
         /\ Feeding \/ (mc.pc = "back" /\ mc.job = "init" /\ ~mc.ok)
\* Where mc can be: a command is given to an idle shell only.
Asked ==
  /\ mc.line # NoLine => mc.line.by = "run"
  /\ mc.pc = "invoke" /\ mc.line # NoLine /\ Living => mc.state = "INACTIVE"
  /\ mc.pc = "back" /\ mc.job = "cd" /\ Living => mc.state = "INACTIVE"
  /\ mc.pc = "fork" \/ mc.job = "init" => mc.after # "invoke"
  /\ Feeding => mc.state # "INACTIVE"
  /\ ~mc.use => mc.pc \in {"panels", "restart", "cd", "quit", "end"}
\* A command given is the one line the shell has, and mc knows that it has not ended: no
\* stop that mc could take for its end is on the way.
Given ==
  order = "given" =>
    /\ Living /\ mc.state = "RUNNING_COMMAND" /\ mc.job = "invoke"
    /\ ~mc.ready /\ ~mc.stopped /\ sh.news # "stopped"
    /\ mc.pc # "resume" /\ (mc.pc = "invoke" => mc.line = NoLine)
    /\ \/ sh.at = "prompt" /\ Len(input) = 1 /\ Head(input).by = "run"
       \/ sh.at = "exec" /\ input = <<>> /\ sh.line.by = "run"
OrderParts == News /\ Stops /\ Turns /\ Asked /\ Given

\* A step of the shell: it reads the one line there is, and tells mc when it is done.
LEMMA ShellOrder ==
  ASSUME TypeOK, ~opt.ahead, OrderParts,
         ShellRead \/ ShellExec \/ ShellExit \/ ShellPwd \/ ShellStop
  PROVE  OrderParts'
<1> USE McFields, ShellFields DEF TypeOK
<1>1. News'
  BY DEF ShellRead, ShellExec, ShellExit, ShellPwd, ShellStop, ShellStep, Executed,
     OrderParts, News, Given, Living
<1>2. Stops'
  BY DEF ShellRead, ShellExec, ShellExit, ShellPwd, ShellStop, ShellStep, Executed,
     OrderParts, News, Stops, Given, Living
<1>3. Turns'
  <2> USE DEF ShellStep, Executed, OrderParts, News, Stops, Turns, Asked, Living,
             NoStop, Feeding
  <2>1. CASE ShellRead
    BY <2>1 DEF ShellRead
  <2>2. CASE ShellExec
    BY <2>2 DEF ShellExec
  <2>3. CASE ShellExit
    BY <2>3 DEF ShellExit
  <2>4. CASE ShellPwd
    BY <2>4 DEF ShellPwd
  <2>5. CASE ShellStop
    BY <2>5 DEF ShellStop
  <2> QED  BY <2>1, <2>2, <2>3, <2>4, <2>5
<1>4. Asked'
  BY DEF ShellRead, ShellExec, ShellExit, ShellPwd, ShellStop, ShellStep, Executed,
     OrderParts, News, Turns, Asked, Living, Feeding, NoLine
<1>5. Given'
  <2> USE DEF ShellStep, Executed, OrderParts, News, Stops, Turns, Asked, Given,
             Living, NoStop
  <2>1. CASE ShellRead
    BY <2>1 DEF ShellRead
  <2>2. CASE ShellExec
    BY <2>2 DEF ShellExec
  <2>3. CASE ShellExit
    BY <2>3 DEF ShellExit
  <2>4. CASE ShellPwd
    BY <2>4 DEF ShellPwd
  <2>5. CASE ShellStop
    BY <2>5 DEF ShellStop
  <2> QED  BY <2>1, <2>2, <2>3, <2>4, <2>5
<1> QED  BY <1>1, <1>2, <1>3, <1>4, <1>5 DEF OrderParts

\* What is done to the shell: if it ends, the command is lost.
LEMMA SignalsOrder ==
  ASSUME TypeOK, ~opt.ahead, OrderParts,
         ShellKilled \/ ShellSuspended
  PROVE  OrderParts'
<1> USE McFields, ShellFields DEF TypeOK
<1>1. News'
  BY DEF ShellKilled, ShellSuspended, ShellStep, OrderParts, News, Given, Living
<1>2. Stops'
  BY DEF ShellKilled, ShellSuspended, ShellStep, OrderParts, News, Stops, Given,
     Living
<1>3. Turns'
  BY DEF ShellKilled, ShellSuspended, ShellStep, OrderParts, News, Stops, Turns,
     Asked, Living, NoStop, Feeding
<1>4. Asked'
  BY DEF ShellKilled, ShellSuspended, ShellStep, OrderParts, News, Turns, Asked,
     Living, Feeding, NoLine
<1>5. Given'
  BY DEF ShellKilled, ShellSuspended, ShellStep, OrderParts, News, Stops, Turns,
     Asked, Given, Living, NoStop
<1> QED  BY <1>1, <1>2, <1>3, <1>4, <1>5 DEF OrderParts

\* sigchld_handler: only a stop of the shell itself counts.
LEMMA HandleOrder ==
  ASSUME TypeOK, ~opt.ahead, OrderParts,
         Handle
  PROVE  OrderParts'
<1> USE McFields, ShellFields DEF TypeOK
<1>1. News'
  BY DEF Handle, Signal, Interrupted, OrderParts, News, Given, Living
<1>2. Stops'
  BY DEF Handle, Signal, Interrupted, OrderParts, News, Stops, Given, Living
<1>3. Turns'
  BY DEF Handle, Signal, Interrupted, OrderParts, News, Stops, Turns, Asked, Living,
     NoStop, Feeding
<1>4. Asked'
  BY DEF Handle, Signal, Interrupted, OrderParts, News, Turns, Asked, Living, Feeding,
     NoLine
<1>5. Given'
  BY DEF Handle, Signal, Interrupted, OrderParts, News, Stops, Turns, Asked, Given,
     Living, NoStop
<1> QED  BY <1>1, <1>2, <1>3, <1>4, <1>5 DEF OrderParts

\* feed_subshell up to the pipe: no state changes but that of an init that is given up.
LEMMA FeedOrder ==
  ASSUME TypeOK, ~opt.ahead, OrderParts,
         FeedCheck \/ FeedEnter \/ FeedPty \/ FeedPipe \/ FeedTimeout
  PROVE  OrderParts'
<1> USE McFields, ShellFields DEF TypeOK
<1>1. News'
  BY DEF FeedCheck, FeedEnter, FeedPty, FeedPipe, FeedTimeout, MainStep, OrderParts,
     News, Given, Living
<1>2. Stops'
  BY DEF FeedCheck, FeedEnter, FeedPty, FeedPipe, FeedTimeout, MainStep, OrderParts,
     News, Stops, Given, Living
<1>3. Turns'
  <2> USE DEF MainStep, OrderParts, News, Stops, Turns, Asked, Living, NoStop,
             Feeding
  <2>1. CASE FeedCheck
    BY <2>1 DEF FeedCheck
  <2>2. CASE FeedEnter
    BY <2>2 DEF FeedEnter
  <2>3. CASE FeedPty
    BY <2>3 DEF FeedPty
  <2>4. CASE FeedPipe
    BY <2>4 DEF FeedPipe
  <2>5. CASE FeedTimeout
    BY <2>5 DEF FeedTimeout
  <2> QED  BY <2>1, <2>2, <2>3, <2>4, <2>5
<1>4. Asked'
  <2> USE DEF MainStep, OrderParts, News, Turns, Asked, Living, Feeding, NoLine
  <2>1. CASE FeedCheck
    BY <2>1 DEF FeedCheck
  <2>2. CASE FeedEnter
    BY <2>2 DEF FeedEnter
  <2>3. CASE FeedPty
    BY <2>3 DEF FeedPty
  <2>4. CASE FeedPipe
    BY <2>4 DEF FeedPipe
  <2>5. CASE FeedTimeout
    BY <2>5 DEF FeedTimeout
  <2> QED  BY <2>1, <2>2, <2>3, <2>4, <2>5
<1>5. Given'
  BY DEF FeedCheck, FeedEnter, FeedPty, FeedPipe, FeedTimeout, MainStep, OrderParts,
     News, Stops, Turns, Asked, Given, Living, NoStop
<1> QED  BY <1>1, <1>2, <1>3, <1>4, <1>5 DEF OrderParts

\* The keyboard in feed_subshell: ready says that no line is under way.
LEMMA KeysOrder ==
  ASSUME TypeOK, ~opt.ahead, OrderParts,
         KeySwitch \/ KeyLine \/ KeyLineSwitch
  PROVE  OrderParts'
<1> USE McFields, ShellFields DEF TypeOK
<1>6. ~KeyLineSwitch
  BY DEF KeyLineSwitch
<1>7. KeyLine => mc' = [mc EXCEPT !.pc = "check", !.ready = FALSE]
  <2>1. KeyLine => mc' = [mc EXCEPT !.pc = "check", !.ready = mc.ready /\ FALSE]
    BY DEF KeyLine, MainStep
  <2>2. (mc.ready /\ FALSE) = FALSE
    OBVIOUS
  <2> QED  BY <2>1, <2>2
<1>1. News'
  BY <1>6 DEF KeySwitch, KeyLine, MainStep, Keyboard, Quietly, OrderParts, News, Given,
     Living
<1>2. Stops'
  BY <1>6 DEF KeySwitch, KeyLine, MainStep, Keyboard, Quietly, OrderParts, News, Stops,
     Given, Living
<1>3. Turns'
  <2> USE DEF MainStep, Keyboard, Quietly, States, OrderParts, News, Stops, Turns,
             Asked, Living, NoStop, Feeding
  <2>1. CASE KeySwitch
    BY <2>1 DEF KeySwitch
  <2>2. CASE KeyLine
    <3>1. /\ mc'.pc = "check" /\ mc'.state = mc.state /\ ~mc'.ready /\ mc'.job = mc.job
          /\ mc'.alive = mc.alive /\ mc'.stopped = mc.stopped /\ mc'.use = mc.use
          /\ mc'.line = mc.line /\ mc'.ok = mc.ok
      BY <1>7, <2>2
    <3>2. /\ mc.pc = "select" /\ mc.job = "invoke" /\ mc.ready /\ input = <<>>
          /\ UNCHANGED <<sh, chld, pipe>>
      BY <2>2 DEF KeyLine
    <3>3. PICK l \in Line : input' = Append(input, l)
      BY <2>2, LineValues DEF KeyLine, TypeLine
    <3>4. Len(input') = 1
      BY <3>2, <3>3
    <3> QED  BY <3>1, <3>2, <3>4
  <2> QED  BY <1>6, <2>1, <2>2
<1>4. Asked'
  BY <1>6 DEF KeySwitch, KeyLine, MainStep, Keyboard, Quietly, OrderParts, News, Turns,
     Asked, Living, Feeding, NoLine
<1>5. Given'
  BY <1>6 DEF KeySwitch, KeyLine, MainStep, Keyboard, Quietly, OrderParts, News, Stops,
     Turns, Asked, Given, Living, NoStop
<1> QED  BY <1>1, <1>2, <1>3, <1>4, <1>5 DEF OrderParts

\* synchronize: a stop has come, so it was not the command that is given that made it.
LEMMA SyncOrder ==
  ASSUME TypeOK, ~opt.ahead, OrderParts,
         SyncWait \/ SyncResume
  PROVE  OrderParts'
<1> USE McFields, ShellFields DEF TypeOK
<1>1. News'
  <2> USE DEF MainStep, Resumed, OrderParts, News, Given, Living
  <2>1. CASE SyncWait
    BY <2>1 DEF SyncWait
  <2>2. CASE SyncResume
    BY <2>2 DEF SyncResume
  <2> QED  BY <2>1, <2>2
<1>2. Stops'
  BY DEF SyncWait, SyncResume, MainStep, Resumed, OrderParts, News, Stops, Given,
     Living
<1>3. Turns'
  <2> USE DEF MainStep, Resumed, OrderParts, News, Stops, Turns, Asked, Living,
             NoStop, Feeding
  <2>1. CASE SyncWait
    BY <2>1 DEF SyncWait
  <2>2. CASE SyncResume
    BY <2>2 DEF SyncResume
  <2> QED  BY <2>1, <2>2
<1>4. Asked'
  BY DEF SyncWait, SyncResume, MainStep, Resumed, OrderParts, News, Turns, Asked,
     Living, Feeding, NoLine
<1>5. Given'
  BY DEF SyncWait, SyncResume, MainStep, Resumed, OrderParts, News, Stops, Turns,
     Asked, Given, Living, NoStop
<1> QED  BY <1>1, <1>2, <1>3, <1>4, <1>5 DEF OrderParts

\* init_subshell starts a shell only when the last one is gone.
LEMMA ForkOrder ==
  ASSUME TypeOK, ~opt.ahead, OrderParts,
         Fork
  PROVE  OrderParts'
<1> USE McFields, ShellFields DEF TypeOK
<1>1. News'
  BY DEF Fork, MainStep, NewShell, OrderParts, News, Given, Living
<1>2. Stops'
  BY DEF Fork, MainStep, NewShell, OrderParts, News, Stops, Given, Living
<1>3. Turns'
  BY DEF Fork, MainStep, NewShell, OrderParts, News, Stops, Turns, Asked, Living,
     NoStop, Feeding
<1>4. Asked'
  BY DEF Fork, MainStep, NewShell, OrderParts, News, Turns, Asked, Living, Feeding,
     NoLine
<1>5. Given'
  BY DEF Fork, MainStep, NewShell, OrderParts, News, Stops, Turns, Asked, Given,
     Living, NoStop
<1> QED  BY <1>1, <1>2, <1>3, <1>4, <1>5 DEF OrderParts

\* The callers of feed_subshell get control back.
LEMMA BackOrder ==
  ASSUME TypeOK, ~opt.ahead, OrderParts,
         InitBack \/ ChdirBack \/ InvokeBack
  PROVE  OrderParts'
<1> USE McFields, ShellFields DEF TypeOK
<1>1. News'
  BY DEF InitBack, ChdirBack, InvokeBack, MainStep, Afters, OrderParts, News, Given,
     Living
<1>2. Stops'
  BY DEF InitBack, ChdirBack, InvokeBack, MainStep, Afters, OrderParts, News, Stops,
     Given, Living
<1>3. Turns'
  BY DEF InitBack, ChdirBack, InvokeBack, MainStep, OrderParts, News, Stops, Turns,
     Asked, Living, NoStop, Feeding
<1>4. Asked'
  BY DEF InitBack, ChdirBack, InvokeBack, MainStep, Afters, OrderParts, News, Turns,
     Asked, Living, Feeding, NoLine
<1>5. Given'
  BY DEF InitBack, ChdirBack, InvokeBack, MainStep, OrderParts, News, Stops, Turns,
     Asked, Given, Living, NoStop
<1> QED  BY <1>1, <1>2, <1>3, <1>4, <1>5 DEF OrderParts

\* invoke_subshell: the command is the one line the shell has.
LEMMA InvokeOrder ==
  ASSUME TypeOK, ~opt.ahead, OrderParts,
         Show \/ Give
  PROVE  OrderParts'
<1> USE McFields, ShellFields DEF TypeOK
<1>1. News'
  BY DEF Show, Give, MainStep, OrderParts, News, Given, Living
<1>2. Stops'
  BY DEF Show, Give, MainStep, OrderParts, News, Stops, Given, Living
<1>3. Turns'
  BY DEF Show, Give, MainStep, OrderParts, News, Stops, Turns, Asked, Living, NoStop,
     Feeding
<1>4. Asked'
  BY DEF Show, Give, MainStep, OrderParts, News, Turns, Asked, Living, Feeding, NoLine
<1>5. Given'
  <2> USE DEF MainStep, OrderParts, News, Stops, Turns, Asked, Given, Living,
             NoStop
  <2>1. CASE Show
    BY <2>1 DEF Show
  <2>2. CASE Give
    BY <2>2 DEF Give
  <2> QED  BY <2>1, <2>2
<1> QED  BY <1>1, <1>2, <1>3, <1>4, <1>5 DEF OrderParts

\* The end of invoke_subshell and what its callers do then.
LEMMA LeaveOrder ==
  ASSUME TypeOK, ~opt.ahead, OrderParts,
         Restart \/ FollowShell \/ Quit
  PROVE  OrderParts'
<1> USE McFields, ShellFields DEF TypeOK
<1>1. News'
  BY DEF Restart, FollowShell, Quit, MainStep, OrderParts, News, Given, Living
<1>2. Stops'
  BY DEF Restart, FollowShell, Quit, MainStep, OrderParts, News, Stops, Given, Living
<1>3. Turns'
  BY DEF Restart, FollowShell, Quit, MainStep, OrderParts, News, Stops, Turns, Asked,
     Living, NoStop, Feeding
<1>4. Asked'
  <2> USE DEF MainStep, OrderParts, News, Turns, Asked, Living, Feeding, NoLine
  <2>1. CASE Restart
    BY <2>1 DEF Restart
  <2>2. CASE FollowShell
    BY <2>2 DEF FollowShell
  <2>3. CASE Quit
    BY <2>3 DEF Quit
  <2> QED  BY <2>1, <2>2, <2>3
<1>5. Given'
  BY DEF Restart, FollowShell, Quit, MainStep, OrderParts, News, Stops, Turns, Asked,
     Given, Living, NoStop
<1> QED  BY <1>1, <1>2, <1>3, <1>4, <1>5 DEF OrderParts

\* The panels read the prompt.
LEMMA PromptOrder ==
  ASSUME TypeOK, ~opt.ahead, OrderParts,
         ReadPrompt
  PROVE  OrderParts'
<1> USE McFields, ShellFields DEF TypeOK
<1>1. News'
  BY DEF ReadPrompt, AtPanels, OrderParts, News, Given, Living
<1>2. Stops'
  BY DEF ReadPrompt, AtPanels, OrderParts, News, Stops, Given, Living
<1>3. Turns'
  BY DEF ReadPrompt, AtPanels, OrderParts, News, Stops, Turns, Asked, Living, NoStop,
     Feeding
<1>4. Asked'
  BY DEF ReadPrompt, AtPanels, OrderParts, News, Turns, Asked, Living, Feeding, NoLine
<1>5. Given'
  BY DEF ReadPrompt, AtPanels, OrderParts, News, Stops, Turns, Asked, Given, Living,
     NoStop
<1> QED  BY <1>1, <1>2, <1>3, <1>4, <1>5 DEF OrderParts

\* do_subshell_chdir, called from the panels with the line l to be run or none.
LEMMA ChdirOrder ==
  ASSUME TypeOK, ~opt.ahead, OrderParts, NEW m \in Mc, NEW d \in Dirs,
         NEW after \in {"panels", "invoke"},
         Chdir(m, d, after), mc.pc = "panels", mc.use,
         \A x \in DOMAIN mc : x \notin {"line", "moved"} => m[x] = mc[x],
         m.line # NoLine => m.line.by = "run",
         m.line # NoLine /\ after = "invoke" => m.state = "INACTIVE" /\ order' = "none",
         order' \in {order, "none"}, UNCHANGED <<opt, sh>>
  PROVE  OrderParts'
<1>1. /\ m.job = mc.job /\ m.after = mc.after /\ m.ok = mc.ok /\ m.state = mc.state
      /\ m.ready = mc.ready /\ m.alive = mc.alive /\ m.stopped = mc.stopped
      /\ m.use = mc.use /\ m.quit = mc.quit
  BY McFields DEF TypeOK
<1>2. IF mc.state = "INACTIVE" /\ m.cwd # d
      THEN /\ mc'.pc = "check" /\ mc'.job = "cd" /\ mc'.after = after
           /\ mc'.state = "RUNNING_COMMAND"
      ELSE /\ mc'.pc = after /\ mc'.job = mc.job /\ mc'.after = mc.after
           /\ mc'.state = mc.state /\ input' = input
  BY <1>1, McFields DEF Chdir
<1>3. /\ mc'.ok = m.ok /\ mc'.line = m.line /\ mc'.ready = m.ready /\ mc'.alive = m.alive
      /\ mc'.stopped = m.stopped /\ mc'.use = m.use /\ mc'.quit = m.quit
  <2>1. CASE mc' = [m EXCEPT !.pc = after]
    BY <2>1, McFields
  <2>2. CASE mc' = [m EXCEPT !.pc = "check", !.job = "cd", !.after = after,
                             !.state = "RUNNING_COMMAND"]
    BY <2>2, McFields
  <2> QED  BY <2>1, <2>2 DEF Chdir
<1>4. News'
  BY <1>1, <1>2, <1>3 DEF OrderParts, News
<1>5. Stops'
  BY <1>1, <1>2, <1>3 DEF OrderParts, Stops, Living
<1>6. Turns'
  BY <1>1, <1>2, <1>3 DEF OrderParts, Turns, Living, NoStop, Feeding
<1>7. Asked'
  BY <1>1, <1>2, <1>3 DEF OrderParts, Asked, Living, Feeding
<1>8. Given'
  BY <1>1, <1>2, <1>3 DEF OrderParts, Given, Living, NoStop
<1> QED  BY <1>4, <1>5, <1>6, <1>7, <1>8 DEF OrderParts

\* The commands of the panels.
LEMMA PanelsOrder ==
  ASSUME TypeOK, ~opt.ahead, OrderParts, PanelCd \/ RunCommand \/ TogglePanels
  PROVE  OrderParts'
<1> USE DEF AtPanels
<1>1. mc \in Mc /\ panel \in Dirs
  BY DEF TypeOK
<1>2. CASE PanelCd
  <2>1. PICK d \in Dirs : Chdir(mc, d, "panels")
    BY <1>2 DEF PanelCd
  <2> QED  BY <1>1, <1>2, <2>1, ChdirOrder DEF PanelCd, OrderParts, Asked
<1>3. CASE RunCommand
  <2>1. PICK d \in Dirs \cup {"stay", "exit"} :
          Chdir(Calling([by |-> "run", does |-> d]), panel, "invoke")
    BY <1>3 DEF RunCommand
  <2> DEFINE m == Calling([by |-> "run", does |-> d])
  <2>2. /\ m \in Mc /\ m.line.by = "run" /\ m.state = "INACTIVE"
        /\ \A x \in DOMAIN mc : x \notin {"line", "moved"} => m[x] = mc[x]
    BY <1>1, <1>3, McFields, Values, LineValues DEF Calling, RunCommand
  <2> HIDE DEF m
  <2>3. mc.pc = "panels" /\ mc.use /\ order' = "none" /\ UNCHANGED <<opt, sh>>
    BY <1>3 DEF RunCommand
  <2>4. Chdir(m, panel, "invoke")
    BY <2>1 DEF m
  <2> QED  BY <1>1, <2>2, <2>3, <2>4, ChdirOrder
<1>4. CASE TogglePanels
  <2> DEFINE m == Calling(NoLine)
  <2>1. /\ m \in Mc /\ m.line = NoLine
        /\ \A x \in DOMAIN mc : x \notin {"line", "moved"} => m[x] = mc[x]
    BY <1>1, McFields, Values DEF Calling
  <2>2. /\ Chdir(m, panel, "invoke") /\ mc.pc = "panels" /\ mc.use /\ order' = order
        /\ UNCHANGED <<opt, sh>>
    BY <1>4 DEF TogglePanels
  <2> HIDE DEF m
  <2> QED  BY <1>1, <2>1, <2>2, ChdirOrder
<1> QED  BY <1>2, <1>3, <1>4

\* Nothing is given in the beginning.
LEMMA InitOrder == Init => OrderParts
  BY DEF Init, NewShell, NoLine, OrderParts, News, Stops, Turns, Asked, Given, Living, NoStop,
         Feeding

\* Every step keeps all that.
LEMMA NextOrder ==
  ASSUME TypeOK, ~opt.ahead, OrderParts, [Next]_vars PROVE OrderParts'
<1>1. CASE UNCHANGED vars
  BY <1>1 DEF vars, OrderParts, News, Stops, Turns, Asked, Given, Living, NoStop, Feeding
<1>2. CASE ShellRuns \/ ShellKilled \/ ShellSuspended \/ Handle
  BY <1>2, ShellOrder, SignalsOrder, HandleOrder DEF ShellRuns
<1>3. CASE McRuns
  BY <1>3, FeedOrder, SyncOrder, ForkOrder, BackOrder, InvokeOrder, LeaveOrder DEF McRuns
<1>4. CASE UserActs \/ ReadPrompt
  BY <1>4, KeysOrder, PanelsOrder, PromptOrder DEF UserActs
<1> QED  BY <1>1, <1>2, <1>3, <1>4 DEF Next

\* What is claimed of users who wait for the prompt.
OrderInv == ~opt.ahead => OrderParts

\* When mc is at its panels and holds the shell for idle, the command it gave has been
\* executed, or its shell was killed: whoever kills and suspends shells, and although what a
\* killed shell leaves in the terminal and in the pipe is read by the next one and by mc
\* (feed_subshell, synchronize, invoke_subshell, init_subshell).
THEOREM CommandsFinish == Spec => []CommandFinished
<1>1. Init => TypeOK /\ OrderInv
  BY InitType, InitOrder DEF OrderInv
<1>2. TypeOK /\ OrderInv /\ [Next]_vars => TypeOK' /\ OrderInv'
  <2>1. [Next]_vars => opt' = opt
    BY DEF Next, ShellRuns, McRuns, UserActs, vars,
           ShellRead, ShellExec, ShellExit, ShellPwd, ShellStop,
           ShellKilled, ShellSuspended, Handle, FeedCheck, FeedEnter, FeedPty, FeedPipe,
           FeedTimeout, KeySwitch, KeyLine, KeyLineSwitch, TypeLine, SyncWait, SyncResume, Fork,
           InitBack, ChdirBack,
           Show, Give, InvokeBack, Restart, FollowShell, Quit, PanelCd, RunCommand,
           TogglePanels, ReadPrompt
  <2> QED  BY <2>1, NextType, NextOrder DEF OrderInv
<1>3. OrderInv => CommandFinished
  BY DEF OrderInv, OrderParts, Given, CommandFinished
<1> QED  BY <1>1, <1>2, <1>3, PTL DEF Spec
====
