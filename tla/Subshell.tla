------------------------------- MODULE Subshell -------------------------------
(***************************************************************************)
(* The concurrent subshell (src/subshell.c, src/execute.c): mc hands lines *)
(* to a shell on a pseudo-terminal, and after every line the shell writes  *)
(* its directory to a pipe and stops itself; mc reads the pipe, waits for  *)
(* the SIGCHLD of the stop and continues the shell.                        *)
(*                                                                         *)
(* mc, its signal handler, the shell and the user interleave; the shell    *)
(* may die or be suspended at any point.  A line is what it does to the    *)
(* shell; output is only pending or not.  Terminal modes, the prompt and   *)
(* commands run without a subshell are left out.                           *)
(***************************************************************************)
EXTENDS Naturals, Sequences

CONSTANTS
  Dirs,      \* directories
  Home,      \* the directory a new shell starts in
  Joined,    \* what one read makes of two lines in the pipe: no directory
  Users,     \* what users may do, a set of User records
  MaxDeeds   \* bound: lines typed, commands run, panels moved, shells killed

\* kills: shells get killed and suspended; ahead: keys do not wait for the
\* shell, so lines are typed while it is busy, and one read may return a line
\* and the keys after it
User == [kills : BOOLEAN, ahead : BOOLEAN]

ASSUME SubshellAssumption ==
  /\ Home \in Dirs /\ Joined \notin Dirs /\ Users \subseteq User /\ MaxDeeds \in Nat
  /\ Dirs \cap {"stay", "exit", "setup"} = {}

VARIABLES
  opt,    \* what this user does; never changes
  mc,     \* the main thread and the variables of subshell.c, see Mc
  panel,  \* current_panel->cwd
  sh,     \* the shell process, see Shell
  chld,   \* a SIGCHLD is pending
  input,  \* lines written to the terminal and not read by the shell yet
  pipe,   \* directories written to subshell_pipe and not read by mc yet
  out,    \* output of the shell waits on subshell_pty
  order,  \* the last command run from the panels: none, given, done, or
          \* lost with the shell it was given to (history)
  deeds   \* what has been done so far

vars == <<opt, mc, panel, sh, chld, input, pipe, out, order, deeds>>

\* a line the user typed, a command of the panels, a cd or the prompt command
\* of mc
Line ==
  [by : {"user", "run", "cd", "init"}, does : Dirs \cup {"stay", "exit", "setup"}]
NoLine == [by |-> "nobody", does |-> "stay"]

\* pc is where the main thread is: in feed_subshell (check, enter, select),
\* in synchronize (sync, resume) or in one of their callers; job: which caller of
\* feed_subshell; after: where do_subshell_chdir and init_subshell return to;
\* ok: what feed_subshell returned; line: the command of invoke_subshell, or
\* NoLine for C-o; moved: invoke_subshell has set new_dir
Mc ==
  [pc : {"panels", "invoke", "check", "enter", "select", "sync", "resume",
         "back", "restart", "cd", "quit", "fork", "end"},
   job : {"init", "cd", "invoke"},
   after : {"panels", "invoke", "restart", "cd"},
   ok : BOOLEAN, line : Line \cup {NoLine}, moved : BOOLEAN,
   state : {"INACTIVE", "ACTIVE", "RUNNING_COMMAND"}, ready : BOOLEAN,
   alive : BOOLEAN, stopped : BOOLEAN, use : BOOLEAN, quit : BOOLEAN,
   cwd : Dirs \cup {Joined}]

\* life: gone is waited for; at: what the shell does next; hooked: it has the
\* prompt command; news: the state change waitpid has not reported yet
Shell ==
  [life : {"run", "stop", "dead", "gone"}, at : {"prompt", "exec", "pwd", "kill"},
   cwd : Dirs, line : Line \cup {NoLine}, hooked : BOOLEAN,
   news : {"none", "stopped", "suspended", "exited", "killed"}]

NewShell ==
  [life |-> "run", at |-> "prompt", cwd |-> Home, line |-> NoLine,
   hooked |-> FALSE, news |-> "none"]

\* mc starts and calls init_subshell
Init ==
  /\ opt \in Users
  /\ mc = [pc |-> "fork", job |-> "init", after |-> "panels", ok |-> FALSE,
           line |-> NoLine, moved |-> FALSE, state |-> "INACTIVE",
           ready |-> FALSE, alive |-> FALSE, stopped |-> FALSE, use |-> TRUE,
           quit |-> FALSE, cwd |-> Home]
  /\ panel \in Dirs
  /\ sh = [NewShell EXCEPT !.life = "gone"]
  /\ chld = FALSE /\ input = <<>> /\ pipe = <<>> /\ out = FALSE
  /\ order = "none" /\ deeds = 0

Do == deeds < MaxDeeds /\ deeds' = deeds + 1

-----------------------------------------------------------------------------
(* The shell                                                                *)

ShellStep(s) == sh.life = "run" /\ sh' = s

ShellRead ==
  /\ sh.at = "prompt" /\ input # <<>>
  /\ ShellStep([sh EXCEPT !.line = Head(input), !.at = "exec"])
  /\ input' = Tail(input) /\ out' = TRUE
  /\ UNCHANGED <<opt, mc, panel, chld, pipe, order, deeds>>

Executed == IF sh.line.by = "run" THEN "done" ELSE order

\* the line is executed; a directory may be out of reach
ShellExec ==
  /\ sh.at = "exec" /\ sh.line.does # "exit"
  /\ \E d \in {sh.cwd, sh.line.does} \cap Dirs :
       LET hooked == sh.hooked \/ sh.line.does = "setup"
       IN ShellStep([sh EXCEPT !.cwd = d, !.hooked = hooked, !.line = NoLine,
                               !.at = IF hooked THEN "pwd" ELSE "prompt"])
  /\ order' = Executed
  /\ UNCHANGED <<opt, mc, panel, chld, input, pipe, out, deeds>>

ShellExit ==
  /\ sh.at = "exec" /\ sh.line.does = "exit"
  /\ ShellStep([sh EXCEPT !.life = "dead", !.news = "exited"])
  /\ chld' = TRUE /\ order' = Executed
  /\ UNCHANGED <<opt, mc, panel, input, pipe, out, deeds>>

\* "pwd>&...; kill -STOP $$"
ShellPwd ==
  /\ sh.at = "pwd"
  /\ ShellStep([sh EXCEPT !.at = "kill"])
  /\ pipe' = Append(pipe, sh.cwd)
  /\ UNCHANGED <<opt, mc, panel, chld, input, out, order, deeds>>

ShellStop ==
  /\ sh.at = "kill"
  /\ ShellStep([sh EXCEPT !.life = "stop", !.at = "prompt", !.news = "stopped"])
  /\ chld' = TRUE
  /\ UNCHANGED <<opt, mc, panel, input, pipe, out, order, deeds>>

\* SIGHUP, SIGKILL...
ShellKilled ==
  /\ opt.kills /\ Do
  /\ sh.life \in {"run", "stop"}
  /\ sh' = [sh EXCEPT !.life = "dead", !.news = "killed"]
  /\ order' = IF order = "given" THEN "lost" ELSE order
  /\ chld' = TRUE
  /\ UNCHANGED <<opt, mc, panel, input, pipe, out>>

\* SIGTSTP
ShellSuspended ==
  /\ opt.kills /\ Do
  /\ ShellStep([sh EXCEPT !.life = "stop", !.news = "suspended"])
  /\ chld' = TRUE
  /\ UNCHANGED <<opt, mc, panel, input, pipe, out, order>>

-----------------------------------------------------------------------------
(* The signal handler                                                       *)

\* synchronize keeps SIGCHLD blocked but for its sigsuspend; a select the
\* handler interrupts is started all over again
Interrupted(m) == [m EXCEPT !.pc = IF @ = "select" THEN "check" ELSE @]

Signal == chld /\ mc.pc # "resume" /\ chld' = FALSE

\* Mutant: only a shell that exits is taken for dead
HandleExitOnly ==
  /\ Signal
  /\ sh' = [sh EXCEPT !.news = "none",
              !.life = CASE sh.news = "suspended" -> "run"
                         [] sh.news \in {"exited", "killed"} -> "gone"
                         [] OTHER -> @]
  /\ mc' = [Interrupted(mc) EXCEPT
              !.stopped = @ \/ sh.news = "stopped",
              !.alive = @ /\ sh.news # "exited",
              !.quit = @ \/ sh.news = "exited"]
  /\ UNCHANGED <<opt, panel, input, pipe, out, order, deeds>>

\* sigchld_handler
Handle ==
  /\ Signal
  /\ sh' = [sh EXCEPT !.news = "none",
              !.life = CASE sh.news = "suspended" -> "run"
                         [] sh.news \in {"exited", "killed"} -> "gone"
                         [] OTHER -> @]
  /\ mc' = [Interrupted(mc) EXCEPT
              !.stopped = @ \/ sh.news = "stopped",
              !.alive = @ /\ sh.news \notin {"exited", "killed"},
              !.quit = @ \/ sh.news = "exited"]
  /\ UNCHANGED <<opt, panel, input, pipe, out, order, deeds>>

-----------------------------------------------------------------------------
(* feed_subshell and synchronize                                            *)

MainStep(pc, m) == mc.pc = pc /\ mc' = m
Quietly == mc.job # "invoke"

\* subshell_alive is read, and select is entered a moment later
FeedCheck ==
  /\ MainStep("check", IF mc.alive THEN [mc EXCEPT !.pc = "enter"]
                       ELSE [mc EXCEPT !.pc = "back", !.ok = FALSE])
  /\ UNCHANGED <<opt, panel, sh, chld, input, pipe, out, order, deeds>>

FeedEnter ==
  /\ MainStep("enter", [mc EXCEPT !.pc = "select"])
  /\ UNCHANGED <<opt, panel, sh, chld, input, pipe, out, order, deeds>>

FeedPty ==
  /\ out /\ out' = FALSE
  /\ MainStep("select", [mc EXCEPT !.pc = "check"])
  /\ UNCHANGED <<opt, panel, sh, chld, input, pipe, order, deeds>>

\* all that is in the pipe is taken for one directory
FeedPipe ==
  /\ ~out /\ pipe # <<>> /\ pipe' = <<>>
  /\ MainStep("select", [mc EXCEPT !.pc = "sync",
                           !.cwd = IF Len(pipe) = 1 THEN Head(pipe) ELSE Joined])
  /\ UNCHANGED <<opt, panel, sh, chld, input, out, order, deeds>>

\* init_subshell waits for ten seconds
FeedTimeout ==
  /\ mc.job = "init" /\ ~out /\ pipe = <<>>
  /\ MainStep("select", [mc EXCEPT !.pc = "back", !.ok = FALSE])
  /\ UNCHANGED <<opt, panel, sh, chld, input, pipe, out, order, deeds>>

Keyboard == ~Quietly /\ ~out /\ pipe = <<>>

\* Mutant: the shell counts as idle whenever the user leaves it
KeySwitchAnyTime ==
  /\ Keyboard
  /\ MainStep("select", [mc EXCEPT !.pc = "back", !.ok = TRUE, !.state = "INACTIVE"])
  /\ UNCHANGED <<opt, panel, sh, chld, input, pipe, out, order, deeds>>

\* the user goes back to mc
KeySwitch ==
  /\ Keyboard
  /\ MainStep("select", [mc EXCEPT !.pc = "back", !.ok = TRUE,
                           !.state = IF mc.ready THEN "INACTIVE" ELSE @])
  /\ UNCHANGED <<opt, panel, sh, chld, input, pipe, out, order, deeds>>

TypeLine ==
  \E d \in Dirs \cup {"stay", "exit"} :
    input' = Append(input, [by |-> "user", does |-> d])

\* a line is seen by the last byte of a read: what follows it in the read hides it
KeyLine ==
  /\ Keyboard /\ Do
  /\ ~opt.ahead => mc.ready /\ input = <<>>
  /\ TypeLine
  /\ \E hidden \in {FALSE, opt.ahead} :
       MainStep("select", [mc EXCEPT !.pc = "check", !.ready = @ /\ hidden])
  /\ UNCHANGED <<opt, panel, sh, chld, pipe, out, order>>

\* a read returns a line and the key that switches back: the shell has the line,
\* and whether it is idle is not looked at again
KeyLineSwitch ==
  /\ Keyboard /\ Do
  /\ opt.ahead
  /\ TypeLine
  /\ MainStep("select", [mc EXCEPT !.pc = "back", !.ok = TRUE,
                           !.state = IF mc.ready THEN "INACTIVE" ELSE @])
  /\ UNCHANGED <<opt, panel, sh, chld, pipe, out, order>>

\* Mutant: what is in the pipe is proof enough that the shell has stopped
SyncNoWait ==
  /\ MainStep("sync", [mc EXCEPT !.pc = "resume"])
  /\ UNCHANGED <<opt, panel, sh, chld, input, pipe, out, order, deeds>>

\* the loop around sigsuspend
SyncWait ==
  /\ mc.stopped \/ ~mc.alive
  /\ MainStep("sync", [mc EXCEPT !.pc = "resume"])
  /\ UNCHANGED <<opt, panel, sh, chld, input, pipe, out, order, deeds>>

Resumed(m) ==
  LET done == m.state = "RUNNING_COMMAND"
  IN [m EXCEPT !.ready = TRUE, !.stopped = FALSE, !.ok = done,
               !.pc = IF done THEN "back" ELSE "check",
               !.state = IF done THEN "INACTIVE" ELSE @]

\* Mutant: the shell is left stopped
SyncResumeFrozen ==
  /\ MainStep("resume", Resumed(mc))
  /\ input' = IF mc.state = "ACTIVE" THEN input ELSE <<>>
  /\ UNCHANGED <<opt, panel, sh, chld, pipe, out, order, deeds>>

\* discard what mc has written and the shell has not read, unless the user is
\* typing, and continue the shell; then the end of this round of feed_subshell
SyncResume ==
  /\ MainStep("resume", Resumed(mc))
  /\ input' = IF mc.state = "ACTIVE" THEN input ELSE <<>>
  /\ sh' = IF sh.life = "stop" THEN [sh EXCEPT !.life = "run", !.news = "none"]
           ELSE sh
  /\ out' = (out \/ sh.life = "stop")
  /\ UNCHANGED <<opt, panel, chld, pipe, order, deeds>>

-----------------------------------------------------------------------------
(* init_subshell, do_subshell_chdir and invoke_subshell                     *)

\* what a dead shell has not read is still there for the next one
Fork ==
  /\ MainStep("fork", [mc EXCEPT !.pc = "check", !.job = "init",
                         !.alive = TRUE, !.stopped = FALSE,
                         !.state = "RUNNING_COMMAND"])
  /\ sh' = NewShell
  /\ input' = Append(input, [by |-> "init", does |-> "setup"])
  /\ UNCHANGED <<opt, panel, chld, pipe, out, order, deeds>>

InitBack ==
  /\ mc.job = "init"
  /\ MainStep("back", [mc EXCEPT !.pc = mc.after, !.use = @ /\ mc.ok /\ mc.alive])
  /\ UNCHANGED <<opt, panel, sh, chld, input, pipe, out, order, deeds>>

ChdirBack ==
  /\ mc.job = "cd"
  /\ MainStep("back", [mc EXCEPT !.pc = mc.after])
  /\ UNCHANGED <<opt, panel, sh, chld, input, pipe, out, order, deeds>>

\* do_subshell_chdir, called by m with the panel at d: the shell is sent there
\* unless it is busy or there already
Chdir(m, d, after) ==
  IF m.state = "INACTIVE" /\ m.cwd # d
  THEN /\ mc' = [m EXCEPT !.pc = "check", !.job = "cd", !.after = after,
                          !.state = "RUNNING_COMMAND"]
       /\ input' = Append(input, [by |-> "cd", does |-> d])
  ELSE mc' = [m EXCEPT !.pc = after] /\ UNCHANGED input

\* C-o: the shell is shown, whatever it does
Show ==
  /\ mc.line = NoLine
  /\ MainStep("invoke", [mc EXCEPT !.pc = "check", !.job = "invoke",
                           !.state = IF @ = "INACTIVE" THEN "ACTIVE" ELSE @])
  /\ UNCHANGED <<opt, panel, sh, chld, input, pipe, out, order, deeds>>

\* the command goes to the shell, even if it has just died
Give ==
  /\ mc.line # NoLine
  /\ MainStep("invoke", [mc EXCEPT !.pc = "check", !.job = "invoke",
                           !.state = "RUNNING_COMMAND", !.ready = FALSE])
  /\ input' = Append(input, mc.line)
  /\ order' = IF sh.life \in {"run", "stop"} THEN "given" ELSE "lost"
  /\ UNCHANGED <<opt, panel, sh, chld, pipe, out, deeds>>

\* new_dir is subshell_cwd itself, not a copy
InvokeBack ==
  /\ mc.job = "invoke"
  /\ MainStep("back", [mc EXCEPT !.pc = "restart",
                         !.moved = mc.alive /\ mc.cwd # panel])
  /\ UNCHANGED <<opt, panel, sh, chld, input, pipe, out, order, deeds>>

\* the loop at the end of invoke_subshell
Restart ==
  /\ MainStep("restart",
       IF ~mc.alive /\ ~mc.quit /\ mc.use
       THEN [mc EXCEPT !.pc = "fork", !.after = "restart"]
       ELSE [mc EXCEPT !.pc = IF mc.line = NoLine THEN "quit" ELSE "cd"])
  /\ UNCHANGED <<opt, panel, sh, chld, input, pipe, out, order, deeds>>

\* do_possible_cd: the panel goes where the shell is, if it can; toggle_panels
\* does it last, do_execute before the callers look at quit
FollowShell ==
  /\ MainStep("cd", [mc EXCEPT !.pc = IF mc.line = NoLine THEN "panels" ELSE "quit"])
  /\ panel' \in IF mc.moved THEN {mc.cwd, panel} \cap Dirs ELSE {panel}
  /\ UNCHANGED <<opt, sh, chld, input, pipe, out, order, deeds>>

\* toggle_panels and enter: the user leaves mc with the shell, or has a new one
Quit ==
  LET on == IF mc.line = NoLine THEN "cd" ELSE "panels"
  IN /\ mc.pc = "quit"
     /\ \/ ~mc.quit /\ mc' = [mc EXCEPT !.pc = on]
        \/ mc.quit /\ mc' = [mc EXCEPT !.pc = "end"]
        \/ /\ mc.quit
           /\ mc' = [mc EXCEPT !.quit = FALSE, !.after = on,
                               !.pc = IF mc.use THEN "fork" ELSE on]
     /\ UNCHANGED <<opt, panel, sh, chld, input, pipe, out, order, deeds>>

-----------------------------------------------------------------------------
(* The panels                                                               *)

AtPanels == mc.pc = "panels" /\ mc.use
Calling(line) == [mc EXCEPT !.line = line, !.moved = FALSE]

\* the user enters a directory
PanelCd ==
  /\ AtPanels /\ Do
  /\ \E d \in Dirs \ {panel} : panel' = d /\ Chdir(mc, d, "panels")
  /\ UNCHANGED <<opt, sh, chld, pipe, out, order>>

\* shell_execute: refused while the shell runs a command
RunCommand ==
  /\ AtPanels /\ Do
  /\ mc.state = "INACTIVE"
  /\ \E d \in Dirs \cup {"stay", "exit"} :
       Chdir(Calling([by |-> "run", does |-> d]), panel, "invoke")
  /\ order' = "none"
  /\ UNCHANGED <<opt, panel, sh, chld, pipe, out>>

TogglePanels ==
  /\ AtPanels /\ Do
  /\ Chdir(Calling(NoLine), panel, "invoke")
  /\ UNCHANGED <<opt, panel, sh, chld, pipe, out, order>>

\* read_subshell_prompt
ReadPrompt ==
  /\ AtPanels /\ mc.alive
  /\ out /\ out' = FALSE
  /\ UNCHANGED <<opt, mc, panel, sh, chld, input, pipe, order, deeds>>

-----------------------------------------------------------------------------

ShellRuns == ShellRead \/ ShellExec \/ ShellExit \/ ShellPwd \/ ShellStop

McRuns ==
  \/ FeedCheck \/ FeedEnter \/ FeedPty \/ FeedPipe \/ FeedTimeout
  \/ SyncWait \/ SyncResume
  \/ Fork \/ InitBack \/ ChdirBack \/ Show \/ Give \/ InvokeBack
  \/ Restart \/ FollowShell \/ Quit

UserActs ==
  KeySwitch \/ KeyLine \/ KeyLineSwitch \/ PanelCd \/ RunCommand \/ TogglePanels

Next ==
  \/ ShellRuns \/ ShellKilled \/ ShellSuspended
  \/ Handle \/ McRuns \/ UserActs \/ ReadPrompt

\* both processes run and signals arrive; the user owes nothing
Spec ==
  /\ Init /\ [][Next]_vars
  /\ WF_vars(ShellRuns) /\ WF_vars(Handle) /\ WF_vars(McRuns)

-----------------------------------------------------------------------------
(* Properties                                                               *)

\* The variables keep their types, and mc never believes in a shell it has
\* waited for already (sigchld_handler).
TypeOK ==
  /\ opt \in Users /\ mc \in Mc /\ panel \in Dirs /\ sh \in Shell
  /\ chld \in BOOLEAN /\ out \in BOOLEAN
  /\ input \in Seq(Line) /\ pipe \in Seq(Dirs)
  /\ order \in {"none", "given", "done", "lost"} /\ deeds \in 0 .. MaxDeeds
  /\ mc.alive => sh.life # "gone"

\* "RUNNING_COMMAND: return to MC when the current command finishes"
\* (src/subshell.c:82): when mc is back at its panels and holds the shell for
\* idle, the command it gave has been executed or its shell has been killed, if
\* the user's keys wait for the shell (a line typed ahead is answered in the
\* command's stead, feed_subshell).
CommandFinished ==
  ~opt.ahead /\ mc.pc = "panels" /\ mc.use /\ mc.state = "INACTIVE" => order # "given"

\* Whenever mc is at its panels and holds the shell for idle, the two agree, as
\* long as nobody kills the shell and keys wait for it: it waits at its prompt,
\* running, in the directory mc takes it to be in, with nothing left to read by
\* either (feed_subshell, synchronize: a stop answered too early or too late
\* shifts everything that follows by one command).
InStep ==
  ~opt.kills /\ ~opt.ahead /\ mc.pc = "panels" /\ mc.use /\ mc.state = "INACTIVE"
    => /\ sh.life = "run" /\ sh.at = "prompt"
       /\ mc.cwd = sh.cwd
       /\ pipe = <<>> /\ input = <<>> /\ ~mc.stopped

Feeding == mc.pc \in {"check", "enter", "select", "sync", "resume"}

\* When mc waits without looking at the keyboard for a shell that nobody kills
\* and to which nothing (so no exit either) is typed ahead, it gets its answer
\* (the handshake of pipe, SIGSTOP, SIGCHLD and SIGCONT).
Answered == Feeding /\ Quietly /\ ~opt.kills /\ ~opt.ahead ~> ~Feeding
=============================================================================
