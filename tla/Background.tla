------------------------------ MODULE Background ------------------------------
(***************************************************************************)
(* Background file operations (src/background.c, and its users in          *)
(* src/filemanager/file.c and boxes.c): a job is a forked process that     *)
(* asks its parent whatever it has to ask the user, over one pipe up and   *)
(* one pipe down.  The parent serves a question with a dialog, whose own   *)
(* event loop (lib/tty/key.c) serves other jobs meanwhile: the parent is a *)
(* stack of event loops, each with the set of channels its last select     *)
(* found ready.                                                            *)
(*                                                                         *)
(* A call goes up in two writes, its header and the rest.  Neither side    *)
(* closes the ends of the pipes it does not use, so no read ever meets an  *)
(* end of file.  What the file operation itself does is left out.          *)
(***************************************************************************)
EXTENDS Naturals, Sequences

CONSTANTS
  Jobs,      \* the background processes
  NoJob,     \* no job
  Settings,  \* the settings to look at, a set of Setting records
  MaxCalls   \* bound: questions a job asks before it ends

\* kept: what was freed keeps its contents, else it is overwritten; signals:
\* jobs are stopped and killed; calls: what jobs ask for
Setting == [kept : BOOLEAN, signals : BOOLEAN, calls : SUBSET {"question", "password"}]

ASSUME BackgroundAssumption ==
  NoJob \notin Jobs /\ Settings \subseteq Setting /\ MaxCalls \in Nat

VARIABLES
  opt,      \* the settings of this session; never changes
  job,      \* the processes, see Job
  down,     \* the answer in the pipe to each job: the call it is for, or 0
  tasks,    \* task_list
  chans,    \* jobs with a channel in select_list
  loops,    \* the event loops, the innermost last, see Loop
  reading,  \* the job background_attention reads a call of, or NoJob
  shown,    \* the tasks in the list of the jobs dialog
  jobsBox,  \* the outermost loop is that of the jobs dialog, else of the panels
  aborted   \* the parent has aborted

vars == <<opt, job, down, tasks, chans, loops, reading, shown, jobsBox, aborted>>

\* calls: how many were made; asks: what the last one is for; sent and got: the
\* parts of it written and read
Job ==
  [at : {"unborn", "run", "send", "wait", "done", "dead"}, stopped : BOOLEAN,
   calls : 0 .. MaxCalls + 1, asks : {"question", "password", "end"},
   sent : 0 .. 2, got : 0 .. 2]

\* job: whose question the dialog shows; ready: what check_selects has to serve
Loop == [job : Jobs \cup {NoJob}, ready : SUBSET Jobs]

Alive(j) == job[j].at \in {"run", "send", "wait"}
Readable(j) == job[j].sent > job[j].got
Innermost == loops[Len(loops)]
Outer(ls) == SubSeq(ls, 1, Len(ls) - 1)

\* check_selects takes its channels from select_list as it is by then
ToServe == Innermost.ready \cap chans
Waiting == ~aborted /\ reading = NoJob /\ ToServe = {}

Init ==
  /\ opt \in Settings
  /\ job = [j \in Jobs |-> [at |-> "unborn", stopped |-> FALSE, calls |-> 0,
                            asks |-> "question", sent |-> 0, got |-> 0]]
  /\ down = [j \in Jobs |-> 0]
  /\ tasks = {} /\ chans = {}
  /\ loops = <<[job |-> NoJob, ready |-> {}]>>
  /\ reading = NoJob
  /\ shown = {} /\ jobsBox = FALSE /\ aborted = FALSE

-----------------------------------------------------------------------------
(* The jobs                                                                 *)

Running(j) == Alive(j) /\ ~job[j].stopped

\* parent_call_header
CallHeader(j) ==
  /\ Running(j) /\ job[j].at = "run"
  /\ \E what \in IF job[j].calls < MaxCalls THEN opt.calls \cup {"end"} ELSE {"end"} :
       job' = [job EXCEPT ![j].at = "send", ![j].calls = @ + 1, ![j].asks = what,
                          ![j].sent = 1, ![j].got = 0]
  /\ UNCHANGED <<opt, down, tasks, chans, loops, reading, shown, jobsBox, aborted>>

CallRest(j) ==
  /\ Running(j) /\ job[j].at = "send"
  /\ job' = [job EXCEPT ![j].at = "wait", ![j].sent = 2]
  /\ UNCHANGED <<opt, down, tasks, chans, loops, reading, shown, jobsBox, aborted>>

\* the end of parent_call; after the last call the job exits, and nobody waits
\* for it
CallReturn(j) ==
  /\ Running(j) /\ job[j].at = "wait" /\ down[j] # 0
  /\ job' = [job EXCEPT ![j].at = IF job[j].asks = "end" THEN "done" ELSE "run"]
  /\ down' = [down EXCEPT ![j] = 0]
  /\ UNCHANGED <<opt, tasks, chans, loops, reading, shown, jobsBox, aborted>>

\* somebody else kills the process
Die(j) ==
  /\ opt.signals /\ Alive(j)
  /\ job' = [job EXCEPT ![j].at = "dead"]
  /\ UNCHANGED <<opt, down, tasks, chans, loops, reading, shown, jobsBox, aborted>>

-----------------------------------------------------------------------------
(* The parent                                                               *)

\* select returns
Select ==
  /\ Waiting
  /\ \E j \in chans : Readable(j)
  /\ loops' = [loops EXCEPT ![Len(loops)].ready = {j \in chans : Readable(j)}]
  /\ UNCHANGED <<opt, job, down, tasks, chans, reading, shown, jobsBox, aborted>>

\* check_selects calls background_attention, which reads whether or not the
\* call that made j ready has been served by an inner loop since
Attend(j) ==
  /\ ~aborted /\ reading = NoJob /\ j \in ToServe
  /\ loops' = [loops EXCEPT ![Len(loops)].ready = @ \ {j}]
  /\ reading' = j
  /\ UNCHANGED <<opt, job, down, tasks, chans, shown, jobsBox, aborted>>

ReadHeader(j) ==
  /\ ~aborted /\ reading = j /\ job[j].got = 0 /\ Readable(j)
  /\ job' = [job EXCEPT ![j].got = 1]
  /\ UNCHANGED <<opt, down, tasks, chans, loops, reading, shown, jobsBox, aborted>>

ReadRest(j, what) ==
  /\ ~aborted /\ reading = j /\ job[j].got = 1 /\ Readable(j)
  /\ job[j].asks = what
  /\ job' = [job EXCEPT ![j].got = 2] /\ reading' = NoJob

\* a dialog opens
ServeQuestion(j) ==
  /\ ReadRest(j, "question")
  /\ loops' = Append(loops, [job |-> j, ready |-> {}])
  /\ UNCHANGED <<opt, down, tasks, chans, shown, jobsBox, aborted>>

\* parent_call_string passes five arguments, one more than background_attention
\* has room and a case for
ServePassword(j) ==
  /\ ReadRest(j, "password")
  /\ aborted' = TRUE
  /\ UNCHANGED <<opt, down, tasks, chans, loops, shown, jobsBox>>

\* Mutant: the pipe to the job is looked up when the task has gone
ServeEndLateLookup(j) ==
  /\ ReadRest(j, "end")
  /\ tasks' = tasks \ {j}
  /\ chans' = IF j \in tasks /\ opt.kept THEN chans \ {j} ELSE chans
  /\ UNCHANGED <<opt, down, loops, shown, jobsBox, aborted>>

\* end_bg_process; destroy_task_and_return_fd frees the task and then reads its
\* fd, which may find the channel or not
ServeEnd(j) ==
  /\ ReadRest(j, "end")
  /\ tasks' = tasks \ {j}
  /\ chans' = IF j \in tasks /\ opt.kept THEN chans \ {j} ELSE chans
  /\ down' = IF j \in tasks THEN [down EXCEPT ![j] = job[j].calls] ELSE down
  /\ UNCHANGED <<opt, loops, shown, jobsBox, aborted>>

\* Mutant: the answer goes to the task that was started last
AnswerFirst ==
  /\ Waiting /\ Innermost.job # NoJob
  /\ \E j \in tasks : down' = [down EXCEPT ![j] = job[j].calls]
  /\ loops' = Outer(loops)
  /\ UNCHANGED <<opt, job, tasks, chans, reading, shown, jobsBox, aborted>>

\* the user answers the topmost dialog; the task was looked up before it
\* opened, when it was in the list
Answer ==
  /\ Waiting /\ Innermost.job # NoJob
  /\ down' = [down EXCEPT ![Innermost.job] = job[Innermost.job].calls]
  /\ loops' = Outer(loops)
  /\ UNCHANGED <<opt, job, tasks, chans, reading, shown, jobsBox, aborted>>

-----------------------------------------------------------------------------
(* The user                                                                 *)

NoDialog == Waiting /\ Innermost.job = NoJob

\* do_background and register_task_running
Start(j) ==
  /\ NoDialog /\ ~jobsBox /\ job[j].at = "unborn"
  /\ job' = [job EXCEPT ![j].at = "run"]
  /\ tasks' = tasks \cup {j} /\ chans' = chans \cup {j}
  /\ UNCHANGED <<opt, down, loops, reading, shown, jobsBox, aborted>>

\* jobs_cmd: the list shows the tasks there are when it is filled
OpenJobs ==
  /\ opt.signals
  /\ NoDialog /\ ~jobsBox
  /\ jobsBox' = TRUE /\ shown' = tasks
  /\ UNCHANGED <<opt, job, down, tasks, chans, loops, reading, aborted>>

CloseJobs ==
  /\ NoDialog /\ jobsBox
  /\ jobsBox' = FALSE /\ shown' = {}
  /\ UNCHANGED <<opt, job, down, tasks, chans, loops, reading, aborted>>

\* task_cb of a task that may have ended since the list was filled
TaskButton(j) == NoDialog /\ jobsBox /\ j \in shown

\* Mutant: the channel goes, the task stays
KillTaskListed(j) ==
  /\ TaskButton(j)
  /\ chans' = IF j \in tasks \/ opt.kept THEN chans \ {j} ELSE chans
  /\ job' = IF opt.kept /\ Alive(j) THEN [job EXCEPT ![j].at = "dead"] ELSE job
  /\ shown' = tasks
  /\ UNCHANGED <<opt, down, tasks, loops, reading, jobsBox, aborted>>

\* the task is freed before its pid is read for kill
KillTask(j) ==
  /\ TaskButton(j)
  /\ tasks' = tasks \ {j}
  /\ chans' = IF j \in tasks \/ opt.kept THEN chans \ {j} ELSE chans
  /\ job' = IF opt.kept /\ Alive(j) THEN [job EXCEPT ![j].at = "dead"] ELSE job
  /\ shown' = tasks'
  /\ UNCHANGED <<opt, down, loops, reading, jobsBox, aborted>>

StopTask(j, stop) ==
  /\ TaskButton(j)
  /\ job' = IF (j \in tasks \/ opt.kept) /\ Alive(j)
            THEN [job EXCEPT ![j].stopped = stop] ELSE job
  /\ shown' = tasks
  /\ UNCHANGED <<opt, down, tasks, chans, loops, reading, jobsBox, aborted>>

-----------------------------------------------------------------------------

JobRuns(j) == CallHeader(j) \/ CallRest(j) \/ CallReturn(j)

Serve(j) ==
  \/ Attend(j) \/ ReadHeader(j)
  \/ ServeQuestion(j) \/ ServePassword(j) \/ ServeEnd(j)

Next ==
  \/ Select \/ Answer \/ OpenJobs \/ CloseJobs
  \/ \E j \in Jobs :
       \/ JobRuns(j) \/ Die(j) \/ Serve(j) \/ Start(j)
       \/ KillTask(j) \/ StopTask(j, TRUE) \/ StopTask(j, FALSE)

\* processes run, and the user answers every dialog in the end
Spec ==
  /\ Init /\ [][Next]_vars
  /\ WF_vars(Select) /\ WF_vars(Answer)
  /\ \A j \in Jobs : WF_vars(JobRuns(j)) /\ WF_vars(Serve(j))

-----------------------------------------------------------------------------
(* Properties                                                               *)

\* The list of jobs tells the truth: a job that has said good-bye is not in it,
\* and one that works is, where freed memory keeps its contents (task_list,
\* end_bg_process, task_cb).
ListIsTrue ==
  \A j \in Jobs :
    /\ job[j].at = "done" => j \notin tasks
    /\ opt.kept /\ Alive(j) /\ ~(job[j].asks = "end" /\ job[j].got = 2) => j \in tasks

\* The variables keep their types, the list of jobs is true, and every task in it
\* has its channel and is served by one dialog at most (register_task_running,
\* unregister_task_with_pid, end_bg_process).
TypeOK ==
  /\ opt \in Settings /\ job \in [Jobs -> Job]
  /\ down \in [Jobs -> 0 .. MaxCalls + 1]
  /\ tasks \subseteq chans /\ chans \subseteq Jobs /\ shown \subseteq Jobs
  /\ loops \in Seq(Loop) /\ loops # <<>>
  /\ reading \in Jobs \cup {NoJob}
  /\ jobsBox \in BOOLEAN /\ aborted \in BOOLEAN
  /\ \A m, n \in DOMAIN loops :
       m # n => loops[m].job = NoJob \/ loops[m].job # loops[n].job
  /\ ListIsTrue

\* An answer on its way to a job is the one to the question the job is waiting
\* with, whatever other jobs asked and the user answered in the inner loops
\* (background_attention, parent_call).
AnswerIsForQuestion ==
  \A j \in Jobs : down[j] # 0 =>
    /\ down[j] = job[j].calls /\ job[j].got = 2
    /\ job[j].at \in {"wait", "dead"}
    /\ \A n \in DOMAIN loops : loops[n].job # j

\* A job that asks gets its answer and the parent goes back to its dialogs, as
\* long as no job is stopped or killed, none asks for a password and freed
\* memory keeps its contents: two jobs that ask at once are served one inside
\* the other, and the outer loop may then read from a job that has nothing to
\* say yet (check_selects keeps what select found before the dialogs).
QuestionsAnswered ==
  \A j \in Jobs :
    /\ opt.kept /\ ~opt.signals /\ "password" \notin opt.calls
    /\ job[j].at = "wait" \/ reading = j
    ~> job[j].at # "wait" /\ reading # j
=============================================================================
