---------------------------- MODULE BackgroundProofs ----------------------------
(***************************************************************************)
(* What src/background.c guarantees for any number of jobs and questions,  *)
(* whatever the user stops and kills and whatever freed memory holds:      *)
(*                                                                         *)
(*   TypeCorrect   the types, and that the list of jobs is true            *)
(*   RightAnswer   an answer on its way is the one the job waits for       *)
(***************************************************************************)
EXTENDS Background, SequenceTheorems, TLAPS

(***************************************************************************)
(* The strengthening.  A call is counted on both sides: what the parent    *)
(* has read of it, what the job has written, and where the job is in       *)
(* parent_call agree; the job whose question a dialog shows waits for it   *)
(* or is dead; the outermost loop is no dialog.                            *)
(***************************************************************************)
CallAgrees(j) ==
  /\ job[j].got <= job[j].sent
  /\ job[j].at = "unborn" => job[j].sent = 0 /\ job[j].asks = "question"
  /\ job[j].at = "run" => job[j].sent = job[j].got /\ job[j].asks # "end"
  /\ job[j].at = "send" => job[j].sent = 1
  /\ job[j].at = "wait" => job[j].sent = 2
  /\ job[j].at = "done" => job[j].got = 2 /\ job[j].asks = "end"
  /\ job[j].calls = MaxCalls + 1 => job[j].asks = "end"

SaidGoodBye(j) == job[j].asks = "end" /\ job[j].got = 2

Listed(j) ==
  /\ SaidGoodBye(j) => j \notin tasks
  /\ opt.kept /\ Alive(j) /\ ~SaidGoodBye(j) => j \in tasks

AnswerFits(j) ==
  down[j] # 0 =>
    /\ down[j] = job[j].calls /\ job[j].got = 2
    /\ job[j].at \in {"wait", "dead"}
    /\ \A n \in DOMAIN loops : loops[n].job # j

DialogFits(j) ==
  \A n \in DOMAIN loops : loops[n].job = j =>
    /\ job[j].got = 2 /\ job[j].asks = "question"
    /\ job[j].at \in {"wait", "dead"}

JobFits(j) == CallAgrees(j) /\ Listed(j) /\ AnswerFits(j) /\ DialogFits(j)

Stack ==
  /\ loops \in Seq(Loop) /\ loops # <<>>
  /\ loops[1].job = NoJob
  /\ \A m, n \in DOMAIN loops :
       m # n => loops[m].job = NoJob \/ loops[m].job # loops[n].job

Parent ==
  /\ opt \in Settings
  /\ down \in [Jobs -> 0 .. MaxCalls + 1]
  /\ tasks \subseteq chans /\ chans \subseteq Jobs /\ shown \subseteq Jobs
  /\ reading \in Jobs \cup {NoJob}
  /\ jobsBox \in BOOLEAN /\ aborted \in BOOLEAN

JobsInv ==
  /\ Parent /\ Stack /\ job \in [Jobs -> Job]
  /\ \A j \in Jobs : JobFits(j)

\* It is what the two theorems need.
LEMMA InvEnough == JobsInv => TypeOK /\ AnswerIsForQuestion
<1> SUFFICES ASSUME JobsInv PROVE TypeOK /\ AnswerIsForQuestion
  OBVIOUS
<1>1. ListIsTrue
  BY DEF JobsInv, JobFits, CallAgrees, Listed, SaidGoodBye, ListIsTrue
<1>2. TypeOK
  BY <1>1 DEF JobsInv, Parent, Stack, TypeOK
<1>3. AnswerIsForQuestion
  BY DEF JobsInv, JobFits, AnswerFits, AnswerIsForQuestion
<1> QED  BY <1>2, <1>3

(***************************************************************************)
(* The stack of event loops.                                               *)
(***************************************************************************)
WithReady(ls, S) == [ls EXCEPT ![Len(ls)].ready = S]

\* What select found changes nothing else about a loop.
LEMMA ReadyChange ==
  ASSUME NEW ls \in Seq(Loop), ls # <<>>, NEW S \in SUBSET Jobs
  PROVE  /\ WithReady(ls, S) \in Seq(Loop) /\ WithReady(ls, S) # <<>>
         /\ DOMAIN WithReady(ls, S) = DOMAIN ls
         /\ \A n \in DOMAIN ls : WithReady(ls, S)[n].job = ls[n].job
<1> DEFINE new == WithReady(ls, S)
<1>1. Len(ls) \in Nat /\ Len(ls) > 0 /\ ls \in [1 .. Len(ls) -> Loop]
  BY EmptySeq, LenProperties
<1>2. [ls[Len(ls)] EXCEPT !.ready = S] \in Loop
  BY <1>1 DEF Loop
<1>3. new = [ls EXCEPT ![Len(ls)] = [ls[Len(ls)] EXCEPT !.ready = S]]
  BY <1>1 DEF WithReady
<1> HIDE DEF new
<1>4. new \in [1 .. Len(ls) -> Loop]
  BY <1>1, <1>2, <1>3
<1>5. \A n \in 1 .. Len(ls) : new[n].job = ls[n].job
  BY <1>1, <1>3 DEF Loop
<1>6. new \in Seq(Loop) /\ Len(new) = Len(ls)
  BY <1>1, <1>4, IsASeq, LenProperties
<1>7. /\ new \in Seq(Loop) /\ new # <<>> /\ DOMAIN new = DOMAIN ls
      /\ \A n \in DOMAIN ls : new[n].job = ls[n].job
  BY <1>1, <1>4, <1>5, <1>6
<1> QED  BY <1>7 DEF new

\* A dialog that closes leaves the loops around it.
LEMMA OuterKeeps ==
  ASSUME NEW ls \in Seq(Loop), Len(ls) > 1
  PROVE  /\ Outer(ls) \in Seq(Loop) /\ Outer(ls) # <<>>
         /\ DOMAIN Outer(ls) = 1 .. Len(ls) - 1
         /\ \A n \in 1 .. Len(ls) - 1 : Outer(ls)[n] = ls[n]
<1>1. /\ Len(ls) \in Nat /\ DOMAIN ls = 1 .. Len(ls)
      /\ \A n \in 1 .. Len(ls) - 1 : ls[n] \in Loop
  BY LenProperties
<1>2. \A i \in 1 .. Len(ls) - 1 : ls[i] \in Loop
  BY <1>1
<1>3. /\ Outer(ls) \in Seq(Loop) /\ Len(Outer(ls)) = Len(ls) - 1
      /\ \A n \in 1 .. Len(ls) - 1 : Outer(ls)[n] = ls[n]
  BY <1>1, <1>2, SubSeqProperties DEF Outer
<1>4. DOMAIN Outer(ls) = 1 .. Len(ls) - 1 /\ Outer(ls) # <<>>
  BY <1>1, <1>3, LenProperties, EmptySeq
<1> QED  BY <1>3, <1>4

LEMMA Bounds == MaxCalls \in Nat /\ MaxCalls + 1 # 0 /\ NoJob \notin Jobs
  BY BackgroundAssumption

\* What a step may do to the record of a job, whatever the fields hold.
LEMMA RecordSteps ==
  ASSUME NEW A, NEW B, NEW C, NEW D, NEW E, NEW F, NEW R,
         R = [at : A, stopped : B, calls : C, asks : D, sent : E, got : F], NEW r \in R,
         NEW a \in A, NEW b \in B, NEW c \in C, NEW d \in D, NEW e \in E, NEW f \in F
  PROVE  /\ [r EXCEPT !.at = a, !.calls = c, !.asks = d, !.sent = e, !.got = f] \in R
         /\ [r EXCEPT !.at = a] \in R
         /\ [r EXCEPT !.at = a, !.sent = e] \in R
         /\ [r EXCEPT !.got = f] \in R
         /\ [r EXCEPT !.stopped = b] \in R
  OBVIOUS

\* A new call.
LEMMA SetCall ==
  ASSUME NEW r \in Job,
         NEW c \in 0 .. MaxCalls + 1, NEW what \in {"question", "password", "end"}
  PROVE  [r EXCEPT !.at = "send", !.calls = c, !.asks = what, !.sent = 1, !.got = 0] \in Job
<1>1. "send" \in {"unborn", "run", "send", "wait", "done", "dead"} /\ 1 \in 0 .. 2 /\ 0 \in 0 .. 2
  OBVIOUS
<1>2. Job = [at : {"unborn", "run", "send", "wait", "done", "dead"}, stopped : BOOLEAN,
              calls : 0 .. MaxCalls + 1, asks : {"question", "password", "end"},
              sent : 0 .. 2, got : 0 .. 2]
  BY DEF Job
<1> QED  BY <1>1, <1>2, RecordSteps, Zenon

\* The rest of the call is written.
LEMMA SetRest ==
  ASSUME NEW r \in Job
  PROVE  [r EXCEPT !.at = "wait", !.sent = 2] \in Job
<1>1. "wait" \in {"unborn", "run", "send", "wait", "done", "dead"} /\ 2 \in 0 .. 2
  OBVIOUS
<1>2. Job = [at : {"unborn", "run", "send", "wait", "done", "dead"}, stopped : BOOLEAN,
              calls : 0 .. MaxCalls + 1, asks : {"question", "password", "end"},
              sent : 0 .. 2, got : 0 .. 2]
  BY DEF Job
<1> QED  BY <1>1, <1>2, RecordSteps, Zenon

\* The job goes on.
LEMMA SetAt ==
  ASSUME NEW r \in Job, NEW a \in {"unborn", "run", "send", "wait", "done", "dead"}
  PROVE  [r EXCEPT !.at = a] \in Job
<1>2. Job = [at : {"unborn", "run", "send", "wait", "done", "dead"}, stopped : BOOLEAN,
              calls : 0 .. MaxCalls + 1, asks : {"question", "password", "end"},
              sent : 0 .. 2, got : 0 .. 2]
  BY DEF Job
<1> QED  BY <1>2, RecordSteps, Zenon

\* The parent reads.
LEMMA SetGot ==
  ASSUME NEW r \in Job, NEW n \in 0 .. 2
  PROVE  [r EXCEPT !.got = n] \in Job
<1>2. Job = [at : {"unborn", "run", "send", "wait", "done", "dead"}, stopped : BOOLEAN,
              calls : 0 .. MaxCalls + 1, asks : {"question", "password", "end"},
              sent : 0 .. 2, got : 0 .. 2]
  BY DEF Job
<1> QED  BY <1>2, RecordSteps, Zenon

\* The job is stopped or goes on.
LEMMA SetStopped ==
  ASSUME NEW r \in Job, NEW b \in BOOLEAN
  PROVE  [r EXCEPT !.stopped = b] \in Job
<1>2. Job = [at : {"unborn", "run", "send", "wait", "done", "dead"}, stopped : BOOLEAN,
              calls : 0 .. MaxCalls + 1, asks : {"question", "password", "end"},
              sent : 0 .. 2, got : 0 .. 2]
  BY DEF Job
<1> QED  BY <1>2, RecordSteps, Zenon

\* The types a step needs.
LEMMA Types ==
  ASSUME JobsInv, NEW j \in Jobs
  PROVE  /\ job[j] \in Job /\ job[j].calls \in 0 .. MaxCalls + 1
         /\ job[j].sent \in 0 .. 2 /\ job[j].got \in 0 .. 2
         /\ job[j].asks \in {"question", "password", "end"}
         /\ job[j].at \in {"unborn", "run", "send", "wait", "done", "dead"}
         /\ down[j] \in 0 .. MaxCalls + 1
<1>1. job[j] \in Job /\ down[j] \in 0 .. MaxCalls + 1
  BY DEF JobsInv, Parent
<1> QED  BY <1>1 DEF Job

\* What the stack of loops is made of.
LEMMA LoopTypes ==
  ASSUME Stack
  PROVE  /\ Len(loops) \in Nat /\ Len(loops) > 0 /\ DOMAIN loops = 1 .. Len(loops)
         /\ \A n \in DOMAIN loops : loops[n] \in Loop /\ loops[n].job \in Jobs \cup {NoJob}
<1>1. /\ Len(loops) \in Nat /\ Len(loops) > 0 /\ DOMAIN loops = 1 .. Len(loops)
      /\ \A n \in DOMAIN loops : loops[n] \in Loop
  BY EmptySeq, LenProperties DEF Stack
<1>2. \A n \in DOMAIN loops : loops[n].job \in Jobs \cup {NoJob}
  BY <1>1 DEF Loop
<1> QED  BY <1>1, <1>2

LEMMA InvInit == Init => JobsInv
<1> SUFFICES ASSUME Init PROVE JobsInv
  OBVIOUS
<1>1. loops \in Seq(Loop) /\ Len(loops) = 1 /\ loops # <<>> /\ loops[1].job = NoJob
  BY DEF Init, Loop
<1>2. /\ job \in [Jobs -> Job]
      /\ \A j \in Jobs : /\ job[j].at = "unborn" /\ job[j].calls = 0 /\ job[j].got = 0
                         /\ job[j].sent = 0 /\ job[j].asks = "question" /\ down[j] = 0
  <2> DEFINE new == [at |-> "unborn", stopped |-> FALSE, calls |-> 0,
                     asks |-> "question", sent |-> 0, got |-> 0]
  <2>1. 0 \in 0 .. MaxCalls + 1 /\ 0 \in 0 .. 2
    BY Bounds
  <2>2. new \in Job
    BY <2>1 DEF Job
  <2>3. job = [j \in Jobs |-> new] /\ down = [j \in Jobs |-> 0]
    BY DEF Init
  <2>4. /\ new.at = "unborn" /\ new.calls = 0 /\ new.got = 0
        /\ new.sent = 0 /\ new.asks = "question"
    OBVIOUS
  <2> HIDE DEF new
  <2> QED  BY <2>2, <2>3, <2>4
<1>3. Stack
  <2>1. \A m, n \in DOMAIN loops : m = n
    BY <1>1
  <2> QED  BY <1>1, <2>1 DEF Stack
<1>4. Parent
  <2>1. down \in [Jobs -> 0 .. MaxCalls + 1]
    BY Bounds DEF Init
  <2>2. /\ opt \in Settings /\ tasks = {} /\ chans = {} /\ shown = {}
        /\ reading = NoJob /\ jobsBox = FALSE /\ aborted = FALSE
    BY DEF Init
  <2> QED  BY <2>1, <2>2 DEF Parent
<1>5. ASSUME NEW j \in Jobs PROVE JobFits(j)
  <2>1. /\ job[j].at = "unborn" /\ job[j].calls = 0 /\ job[j].got = 0
        /\ job[j].sent = 0 /\ job[j].asks = "question" /\ down[j] = 0
    BY <1>2
  <2>2. 0 <= 0 /\ 0 # MaxCalls + 1
    BY Bounds
  <2>3. CallAgrees(j)
    BY <2>1, <2>2 DEF CallAgrees
  <2>4. Listed(j) /\ AnswerFits(j)
    BY <2>1 DEF Listed, SaidGoodBye, Alive, AnswerFits
  <2>5. DialogFits(j)
    BY <1>1, Bounds DEF DialogFits
  <2> QED  BY <2>3, <2>4, <2>5 DEF JobFits
<1> QED
  BY <1>2, <1>3, <1>4, <1>5 DEF JobsInv

(***************************************************************************)
(* Steps about one job that leave the stack of loops.                      *)
(***************************************************************************)
LEMMA OneJob ==
  ASSUME JobsInv, NEW j \in Jobs, NEW r \in Job, job' = [job EXCEPT ![j] = r],
         Parent', loops' = loops, opt' = opt,
         \A k \in Jobs \ {j} : down'[k] = down[k] /\ (k \in tasks' <=> k \in tasks),
         JobFits(j)'
  PROVE  JobsInv'
<1>1. job' \in [Jobs -> Job] /\ \A k \in Jobs \ {j} : job'[k] = job[k]
  BY DEF JobsInv
<1>2. Stack'
  BY DEF JobsInv, Stack
<1>3. ASSUME NEW k \in Jobs \ {j} PROVE JobFits(k)'
  <2>1. /\ job'[k] = job[k] /\ down'[k] = down[k] /\ (k \in tasks' <=> k \in tasks)
        /\ CallAgrees(k) /\ Listed(k) /\ AnswerFits(k) /\ DialogFits(k)
    BY <1>1 DEF JobsInv, JobFits
  <2>2. CallAgrees(k)'
    BY <2>1 DEF CallAgrees
  <2>3. Listed(k)'
    BY <2>1 DEF Listed, SaidGoodBye, Alive
  <2>4. AnswerFits(k)'
    BY <2>1 DEF AnswerFits
  <2>5. DialogFits(k)'
    BY <2>1 DEF DialogFits
  <2> QED  BY <2>2, <2>3, <2>4, <2>5 DEF JobFits
<1> QED  BY <1>1, <1>2, <1>3 DEF JobsInv

LEMMA CallHeaderKeeps ==
  ASSUME JobsInv, NEW j \in Jobs, CallHeader(j) PROVE JobsInv'
<1>1. PICK what \in opt.calls \cup {"end"} :
        /\ job[j].calls < MaxCalls \/ what = "end"
        /\ job' = [job EXCEPT ![j].at = "send", ![j].calls = @ + 1, ![j].asks = what,
                             ![j].sent = 1, ![j].got = 0]
  BY DEF CallHeader
<1>2. JobFits(j) /\ job[j].at = "run" /\ opt \in Setting /\ job[j] \in Job
  BY BackgroundAssumption DEF JobsInv, CallHeader, Parent
<1>3. /\ job[j].asks # "end" /\ job[j].calls \in 0 .. MaxCalls
      /\ what \in {"question", "password", "end"} /\ job[j].calls + 1 \in 0 .. MaxCalls + 1
      /\ job[j].calls + 1 = MaxCalls + 1 => what = "end"
  BY <1>1, <1>2, Types, Bounds DEF JobFits, CallAgrees, Setting
<1> DEFINE r == [job[j] EXCEPT !.at = "send", !.calls = job[j].calls + 1, !.asks = what,
                               !.sent = 1, !.got = 0]
<1>4. job' = [job EXCEPT ![j] = r]
  BY <1>1 DEF JobsInv
<1>5. r \in Job
  BY <1>2, <1>3, SetCall, Zenon
<1>6. /\ r.at = "send" /\ r.sent = 1 /\ r.got = 0 /\ r.asks = what
      /\ r.calls = job[j].calls + 1
  BY <1>2 DEF Job
<1> HIDE DEF r
<1>7. job'[j] = r
  BY <1>4 DEF JobsInv
<1>8. down[j] = 0 /\ \A n \in DOMAIN loops : loops[n].job # j
  BY <1>2 DEF JobFits, AnswerFits, DialogFits
<1>9. UNCHANGED <<opt, down, tasks, chans, loops, reading, shown, jobsBox, aborted>>
  BY DEF CallHeader
<1>10. CallAgrees(j)'
  BY <1>3, <1>6, <1>7 DEF CallAgrees
<1>11. Listed(j)'
  BY <1>2, <1>3, <1>6, <1>7, <1>9 DEF JobFits, Listed, SaidGoodBye, Alive
<1>12. AnswerFits(j)' /\ DialogFits(j)'
  BY <1>8, <1>9 DEF AnswerFits, DialogFits
<1>13. JobFits(j)' /\ Parent'
  BY <1>9, <1>10, <1>11, <1>12 DEF JobFits, JobsInv, Parent
<1> QED  BY <1>4, <1>5, <1>9, <1>13, OneJob

LEMMA CallRestKeeps ==
  ASSUME JobsInv, NEW j \in Jobs, CallRest(j) PROVE JobsInv'
<1> DEFINE r == [job[j] EXCEPT !.at = "wait", !.sent = 2]
<1>1. /\ JobFits(j) /\ job[j] \in Job /\ job[j].at = "send" /\ job[j].got \in 0 .. 2
      /\ job' = [job EXCEPT ![j] = r]
  BY Types DEF JobsInv, CallRest
<1>2. r \in Job
  BY <1>1, SetRest, Zenon
<1>3. /\ r.at = "wait" /\ r.sent = 2 /\ r.got = job[j].got /\ r.asks = job[j].asks
      /\ r.calls = job[j].calls
  BY <1>1 DEF Job
<1> HIDE DEF r
<1>4. job'[j] = r
  BY <1>1 DEF JobsInv
<1>5. job[j].got # 2
  BY <1>1 DEF JobFits, CallAgrees
<1>6. down[j] = 0 /\ \A n \in DOMAIN loops : loops[n].job # j
  BY <1>1, <1>5 DEF JobFits, AnswerFits, DialogFits
<1>7. UNCHANGED <<opt, down, tasks, chans, loops, reading, shown, jobsBox, aborted>>
  BY DEF CallRest
<1>8. CallAgrees(j)'
  BY <1>1, <1>3, <1>4 DEF JobFits, CallAgrees
<1>9. Listed(j)'
  BY <1>1, <1>3, <1>4, <1>7 DEF JobFits, Listed, SaidGoodBye, Alive
<1>10. AnswerFits(j)' /\ DialogFits(j)'
  BY <1>6, <1>7 DEF AnswerFits, DialogFits
<1>11. JobFits(j)' /\ Parent'
  BY <1>7, <1>8, <1>9, <1>10 DEF JobFits, JobsInv, Parent
<1> QED  BY <1>1, <1>2, <1>7, <1>11, OneJob

LEMMA CallReturnKeeps ==
  ASSUME JobsInv, NEW j \in Jobs, CallReturn(j) PROVE JobsInv'
<1> DEFINE a == IF job[j].asks = "end" THEN "done" ELSE "run"
           r == [job[j] EXCEPT !.at = a]
<1>1. /\ JobFits(j) /\ job[j] \in Job /\ job[j].at = "wait" /\ down[j] # 0
      /\ job' = [job EXCEPT ![j] = r]
  BY Types DEF JobsInv, CallReturn
<1>2. r \in Job
  <2>1. a \in {"unborn", "run", "send", "wait", "done", "dead"}
    OBVIOUS
  <2> HIDE DEF a
  <2> QED  BY <1>1, <2>1, SetAt, Zenon
<1>3. /\ r.at = a /\ r.sent = job[j].sent /\ r.got = job[j].got /\ r.asks = job[j].asks
      /\ r.calls = job[j].calls
  BY <1>1 DEF Job
<1> HIDE DEF r
<1>4. job'[j] = r
  BY <1>1 DEF JobsInv
<1>5. job[j].got = 2 /\ job[j].sent = 2 /\ \A n \in DOMAIN loops : loops[n].job # j
  BY <1>1 DEF JobFits, CallAgrees, AnswerFits
<1>6. /\ UNCHANGED <<opt, tasks, chans, loops, reading, shown, jobsBox, aborted>>
      /\ down' = [down EXCEPT ![j] = 0]
  BY DEF CallReturn
<1>7. /\ down' \in [Jobs -> 0 .. MaxCalls + 1] /\ down'[j] = 0
      /\ \A k \in Jobs \ {j} : down'[k] = down[k]
  BY <1>6, Bounds DEF JobsInv, Parent
<1>8. CallAgrees(j)'
  BY <1>1, <1>3, <1>4, <1>5 DEF JobFits, CallAgrees
<1>9. Listed(j)'
  BY <1>1, <1>3, <1>4, <1>5, <1>6 DEF JobFits, Listed, SaidGoodBye, Alive
<1>10. AnswerFits(j)' /\ DialogFits(j)'
  BY <1>5, <1>6, <1>7 DEF AnswerFits, DialogFits
<1>11. JobFits(j)' /\ Parent'
  BY <1>6, <1>7, <1>8, <1>9, <1>10 DEF JobFits, JobsInv, Parent
<1> QED  BY <1>1, <1>2, <1>6, <1>7, <1>11, OneJob

LEMMA DieKeeps ==
  ASSUME JobsInv, NEW j \in Jobs, Die(j) PROVE JobsInv'
<1> DEFINE r == [job[j] EXCEPT !.at = "dead"]
<1>1. /\ JobFits(j) /\ job[j] \in Job /\ Alive(j) /\ job' = [job EXCEPT ![j] = r]
  BY Types DEF JobsInv, Die
<1>2. r \in Job
  <2>1. "dead" \in {"unborn", "run", "send", "wait", "done", "dead"}
    OBVIOUS
  <2> QED  BY <1>1, <2>1, SetAt, Zenon
<1>3. /\ r.at = "dead" /\ r.sent = job[j].sent /\ r.got = job[j].got
      /\ r.asks = job[j].asks /\ r.calls = job[j].calls
  BY <1>1 DEF Job
<1> HIDE DEF r
<1>4. job'[j] = r
  BY <1>1 DEF JobsInv
<1>5. UNCHANGED <<opt, down, tasks, chans, loops, reading, shown, jobsBox, aborted>>
  BY DEF Die
<1>6. JobFits(j)'
  BY <1>1, <1>3, <1>4, <1>5
     DEF JobFits, CallAgrees, Listed, SaidGoodBye, Alive, AnswerFits, DialogFits
<1>7. Parent'
  BY <1>5 DEF JobsInv, Parent
<1> QED  BY <1>1, <1>2, <1>5, <1>6, <1>7, OneJob

\* A call that is written and not read is one of a job that waits, or died.
LEMMA Unread ==
  ASSUME JobsInv, NEW j \in Jobs, Readable(j)
  PROVE  /\ job[j].at \in {"send", "wait", "dead"} /\ job[j].got # 2 /\ down[j] = 0
         /\ job[j].got = 1 => job[j].at \in {"wait", "dead"} /\ job[j].sent = 2
         /\ \A n \in DOMAIN loops : loops[n].job # j
<1>1. JobFits(j) /\ job[j].sent \in 0 .. 2 /\ job[j].got \in 0 .. 2 /\ job[j].sent > job[j].got
      /\ job[j].at \in {"unborn", "run", "send", "wait", "done", "dead"}
  BY Types DEF JobsInv, Readable
<1>2. job[j].got # 2 /\ (job[j].got = 1 => job[j].sent = 2)
  BY <1>1
<1>3. job[j].at \in {"send", "wait", "dead"} /\ (job[j].at = "send" => job[j].got = 0)
  BY <1>1, <1>2 DEF JobFits, CallAgrees
<1>4. down[j] = 0 /\ \A n \in DOMAIN loops : loops[n].job # j
  BY <1>1, <1>2 DEF JobFits, AnswerFits, DialogFits
<1> QED  BY <1>2, <1>3, <1>4

LEMMA ReadHeaderKeeps ==
  ASSUME JobsInv, NEW j \in Jobs, ReadHeader(j) PROVE JobsInv'
<1> DEFINE r == [job[j] EXCEPT !.got = 1]
<1>1. /\ JobFits(j) /\ job[j] \in Job /\ job[j].got = 0 /\ job[j].sent \in 0 .. 2
      /\ Readable(j) /\ job' = [job EXCEPT ![j] = r]
  BY Types DEF JobsInv, ReadHeader
<1>2. r \in Job
  <2>1. 1 \in 0 .. 2
    OBVIOUS
  <2> QED  BY <1>1, <2>1, SetGot, Zenon
<1>3. /\ r.at = job[j].at /\ r.sent = job[j].sent /\ r.got = 1
      /\ r.asks = job[j].asks /\ r.calls = job[j].calls
  BY <1>1 DEF Job
<1> HIDE DEF r
<1>4. job'[j] = r
  BY <1>1 DEF JobsInv
<1>5. UNCHANGED <<opt, down, tasks, chans, loops, reading, shown, jobsBox, aborted>>
  BY DEF ReadHeader
<1>6. /\ job[j].at \in {"send", "wait", "dead"} /\ down[j] = 0 /\ job[j].sent > 0
      /\ \A n \in DOMAIN loops : loops[n].job # j
  BY <1>1, Unread DEF Readable
<1>7. CallAgrees(j)'
  BY <1>1, <1>3, <1>4, <1>6 DEF JobFits, CallAgrees
<1>8. Listed(j)'
  BY <1>1, <1>3, <1>4, <1>5 DEF JobFits, Listed, SaidGoodBye, Alive
<1>9. AnswerFits(j)' /\ DialogFits(j)'
  BY <1>5, <1>6 DEF AnswerFits, DialogFits
<1>10. JobFits(j)' /\ Parent'
  BY <1>5, <1>7, <1>8, <1>9 DEF JobFits, JobsInv, Parent
<1> QED  BY <1>1, <1>2, <1>5, <1>10, OneJob

\* The rest of the call is read.
LEMMA RestRead ==
  ASSUME JobsInv, NEW j \in Jobs, NEW what, ReadRest(j, what)
  PROVE  /\ \E r \in Job : job' = [job EXCEPT ![j] = r]
         /\ job'[j].got = 2 /\ job'[j].asks = what /\ job'[j].calls = job[j].calls
         /\ job'[j].at = job[j].at /\ job'[j].at \in {"wait", "dead"}
         /\ job[j].asks = what /\ down[j] = 0 /\ job[j].got # 2
         /\ \A n \in DOMAIN loops : loops[n].job # j
         /\ CallAgrees(j)' /\ reading' = NoJob
<1> DEFINE r == [job[j] EXCEPT !.got = 2]
<1>1. /\ JobFits(j) /\ job[j] \in Job /\ job[j].got = 1 /\ job[j].asks = what
      /\ Readable(j) /\ job' = [job EXCEPT ![j] = r] /\ reading' = NoJob
  BY Types DEF JobsInv, ReadRest
<1>2. r \in Job
  <2>1. 2 \in 0 .. 2
    OBVIOUS
  <2> QED  BY <1>1, <2>1, SetGot, Zenon
<1>3. /\ r.at = job[j].at /\ r.sent = job[j].sent /\ r.got = 2
      /\ r.asks = job[j].asks /\ r.calls = job[j].calls
  BY <1>1 DEF Job
<1> HIDE DEF r
<1>4. job'[j] = r
  BY <1>1 DEF JobsInv
<1>5. /\ job[j].at \in {"wait", "dead"} /\ down[j] = 0 /\ job[j].sent = 2
      /\ job[j].got # 2
      /\ \A n \in DOMAIN loops : loops[n].job # j
  BY <1>1, Unread
<1>6. CallAgrees(j)'
  BY <1>1, <1>3, <1>4, <1>5 DEF JobFits, CallAgrees
<1>7. \E r1 \in Job : job' = [job EXCEPT ![j] = r1]
  BY <1>1, <1>2, Zenon
<1>8. /\ job'[j].got = 2 /\ job'[j].asks = what /\ job'[j].calls = job[j].calls
      /\ job'[j].at = job[j].at
  BY <1>1, <1>3, <1>4
<1> QED  BY <1>1, <1>5, <1>6, <1>7, <1>8, Zenon

LEMMA ServePasswordKeeps ==
  ASSUME JobsInv, NEW j \in Jobs, ServePassword(j) PROVE JobsInv'
<1>1. ReadRest(j, "password") /\ aborted' = TRUE
      /\ UNCHANGED <<opt, down, tasks, chans, loops, shown, jobsBox>>
  BY DEF ServePassword
<1>2. PICK r \in Job : job' = [job EXCEPT ![j] = r]
  BY <1>1, RestRead
<1>3. /\ job'[j].asks = "password" /\ job'[j].at = job[j].at /\ down[j] = 0
      /\ job[j].asks = "password" /\ \A n \in DOMAIN loops : loops[n].job # j
      /\ CallAgrees(j)' /\ reading' = NoJob
  BY <1>1, RestRead
<1>4. Listed(j)'
  BY <1>1, <1>3 DEF JobsInv, JobFits, Listed, SaidGoodBye, Alive
<1>5. AnswerFits(j)' /\ DialogFits(j)'
  BY <1>1, <1>3 DEF AnswerFits, DialogFits
<1>6. JobFits(j)' /\ Parent'
  BY <1>1, <1>3, <1>4, <1>5 DEF JobFits, JobsInv, Parent
<1> QED  BY <1>1, <1>2, <1>6, OneJob

LEMMA ServeEndKeeps ==
  ASSUME JobsInv, NEW j \in Jobs, ServeEnd(j) PROVE JobsInv'
<1>1. /\ ReadRest(j, "end") /\ tasks' = tasks \ {j}
      /\ chans' = IF j \in tasks /\ opt.kept THEN chans \ {j} ELSE chans
      /\ down' = IF j \in tasks THEN [down EXCEPT ![j] = job[j].calls] ELSE down
      /\ UNCHANGED <<opt, loops, shown, jobsBox, aborted>>
  BY DEF ServeEnd
<1>2. PICK r \in Job : job' = [job EXCEPT ![j] = r]
  BY <1>1, RestRead
<1>3. /\ job'[j].asks = "end" /\ job'[j].got = 2 /\ job'[j].at \in {"wait", "dead"}
      /\ job'[j].calls = job[j].calls /\ down[j] = 0
      /\ \A n \in DOMAIN loops : loops[n].job # j
      /\ CallAgrees(j)' /\ reading' = NoJob
  BY <1>1, RestRead
<1>4. /\ down' \in [Jobs -> 0 .. MaxCalls + 1] /\ down'[j] \in {0, job[j].calls}
      /\ \A k \in Jobs \ {j} : down'[k] = down[k] /\ (k \in tasks' <=> k \in tasks)
  <2>1. job[j].calls \in 0 .. MaxCalls + 1 /\ down \in [Jobs -> 0 .. MaxCalls + 1]
    BY Types DEF JobsInv, Parent
  <2> QED  BY <1>1, <1>3, <2>1
<1>5. Listed(j)'
  BY <1>1, <1>3 DEF Listed, SaidGoodBye
<1>6. AnswerFits(j)' /\ DialogFits(j)'
  BY <1>1, <1>3, <1>4 DEF AnswerFits, DialogFits
<1>7. Parent'
  BY <1>1, <1>3, <1>4 DEF JobsInv, Parent
<1>8. JobFits(j)'
  BY <1>3, <1>5, <1>6 DEF JobFits
<1> QED  BY <1>1, <1>2, <1>4, <1>7, <1>8, OneJob

LEMMA StartKeeps ==
  ASSUME JobsInv, NEW j \in Jobs, Start(j) PROVE JobsInv'
<1> DEFINE r == [job[j] EXCEPT !.at = "run"]
<1>1. /\ JobFits(j) /\ job[j] \in Job /\ job[j].at = "unborn" /\ job' = [job EXCEPT ![j] = r]
      /\ job[j].got \in 0 .. 2 /\ tasks' = tasks \cup {j} /\ chans' = chans \cup {j}
      /\ UNCHANGED <<opt, down, loops, reading, shown, jobsBox, aborted>>
  BY Types DEF JobsInv, Start
<1>2. r \in Job
  <2>1. "run" \in {"unborn", "run", "send", "wait", "done", "dead"}
    OBVIOUS
  <2> QED  BY <1>1, <2>1, SetAt, Zenon
<1>3. /\ r.at = "run" /\ r.sent = job[j].sent /\ r.got = job[j].got
      /\ r.asks = job[j].asks /\ r.calls = job[j].calls
  BY <1>1 DEF Job
<1> HIDE DEF r
<1>4. job'[j] = r
  BY <1>1 DEF JobsInv
<1>5. /\ job[j].sent = 0 /\ job[j].got = 0 /\ job[j].asks = "question" /\ down[j] = 0
      /\ job[j].calls # MaxCalls + 1 /\ \A n \in DOMAIN loops : loops[n].job # j
  BY <1>1 DEF JobFits, CallAgrees, AnswerFits, DialogFits
<1>6. CallAgrees(j)'
  BY <1>3, <1>4, <1>5 DEF CallAgrees
<1>7. Listed(j)' /\ AnswerFits(j)' /\ DialogFits(j)'
  BY <1>1, <1>3, <1>4, <1>5 DEF Listed, SaidGoodBye, AnswerFits, DialogFits
<1>8. Parent'
  BY <1>1 DEF JobsInv, Parent
<1>9. JobFits(j)'
  BY <1>6, <1>7 DEF JobFits
<1> QED  BY <1>1, <1>2, <1>8, <1>9, OneJob

LEMMA KillTaskKeeps ==
  ASSUME JobsInv, NEW j \in Jobs, KillTask(j) PROVE JobsInv'
<1> DEFINE r == IF opt.kept /\ Alive(j) THEN [job[j] EXCEPT !.at = "dead"] ELSE job[j]
<1>1. /\ JobFits(j) /\ job[j] \in Job /\ job \in [Jobs -> Job]
      /\ tasks' = tasks \ {j} /\ shown' = tasks'
      /\ chans' = IF j \in tasks \/ opt.kept THEN chans \ {j} ELSE chans
      /\ job' = IF opt.kept /\ Alive(j) THEN [job EXCEPT ![j].at = "dead"] ELSE job
      /\ UNCHANGED <<opt, down, loops, reading, jobsBox, aborted>>
  BY Types DEF JobsInv, KillTask
<1>2. job' = [job EXCEPT ![j] = r]
  BY <1>1
<1>3. r \in Job
  <2>1. "dead" \in {"unborn", "run", "send", "wait", "done", "dead"}
    OBVIOUS
  <2>2. [job[j] EXCEPT !.at = "dead"] \in Job
    BY <1>1, <2>1, SetAt, Zenon
  <2> QED  BY <1>1, <2>2
<1>4. /\ r.at = IF opt.kept /\ Alive(j) THEN "dead" ELSE job[j].at
      /\ r.sent = job[j].sent /\ r.got = job[j].got
      /\ r.asks = job[j].asks /\ r.calls = job[j].calls
  BY <1>1 DEF Job
<1> HIDE DEF r
<1>5. job'[j] = r
  BY <1>1, <1>2
<1>6. CallAgrees(j)' /\ AnswerFits(j)' /\ DialogFits(j)'
  BY <1>1, <1>4, <1>5 DEF JobFits, CallAgrees, AnswerFits, DialogFits
<1>7. Listed(j)'
  BY <1>1, <1>4, <1>5 DEF Listed, SaidGoodBye, Alive
<1>8. Parent'
  BY <1>1 DEF JobsInv, Parent
<1>9. JobFits(j)'
  BY <1>6, <1>7 DEF JobFits
<1> QED  BY <1>1, <1>2, <1>3, <1>8, <1>9, OneJob

LEMMA StopTaskKeeps ==
  ASSUME JobsInv, NEW j \in Jobs, NEW stop \in BOOLEAN, StopTask(j, stop) PROVE JobsInv'
<1> DEFINE new == [job[j] EXCEPT !.stopped = stop]
           r == IF (j \in tasks \/ opt.kept) /\ Alive(j) THEN new ELSE job[j]
<1>1. /\ JobFits(j) /\ job[j] \in Job /\ job \in [Jobs -> Job] /\ shown' = tasks
      /\ job' = IF (j \in tasks \/ opt.kept) /\ Alive(j) THEN [job EXCEPT ![j] = new] ELSE job
      /\ UNCHANGED <<opt, down, tasks, chans, loops, reading, jobsBox, aborted>>
  BY Types DEF JobsInv, StopTask
<1>2. new \in Job
  BY <1>1, SetStopped, Zenon
<1>3. /\ new.at = job[j].at /\ new.sent = job[j].sent /\ new.got = job[j].got
      /\ new.asks = job[j].asks /\ new.calls = job[j].calls
  BY <1>1 DEF Job
<1> HIDE DEF new
<1>4. job' = [job EXCEPT ![j] = r] /\ r \in Job
  BY <1>1, <1>2
<1>5. /\ r.at = job[j].at /\ r.sent = job[j].sent /\ r.got = job[j].got
      /\ r.asks = job[j].asks /\ r.calls = job[j].calls
  BY <1>3
<1> HIDE DEF r
<1>6. job'[j] = r
  BY <1>1, <1>4
<1>7. JobFits(j)'
  BY <1>1, <1>5, <1>6
     DEF JobFits, CallAgrees, Listed, SaidGoodBye, Alive, AnswerFits, DialogFits
<1>8. Parent'
  BY <1>1 DEF JobsInv, Parent
<1> QED  BY <1>1, <1>4, <1>7, <1>8, OneJob

(***************************************************************************)
(* Steps on the stack of loops.                                            *)
(***************************************************************************)
\* What select found and check_selects has served.
LEMMA ReadyKeeps ==
  ASSUME JobsInv, NEW S \in SUBSET Jobs, loops' = [loops EXCEPT ![Len(loops)].ready = S],
         UNCHANGED <<opt, job, down, tasks, chans, shown, jobsBox, aborted>>,
         reading' \in Jobs \cup {NoJob}
  PROVE  JobsInv'
<1>1. /\ loops' \in Seq(Loop) /\ loops' # <<>> /\ DOMAIN loops' = DOMAIN loops
      /\ \A n \in DOMAIN loops : loops'[n].job = loops[n].job
  <2>1. loops \in Seq(Loop) /\ loops # <<>>
    BY DEF JobsInv, Stack
  <2>2. loops' = WithReady(loops, S)
    BY DEF WithReady
  <2> QED  BY <2>1, <2>2, ReadyChange
<1>2. 1 \in DOMAIN loops
  BY LoopTypes DEF JobsInv
<1>3. Stack'
  BY <1>1, <1>2 DEF JobsInv, Stack
<1>4. ASSUME NEW j \in Jobs PROVE JobFits(j)'
  BY <1>1 DEF JobsInv, JobFits, CallAgrees, Listed, SaidGoodBye, Alive, AnswerFits, DialogFits
<1>5. Parent' /\ job' \in [Jobs -> Job]
  BY DEF JobsInv, Parent
<1> QED  BY <1>3, <1>4, <1>5 DEF JobsInv

LEMMA SelectKeeps == ASSUME JobsInv, Select PROVE JobsInv'
<1>1. {j \in chans : Readable(j)} \in SUBSET Jobs /\ reading' \in Jobs \cup {NoJob}
  BY DEF JobsInv, Parent, Select
<1> QED  BY <1>1, ReadyKeeps DEF Select

LEMMA AttendKeeps == ASSUME JobsInv, NEW j \in Jobs, Attend(j) PROVE JobsInv'
<1>1. Len(loops) \in DOMAIN loops /\ loops[Len(loops)] \in Loop
  BY LoopTypes DEF JobsInv
<1>2. loops[Len(loops)].ready \ {j} \in SUBSET Jobs
  BY <1>1 DEF Loop
<1>3. loops' = [loops EXCEPT ![Len(loops)].ready = loops[Len(loops)].ready \ {j}]
  BY <1>1 DEF Attend
<1> QED  BY <1>2, <1>3, ReadyKeeps DEF Attend

LEMMA ServeQuestionKeeps ==
  ASSUME JobsInv, NEW j \in Jobs, ServeQuestion(j) PROVE JobsInv'
<1> DEFINE new == [job |-> j, ready |-> {}]
<1>1. /\ ReadRest(j, "question") /\ loops' = Append(loops, new)
      /\ UNCHANGED <<opt, down, tasks, chans, shown, jobsBox, aborted>>
  BY DEF ServeQuestion
<1>2. /\ job'[j].got = 2 /\ job'[j].asks = "question" /\ job'[j].calls = job[j].calls
      /\ job'[j].at = job[j].at /\ job'[j].at \in {"wait", "dead"}
      /\ job[j].asks = "question" /\ down[j] = 0
      /\ \A n \in DOMAIN loops : loops[n].job # j
      /\ CallAgrees(j)' /\ reading' = NoJob
  BY <1>1, RestRead
<1>3. job' \in [Jobs -> Job] /\ \A k \in Jobs \ {j} : job'[k] = job[k]
  <2>1. PICK r \in Job : job' = [job EXCEPT ![j] = r]
    BY <1>1, RestRead
  <2> QED  BY <2>1 DEF JobsInv
<1>4. new \in Loop /\ new.job = j
  BY DEF Loop
<1> HIDE DEF new
<1>5. /\ loops' \in Seq(Loop) /\ loops' # <<>> /\ 1 \in DOMAIN loops
      /\ DOMAIN loops = 1 .. Len(loops) /\ Len(loops) \in Nat
      /\ DOMAIN loops' = 1 .. Len(loops) + 1
      /\ \A n \in DOMAIN loops : loops'[n] = loops[n]
      /\ loops'[Len(loops) + 1].job = j
  <2>1. /\ Len(loops) \in Nat /\ Len(loops) > 0 /\ DOMAIN loops = 1 .. Len(loops)
        /\ loops \in Seq(Loop)
    BY LoopTypes DEF JobsInv, Stack
  <2>2. /\ loops' \in Seq(Loop) /\ Len(loops') = Len(loops) + 1 /\ loops' # <<>>
        /\ \A n \in 1 .. Len(loops) : loops'[n] = loops[n]
        /\ loops'[Len(loops) + 1] = new
    BY <1>1, <1>4, <2>1, AppendProperties
  <2> QED  BY <1>4, <2>1, <2>2, LenProperties
<1>6. \A n \in DOMAIN loops' : n \in DOMAIN loops \/ n = Len(loops) + 1
  BY <1>5
<1>7. Stack'
  <2>1. loops'[1].job = NoJob
    BY <1>5 DEF JobsInv, Stack
  <2>2. ASSUME NEW m \in DOMAIN loops', NEW n \in DOMAIN loops', m # n
        PROVE  loops'[m].job = NoJob \/ loops'[m].job # loops'[n].job
    <3>1. CASE m \in DOMAIN loops /\ n \in DOMAIN loops
      BY <1>5, <2>2, <3>1 DEF JobsInv, Stack
    <3>2. CASE m \in DOMAIN loops /\ n = Len(loops) + 1
      BY <1>2, <1>5, <3>2
    <3>3. CASE m = Len(loops) + 1 /\ n \in DOMAIN loops
      BY <1>2, <1>5, <3>3
    <3> QED  BY <1>6, <2>2, <3>1, <3>2, <3>3
  <2> QED  BY <1>5, <2>1, <2>2 DEF Stack
<1>8. Parent'
  BY <1>1, <1>2 DEF JobsInv, Parent
<1>9. JobFits(j)'
  <2>1. Listed(j)'
    BY <1>1, <1>2 DEF JobsInv, JobFits, Listed, SaidGoodBye, Alive
  <2>2. AnswerFits(j)' /\ DialogFits(j)'
    BY <1>1, <1>2 DEF AnswerFits, DialogFits
  <2> QED  BY <1>2, <2>1, <2>2 DEF JobFits
<1>10. ASSUME NEW k \in Jobs \ {j} PROVE JobFits(k)'
  <2>1. /\ job'[k] = job[k] /\ JobFits(k)
    BY <1>3 DEF JobsInv
  <2>2. \A n \in DOMAIN loops' : loops'[n].job = k => n \in DOMAIN loops /\ loops[n].job = k
    BY <1>5, <1>6
  <2>3. CallAgrees(k)' /\ Listed(k)'
    BY <1>1, <2>1 DEF JobFits, CallAgrees, Listed, SaidGoodBye, Alive
  <2>4. AnswerFits(k)' /\ DialogFits(k)'
    BY <1>1, <2>1, <2>2 DEF JobFits, AnswerFits, DialogFits
  <2> QED  BY <2>3, <2>4 DEF JobFits
<1> QED  BY <1>3, <1>7, <1>8, <1>9, <1>10 DEF JobsInv

LEMMA AnswerKeeps == ASSUME JobsInv, Answer PROVE JobsInv'
<1> DEFINE j == Innermost.job
<1>1. /\ j # NoJob /\ down' = [down EXCEPT ![j] = job[j].calls] /\ loops' = Outer(loops)
      /\ UNCHANGED <<opt, job, tasks, chans, reading, shown, jobsBox, aborted>>
  BY DEF Answer
<1>2. /\ Len(loops) \in Nat /\ Len(loops) > 0 /\ DOMAIN loops = 1 .. Len(loops)
      /\ j \in Jobs /\ loops[Len(loops)].job = j /\ loops \in Seq(Loop)
  BY <1>1, LoopTypes DEF JobsInv, Innermost, Stack
<1> HIDE DEF j
<1>3. Len(loops) > 1
  BY <1>1, <1>2 DEF JobsInv, Stack
<1>4. /\ loops' \in Seq(Loop) /\ loops' # <<>> /\ DOMAIN loops' = 1 .. Len(loops) - 1
      /\ \A n \in 1 .. Len(loops) - 1 : loops'[n] = loops[n]
  BY <1>1, <1>2, <1>3, OuterKeeps
<1>5. \A n \in DOMAIN loops' : n \in DOMAIN loops /\ n # Len(loops) /\ loops'[n] = loops[n]
  BY <1>2, <1>4
<1>6. Stack'
  <2>1. loops'[1].job = NoJob
    BY <1>2, <1>3, <1>4 DEF JobsInv, Stack
  <2> QED  BY <1>4, <1>5, <2>1 DEF JobsInv, Stack
<1>7. \A n \in DOMAIN loops' : loops'[n].job # j
  BY <1>1, <1>2, <1>5 DEF JobsInv, Stack
<1>8. /\ down \in [Jobs -> 0 .. MaxCalls + 1] /\ job[j].calls \in 0 .. MaxCalls + 1
  BY <1>2, Types DEF JobsInv, Parent
<1>9. Parent' /\ job' \in [Jobs -> Job]
  BY <1>1, <1>8 DEF JobsInv, Parent
<1>10. ASSUME NEW k \in Jobs PROVE JobFits(k)'
  <2>1. CallAgrees(k)' /\ Listed(k)'
    BY <1>1 DEF JobsInv, JobFits, CallAgrees, Listed, SaidGoodBye, Alive
  <2>2. DialogFits(k)'
    BY <1>1, <1>5 DEF JobsInv, JobFits, DialogFits
  <2>3. AnswerFits(k)'
    <3>1. CASE k = j
      <4>1. job[j].got = 2 /\ job[j].at \in {"wait", "dead"}
        BY <1>2 DEF JobsInv, JobFits, DialogFits
      <4> QED  BY <1>1, <1>2, <1>7, <1>8, <3>1, <4>1 DEF AnswerFits
    <3>2. CASE k # j
      <4>1. down'[k] = down[k]
        BY <1>1, <1>8, <3>2
      <4> QED  BY <1>1, <1>5, <4>1 DEF JobsInv, JobFits, AnswerFits
    <3> QED  BY <3>1, <3>2
  <2> QED  BY <2>1, <2>2, <2>3 DEF JobFits
<1> QED  BY <1>6, <1>9, <1>10 DEF JobsInv

(***************************************************************************)
(* Steps that leave all but the jobs dialog, and stuttering.               *)
(***************************************************************************)
LEMMA SameKeeps ==
  ASSUME JobsInv, UNCHANGED <<opt, job, down, tasks, chans, loops, reading, aborted>>,
         shown' \subseteq Jobs, jobsBox' \in BOOLEAN
  PROVE  JobsInv'
<1>1. Parent' /\ Stack' /\ job' \in [Jobs -> Job]
  BY DEF JobsInv, Parent, Stack
<1>2. ASSUME NEW j \in Jobs PROVE JobFits(j)'
  BY DEF JobsInv, JobFits, CallAgrees, Listed, SaidGoodBye, Alive, AnswerFits, DialogFits
<1> QED  BY <1>1, <1>2 DEF JobsInv

LEMMA InvNext == JobsInv /\ [Next]_vars => JobsInv'
<1> SUFFICES ASSUME JobsInv, [Next]_vars PROVE JobsInv'
  OBVIOUS
<1>1. CASE Select
  BY <1>1, SelectKeeps
<1>2. CASE Answer
  BY <1>2, AnswerKeeps
<1>3. CASE OpenJobs \/ CloseJobs
  <2>1. /\ UNCHANGED <<opt, job, down, tasks, chans, loops, reading, aborted>>
        /\ shown' \subseteq Jobs /\ jobsBox' \in BOOLEAN
    BY <1>3 DEF OpenJobs, CloseJobs, JobsInv, Parent
  <2> QED  BY <2>1, SameKeeps
<1>4. CASE UNCHANGED vars
  <2>1. shown' \subseteq Jobs /\ jobsBox' \in BOOLEAN
    BY <1>4 DEF vars, JobsInv, Parent
  <2> QED  BY <1>4, <2>1, SameKeeps DEF vars
<1>5. ASSUME NEW j \in Jobs, JobRuns(j) \/ Die(j) \/ Serve(j) PROVE JobsInv'
  <2>1. CASE CallHeader(j)
    BY <2>1, CallHeaderKeeps
  <2>2. CASE CallRest(j)
    BY <2>2, CallRestKeeps
  <2>3. CASE CallReturn(j)
    BY <2>3, CallReturnKeeps
  <2>4. CASE Die(j)
    BY <2>4, DieKeeps
  <2>5. CASE Attend(j)
    BY <2>5, AttendKeeps
  <2>6. CASE ReadHeader(j)
    BY <2>6, ReadHeaderKeeps
  <2>7. CASE ServeQuestion(j)
    BY <2>7, ServeQuestionKeeps
  <2>8. CASE ServePassword(j)
    BY <2>8, ServePasswordKeeps
  <2>9. CASE ServeEnd(j)
    BY <2>9, ServeEndKeeps
  <2> QED
    BY <1>5, <2>1, <2>2, <2>3, <2>4, <2>5, <2>6, <2>7, <2>8, <2>9 DEF JobRuns, Serve
<1>6. ASSUME NEW j \in Jobs, Start(j) \/ KillTask(j) \/ StopTask(j, TRUE) \/ StopTask(j, FALSE)
      PROVE  JobsInv'
  BY <1>6, StartKeeps, KillTaskKeeps, StopTaskKeeps
<1> QED
  BY <1>1, <1>2, <1>3, <1>4, <1>5, <1>6 DEF Next

(***************************************************************************)
(* The theorems.                                                           *)
(***************************************************************************)
LEMMA AlwaysJobsInv == Spec => []JobsInv
<1>1. Init => JobsInv
  BY InvInit
<1>2. JobsInv /\ [Next]_vars => JobsInv'
  BY InvNext
<1> QED  BY <1>1, <1>2, PTL DEF Spec

\* The types hold, the list of jobs is true, and every task in it has its channel
\* and is served by one dialog at most, however many jobs there are, whatever
\* they ask, and whoever stops or kills them (task_list, background_attention,
\* task_cb).
THEOREM TypeCorrect == Spec => []TypeOK
<1>1. JobsInv => TypeOK
  BY InvEnough
<1> QED  BY <1>1, AlwaysJobsInv, PTL

\* No job ever reads the answer to a question of another job, or to one of its
\* own that it is not waiting with, although nothing in what goes over the pipe
\* says which question it answers (background_attention, parent_call).
THEOREM RightAnswer == Spec => []AnswerIsForQuestion
<1>1. JobsInv => AnswerIsForQuestion
  BY InvEnough
<1> QED  BY <1>1, AlwaysJobsInv, PTL
=============================================================================
