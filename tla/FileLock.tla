------------------------------- MODULE FileLock -------------------------------
(***************************************************************************)
(* The advisory file lock of lib/lock.c: a symbolic link ".#name" beside   *)
(* the edited file whose target names the holder, user@host.pid.           *)
(*                                                                         *)
(* Several mc processes (editors and hex viewers) open the same file.      *)
(* lock_file and unlock_file are sequences of system calls on one shared   *)
(* directory entry; every call is a step of its own, so that the calls of  *)
(* two processes interleave the way the kernel lets them.                  *)
(***************************************************************************)
EXTENDS Naturals

CONSTANTS
  Procs,     \* the mc processes that ever open the file
  Host,      \* Host[p]: the machine p runs on (the directory may be shared)
  Pid,       \* Pid[p]: its process id there; 0 is never a process id
  NoLink     \* stands for the absence of the lock link

ASSUME LockAssumption ==
  /\ Pid \in [Procs -> Nat \ {0}]
  /\ NoLink \notin Procs

VARIABLES
  link,      \* target of the lock link: NoLink, or the process that made it
  pc,        \* pc[p]: the next system call of p inside lock.c
  locked,    \* locked[p]: edit->locked (view->locked), the value returned
  life,      \* life[p]: "unborn", "alive" or "dead"
  seen,      \* seen[p]: the link target p has read
  quiet      \* no process has gone away and no user has grabbed a lock (history)

vars == <<link, pc, locked, life, seen, quiet>>

(***************************************************************************)
(* lock_build_name gives user@host.pid; two processes with the same host   *)
(* and pid write the same name.  lock_extract_info keeps only the pid of   *)
(* the name, and kill(pid, 0) asks the local kernel about it.              *)
(***************************************************************************)
LockPid(q) == Pid[q]

\* the kernel gives a process id to one process at a time
PidsDistinct(l) ==
  \A p, q \in Procs :
    l[p] = "alive" /\ l[q] = "alive" /\ Host[p] = Host[q] /\ Pid[p] = Pid[q] => p = q

PidAlive(p, q) ==
  \E r \in Procs : life[r] = "alive" /\ Host[r] = Host[p] /\ Pid[r] = LockPid(q)

Goto(p, from, to) ==
  /\ life[p] = "alive"
  /\ pc[p] = from
  /\ pc' = [pc EXCEPT ![p] = to]

Return(p, from, result) ==
  /\ Goto(p, from, "idle")
  /\ locked' = [locked EXCEPT ![p] = result]

-----------------------------------------------------------------------------
Init ==
  /\ link = NoLink
  /\ pc = [p \in Procs |-> "idle"]
  /\ locked = [p \in Procs |-> FALSE]
  /\ life \in [Procs -> {"unborn", "alive"}]
  /\ PidsDistinct(life)
  /\ seen = [p \in Procs |-> NoLink]
  /\ quiet = TRUE

(***************************************************************************)
(* lock_file.                                                              *)
(***************************************************************************)
\* Mutant: edit_modification locks again although the buffer is locked
LockStatAgain(p) ==
  /\ Goto(p, "idle", IF link = NoLink THEN "symlink" ELSE "readlink")
  /\ UNCHANGED <<link, locked, life, seen, quiet>>

\* lstat of the link name, on the first modification of the buffer
LockStat(p) ==
  /\ ~locked[p]
  /\ Goto(p, "idle", IF link = NoLink THEN "symlink" ELSE "readlink")
  /\ UNCHANGED <<link, locked, life, seen, quiet>>

\* Mutant: the process id is kept where the holder's name belongs
LockReadPid(p) ==
  /\ link # NoLink
  /\ Goto(p, "readlink", "kill")
  /\ seen' = [seen EXCEPT ![p] = Pid[link]]
  /\ UNCHANGED <<link, locked, life, quiet>>

\* readlink; the link may have gone since the lstat: lock_file gives up
LockRead(p) ==
  \/ /\ link = NoLink
     /\ Return(p, "readlink", FALSE)
     /\ UNCHANGED <<link, life, seen, quiet>>
  \/ /\ link # NoLink
     /\ Goto(p, "readlink", "kill")
     /\ seen' = [seen EXCEPT ![p] = link]
     /\ UNCHANGED <<link, locked, life, quiet>>

\* Mutant: the result of kill is tested the wrong way round
LockKillInverted(p) ==
  /\ Goto(p, "kill", IF PidAlive(p, seen[p]) THEN "unlink" ELSE "ask")
  /\ UNCHANGED <<link, locked, life, seen, quiet>>

\* kill(pid, 0): a pid with no local process is a stale lock
LockKill(p) ==
  /\ Goto(p, "kill", IF PidAlive(p, seen[p]) THEN "ask" ELSE "unlink")
  /\ UNCHANGED <<link, locked, life, seen, quiet>>

\* the query dialog: "Grab lock" goes on, "Ignore lock" and Esc return 0
LockAskGrab(p) ==
  /\ Goto(p, "ask", "unlink")
  /\ quiet' = FALSE
  /\ UNCHANGED <<link, locked, life, seen>>

LockAskIgnore(p) ==
  /\ Return(p, "ask", FALSE)
  /\ UNCHANGED <<link, life, seen, quiet>>

LockUnlink(p) ==
  /\ Goto(p, "unlink", "symlink")
  /\ link' = NoLink
  /\ UNCHANGED <<locked, life, seen, quiet>>

\* symlink succeeds only where no link is; it may also fail on its own
LockSymlink(p) ==
  \/ /\ link = NoLink
     /\ Return(p, "symlink", TRUE)
     /\ link' = p
     /\ UNCHANGED <<life, seen, quiet>>
  \/ /\ Return(p, "symlink", FALSE)
     /\ UNCHANGED <<link, life, seen, quiet>>

(***************************************************************************)
(* unlock_file, called by the holder only (edit_save_cmd, edit_clean,      *)
(* mcview_hexedit_save_changes).  It returns 0 whatever it did.            *)
(***************************************************************************)
UnlockStat(p) ==
  /\ locked[p]
  /\ \/ /\ link = NoLink
        /\ Return(p, "idle", FALSE)
     \/ /\ link # NoLink
        /\ Goto(p, "idle", "un_readlink")
        /\ UNCHANGED locked
  /\ UNCHANGED <<link, life, seen, quiet>>

\* "Don't touch if lock is not ours"; an unreadable link is removed
UnlockRead(p) ==
  /\ IF link # NoLink /\ LockPid(link) # Pid[p]
     THEN Return(p, "un_readlink", FALSE)
     ELSE Goto(p, "un_readlink", "un_unlink") /\ UNCHANGED locked
  /\ UNCHANGED <<link, life, seen, quiet>>

UnlockUnlink(p) ==
  /\ Return(p, "un_unlink", FALSE)
  /\ link' = NoLink
  /\ UNCHANGED <<life, seen, quiet>>

(***************************************************************************)
(* A process exits, or is killed between two system calls: then its link   *)
(* stays.  One started later may be given the process id of a dead one.    *)
(***************************************************************************)
Die(p) ==
  /\ life[p] = "alive"
  /\ life' = [life EXCEPT ![p] = "dead"]
  /\ pc' = [pc EXCEPT ![p] = "idle"]
  /\ locked' = [locked EXCEPT ![p] = FALSE]
  /\ quiet' = FALSE
  /\ UNCHANGED <<link, seen>>

Start(p) ==
  /\ life[p] = "unborn"
  /\ life' = [life EXCEPT ![p] = "alive"]
  /\ PidsDistinct(life')
  /\ UNCHANGED <<link, pc, locked, seen, quiet>>

-----------------------------------------------------------------------------
LockStep(p) ==
  \/ LockRead(p) \/ LockKill(p) \/ LockAskIgnore(p)
  \/ LockUnlink(p) \/ LockSymlink(p)

UnlockStep(p) == UnlockStat(p) \/ UnlockRead(p) \/ UnlockUnlink(p)

Next ==
  \E p \in Procs :
    \/ LockStat(p) \/ LockAskGrab(p) \/ LockStep(p)
    \/ UnlockStep(p)
    \/ Die(p) \/ Start(p)

Spec == Init /\ [][Next]_vars

-----------------------------------------------------------------------------
PCs == {"idle", "readlink", "kill", "ask", "unlink", "symlink",
        "un_readlink", "un_unlink"}

TypeOK ==
  /\ link \in Procs \cup {NoLink}
  /\ pc \in [Procs -> PCs]
  /\ locked \in [Procs -> BOOLEAN]
  /\ life \in [Procs -> {"unborn", "alive", "dead"}]
  /\ seen \in [Procs -> Procs \cup {NoLink}]
  /\ quiet \in BOOLEAN

\* Nothing has happened that lock.c does not claim to handle: the processes share
\* one machine, none went away, no user took a lock from its holder.
Quiet == quiet /\ \A p, q \in Procs : Host[p] = Host[q]

\* While all is quiet at most one process believes it holds the lock: lock_file
\* has not returned 1 to two editors that both go on to write.
MutualExclusion ==
  Quiet => \A p, q \in Procs : locked[p] /\ locked[q] => p = q

\* While all is quiet the holder's own link stays in the directory, so that
\* every other editor is warned.
HolderIsNamed ==
  Quiet => \A p \in Procs : locked[p] => link = p

\* A link in the directory names a process that holds the lock or one that
\* died: whatever users grab or ignore and however the calls interleave, an
\* editor that gives the lock up, or fails to get it, leaves no link that
\* would make the others ask about a lock nobody holds.
NoOrphanLink ==
  link # NoLink => locked[link] \/ life[link] = "dead"
=============================================================================
