----------------------------- MODULE FileLockProofs -----------------------------
(***************************************************************************)
(* What the lock of lib/lock.c guarantees, for any number of processes.    *)
(*                                                                         *)
(*   TypeCorrect     the variables keep their types                        *)
(*   NoOrphan        no link without a holder, whatever happens            *)
(*   Exclusive       at most one holder, its link in place, as long as no  *)
(*                   process goes away and no user grabs a lock            *)
(***************************************************************************)
EXTENDS FileLock, TLAPS

LockPCs == {"readlink", "kill", "ask", "unlink", "symlink"}
UnlockPCs == {"un_readlink", "un_unlink"}

(***************************************************************************)
(* Type correctness.                                                       *)
(***************************************************************************)
LEMMA TypeInit == Init => TypeOK
  BY DEF Init, TypeOK, PCs

LEMMA TypeStep == TypeOK /\ [Next]_vars => TypeOK'
<1> SUFFICES ASSUME TypeOK, [Next]_vars PROVE TypeOK'
  OBVIOUS
<1> USE DEF TypeOK, PCs, Goto, Return
<1>1. CASE UNCHANGED vars
  BY <1>1 DEF vars
<1>2. ASSUME NEW p \in Procs, LockStat(p) PROVE TypeOK'
  BY <1>2 DEF LockStat
<1>3. ASSUME NEW p \in Procs, LockRead(p) PROVE TypeOK'
  BY <1>3 DEF LockRead
<1>4. ASSUME NEW p \in Procs, LockKill(p) PROVE TypeOK'
  BY <1>4 DEF LockKill
<1>5. ASSUME NEW p \in Procs, LockAskGrab(p) \/ LockAskIgnore(p) PROVE TypeOK'
  BY <1>5 DEF LockAskGrab, LockAskIgnore
<1>6. ASSUME NEW p \in Procs, LockUnlink(p) PROVE TypeOK'
  BY <1>6 DEF LockUnlink
<1>7. ASSUME NEW p \in Procs, LockSymlink(p) PROVE TypeOK'
  BY <1>7 DEF LockSymlink
<1>8. ASSUME NEW p \in Procs, UnlockStat(p) PROVE TypeOK'
  BY <1>8 DEF UnlockStat
<1>9. ASSUME NEW p \in Procs, UnlockRead(p) PROVE TypeOK'
  BY <1>9 DEF UnlockRead
<1>10. ASSUME NEW p \in Procs, UnlockUnlink(p) PROVE TypeOK'
  BY <1>10 DEF UnlockUnlink
<1>11. ASSUME NEW p \in Procs, Die(p) \/ Start(p) PROVE TypeOK'
  BY <1>11 DEF Die, Start
<1> QED
  BY <1>1, <1>2, <1>3, <1>4, <1>5, <1>6, <1>7, <1>8, <1>9, <1>10, <1>11
  DEF Next, LockStep, UnlockStep

\* Every variable keeps its type: lock.c is always at one of its calls, and
\* the link, if it is there, names one of the processes.
THEOREM TypeCorrect == Spec => []TypeOK
<1> QED
  BY TypeInit, TypeStep, PTL DEF Spec

(***************************************************************************)
(* A link names a holder or a dead process.  The strengthening: a process  *)
(* inside lock_file does not hold the lock, one inside unlock_file does.   *)
(***************************************************************************)
PcAgrees ==
  \A p \in Procs :
    /\ pc[p] \in LockPCs => ~locked[p]
    /\ pc[p] \in UnlockPCs => locked[p]

OrphanInv == TypeOK /\ PcAgrees /\ NoOrphanLink

LEMMA OrphanInit == Init => OrphanInv
  BY TypeInit DEF Init, OrphanInv, PcAgrees, NoOrphanLink, LockPCs, UnlockPCs

LEMMA OrphanStep == OrphanInv /\ [Next]_vars => OrphanInv'
<1> SUFFICES ASSUME OrphanInv, [Next]_vars PROVE OrphanInv'
  OBVIOUS
<1>0. TypeOK'
  BY TypeStep DEF OrphanInv
<1> USE DEF OrphanInv, TypeOK, PcAgrees, NoOrphanLink, LockPCs, UnlockPCs, Goto, Return
<1>1. CASE UNCHANGED vars
  BY <1>0, <1>1 DEF vars
<1>2. ASSUME NEW p \in Procs, LockStat(p) PROVE OrphanInv'
  BY <1>0, <1>2 DEF LockStat
<1>3. ASSUME NEW p \in Procs, LockRead(p) PROVE OrphanInv'
  BY <1>0, <1>3 DEF LockRead
<1>4. ASSUME NEW p \in Procs, LockKill(p) PROVE OrphanInv'
  BY <1>0, <1>4 DEF LockKill
<1>5. ASSUME NEW p \in Procs, LockAskGrab(p) \/ LockAskIgnore(p) PROVE OrphanInv'
  BY <1>0, <1>5 DEF LockAskGrab, LockAskIgnore
<1>6. ASSUME NEW p \in Procs, LockUnlink(p) PROVE OrphanInv'
  BY <1>0, <1>6 DEF LockUnlink
<1>7. ASSUME NEW p \in Procs, LockSymlink(p) PROVE OrphanInv'
  BY <1>0, <1>7 DEF LockSymlink
<1>8. ASSUME NEW p \in Procs, UnlockStat(p) PROVE OrphanInv'
  BY <1>0, <1>8 DEF UnlockStat
<1>9. ASSUME NEW p \in Procs, UnlockRead(p) PROVE OrphanInv'
  BY <1>0, <1>9 DEF UnlockRead, LockPid
<1>10. ASSUME NEW p \in Procs, UnlockUnlink(p) PROVE OrphanInv'
  BY <1>0, <1>10 DEF UnlockUnlink
<1>11. ASSUME NEW p \in Procs, Die(p) PROVE OrphanInv'
  BY <1>0, <1>11 DEF Die
<1>12. ASSUME NEW p \in Procs, Start(p) PROVE OrphanInv'
  BY <1>0, <1>12 DEF Start
<1> QED
  BY <1>1, <1>2, <1>3, <1>4, <1>5, <1>6, <1>7, <1>8, <1>9, <1>10, <1>11, <1>12
  DEF Next, LockStep, UnlockStep

\* Whatever dies, whatever users grab: a link left in the directory belongs to
\* a holder or to a dead process, so no editor is asked about a lock that its
\* live owner gave up.
THEOREM NoOrphan == Spec => []NoOrphanLink
<1>1. OrphanInv => NoOrphanLink
  BY DEF OrphanInv
<1> QED
  BY <1>1, OrphanInit, OrphanStep, PTL DEF Spec

(***************************************************************************)
(* Mutual exclusion.  While all is quiet the stale test never succeeds:    *)
(* every link names a live process of this machine, a process that has     *)
(* read a link has read such a name, and so nobody reaches the unlink.     *)
(***************************************************************************)
NamesAlive ==
  /\ link # NoLink => life[link] = "alive"
  /\ \A p \in Procs :
       /\ pc[p] # "unlink"
       /\ pc[p] = "kill" => seen[p] \in Procs /\ life[seen[p]] = "alive"

ExclusiveInv == OrphanInv /\ (Quiet => HolderIsNamed /\ NamesAlive)

LEMMA ExclusiveInit == Init => ExclusiveInv
  BY OrphanInit DEF Init, ExclusiveInv, HolderIsNamed, NamesAlive

LEMMA ExclusiveStep == ExclusiveInv /\ [Next]_vars => ExclusiveInv'
<1> SUFFICES ASSUME ExclusiveInv, [Next]_vars PROVE ExclusiveInv'
  OBVIOUS
<1>0. OrphanInv' /\ TypeOK'
  BY OrphanStep DEF ExclusiveInv, OrphanInv
<1>a. TypeOK /\ PcAgrees
  BY DEF ExclusiveInv, OrphanInv
<1>b. NoLink \notin Procs
  BY LockAssumption
<1>c. quiet' => quiet
  BY <1>a DEF Next, vars, LockStep, UnlockStep, LockStat, LockRead, LockKill, LockAskGrab,
     LockAskIgnore, LockUnlink, LockSymlink, UnlockStat, UnlockRead, UnlockUnlink, Die, Start
<1>d. SUFFICES ASSUME Quiet' PROVE (HolderIsNamed /\ NamesAlive)'
  BY <1>0 DEF ExclusiveInv
<1>e. Quiet /\ HolderIsNamed /\ NamesAlive
  BY <1>c, <1>d DEF Quiet, ExclusiveInv
<1>f. \A p \in Procs : locked[p] => link = p
  BY <1>e DEF HolderIsNamed
<1>g. SUFFICES (\A p \in Procs : locked[p] => link = p)' /\ NamesAlive'
  BY DEF HolderIsNamed
<1> USE <1>a, <1>b, <1>e, <1>f DEF TypeOK, PcAgrees, NamesAlive, LockPCs, UnlockPCs, Goto, Return
<1> DEFINE Goal == (\A p \in Procs : locked[p] => link = p)' /\ NamesAlive'
<1>1. CASE UNCHANGED vars
  BY <1>1 DEF vars
<1>2. ASSUME NEW p \in Procs, LockStat(p) PROVE Goal
  BY <1>2 DEF LockStat
<1>3. ASSUME NEW p \in Procs, LockRead(p) PROVE Goal
  BY <1>3 DEF LockRead
<1>4. ASSUME NEW p \in Procs, LockKill(p) PROVE Goal
  <2>1. pc[p] = "kill" /\ seen[p] \in Procs /\ life[seen[p]] = "alive"
    BY <1>4 DEF LockKill
  <2>2. PidAlive(p, seen[p])
    BY <2>1 DEF PidAlive, LockPid, Quiet
  <2>3. pc' = [pc EXCEPT ![p] = "ask"]
    BY <1>4, <2>2 DEF LockKill
  <2> QED
    BY <1>4, <2>3 DEF LockKill
<1>5. ASSUME NEW p \in Procs, LockAskIgnore(p) PROVE Goal
  BY <1>5 DEF LockAskIgnore
<1>6. ASSUME NEW p \in Procs, LockSymlink(p) PROVE Goal
  <2>1. pc[p] = "symlink" /\ life[p] = "alive"
    BY <1>6 DEF LockSymlink
  <2> QED
    BY <1>6, <2>1 DEF LockSymlink
<1>7. ASSUME NEW p \in Procs, UnlockStat(p) PROVE Goal
  BY <1>7 DEF UnlockStat
<1>8. ASSUME NEW p \in Procs, UnlockRead(p) PROVE Goal
  BY <1>8 DEF UnlockRead, LockPid
<1>9. ASSUME NEW p \in Procs, UnlockUnlink(p) PROVE Goal
  BY <1>9 DEF UnlockUnlink
<1>10. ASSUME NEW p \in Procs, Start(p) PROVE Goal
  BY <1>10 DEF Start
<1>11. ASSUME NEW p \in Procs PROVE ~LockAskGrab(p) /\ ~LockUnlink(p) /\ ~Die(p)
  BY <1>d DEF Quiet, LockAskGrab, LockUnlink, Die
<1> QED
  BY <1>1, <1>2, <1>3, <1>4, <1>5, <1>6, <1>7, <1>8, <1>9, <1>10, <1>11
  DEF Next, LockStep, UnlockStep

\* On one machine, while no process goes away and no user grabs a lock, at most
\* one editor believes it holds the lock and its link stays where the others
\* see it, for any number of editors and any interleaving of their calls.
THEOREM Exclusive == Spec => [](MutualExclusion /\ HolderIsNamed)
<1>1. ExclusiveInv => MutualExclusion /\ HolderIsNamed
  BY DEF ExclusiveInv, HolderIsNamed, MutualExclusion
<1> QED
  BY <1>1, ExclusiveInit, ExclusiveStep, PTL DEF Spec
=============================================================================
