-------------------------- MODULE EditSessionProofs --------------------------
(***************************************************************************)
(* What the editors of one file guarantee in every save mode, for any      *)
(* number of sessions, changes, writes and failures.                       *)
(*                                                                         *)
(*   TypeCorrect           the types                                       *)
(*   ModifiedLocked        who has changes holds the lock                  *)
(*   TextKept              a failed save or a killed editor leaves a whole *)
(*                         text where the save mode says                   *)
(*   ReportsTrue           what a save reports is so                       *)
(*   AsksBeforeOverwriting a save replaces what the user agreed to         *)
(*   KeepsText             leaving the only editor deletes no text         *)
(*                                                                         *)
(* All follow from one inductive invariant, SessionInv.  Its parts are     *)
(* stated per session; a step of one session is first reduced to what it   *)
(* does to the fields of that session and to the directory (the lemmas     *)
(* ...Is, Moves), and leaves the records of the others alone (Others).     *)
(***************************************************************************)
EXTENDS EditSession, TLAPS

StepOf(s) ==
  Open(s) \/ Modify(s) \/ Quit(s) \/ Die(s) \/ SaveCmd(s) \/ SaveStep(s)

(***************************************************************************)
(* Where a save stands.                                                    *)
(***************************************************************************)
BeforeTemp == {"idle", "mode", "check", "ask_links", "ask_mtime", "temp", "clean"}
Writing == {"write", "stat", "backup", "rename"}
Saving(s) == save[s].pc \notin {"idle", "clean"}
Quick(s) == save[s].mode = "quick"
By(s) == file # NoFile /\ file.by = s
Good(f) == f # NoFile /\ f.whole

\* What every step keeps: a closed editor does nothing, only those asked for are
\* opened, a save has its temporary and its answers at the points where it needs them.
ShapeOf(s) ==
  /\ ~ed[s].open => ed[s] = Closed /\ save[s] = Idle
  /\ ed[s].open => s \in opt.who
  /\ save[s].pc = "idle" => save[s] = Idle
  /\ save[s].pc \in BeforeTemp => temp[s] = NoFile
  /\ Quick(s) => temp[s] = NoFile
  /\ ~Quick(s) /\ save[s].pc \in Writing \cup {"open"} => temp[s] # NoFile
  /\ ~Quick(s) /\ save[s].pc \in Writing => save[s].fd = temp[s].ino
  /\ save[s].pc = "ask_links" => Quick(s)
  /\ save[s].pc = "temp" => ~Quick(s)
  /\ save[s].pc \in {"mode", "check", "ask_links", "ask_mtime", "temp", "open", "write",
                     "backup", "rename"} => save[s].res = "none"
  /\ save[s].pc = "stat" => save[s].res \in {"none", "error"}
  /\ save[s].pc \notin {"idle", "mode"} /\ ~save[s].detach => save[s].mode \in {"quick", opt.mode}
  /\ save[s].detach => save[s].mode = "safe"
  /\ save[s].pc = "mode" => ~save[s].detach /\ ~save[s].confirmed
  /\ save[s].pc \in {"mode", "check"} => save[s].seen = 0

Shape == \A s \in Sessions : ShapeOf(s)

\* Modification times and inodes are new when they are given; a temporary is
\* reached by no other name.
FreshNames ==
  /\ file # NoFile => file.ino < stamp /\ file.mtime < stamp
  /\ backup # NoFile => backup.ino < stamp
  /\ file # NoFile /\ backup # NoFile => file.ino # backup.ino

FreshOf(s) ==
  /\ ed[s].mtime < stamp /\ save[s].seen < stamp
  /\ temp[s] # NoFile =>
       /\ temp[s].ino < stamp /\ temp[s].mtime < stamp /\ temp[s].by = s /\ ~temp[s].links
       /\ file # NoFile => file.ino # temp[s].ino
       /\ backup # NoFile => backup.ino # temp[s].ino

Apart(s, t) == temp[s] # NoFile /\ temp[t] # NoFile => temp[s].ino # temp[t].ino

Fresh ==
  /\ FreshNames
  /\ \A s \in Sessions : FreshOf(s)
  /\ \A s, t \in Sessions : s # t => Apart(s, t)

\* A temporary holds the buffer once it has been written without an error.
DraftedOf(s) ==
  ~Quick(s) /\ save[s].pc \in {"stat", "backup", "rename"} /\ save[s].res = "none" =>
    temp[s].whole /\ temp[s].text = ed[s].buf

Drafted == opt.plain => \A s \in Sessions : DraftedOf(s)

BaseInv == TypeOK /\ opt \in Options /\ Shape /\ Fresh /\ Drafted

\* As long as nobody went on without a lock, who has changes or saves holds it.
LockOf(s) ==
  /\ ed[s].locked => lock = s
  /\ save[s].save_lock => ~ed[s].locked /\ (Saving(s) => lock = s)
  /\ ed[s].modified => ed[s].locked \/ ed[s].delete_file
  /\ Saving(s) => lock = s \/ ed[s].delete_file

LockInv == ~unguarded => \A s \in Sessions : LockOf(s)

\* Safe save never truncates the file, unless it could not read it, and nobody
\* creates it anew.
SafeOf(s) == ~ed[s].delete_file /\ (save[s].pc \notin {"idle", "mode"} => save[s].mode = "safe")

SafeInv ==
  opt.mode = "safe" /\ opt.exists /\ opt.plain /\ ~direct => Good(file) /\ \A s \in Sessions : SafeOf(s)

\* With backups, one editor and at most one failure: the file is whole but while it is
\* written directly, which happens only after a failure; the backup is
\* whole when the file is not, and when it is one that leaving deletes.
CopyOf(s) ==
  /\ file # NoFile => file.whole \/ (Quick(s) /\ save[s].pc = "write")
  /\ Good(backup) \/ (Good(file) /\ ~ed[s].delete_file)
  /\ save[s].pc = "rename" /\ ~Quick(s) => Good(backup)
  /\ faults = 0 => ~ed[s].delete_file /\ (Good(file) \/ (save[s].pc = "rename" /\ ~Quick(s)))
  /\ save[s].pc \notin {"idle", "mode"} /\ Quick(s) => faults = 1
  /\ save[s].pc \in {"check", "open"} /\ Quick(s) => file = NoFile
  /\ save[s].pc \notin {"ask_links", "ask_mtime"} /\ ~save[s].detach
  /\ save[s].pc = "write" /\ Quick(s) =>
       file # NoFile /\ file.ino = save[s].fd /\ file.by = s /\ ~save[s].shared /\ Good(backup)

CopyInv ==
  opt.mode = "backup" /\ opt.exists /\ opt.plain /\ faults <= 1 /\ ~direct =>
    \A s \in Sessions : opt.who = {s} => CopyOf(s)

\* The session that wrote the file last either still writes it, or has put its
\* whole buffer there, unless another session had it open, too.
WrittenOf(s) ==
  By(s) =>
    /\ Quick(s) /\ save[s].pc \in Writing => file.ino = save[s].fd
    /\ /\ ~save[s].shared
       /\ \/ Quick(s) /\ save[s].pc \in {"stat", "backup", "rename"} /\ save[s].res = "none"
          \/ save[s].pc = "done" /\ save[s].res = "ok"
       => file.whole /\ file.text = ed[s].buf

WrittenInv == opt.plain => \A s \in Sessions : WrittenOf(s)

\* Without failures, the session that wrote the file last knows its time, but while
\* it writes it or is about to put another in its place.
KnownOf(s) ==
  /\ save[s].res = "error" => ~By(s)
  /\ ~Quick(s) /\ save[s].pc \in {"backup", "rename"} => ed[s].mtime = temp[s].mtime
  /\ By(s) /\ ed[s].open =>
       /\ \/ save[s].pc \in {"write", "stat"}
          \/ ~Quick(s) /\ save[s].pc \in {"backup", "rename"}
          \/ ed[s].mtime = file.mtime
       /\ save[s].pc = "ask_links" => save[s].seen = file.mtime
       /\ save[s].pc # "ask_mtime"

KnownInv == opt.plain /\ faults = 0 => \A s \in Sessions : KnownOf(s)

\* Quick saves of a file with one name: as long as nobody went on without a lock, who
\* has the time of the file has its text, and so has who has looked at the file and is
\* about to write unasked.
QuickOf(s) ==
  /\ Quick(s) /\ ~ed[s].delete_file /\ ~ed[s].skip_detach /\ save[s].pc # "ask_links"
  /\ ~unguarded /\ ed[s].open =>
       /\ ed[s].mtime = file.mtime => file.text \subseteq ed[s].buf
       /\ save[s].pc = "open" /\ ~save[s].confirmed /\ save[s].seen # 0 => file.text \subseteq ed[s].buf
       /\ save[s].pc \in {"write", "stat"} => file.text \subseteq ed[s].buf

QuickInv ==
  opt.mode = "quick" /\ ~opt.linked /\ opt.exists =>
    file # NoFile /\ ~file.links /\ \A s \in Sessions : QuickOf(s)

\* The only editor is to delete the file: it has created it, and what has got there is
\* the remains of a save of changes that are still unsaved.
DeleteOf(s) ==
  ed[s].delete_file =>
    /\ file # NoFile => file.by = s /\ (file.text = {} \/ ed[s].modified)
    /\ ~ed[s].modified => ed[s].buf = {} /\ (temp[s] # NoFile => temp[s].text = {})

DeleteInv == \A s \in Sessions : opt.who = {s} => DeleteOf(s)

SessionInv ==
  BaseInv /\ LockInv /\ SafeInv /\ CopyInv /\ WrittenInv /\ KnownInv /\ QuickInv /\ DeleteInv

(***************************************************************************)
(* The types.                                                              *)
(***************************************************************************)
Results == {"none", "ok", "error", "abort"}

SaveRec ==
  [pc : PCs, quitting : BOOLEAN, mode : Modes, save_lock : BOOLEAN,
   seen : 0 .. MaxStamp, fd : 0 .. MaxStamp, shared : BOOLEAN, confirmed : BOOLEAN, detach : BOOLEAN,
   res : Results]

EdRec ==
  [open : BOOLEAN, modified : BOOLEAN, locked : BOOLEAN, delete_file : BOOLEAN,
   skip_detach : BOOLEAN, mtime : 0 .. MaxStamp, buf : SUBSET Changes]

Disk ==
  /\ file \in File \cup {NoFile} /\ backup \in File \cup {NoFile}
  /\ temp \in [Sessions -> File \cup {NoFile}]

Counts ==
  /\ lock \in Sessions \cup {Nobody, Stale} /\ unguarded \in BOOLEAN /\ direct \in BOOLEAN
  /\ stamp \in 2 .. MaxStamp + 1 /\ faults \in 0 .. MaxFaults
  /\ made \in [Sessions -> 0 .. MaxChanges]

\* The type invariant by parts, so that the provers need not look into the records.
LEMMA Parts ==
  TypeOK <=> Disk /\ Counts /\ ed \in [Sessions -> EdRec] /\ save \in [Sessions -> SaveRec]
  BY DEF TypeOK, Disk, Counts, EdRec, SaveRec, Results

\* The same after a step.
LEMMA PartsNext ==
  TypeOK' <=> Disk' /\ Counts' /\ ed' \in [Sessions -> EdRec] /\ save' \in [Sessions -> SaveRec]
  BY DEF TypeOK, Disk, Counts, EdRec, SaveRec, Results

\* What the assumption says of the numbers and of the model values.
LEMMA Bounds ==
  /\ MaxFaults \in Nat /\ MaxChanges \in Nat /\ MaxStamp \in Nat /\ MaxStamp >= 1
  /\ NoFile \notin File /\ Nobody \notin Sessions /\ Stale \notin Sessions /\ Nobody # Stale
<1>1. {MaxFaults, MaxChanges} \subseteq Nat /\ MaxStamp \in Nat \ {0}
  BY SessionAssumption
<1>2. MaxFaults \in Nat /\ MaxChanges \in Nat /\ MaxStamp \in Nat /\ MaxStamp >= 1
  BY <1>1
<1> QED  BY <1>2, SessionAssumption

\* The records of an editor that is closed and of a save that does not run.
LEMMA Nothing == Closed \in EdRec /\ Idle \in SaveRec
<1>1. 0 \in 0 .. MaxStamp
  BY Bounds
<1> QED  BY <1>1 DEF Closed, Idle, EdRec, SaveRec, PCs, Modes, Results

\* Setting fields of the record of a save and of an editor (SetPc to SetSkip).
LEMMA SetPc == ASSUME NEW r \in SaveRec, NEW p \in PCs PROVE [r EXCEPT !.pc = p] \in SaveRec
  BY DEF SaveRec

LEMMA SetRes ==
  ASSUME NEW r \in SaveRec, NEW p \in PCs, NEW x \in Results
  PROVE  [r EXCEPT !.pc = p, !.res = x] \in SaveRec
  BY DEF SaveRec

LEMMA SetMode ==
  ASSUME NEW r \in SaveRec, NEW p \in PCs, NEW m \in Modes
  PROVE  [r EXCEPT !.pc = p, !.mode = m] \in SaveRec
  BY DEF SaveRec

LEMMA SetDetach ==
  ASSUME NEW r \in SaveRec, NEW p \in PCs
  PROVE  [r EXCEPT !.mode = "safe", !.detach = TRUE, !.pc = p] \in SaveRec
  BY DEF SaveRec, Modes

LEMMA SetSeen ==
  ASSUME NEW r \in SaveRec, NEW p \in PCs, NEW n \in 0 .. MaxStamp
  PROVE  [r EXCEPT !.seen = n, !.pc = p] \in SaveRec
  BY DEF SaveRec

LEMMA SetConfirmed ==
  ASSUME NEW r \in SaveRec, NEW p \in PCs
  PROVE  [r EXCEPT !.confirmed = TRUE, !.pc = p] \in SaveRec
  BY DEF SaveRec

LEMMA SetFd ==
  ASSUME NEW r \in SaveRec, NEW p \in PCs, NEW n \in 0 .. MaxStamp, NEW b \in BOOLEAN
  PROVE  /\ [r EXCEPT !.pc = p, !.fd = n] \in SaveRec
         /\ [r EXCEPT !.pc = p, !.fd = n, !.shared = b] \in SaveRec
  BY DEF SaveRec

LEMMA SetShared ==
  ASSUME NEW r \in SaveRec, NEW p \in PCs, NEW b \in BOOLEAN
  PROVE  [r EXCEPT !.pc = p, !.shared = b] \in SaveRec
  BY DEF SaveRec

LEMMA SetStart ==
  ASSUME NEW q \in BOOLEAN, NEW got \in BOOLEAN
  PROVE  [Idle EXCEPT !.pc = "mode", !.quitting = q, !.save_lock = got] \in SaveRec
  BY Nothing DEF SaveRec, PCs

LEMMA SetOpen ==
  ASSUME NEW n \in 0 .. MaxStamp, NEW x \in SUBSET Changes
  PROVE  /\ [Closed EXCEPT !.open = TRUE, !.mtime = n, !.buf = x] \in EdRec
         /\ [Closed EXCEPT !.open = TRUE, !.mtime = n, !.delete_file = TRUE] \in EdRec
  BY Nothing DEF EdRec

LEMMA SetModified ==
  ASSUME NEW r \in EdRec, NEW b \in BOOLEAN, NEW x \in SUBSET Changes
  PROVE  [r EXCEPT !.modified = TRUE, !.locked = b, !.buf = x] \in EdRec
  BY DEF EdRec

LEMMA SetSaved ==
  ASSUME NEW r \in EdRec, NEW b \in BOOLEAN, NEW c \in BOOLEAN, NEW d \in BOOLEAN
  PROVE  [r EXCEPT !.locked = b, !.modified = c, !.delete_file = d] \in EdRec
  BY DEF EdRec

LEMMA SetMtime ==
  ASSUME NEW r \in EdRec, NEW n \in 0 .. MaxStamp PROVE [r EXCEPT !.mtime = n] \in EdRec
  BY DEF EdRec

LEMMA SetSkip ==
  ASSUME NEW r \in EdRec PROVE [r EXCEPT !.skip_detach = TRUE] \in EdRec
  BY DEF EdRec

\* Entries created and written.
LEMMA Entries ==
  ASSUME NEW s \in Sessions, stamp \in 1 .. MaxStamp, NEW x \in SUBSET Changes, NEW w \in BOOLEAN
  PROVE  /\ Created(x, w, s) \in File
         /\ \A f \in File : Written(f, x, w, s) \in File
  BY DEF Created, Written, File

\* The numbers of a directory entry.
LEMMA Inode == ASSUME NEW f \in File PROVE f.ino \in 0 .. MaxStamp /\ f.mtime \in 0 .. MaxStamp
  BY Bounds DEF File

\* What any step may do to the counters and the lock.
LEMMA StepCounts ==
  ASSUME TypeOK, NEW s \in Sessions, StepOf(s)
  PROVE  Counts'
<1>1. Counts /\ ed \in [Sessions -> EdRec] /\ Counts
  BY Parts
<1>2. \/ stamp' = stamp
      \/ NextStamp
  BY DEF StepOf, Open, Modify, Quit, Die, SaveCmd, SaveStep, Clean, SaveChooseMode, SaveChooseWith, SaveCheck,
     SaveCheckWith, SaveAskLinks, SaveAskMtime, SaveTemp, SaveOpen, SaveWrite, WriteTo, SaveStat,
     SaveBackup, SaveRename, SaveReturn, SaveReturnWith, QuitAfterSave, disk
<1>3. \/ faults' = faults
      \/ Fault
  BY DEF StepOf, Open, Modify, Quit, Die, SaveCmd, SaveStep, Clean, SaveChooseMode, SaveChooseWith, SaveCheck,
     SaveCheckWith, SaveAskLinks, SaveAskMtime, SaveTemp, SaveOpen, SaveWrite, WriteTo, SaveStat,
     SaveBackup, SaveRename, SaveReturn, SaveReturnWith, QuitAfterSave, Fails
<1>4. \/ UNCHANGED <<lock, unguarded>>
      \/ \E got \in BOOLEAN : LockFile(s, got)
      \/ lock' \in {lock, Nobody, Stale} /\ UNCHANGED unguarded
  BY DEF StepOf, Open, Modify, Quit, Die, SaveCmd, SaveStep, Clean, SaveChooseMode, SaveChooseWith, SaveCheck,
     SaveCheckWith, SaveAskLinks, SaveAskMtime, SaveTemp, SaveOpen, SaveWrite, WriteTo, SaveStat,
     SaveBackup, SaveRename, SaveReturn, SaveReturnWith, QuitAfterSave, Unlock
<1>d. direct' = direct \/ direct' = TRUE
  BY DEF StepOf, Open, Modify, Quit, Die, SaveCmd, SaveStep, Clean, SaveChooseMode, SaveChooseWith,
     SaveCheck, SaveCheckWith, SaveAskLinks, SaveAskMtime, SaveTemp, SaveOpen, SaveWrite, SaveStat,
     SaveBackup, SaveRename, SaveReturn, SaveReturnWith, QuitAfterSave
<1>5. \/ made' = made
      \/ made[s] < MaxChanges /\ made' = [made EXCEPT ![s] = @ + 1]
  BY DEF StepOf, Open, Modify, Quit, Die, SaveCmd, SaveStep, Clean, SaveChooseMode, SaveChooseWith, SaveCheck,
     SaveCheckWith, SaveAskLinks, SaveAskMtime, SaveTemp, SaveOpen, SaveWrite, WriteTo, SaveStat,
     SaveBackup, SaveRename, SaveReturn, SaveReturnWith, QuitAfterSave
<1>6. stamp' \in 2 .. MaxStamp + 1
  BY <1>1, <1>2, Bounds DEF Counts, NextStamp
<1>7. faults' \in 0 .. MaxFaults
  BY <1>1, <1>3, Bounds DEF Counts, Fault
<1>8. lock' \in Sessions \cup {Nobody, Stale} /\ unguarded' \in BOOLEAN /\ direct' \in BOOLEAN
  BY <1>1, <1>4, <1>d DEF Counts, LockFile
<1>9. made' \in [Sessions -> 0 .. MaxChanges]
  <2>1. made \in [Sessions -> 0 .. MaxChanges]
    BY <1>1 DEF Counts
  <2>2. CASE made[s] < MaxChanges /\ made' = [made EXCEPT ![s] = @ + 1]
    <3>1. made[s] + 1 \in 0 .. MaxChanges
      BY <2>1, <2>2, Bounds
    <3> QED  BY <2>1, <2>2, <3>1
  <2> QED  BY <1>5, <2>1, <2>2
<1> QED  BY <1>6, <1>7, <1>8, <1>9 DEF Counts

\* What steps do to the record of the save.
LEMMA StepSave ==
  ASSUME TypeOK, Shape, opt \in Options, NEW s \in Sessions, StepOf(s)
  PROVE  \E r \in SaveRec : save' = [save EXCEPT ![s] = r]
<1>1. save \in [Sessions -> SaveRec] /\ ed \in [Sessions -> EdRec] /\ save[s] \in SaveRec
  BY Parts
<1>p. {"idle", "mode", "check", "ask_links", "ask_mtime", "temp", "open", "write", "stat",
       "backup", "rename", "done", "clean"} \subseteq PCs /\ {"ok", "error", "abort"} \subseteq Results
  BY DEF PCs, Results
<1>m. opt.mode \in Modes
  BY SessionAssumption DEF Option
<1>2. CASE Open(s) \/ Quit(s) \/ QuitAfterSave(s) \/ Die(s)
  <2>1. save' = [save EXCEPT ![s] = Idle]
    BY <1>2 DEF Open, Quit, QuitAfterSave, Die, Clean
  <2> QED  BY <2>1, Nothing
<1>3. CASE Modify(s)
  <2>1. save' = [save EXCEPT ![s] = save[s]]
    BY <1>1, <1>3 DEF Modify
  <2> QED  BY <1>1, <2>1
<1>4. CASE SaveCmd(s)
  <2>1. \E q \in BOOLEAN, got \in BOOLEAN :
          save' = [save EXCEPT ![s] = [Idle EXCEPT !.pc = "mode", !.quitting = q, !.save_lock = got]]
    BY <1>4 DEF SaveCmd
  <2> QED  BY <2>1, SetStart
<1>5. ASSUME NEW p \in PCs, Becomes(s, p) PROVE \E r \in SaveRec : save' = [save EXCEPT ![s] = r]
  <2>1. save' = [save EXCEPT ![s] = [save[s] EXCEPT !.pc = p]]
    BY <1>5, <1>1 DEF Becomes
  <2> QED  BY <1>1, <2>1, SetPc
<1>6. ASSUME NEW p \in PCs, NEW x \in Results, save' = [save EXCEPT ![s].pc = p, ![s].res = x]
      PROVE  \E r \in SaveRec : save' = [save EXCEPT ![s] = r]
  <2>1. save' = [save EXCEPT ![s] = [save[s] EXCEPT !.pc = p, !.res = x]]
    BY <1>6, <1>1
  <2> QED  BY <1>1, <2>1, SetRes
<1>7. ASSUME NEW x \in Results, Finish(s, x)
      PROVE  \E r \in SaveRec : save' = [save EXCEPT ![s] = r]
  BY <1>6, <1>7, <1>p DEF Finish
<1>8. CASE SaveReturn(s)
  <2>1. save' = [save EXCEPT ![s].pc = "clean"] \/ save' = [save EXCEPT ![s] = Idle]
    BY <1>8 DEF SaveReturn, SaveReturnWith
  <2> QED  BY <2>1, <1>5, <1>p, Nothing DEF Becomes
<1>9. CASE SaveChooseMode(s)
  <2> DEFINE n == IF file = NoFile THEN "quick" ELSE opt.mode
  <2>1. n \in Modes /\ "quick" \in Modes
    BY <1>m DEF Modes
  <2>2. \E m \in Modes : save' = [save EXCEPT ![s].pc = "check", ![s].mode = m]
    BY <1>9, <2>1 DEF SaveChooseMode, SaveChooseWith
  <2>3. \E m \in Modes : save' = [save EXCEPT ![s] = [save[s] EXCEPT !.pc = "check", !.mode = m]]
    BY <2>2, <1>1
  <2> QED  BY <1>1, <1>p, <2>3, SetMode
<1>10. CASE SaveCheck(s)
  <2>1. CASE \E p \in PCs : Becomes(s, p)
    BY <2>1, <1>5
  <2>2. CASE /\ file # NoFile
             /\ \E p \in PCs : save' = [save EXCEPT ![s].seen = file.mtime, ![s].pc = p]
    <3>1. file.mtime \in 0 .. MaxStamp
      BY <2>2, Parts, Bounds DEF Disk, File
    <3>2. \E p \in PCs : save' = [save EXCEPT ![s] = [save[s] EXCEPT !.seen = file.mtime, !.pc = p]]
      BY <2>2, <1>1
    <3> QED  BY <1>1, <3>1, <3>2, SetSeen
  <2> QED  BY <1>10, <1>p, <2>1, <2>2 DEF SaveCheck, SaveCheckWith
<1>11. CASE SaveAskLinks(s)
  <2>1. CASE \E p \in PCs : save' = [save EXCEPT ![s].mode = "safe", ![s].detach = TRUE, ![s].pc = p]
    <3>1. \E p \in PCs :
            save' = [save EXCEPT ![s] = [save[s] EXCEPT !.mode = "safe", !.detach = TRUE, !.pc = p]]
      BY <2>1, <1>1
    <3> QED  BY <1>1, <3>1, SetDetach
  <2> QED  BY <1>11, <1>p, <2>1, <1>5, <1>7 DEF SaveAskLinks
<1>12. CASE SaveAskMtime(s)
  <2>1. CASE \E p \in PCs : save' = [save EXCEPT ![s].confirmed = TRUE, ![s].pc = p]
    <3>1. \E p \in PCs : save' = [save EXCEPT ![s] = [save[s] EXCEPT !.confirmed = TRUE, !.pc = p]]
      BY <2>1, <1>1
    <3> QED  BY <1>1, <3>1, SetConfirmed
  <2> QED  BY <1>12, <1>p, <2>1, <1>7 DEF SaveAskMtime
<1>13. CASE SaveTemp(s) \/ SaveBackup(s) \/ SaveRename(s) \/ SaveStat(s)
  BY <1>13, <1>p, <1>5, <1>7 DEF SaveTemp, SaveBackup, SaveRename, SaveStat, Fails
<1>14. CASE SaveOpen(s)
  <2>1. CASE \E n \in 0 .. MaxStamp : save' = [save EXCEPT ![s].pc = "write", ![s].fd = n]
    <3>1. \E n \in 0 .. MaxStamp : save' = [save EXCEPT ![s] = [save[s] EXCEPT !.pc = "write", !.fd = n]]
      BY <2>1, <1>1
    <3> QED  BY <1>1, <1>p, <3>1, SetFd
  <2>4. ASSUME NEW n \in 0 .. MaxStamp, NEW b \in BOOLEAN,
               save' = [save EXCEPT ![s].pc = "write", ![s].fd = n, ![s].shared = b]
        PROVE  \E r \in SaveRec : save' = [save EXCEPT ![s] = r]
    <3>1. save' = [save EXCEPT ![s] = [save[s] EXCEPT !.pc = "write", !.fd = n, !.shared = b]]
      BY <2>4, <1>1
    <3> QED  BY <1>1, <1>p, <3>1, SetFd
  <2>2. CASE Fails(s)
    BY <2>2, <1>p, <1>7 DEF Fails
  <2>3. CASE NextStamp
    <3>1. stamp \in 1 .. MaxStamp
      BY <2>3, Parts, Bounds DEF NextStamp, Counts
    <3>2. CASE save[s].mode = "quick"
      <4> DEFINE f == IF file = NoFile THEN Created({}, FALSE, s) ELSE Written(file, {}, FALSE, s)
                 b == \E t \in Sessions \ {s} : save[t].pc = "write" /\ save[t].fd = f.ino
      <4>1. f \in File
        <5>1. file # NoFile => file \in File
          BY Parts DEF Disk
        <5> QED  BY <3>1, <5>1, Entries
      <4>2. f.ino \in 0 .. MaxStamp /\ b \in BOOLEAN
        BY <4>1, Inode
      <4>3. save' = [save EXCEPT ![s].pc = "write", ![s].fd = f.ino, ![s].shared = b] \/ Fails(s)
        BY <1>14, <3>2 DEF SaveOpen
      <4> HIDE DEF f, b
      <4> QED  BY <2>2, <2>4, <4>2, <4>3
    <3>3. CASE save[s].mode # "quick"
      <4>1. temp[s].ino \in 0 .. MaxStamp
        BY <1>14, <3>3, Parts, Inode DEF SaveOpen, At, Shape, ShapeOf, Disk, Quick, Writing
      <4> QED  BY <1>14, <2>1, <2>2, <3>3, <4>1 DEF SaveOpen
    <3> QED  BY <3>2, <3>3
  <2> QED  BY <1>14, <2>2, <2>3 DEF SaveOpen
<1>15. CASE SaveWrite(s)
  <2> DEFINE p == IF opt.plain THEN "stat" ELSE "backup"
             b == Mixed(s)
  <2>1. CASE save' = [save EXCEPT ![s].pc = p, ![s].shared = b]
    <3>1. save' = [save EXCEPT ![s] = [save[s] EXCEPT !.pc = p, !.shared = b]]
      BY <2>1, <1>1
    <3>2. p \in PCs /\ b \in BOOLEAN
      BY <1>p DEF Mixed
    <3> HIDE DEF p, b
    <3> QED  BY <1>1, <3>1, <3>2, SetShared
  <2>2. CASE \/ save' = [save EXCEPT ![s].pc = "stat", ![s].res = "error"]
             \/ Finish(s, "error")
             \/ Becomes(s, "backup")
    BY <2>2, <1>p, <1>5, <1>6, <1>7
  <2> QED  BY <1>15, <2>1, <2>2 DEF SaveWrite
<1> QED
  BY <1>2, <1>3, <1>4, <1>8, <1>9, <1>10, <1>11, <1>12, <1>13, <1>14, <1>15 DEF StepOf, SaveStep

\* What is read from an entry.
LEMMA Loaded ==
  ASSUME NEW f \in File
  PROVE  f.mtime \in 0 .. MaxStamp /\ f.text \in SUBSET Changes
  BY Bounds DEF File

\* What steps do to the record of the editor.
LEMMA StepEd ==
  ASSUME TypeOK, Shape, NEW s \in Sessions, StepOf(s)
  PROVE  \E r \in EdRec : ed' = [ed EXCEPT ![s] = r]
<1>1. /\ ed \in [Sessions -> EdRec] /\ ed[s] \in EdRec /\ Disk /\ Counts
  BY Parts
<1>2. CASE Quit(s) \/ QuitAfterSave(s) \/ Die(s)
  <2>1. ed' = [ed EXCEPT ![s] = Closed]
    BY <1>2 DEF Quit, QuitAfterSave, Die, Clean
  <2> QED  BY <2>1, Nothing
<1>3. CASE Open(s)
  <2>1. CASE /\ file # NoFile
             /\ ed' = [ed EXCEPT ![s] =
                  [Closed EXCEPT !.open = TRUE, !.mtime = file.mtime, !.buf = file.text]]
    BY <2>1, <1>1, Loaded, SetOpen DEF Disk
  <2>2. CASE /\ NextStamp
             /\ ed' = [ed EXCEPT ![s] =
                  [Closed EXCEPT !.open = TRUE, !.mtime = stamp, !.delete_file = TRUE]]
    <3>1. stamp \in 0 .. MaxStamp
      BY <1>1, <2>2, Bounds DEF Counts, NextStamp
    <3>2. {} \in SUBSET Changes
      OBVIOUS
    <3> QED  BY <2>2, <3>1, <3>2, SetOpen
  <2> QED  BY <1>3, <2>1, <2>2 DEF Open
<1>4. CASE Modify(s)
  <2>1. \E b \in BOOLEAN : ed' = [ed EXCEPT ![s] =
          [ed[s] EXCEPT !.modified = TRUE, !.locked = b,
                        !.buf = ed[s].buf \cup {<<s, made[s] + 1>>}]]
    BY <1>4, <1>1 DEF Modify, EdRec
  <2>2. made[s] \in 0 .. MaxChanges /\ made[s] < MaxChanges
    BY <1>1, <1>4 DEF Modify, Counts
  <2>3. made[s] + 1 \in 1 .. MaxChanges
    BY <2>2, Bounds
  <2>4. ed[s].buf \cup {<<s, made[s] + 1>>} \in SUBSET Changes
    BY <1>1, <2>3 DEF EdRec, Changes
  <2> QED  BY <1>1, <2>1, <2>4, SetModified
<1>5. CASE SaveReturn(s)
  <2> DEFINE unlock == (save[s].res = "ok" /\ ed[s].locked) \/ save[s].save_lock
             b == ed[s].locked /\ ~unlock
             c == ed[s].modified /\ save[s].res # "ok"
             d == ed[s].delete_file /\ save[s].res # "ok"
  <2>1. ed' = [ed EXCEPT ![s] = [ed[s] EXCEPT !.locked = b, !.modified = c, !.delete_file = d]]
    BY <1>5, <1>1 DEF SaveReturn, SaveReturnWith
  <2>2. b \in BOOLEAN /\ c \in BOOLEAN /\ d \in BOOLEAN
    OBVIOUS
  <2> HIDE DEF b, c, d
  <2> QED  BY <1>1, <2>1, <2>2, SetSaved
<1>6. CASE SaveAskLinks(s)
  <2>1. ed' = [ed EXCEPT ![s] = [ed[s] EXCEPT !.skip_detach = TRUE]] \/ ed' = [ed EXCEPT ![s] = ed[s]]
    BY <1>6, <1>1 DEF SaveAskLinks
  <2> QED  BY <1>1, <2>1, SetSkip
<1>7. CASE SaveStat(s)
  <2>1. CASE ed' = ed
    BY <1>1, <2>1
  <2>2. CASE \E f \in File : ed' = [ed EXCEPT ![s].mtime = f.mtime]
    <3>1. \E f \in File : ed' = [ed EXCEPT ![s] = [ed[s] EXCEPT !.mtime = f.mtime]]
      BY <1>1, <2>2
    <3> QED  BY <1>1, <3>1, SetMtime, Loaded
  <2> QED  BY <1>1, <1>7, <2>1, <2>2 DEF SaveStat, Disk
<1>8. CASE ed' = ed
  BY <1>1, <1>8
<1> QED
  BY <1>2, <1>3, <1>4, <1>5, <1>6, <1>7, <1>8 DEF StepOf, SaveStep, SaveCmd, SaveChooseMode,
     SaveChooseWith, SaveCheck, SaveCheckWith, SaveAskMtime, SaveTemp, SaveOpen, SaveWrite, SaveBackup, SaveRename

\* What steps do to the directory.
LEMMA StepDisk ==
  ASSUME TypeOK, Shape, NEW s \in Sessions, StepOf(s)
  PROVE  Disk' /\ (\E f \in File \cup {NoFile} : temp' = [temp EXCEPT ![s] = f])
<1>1. Disk /\ Counts /\ ed \in [Sessions -> EdRec] /\ temp = [temp EXCEPT ![s] = temp[s]]
  BY Parts DEF Disk
<1> USE DEF Disk
<1>2. CASE UNCHANGED <<file, backup, temp>>
  BY <1>1, <1>2
<1>3. CASE Open(s)
  <2>1. CASE NextStamp /\ file' = Created({}, TRUE, s) /\ UNCHANGED <<backup, temp>>
    <3>1. stamp \in 1 .. MaxStamp
      BY <1>1, <2>1, Bounds DEF NextStamp, Counts
    <3>2. Created({}, TRUE, s) \in File
      BY <3>1, Entries
    <3> QED  BY <1>1, <2>1, <3>2
  <2> QED  BY <1>2, <1>3, <2>1 DEF Open
<1>4. CASE Quit(s) \/ QuitAfterSave(s)
  BY <1>1, <1>4 DEF Quit, QuitAfterSave, Clean
<1>5. CASE Die(s) \/ SaveReturn(s)
  BY <1>1, <1>5 DEF Die, SaveReturn, SaveReturnWith
<1>6. CASE SaveTemp(s)
  <2>1. CASE NextStamp /\ temp' = [temp EXCEPT ![s] = Created({}, FALSE, s)]
    <3>1. stamp \in 1 .. MaxStamp
      BY <1>1, <2>1, Bounds DEF NextStamp, Counts
    <3>2. Created({}, FALSE, s) \in File
      BY <3>1, Entries
    <3> QED  BY <1>1, <1>6, <2>1, <3>2 DEF SaveTemp
  <2> QED  BY <1>2, <1>6, <2>1 DEF SaveTemp
<1>7. CASE SaveOpen(s)
  <2>1. CASE NextStamp
    <3>1. stamp \in 1 .. MaxStamp
      BY <1>1, <2>1, Bounds DEF NextStamp, Counts
    <3>2. Created({}, FALSE, s) \in File /\ \A f \in File : Written(f, {}, FALSE, s) \in File
      BY <3>1, Entries
    <3>3. CASE save[s].mode = "quick"
      BY <1>1, <1>2, <1>7, <3>2, <3>3 DEF SaveOpen
    <3>4. CASE save[s].mode # "quick"
      <4>1. temp[s] \in File
        BY <1>1, <1>7, <3>4 DEF Shape, ShapeOf, SaveOpen, At, Quick, Writing
      <4> QED  BY <1>1, <1>2, <1>7, <3>2, <3>4, <4>1 DEF SaveOpen
    <3> QED  BY <3>3, <3>4
  <2> QED  BY <1>2, <1>7, <2>1 DEF SaveOpen
<1>8. ASSUME NEW x \in SUBSET Changes, NEW w \in BOOLEAN, WriteTo(s, x, w)
      PROVE  Disk' /\ (\E f \in File \cup {NoFile} : temp' = [temp EXCEPT ![s] = f])
  <2>1. stamp \in 1 .. MaxStamp
    BY <1>1, <1>8, Bounds DEF WriteTo, NextStamp, Counts
  <2>2. \A f \in File : Written(f, x, w, s) \in File
    BY <2>1, Entries
  <2> QED  BY <1>1, <1>8, <2>2 DEF WriteTo
<1>9. CASE SaveWrite(s)
  <2>1. ed[s].buf \in SUBSET Changes /\ {} \in SUBSET Changes
    BY <1>1 DEF EdRec
  <2>2. WriteTo(s, ed[s].buf, TRUE) \/ WriteTo(s, {}, FALSE)
    BY <1>9 DEF SaveWrite
  <2> QED  BY <2>1, <2>2, <1>8
<1>10. CASE SaveBackup(s)
  BY <1>1, <1>10 DEF SaveBackup
<1>11. CASE SaveRename(s)
  BY <1>1, <1>11 DEF SaveRename
<1> QED
  BY <1>2, <1>3, <1>4, <1>5, <1>6, <1>7, <1>9, <1>10, <1>11 DEF StepOf, SaveStep, SaveCmd, Modify,
     SaveChooseMode, SaveChooseWith, SaveCheck, SaveCheckWith, SaveAskLinks, SaveAskMtime, SaveStat, disk

\* The other sessions' editors, saves and temporaries are left alone, and the
\* types are kept.
Others(s) ==
  \A t \in Sessions \ {s} : ed'[t] = ed[t] /\ save'[t] = save[t] /\ temp'[t] = temp[t]

\* A step of a session keeps the types.
LEMMA StepTypes ==
  ASSUME TypeOK, Shape, opt \in Options, NEW s \in Sessions, StepOf(s)
  PROVE  TypeOK' /\ Others(s)
<1>1. Counts' /\ Disk'
  BY StepCounts, StepDisk
<1>2. ed \in [Sessions -> EdRec] /\ save \in [Sessions -> SaveRec] /\ temp \in [Sessions -> File \cup {NoFile}]
  BY Parts DEF Disk
<1>3. PICK r \in SaveRec : save' = [save EXCEPT ![s] = r]
  BY StepSave
<1>4. PICK e \in EdRec : ed' = [ed EXCEPT ![s] = e]
  BY StepEd
<1>5. PICK f \in File \cup {NoFile} : temp' = [temp EXCEPT ![s] = f]
  BY StepDisk
<1>6. save' \in [Sessions -> SaveRec] /\ ed' \in [Sessions -> EdRec]
  BY <1>2, <1>3, <1>4
<1>7. Others(s)
  BY <1>2, <1>3, <1>4, <1>5 DEF Others
<1> QED  BY <1>1, <1>6, <1>7, PartsNext

\* The types hold at the start.
LEMMA TypeInit == Init => TypeOK
<1> SUFFICES ASSUME Init PROVE TypeOK
  OBVIOUS
<1>1. ed \in [Sessions -> EdRec] /\ save \in [Sessions -> SaveRec]
  BY Nothing DEF Init
<1>2. Counts
  <2>1. 2 \in 2 .. MaxStamp + 1 /\ 0 \in 0 .. MaxFaults /\ 0 \in 0 .. MaxChanges
    BY Bounds
  <2> QED  BY <2>1 DEF Init, Counts
<1>3. Disk
  <2>1. file \in File \cup {NoFile}
    <3>1. 1 \in 1 .. MaxStamp /\ {} \in SUBSET Changes /\ opt.linked \in BOOLEAN
      BY Bounds, SessionAssumption DEF Init, Option
    <3>2. [text |-> {}, whole |-> TRUE, mtime |-> 1, ino |-> 1, by |-> Nobody, links |-> opt.linked] \in File
      BY <3>1 DEF File
    <3> QED  BY <3>2 DEF Init
  <2> QED  BY <2>1 DEF Init, Disk
<1> QED  BY <1>1, <1>2, <1>3, Parts

(***************************************************************************)
(* What each step does, field by field.                                    *)
(***************************************************************************)
\* The fields of a running save that most of its steps leave alone.
KeepsSave(s) ==
  /\ save'[s].quitting = save[s].quitting /\ save'[s].mode = save[s].mode
  /\ save'[s].save_lock = save[s].save_lock /\ save'[s].seen = save[s].seen
  /\ save'[s].fd = save[s].fd /\ save'[s].confirmed = save[s].confirmed
  /\ save'[s].detach = save[s].detach

Typed == ed \in [Sessions -> EdRec] /\ save \in [Sessions -> SaveRec] /\ Disk /\ Counts

\* An entry created by s, one that s has written, and one after a write to the
\* descriptor of s.
IsCreated(f, x, w, s) ==
  /\ f # NoFile /\ f.text = x /\ f.whole = w /\ f.mtime = stamp /\ f.ino = stamp
  /\ f.by = s /\ ~f.links

IsWritten(g, f, x, w, s) ==
  /\ g # NoFile /\ g.text = x /\ g.whole = w /\ g.mtime = stamp /\ g.by = s
  /\ g.ino = f.ino /\ g.links = f.links

IsPut(g, f, x, w, s) ==
  \/ f # NoFile /\ f.ino = save[s].fd /\ IsWritten(g, f, x, w, s)
  \/ (f = NoFile \/ f.ino # save[s].fd) /\ g = f

\* The operators that make entries make such entries.
LEMMA CreatedIs ==
  ASSUME Typed, NEW s \in Sessions, NextStamp, NEW x \in SUBSET Changes, NEW w \in BOOLEAN
  PROVE  IsCreated(Created(x, w, s), x, w, s)
<1>1. stamp \in 1 .. MaxStamp
  BY Bounds DEF Typed, Counts, NextStamp
<1>2. Created(x, w, s) # NoFile
  BY <1>1, Entries, Bounds
<1> QED  BY <1>2 DEF IsCreated, Created

\* What Written makes of an entry.
LEMMA WrittenIs ==
  ASSUME Typed, NEW s \in Sessions, NextStamp, NEW x \in SUBSET Changes, NEW w \in BOOLEAN,
         NEW f \in File
  PROVE  IsWritten(Written(f, x, w, s), f, x, w, s)
<1>1. stamp \in 1 .. MaxStamp
  BY Bounds DEF Typed, Counts, NextStamp
<1>2. Written(f, x, w, s) # NoFile
  BY <1>1, Entries, Bounds
<1> QED  BY <1>2 DEF IsWritten, Written, File

\* The fields of a save that does not run, and of a closed editor.
LEMMA IdleIs ==
  /\ Idle.pc = "idle" /\ ~Idle.quitting /\ Idle.mode = "quick" /\ ~Idle.save_lock
  /\ Idle.seen = 0 /\ Idle.fd = 0 /\ ~Idle.shared /\ ~Idle.confirmed /\ ~Idle.detach /\ Idle.res = "none"
  BY DEF Idle

\* The fields of a closed editor.
LEMMA ClosedIs ==
  /\ ~Closed.open /\ ~Closed.modified /\ ~Closed.locked /\ ~Closed.delete_file
  /\ ~Closed.skip_detach /\ Closed.mtime = 0 /\ Closed.buf = {}
  BY DEF Closed

\* The steps that only move on, and those that end the save.
LEMMA BecomesIs ==
  ASSUME Typed, NEW s \in Sessions, NEW p, Becomes(s, p)
  PROVE  /\ save'[s].pc = p /\ save'[s].res = save[s].res /\ KeepsSave(s)
         /\ save'[s].shared = save[s].shared
  BY DEF Typed, Becomes, SaveRec, KeepsSave

\* Finish ends the save with a result and leaves its answers alone.
LEMMA FinishIs ==
  ASSUME Typed, NEW s \in Sessions, NEW x, Finish(s, x)
  PROVE  /\ save'[s].pc = "done" /\ save'[s].res = x /\ KeepsSave(s)
         /\ save'[s].shared = save[s].shared
  BY DEF Typed, Finish, SaveRec, KeepsSave

\* edit_init, with check_file_access.
LEMMA OpenIs ==
  ASSUME Typed, NEW s \in Sessions, Open(s)
  PROVE  /\ s \in opt.who /\ ~ed[s].open
         /\ ed'[s].open /\ ~ed'[s].modified /\ ~ed'[s].locked /\ ~ed'[s].skip_detach
         /\ save'[s] = Idle
         /\ UNCHANGED <<backup, temp, lock, made, unguarded, direct, faults>>
         /\ \/ /\ file # NoFile /\ UNCHANGED <<file, stamp>>
               /\ ed'[s].mtime = file.mtime /\ ed'[s].buf = file.text /\ ~ed'[s].delete_file
            \/ /\ file = NoFile /\ NextStamp /\ IsCreated(file', {}, TRUE, s)
               /\ ed'[s].mtime = stamp /\ ed'[s].buf = {} /\ ed'[s].delete_file
<1>1. NextStamp => IsCreated(Created({}, TRUE, s), {}, TRUE, s)
  BY CreatedIs
<1> QED  BY <1>1 DEF Typed, Open, Closed

\* edit_modification.
LEMMA ModifyIs ==
  ASSUME Typed, NEW s \in Sessions, Modify(s)
  PROVE  /\ ed[s].open /\ save[s].pc = "idle"
         /\ UNCHANGED <<file, backup, temp, stamp, save, direct, faults>>
         /\ ed'[s].open /\ ed'[s].modified /\ ed[s].buf \subseteq ed'[s].buf
         /\ ed'[s].mtime = ed[s].mtime /\ ed'[s].skip_detach = ed[s].skip_detach
         /\ ed'[s].delete_file = ed[s].delete_file
         /\ \/ ~ed[s].delete_file /\ ~ed[s].modified /\ LockFile(s, ed'[s].locked)
            \/ /\ ed[s].delete_file \/ ed[s].modified
               /\ ed'[s].locked = ed[s].locked /\ UNCHANGED <<lock, unguarded>>
<1>1. PICK b \in BOOLEAN :
        /\ ed' = [ed EXCEPT ![s] = [ed[s] EXCEPT !.modified = TRUE, !.locked = b,
                                              !.buf = ed[s].buf \cup {<<s, made[s] + 1>>}]]
        /\ \/ ~ed[s].delete_file /\ ~ed[s].modified /\ LockFile(s, b)
           \/ (ed[s].delete_file \/ ed[s].modified) /\ b = ed[s].locked /\ UNCHANGED <<lock, unguarded>>
  BY DEF Typed, Modify, EdRec
<1>2. /\ ed'[s].modified /\ ed'[s].locked = b /\ ed'[s].buf = ed[s].buf \cup {<<s, made[s] + 1>>}
      /\ ed'[s].open = ed[s].open /\ ed'[s].mtime = ed[s].mtime
      /\ ed'[s].skip_detach = ed[s].skip_detach /\ ed'[s].delete_file = ed[s].delete_file
  BY <1>1 DEF Typed, EdRec
<1>3. ed[s].open /\ save[s].pc = "idle" /\ UNCHANGED <<file, backup, temp, stamp, save, direct, faults>>
  BY DEF Modify, At, disk
<1> QED  BY <1>1, <1>2, <1>3

\* edit_clean.
LEMMA CleanIs ==
  ASSUME Typed, NEW s \in Sessions, Quit(s) \/ QuitAfterSave(s)
  PROVE  /\ ed[s].open /\ save[s].pc \in {"idle", "clean"}
         /\ IF ed[s].locked THEN Unlock(s) ELSE UNCHANGED lock
         /\ file' = IF ed[s].delete_file THEN NoFile ELSE file
         /\ ed'[s] = Closed /\ save'[s] = Idle
         /\ UNCHANGED <<backup, temp, stamp, made, unguarded, direct, faults>>
  BY DEF Typed, Quit, QuitAfterSave, Clean, At

\* The process is killed.
LEMMA DieIs ==
  ASSUME Typed, NEW s \in Sessions, Die(s)
  PROVE  /\ ed[s].open /\ Fault
         /\ lock' = IF lock = s THEN Stale ELSE lock
         /\ ed'[s] = Closed /\ save'[s] = Idle /\ temp'[s] = NoFile
         /\ UNCHANGED <<file, backup, stamp, made, unguarded, direct>>
  BY DEF Typed, Die, Disk

\* edit_save_confirm_cmd and edit_save_cmd up to edit_save_file.
LEMMA SaveCmdIs ==
  ASSUME Typed, NEW s \in Sessions, SaveCmd(s)
  PROVE  /\ ed[s].open /\ save[s].pc = "idle"
         /\ UNCHANGED <<file, backup, temp, stamp, ed, made, direct, faults>>
         /\ save'[s].pc = "mode" /\ save'[s].mode = "quick" /\ save'[s].res = "none"
         /\ save'[s].seen = 0 /\ save'[s].fd = 0 /\ ~save'[s].confirmed /\ ~save'[s].detach
         /\ \/ ~ed[s].locked /\ ~ed[s].delete_file /\ LockFile(s, save'[s].save_lock)
            \/ /\ ed[s].locked \/ ed[s].delete_file
               /\ ~save'[s].save_lock /\ UNCHANGED <<lock, unguarded>>
<1>1. PICK q \in BOOLEAN, got \in BOOLEAN :
        /\ save' = [save EXCEPT ![s] = [Idle EXCEPT !.pc = "mode", !.quitting = q, !.save_lock = got]]
        /\ \/ ~ed[s].locked /\ ~ed[s].delete_file /\ LockFile(s, got)
           \/ (ed[s].locked \/ ed[s].delete_file) /\ ~got /\ UNCHANGED <<lock, unguarded>>
  BY DEF SaveCmd
<1>2. /\ save'[s].pc = "mode" /\ save'[s].mode = "quick" /\ save'[s].res = "none"
      /\ save'[s].seen = 0 /\ save'[s].fd = 0 /\ ~save'[s].confirmed /\ ~save'[s].detach
      /\ save'[s].save_lock = got
  BY <1>1 DEF Typed, Idle
<1> QED  BY <1>1, <1>2 DEF SaveCmd, At, disk

\* edit_save_cmd after edit_save_file.
LEMMA ReturnIs ==
  ASSUME Typed, NEW s \in Sessions, SaveReturn(s)
  PROVE  LET unlock == (save[s].res = "ok" /\ ed[s].locked) \/ save[s].save_lock
         IN  /\ ed[s].open /\ save[s].pc = "done"
             /\ IF unlock THEN Unlock(s) ELSE UNCHANGED lock
             /\ \/ save'[s].pc = "clean" /\ save'[s].res = save[s].res /\ KeepsSave(s) /\ save[s].res # "error"
                \/ save'[s] = Idle
             /\ ed'[s].open /\ ed'[s].mtime = ed[s].mtime /\ ed'[s].buf = ed[s].buf
             /\ ed'[s].skip_detach = ed[s].skip_detach
             /\ ed'[s].locked = (ed[s].locked /\ ~unlock)
             /\ ed'[s].modified = (ed[s].modified /\ save[s].res # "ok")
             /\ ed'[s].delete_file = (ed[s].delete_file /\ save[s].res # "ok")
             /\ temp'[s] = NoFile
             /\ UNCHANGED <<file, backup, stamp, made, unguarded, direct, faults>>
<1>1. /\ \/ save' = [save EXCEPT ![s].pc = "clean"] /\ save[s].res # "error"
         \/ save' = [save EXCEPT ![s] = Idle]
  BY DEF SaveReturn, SaveReturnWith
<1>2. \/ save'[s].pc = "clean" /\ save'[s].res = save[s].res /\ KeepsSave(s) /\ save[s].res # "error"
      \/ save'[s] = Idle
  BY <1>1, BecomesIs DEF Becomes, Typed
<1> QED  BY <1>2 DEF Typed, SaveReturn, SaveReturnWith, At, EdRec, Disk

\* edit_save_file, call by call.
LEMMA ChooseModeIs ==
  ASSUME Typed, NEW s \in Sessions, SaveChooseMode(s)
  PROVE  /\ ed[s].open /\ save[s].pc = "mode" /\ save'[s].pc = "check"
         /\ save'[s].save_lock = save[s].save_lock /\ save'[s].seen = save[s].seen
         /\ save'[s].fd = save[s].fd /\ save'[s].confirmed = save[s].confirmed
         /\ save'[s].detach = save[s].detach /\ save'[s].res = save[s].res
         /\ UNCHANGED <<file, backup, temp, stamp, lock, made, ed, unguarded>>
         /\ \/ /\ save'[s].mode = (IF file = NoFile THEN "quick" ELSE opt.mode)
               /\ UNCHANGED <<direct, faults>>
            \/ /\ file # NoFile /\ opt.mode # "quick" /\ save'[s].mode = "quick"
               /\ Fault /\ direct'
<1>1. ASSUME NEW m, save' = [save EXCEPT ![s].pc = "check", ![s].mode = m]
      PROVE  /\ save'[s].pc = "check" /\ save'[s].mode = m
             /\ save'[s].save_lock = save[s].save_lock /\ save'[s].seen = save[s].seen
             /\ save'[s].fd = save[s].fd /\ save'[s].confirmed = save[s].confirmed
             /\ save'[s].detach = save[s].detach /\ save'[s].res = save[s].res
  BY <1>1 DEF Typed, SaveRec
<1> QED  BY <1>1 DEF SaveChooseMode, SaveChooseWith, At, disk

\* edit_save_file before the questions: only a quick save asks any.
LEMMA CheckIs ==
  ASSUME Typed, NEW s \in Sessions, SaveCheck(s)
  PROVE  /\ ed[s].open /\ save[s].pc = "check"
         /\ UNCHANGED <<file, backup, temp, stamp, lock, made, ed, unguarded, direct>>
         /\ save'[s].mode = save[s].mode /\ save'[s].save_lock = save[s].save_lock
         /\ save'[s].fd = save[s].fd /\ save'[s].confirmed = save[s].confirmed
         /\ save'[s].detach = save[s].detach /\ save'[s].res = save[s].res
         /\ \/ /\ save[s].mode # "quick" /\ save'[s].pc = "temp" /\ save'[s].seen = save[s].seen
               /\ UNCHANGED faults
            \/ /\ save[s].mode = "quick" /\ save'[s].pc = "open" /\ save'[s].seen = save[s].seen
               /\ \/ (ed[s].skip_detach \/ file = NoFile) /\ UNCHANGED faults
                  \/ file # NoFile /\ Fault
            \/ /\ save[s].mode = "quick" /\ file # NoFile /\ save'[s].seen = file.mtime
               /\ UNCHANGED faults
               /\ save'[s].pc = IF file.links THEN "ask_links"
                                ELSE IF ed[s].mtime # file.mtime THEN "ask_mtime" ELSE "open"
  BY DEF Typed, SaveCheck, SaveCheckWith, Becomes, At, disk, SaveRec

\* The answer about hard links: go on, detach, or cancel.
LEMMA AskLinksIs ==
  ASSUME Typed, NEW s \in Sessions, SaveAskLinks(s)
  PROVE  /\ ed[s].open /\ save[s].pc = "ask_links"
         /\ UNCHANGED <<file, backup, temp, stamp, lock, made, unguarded, direct, faults>>
         /\ ed'[s].open = ed[s].open /\ ed'[s].modified = ed[s].modified
         /\ ed'[s].locked = ed[s].locked /\ ed'[s].delete_file = ed[s].delete_file
         /\ ed'[s].mtime = ed[s].mtime /\ ed'[s].buf = ed[s].buf
         /\ save'[s].seen = save[s].seen /\ save'[s].save_lock = save[s].save_lock
         /\ save'[s].fd = save[s].fd /\ save'[s].confirmed = save[s].confirmed
         /\ \/ /\ save'[s].mode = "safe" /\ save'[s].detach /\ save'[s].res = save[s].res
               /\ save'[s].pc = IF ed[s].mtime # save[s].seen THEN "ask_mtime" ELSE "temp"
            \/ /\ save'[s].mode = save[s].mode /\ save'[s].detach = save[s].detach
               /\ \/ save'[s].pc = "open" /\ save'[s].res = save[s].res
                  \/ save'[s].pc = "done" /\ save'[s].res = "abort"
<1>1. /\ ed'[s].open = ed[s].open /\ ed'[s].modified = ed[s].modified
      /\ ed'[s].locked = ed[s].locked /\ ed'[s].delete_file = ed[s].delete_file
      /\ ed'[s].mtime = ed[s].mtime /\ ed'[s].buf = ed[s].buf
  <2>1. ed' = ed \/ ed' = [ed EXCEPT ![s].skip_detach = TRUE]
    BY DEF SaveAskLinks
  <2> QED  BY <2>1 DEF Typed, EdRec
<1>2. CASE Becomes(s, "open")
  BY <1>1, <1>2, BecomesIs DEF SaveAskLinks, At, disk, KeepsSave
<1>3. CASE Finish(s, "abort")
  BY <1>1, <1>3, FinishIs DEF SaveAskLinks, At, disk, KeepsSave
<1>4. ASSUME NEW p, save' = [save EXCEPT ![s].mode = "safe", ![s].detach = TRUE, ![s].pc = p]
      PROVE  /\ save'[s].mode = "safe" /\ save'[s].detach /\ save'[s].pc = p
             /\ save'[s].res = save[s].res
             /\ save'[s].seen = save[s].seen /\ save'[s].save_lock = save[s].save_lock
             /\ save'[s].fd = save[s].fd /\ save'[s].confirmed = save[s].confirmed
  BY <1>4 DEF Typed, SaveRec
<1>5. CASE save' = [save EXCEPT ![s].mode = "safe", ![s].detach = TRUE,
                     ![s].pc = IF ed[s].mtime # save[s].seen THEN "ask_mtime" ELSE "temp"]
  BY <1>1, <1>4, <1>5 DEF SaveAskLinks, At, disk
<1> QED  BY <1>2, <1>3, <1>5 DEF SaveAskLinks

\* The answer about a file that changed meanwhile: go on, or cancel.
LEMMA AskMtimeIs ==
  ASSUME Typed, NEW s \in Sessions, SaveAskMtime(s)
  PROVE  /\ ed[s].open /\ save[s].pc = "ask_mtime"
         /\ UNCHANGED <<file, backup, temp, stamp, lock, made, ed, unguarded, direct, faults>>
         /\ save'[s].mode = save[s].mode /\ save'[s].save_lock = save[s].save_lock
         /\ save'[s].fd = save[s].fd /\ save'[s].seen = save[s].seen
         /\ save'[s].detach = save[s].detach
         /\ \/ /\ save'[s].confirmed /\ save'[s].res = save[s].res
               /\ save'[s].pc = IF save[s].mode = "quick" THEN "open" ELSE "temp"
            \/ save'[s].pc = "done" /\ save'[s].res = "abort"
  BY DEF Typed, SaveAskMtime, Finish, At, disk, SaveRec

\* mkstemp makes a new temporary, or the save fails.
LEMMA TempIs ==
  ASSUME Typed, NEW s \in Sessions, SaveTemp(s)
  PROVE  /\ ed[s].open /\ save[s].pc = "temp" /\ KeepsSave(s)
         /\ UNCHANGED <<file, backup, lock, made, ed, unguarded, direct>>
         /\ \/ /\ NextStamp /\ IsCreated(temp'[s], {}, FALSE, s) /\ UNCHANGED faults
               /\ save'[s].pc = "open" /\ save'[s].res = save[s].res
            \/ /\ Fault /\ UNCHANGED <<temp, stamp>>
               /\ save'[s].pc = "done" /\ save'[s].res = "error"
<1>1. NextStamp => IsCreated(Created({}, FALSE, s), {}, FALSE, s)
  BY CreatedIs
<1> QED  BY <1>1, BecomesIs, FinishIs DEF Typed, SaveTemp, Fails, At, Disk

\* open makes or cuts what is written to, or the save fails.
LEMMA SaveOpenIs ==
  ASSUME Typed, NEW s \in Sessions, SaveOpen(s),
         save[s].pc = "open" /\ save[s].mode # "quick" => temp[s] # NoFile
  PROVE  /\ ed[s].open /\ save[s].pc = "open"
         /\ save'[s].mode = save[s].mode /\ save'[s].save_lock = save[s].save_lock
         /\ save'[s].seen = save[s].seen /\ save'[s].confirmed = save[s].confirmed
         /\ save'[s].detach = save[s].detach
         /\ UNCHANGED <<backup, lock, made, ed, unguarded, direct>>
         /\ \/ /\ NextStamp /\ save'[s].pc = "write" /\ save'[s].res = save[s].res
               /\ UNCHANGED faults
               /\ \/ /\ save[s].mode = "quick" /\ UNCHANGED temp /\ save'[s].fd = file'.ino
                     /\ save'[s].shared => \E t \in Sessions \ {s} : save[t].pc = "write"
                     /\ \/ file = NoFile /\ IsCreated(file', {}, FALSE, s)
                        \/ file # NoFile /\ IsWritten(file', file, {}, FALSE, s)
                  \/ /\ save[s].mode # "quick" /\ UNCHANGED file /\ save'[s].fd = temp[s].ino
                     /\ temp[s] # NoFile /\ IsWritten(temp'[s], temp[s], {}, FALSE, s)
            \/ /\ Fault /\ UNCHANGED <<file, temp, stamp>> /\ save'[s].fd = save[s].fd
               /\ save'[s].pc = "done" /\ save'[s].res = "error"
<1>1. CASE Fails(s) /\ UNCHANGED <<file, temp, stamp>>
  BY <1>1, FinishIs DEF SaveOpen, Fails, At, KeepsSave
<1>2. ASSUME NEW n, save' = [save EXCEPT ![s].pc = "write", ![s].fd = n]
      PROVE  /\ save'[s].pc = "write" /\ save'[s].fd = n /\ save'[s].res = save[s].res
             /\ save'[s].mode = save[s].mode /\ save'[s].save_lock = save[s].save_lock
             /\ save'[s].seen = save[s].seen /\ save'[s].confirmed = save[s].confirmed
             /\ save'[s].detach = save[s].detach
  BY <1>2 DEF Typed, SaveRec
<1> DEFINE f == IF file = NoFile THEN Created({}, FALSE, s) ELSE Written(file, {}, FALSE, s)
<1>5. ASSUME NEW n, NEW b, save' = [save EXCEPT ![s].pc = "write", ![s].fd = n, ![s].shared = b]
      PROVE  /\ save'[s].pc = "write" /\ save'[s].fd = n /\ save'[s].res = save[s].res
             /\ save'[s].mode = save[s].mode /\ save'[s].save_lock = save[s].save_lock
             /\ save'[s].seen = save[s].seen /\ save'[s].confirmed = save[s].confirmed
             /\ save'[s].detach = save[s].detach /\ save'[s].shared = b
  BY <1>5 DEF Typed, SaveRec
<1> DEFINE b == \E t \in Sessions \ {s} : save[t].pc = "write" /\ save[t].fd = f.ino
<1>3. CASE /\ save[s].mode = "quick" /\ NextStamp /\ UNCHANGED <<faults, temp>>
           /\ file' = f
           /\ save' = [save EXCEPT ![s].pc = "write", ![s].fd = f.ino, ![s].shared = b]
  <2>1. b => \E t \in Sessions \ {s} : save[t].pc = "write"
    OBVIOUS
  <2>2. \/ file = NoFile /\ IsCreated(file', {}, FALSE, s)
        \/ file # NoFile /\ IsWritten(file', file, {}, FALSE, s)
    BY <1>3, CreatedIs, WrittenIs DEF Typed, Disk
  <2>4. ed[s].open /\ save[s].pc = "open" /\ UNCHANGED <<backup, lock, made, ed, unguarded, direct>>
    BY DEF SaveOpen, At
  <2> HIDE DEF f, b
  <2>3. /\ save'[s].pc = "write" /\ save'[s].fd = f.ino /\ save'[s].res = save[s].res
        /\ save'[s].mode = save[s].mode /\ save'[s].save_lock = save[s].save_lock
        /\ save'[s].seen = save[s].seen /\ save'[s].confirmed = save[s].confirmed
        /\ save'[s].detach = save[s].detach /\ save'[s].shared = b
    BY <1>3, <1>5
  <2>5. save'[s].fd = file'.ino /\ (save'[s].shared => \E t \in Sessions \ {s} : save[t].pc = "write")
    BY <1>3, <2>1, <2>3
  <2> QED  BY <1>3, <2>2, <2>3, <2>4, <2>5
<1>4. CASE /\ save[s].mode # "quick" /\ NextStamp /\ UNCHANGED <<faults, file>>
           /\ temp' = [temp EXCEPT ![s] = Written(@, {}, FALSE, s)]
           /\ save' = [save EXCEPT ![s].pc = "write", ![s].fd = temp[s].ino]
  <2>1. save[s].pc = "open"
    BY DEF SaveOpen, At
  <2>2. temp[s] # NoFile
    BY <1>4, <2>1
  <2>3. temp'[s] = Written(temp[s], {}, FALSE, s) /\ temp[s] \in File
    BY <1>4, <2>2 DEF Typed, Disk
  <2>4. IsWritten(temp'[s], temp[s], {}, FALSE, s)
    BY <1>4, <2>3, WrittenIs
  <2> QED  BY <1>2, <1>4, <2>2, <2>4 DEF SaveOpen, At
<1> QED  BY <1>1, <1>3, <1>4 DEF SaveOpen

\* The write loop or the filter, and close.
LEMMA WriteIs ==
  ASSUME Typed, NEW s \in Sessions, SaveWrite(s)
  PROVE  /\ ed[s].open /\ save[s].pc = "write" /\ KeepsSave(s) /\ NextStamp
         /\ UNCHANGED <<lock, made, ed, unguarded, direct>>
         /\ \/ /\ \/ /\ IsPut(file', file, ed[s].buf, TRUE, s) /\ IsPut(backup', backup, ed[s].buf, TRUE, s)
                     /\ IsPut(temp'[s], temp[s], ed[s].buf, TRUE, s)
                  \/ /\ IsPut(file', file, {}, FALSE, s) /\ IsPut(backup', backup, {}, FALSE, s)
                     /\ IsPut(temp'[s], temp[s], {}, FALSE, s)
                     /\ Mixed(s) /\ save'[s].shared
               /\ save'[s].pc = (IF opt.plain THEN "stat" ELSE "backup")
               /\ save'[s].res = save[s].res /\ UNCHANGED faults
            \/ /\ IsPut(file', file, {}, FALSE, s) /\ IsPut(backup', backup, {}, FALSE, s)
               /\ IsPut(temp'[s], temp[s], {}, FALSE, s) /\ Fault
               /\ \/ opt.plain /\ save'[s].pc \in {"stat", "done"} /\ save'[s].res = "error"
                  \/ ~opt.plain /\ save'[s].pc = "backup" /\ save'[s].res = save[s].res
<1> DEFINE p == IF opt.plain THEN "stat" ELSE "backup"
           b == Mixed(s)
<1>1. \/ save' = [save EXCEPT ![s].pc = p, ![s].shared = b]
      \/ opt.plain /\ save' = [save EXCEPT ![s].pc = "stat", ![s].res = "error"]
      \/ opt.plain /\ Finish(s, "error")
      \/ ~opt.plain /\ Becomes(s, "backup")
  BY DEF SaveWrite
<1>2. KeepsSave(s)
  BY <1>1 DEF KeepsSave, Becomes, Finish, Typed, SaveRec
<1>3. ASSUME NEW x \in SUBSET Changes, NEW w \in BOOLEAN, WriteTo(s, x, w)
      PROVE  /\ IsPut(file', file, x, w, s) /\ IsPut(backup', backup, x, w, s)
             /\ IsPut(temp'[s], temp[s], x, w, s)
  <2>1. \A f \in File : IsWritten(Written(f, x, w, s), f, x, w, s)
    BY <1>3, WrittenIs DEF WriteTo
  <2>2. \A f \in File \cup {NoFile} :
          IsPut(IF f # NoFile /\ f.ino = save[s].fd THEN Written(f, x, w, s) ELSE f, f, x, w, s)
    BY <2>1 DEF IsPut
  <2>3. temp'[s] = IF temp[s] # NoFile /\ temp[s].ino = save[s].fd
                   THEN Written(temp[s], x, w, s) ELSE temp[s]
    BY <1>3 DEF WriteTo, Typed, Disk
  <2> QED  BY <1>3, <2>2, <2>3 DEF WriteTo, Typed, Disk
<1>b. ed[s].buf \in SUBSET Changes /\ {} \in SUBSET Changes
  BY DEF Typed, EdRec
<1>4. CASE /\ WriteTo(s, ed[s].buf, TRUE) \/ (b /\ WriteTo(s, {}, FALSE))
           /\ save' = [save EXCEPT ![s].pc = p, ![s].shared = b] /\ UNCHANGED faults
  <2>1. save'[s].pc = p /\ save'[s].res = save[s].res /\ (b => save'[s].shared)
    <3> HIDE DEF p, b
    <3> QED  BY <1>4 DEF Typed, SaveRec
  <2>2. ed[s].open /\ save[s].pc = "write" /\ NextStamp /\ UNCHANGED <<lock, made, ed, unguarded, direct>>
    BY <1>4 DEF SaveWrite, WriteTo, At
  <2>3. \/ /\ IsPut(file', file, ed[s].buf, TRUE, s) /\ IsPut(backup', backup, ed[s].buf, TRUE, s)
           /\ IsPut(temp'[s], temp[s], ed[s].buf, TRUE, s)
        \/ /\ IsPut(file', file, {}, FALSE, s) /\ IsPut(backup', backup, {}, FALSE, s)
           /\ IsPut(temp'[s], temp[s], {}, FALSE, s) /\ b
    <3> HIDE DEF b
    <3> QED  BY <1>3, <1>b, <1>4
  <2> QED  BY <1>2, <1>4, <2>1, <2>2, <2>3
<1>5. CASE /\ Fault /\ WriteTo(s, {}, FALSE)
           /\ \/ opt.plain /\ save' = [save EXCEPT ![s].pc = "stat", ![s].res = "error"]
              \/ opt.plain /\ Finish(s, "error")
              \/ ~opt.plain /\ Becomes(s, "backup")
  <2>1. \/ opt.plain /\ save'[s].pc \in {"stat", "done"} /\ save'[s].res = "error"
        \/ ~opt.plain /\ save'[s].pc = "backup" /\ save'[s].res = save[s].res
    BY <1>5 DEF Becomes, Finish, Typed, SaveRec
  <2> QED  BY <1>2, <1>3, <1>b, <1>5, <2>1 DEF SaveWrite, WriteTo, At
<1> QED  BY <1>4, <1>5 DEF SaveWrite

\* The stat after the write remembers the time of what was written.
LEMMA StatIs ==
  ASSUME Typed, NEW s \in Sessions, SaveStat(s)
  PROVE  /\ ed[s].open /\ save[s].pc = "stat" /\ KeepsSave(s) /\ save'[s].shared = save[s].shared
         /\ UNCHANGED <<file, backup, temp, stamp, lock, made, unguarded, direct>>
         /\ ed'[s].open = ed[s].open /\ ed'[s].modified = ed[s].modified
         /\ ed'[s].locked = ed[s].locked /\ ed'[s].delete_file = ed[s].delete_file
         /\ ed'[s].skip_detach = ed[s].skip_detach /\ ed'[s].buf = ed[s].buf
         /\ LET f == IF save[s].mode = "quick" THEN file ELSE temp[s]
            IN  \/ /\ f # NoFile /\ ed'[s].mtime = f.mtime /\ UNCHANGED faults
                   /\ save'[s].res = save[s].res
                   /\ save'[s].pc = IF save[s].res = "error" THEN "done" ELSE "backup"
                \/ /\ f = NoFile /\ save'[s].pc = "done" /\ save'[s].res = "error"
                   /\ UNCHANGED <<ed, faults>>
                \/ Fault /\ save'[s].pc = "done" /\ save'[s].res = "error" /\ UNCHANGED ed
<1> DEFINE f == IF save[s].mode = "quick" THEN file ELSE temp[s]
<1>1. CASE UNCHANGED ed /\ Finish(s, "error") /\ ((f = NoFile /\ UNCHANGED faults) \/ Fault)
  BY <1>1, FinishIs DEF SaveStat, At, disk
<1>2. CASE /\ f # NoFile /\ ed' = [ed EXCEPT ![s].mtime = f.mtime] /\ UNCHANGED faults
           /\ IF save[s].res = "error" THEN Finish(s, "error") ELSE Becomes(s, "backup")
  <2>1. /\ ed'[s].open = ed[s].open /\ ed'[s].modified = ed[s].modified
        /\ ed'[s].locked = ed[s].locked /\ ed'[s].delete_file = ed[s].delete_file
        /\ ed'[s].skip_detach = ed[s].skip_detach /\ ed'[s].buf = ed[s].buf
        /\ ed'[s].mtime = f.mtime
    BY <1>2 DEF Typed, EdRec
  <2>2. /\ save'[s].res = save[s].res /\ KeepsSave(s) /\ save'[s].shared = save[s].shared
        /\ save'[s].pc = IF save[s].res = "error" THEN "done" ELSE "backup"
    BY <1>2, BecomesIs, FinishIs
  <2> QED  BY <1>2, <2>1, <2>2 DEF SaveStat, At, disk
<1> QED  BY <1>1, <1>2 DEF SaveStat, Fails

\* The original takes the backup name.
LEMMA BackupIs ==
  ASSUME Typed, NEW s \in Sessions, SaveBackup(s)
  PROVE  /\ ed[s].open /\ save[s].pc = "backup" /\ KeepsSave(s) /\ save'[s].shared = save[s].shared
         /\ UNCHANGED <<temp, lock, stamp, made, ed, unguarded, direct>>
         /\ \/ /\ save[s].mode # "backup" /\ UNCHANGED <<file, backup, faults>>
               /\ save'[s].pc = "rename" /\ save'[s].res = save[s].res
            \/ /\ save[s].mode = "backup" /\ file # NoFile /\ backup' = file /\ file' = NoFile
               /\ save'[s].pc = "rename" /\ save'[s].res = save[s].res /\ UNCHANGED faults
            \/ /\ save[s].mode = "backup" /\ UNCHANGED <<file, backup>>
               /\ (file = NoFile /\ UNCHANGED faults) \/ (file # NoFile /\ Fault)
               /\ save'[s].pc = "done" /\ save'[s].res = "error"
  BY BecomesIs, FinishIs DEF SaveBackup, Fails, At

\* The temporary takes the name of the file.
LEMMA RenameIs ==
  ASSUME Typed, NEW s \in Sessions, SaveRename(s)
  PROVE  /\ ed[s].open /\ save[s].pc = "rename" /\ save'[s].pc = "done"
         /\ KeepsSave(s) /\ save'[s].shared = save[s].shared
         /\ UNCHANGED <<backup, lock, stamp, made, ed, unguarded, direct>>
         /\ \/ /\ save[s].mode = "quick" /\ save'[s].res = "ok"
               /\ UNCHANGED <<file, temp, faults>>
            \/ /\ save[s].mode # "quick" /\ save'[s].res = "ok"
               /\ file' = temp[s] /\ temp'[s] = NoFile /\ UNCHANGED faults
            \/ /\ save[s].mode # "quick" /\ save'[s].res = "error" /\ Fault
               /\ UNCHANGED <<file, temp>>
  BY FinishIs DEF Typed, SaveRename, Fails, At, Disk

(***************************************************************************)
(* Every step keeps each part of the invariant.                            *)
(***************************************************************************)
\* Shape: the session that moves.
LEMMA ShapeOfNext ==
  ASSUME Typed, NEW s \in Sessions, ShapeOf(s), StepOf(s), UNCHANGED opt
  PROVE  ShapeOf(s)'
<1>1. CASE Open(s)
  BY <1>1, OpenIs, IdleIs DEF ShapeOf, Quick, Writing, BeforeTemp
<1>2. CASE Modify(s)
  BY <1>2, ModifyIs DEF ShapeOf, Quick, Writing, BeforeTemp
<1>3. CASE Quit(s) \/ QuitAfterSave(s)
  BY <1>3, CleanIs, IdleIs, ClosedIs DEF ShapeOf, Quick, Writing, BeforeTemp
<1>4. CASE Die(s)
  BY <1>4, DieIs, IdleIs, ClosedIs DEF ShapeOf, Quick, Writing, BeforeTemp
<1>5. CASE SaveCmd(s)
  BY <1>5, SaveCmdIs DEF ShapeOf, Quick, Writing, BeforeTemp
<1>6. CASE SaveReturn(s)
  BY <1>6, ReturnIs, IdleIs DEF ShapeOf, Quick, Writing, BeforeTemp, KeepsSave
<1>7. CASE SaveChooseMode(s)
  BY <1>7, ChooseModeIs DEF ShapeOf, Quick, Writing, BeforeTemp
<1>8. CASE SaveCheck(s)
  BY <1>8, CheckIs DEF ShapeOf, Quick, Writing, BeforeTemp
<1>9. CASE SaveAskLinks(s)
  BY <1>9, AskLinksIs DEF ShapeOf, Quick, Writing, BeforeTemp
<1>10. CASE SaveAskMtime(s)
  BY <1>10, AskMtimeIs DEF ShapeOf, Quick, Writing, BeforeTemp
<1>11. CASE SaveTemp(s)
  BY <1>11, TempIs DEF ShapeOf, Quick, Writing, BeforeTemp, KeepsSave, IsCreated
<1>12. CASE SaveOpen(s)
  BY <1>12, SaveOpenIs DEF ShapeOf, Quick, Writing, BeforeTemp, IsWritten
<1>13. CASE SaveWrite(s)
  BY <1>13, WriteIs DEF ShapeOf, Quick, Writing, BeforeTemp, KeepsSave, IsPut, IsWritten
<1>14. CASE SaveStat(s)
  BY <1>14, StatIs DEF ShapeOf, Quick, Writing, BeforeTemp, KeepsSave
<1>15. CASE SaveBackup(s)
  BY <1>15, BackupIs DEF ShapeOf, Quick, Writing, BeforeTemp, KeepsSave
<1>16. CASE SaveRename(s)
  BY <1>16, RenameIs DEF ShapeOf, Quick, Writing, BeforeTemp, KeepsSave
<1> QED
    BY <1>1, <1>2, <1>3, <1>4, <1>5, <1>6, <1>7, <1>8, <1>9, <1>10, <1>11, <1>12, <1>13, <1>14,
     <1>15, <1>16 DEF StepOf, SaveStep

\* Shape is kept.
LEMMA ShapeNext ==
  ASSUME TypeOK, Shape, opt \in Options, NEW s \in Sessions, StepOf(s), UNCHANGED opt
  PROVE  Shape'
<1>1. TypeOK' /\ Others(s) /\ Typed /\ ShapeOf(s)
  BY StepTypes, Parts DEF StepOf, Shape, Typed
<1>2. ASSUME NEW t \in Sessions \ {s} PROVE ShapeOf(t)'
  <2>1. ed'[t] = ed[t] /\ save'[t] = save[t] /\ temp'[t] = temp[t] /\ ShapeOf(t)
    BY <1>1, <1>2 DEF Others, Shape
  <2> QED  BY <2>1 DEF ShapeOf, Quick, Writing, BeforeTemp
<1>3. ShapeOf(s)'
  BY <1>1, ShapeOfNext
<1> QED  BY <1>2, <1>3 DEF Shape

\* What a step of s makes of an entry f: it is new, or the old one with another content.
New(g, s) ==
  /\ g # NoFile /\ g.ino = stamp /\ g.mtime = stamp /\ g.by = s /\ ~g.links
  /\ stamp' = stamp + 1

Rewritten(g, f, s) ==
  /\ g # NoFile /\ f # NoFile
  /\ g.ino = f.ino /\ g.mtime = stamp /\ g.by = s /\ g.links = f.links
  /\ stamp' = stamp + 1

Same(g, f, s) == g = f \/ Rewritten(g, f, s)

\* What a step of s does to the names and to the times that s remembers.
Moved(s) ==
  /\ stamp' \in {stamp, stamp + 1}
  /\ \/ /\ Same(file', file, s) /\ Same(backup', backup, s)
        /\ Same(temp'[s], temp[s], s) \/ temp'[s] = NoFile
     \/ file = NoFile /\ New(file', s) /\ backup' = backup /\ temp'[s] = temp[s]
     \/ file' = file /\ backup' = backup /\ New(temp'[s], s)
     \/ file' = NoFile /\ backup' \in {backup, file} /\ temp'[s] = temp[s]
     \/ file' = temp[s] /\ backup' = backup /\ temp'[s] = NoFile
  /\ \/ ed'[s].mtime \in {0, ed[s].mtime}
     \/ ed'[s].mtime = stamp /\ stamp' = stamp + 1
     \/ file # NoFile /\ ed'[s].mtime = file.mtime
     \/ temp[s] # NoFile /\ ed'[s].mtime = temp[s].mtime
  /\ \/ save'[s].seen \in {0, save[s].seen}
     \/ file # NoFile /\ save'[s].seen = file.mtime

\* Every step is such a move.
LEMMA Moves ==
  ASSUME Typed, NEW s \in Sessions, ShapeOf(s), StepOf(s)
  PROVE  Moved(s)
<1>s. save[s].pc = "open" /\ save[s].mode # "quick" => temp[s] # NoFile
  BY DEF ShapeOf, Quick, Writing
<1> USE DEF Moved, Same
<1>1. CASE Open(s)
  BY <1>1, OpenIs, IdleIs DEF IsCreated, NextStamp, New
<1>2. CASE Modify(s)
  BY <1>2, ModifyIs
<1>3. CASE Quit(s) \/ QuitAfterSave(s)
  BY <1>3, CleanIs, IdleIs, ClosedIs
<1>4. CASE Die(s)
  BY <1>4, DieIs, IdleIs, ClosedIs
<1>5. CASE SaveCmd(s)
  BY <1>5, SaveCmdIs
<1>6. CASE SaveReturn(s)
  BY <1>6, ReturnIs, IdleIs DEF KeepsSave
<1>7. CASE SaveChooseMode(s)
  BY <1>7, ChooseModeIs
<1>8. CASE SaveCheck(s)
  BY <1>8, CheckIs
<1>9. CASE SaveAskLinks(s)
  BY <1>9, AskLinksIs
<1>10. CASE SaveAskMtime(s)
  BY <1>10, AskMtimeIs
<1>11. CASE SaveTemp(s)
  BY <1>11, TempIs DEF KeepsSave, IsCreated, NextStamp, New
<1>12. CASE SaveOpen(s)
  BY <1>12, <1>s, SaveOpenIs DEF IsCreated, IsWritten, NextStamp, New, Rewritten
<1>13. CASE SaveWrite(s)
  BY <1>13, WriteIs DEF KeepsSave, IsPut, IsWritten, NextStamp, Rewritten
<1>14. CASE SaveStat(s)
  BY <1>14, StatIs DEF KeepsSave
<1>15. CASE SaveBackup(s)
  BY <1>15, BackupIs DEF KeepsSave
<1>16. CASE SaveRename(s)
  BY <1>16, RenameIs DEF KeepsSave
<1> QED
    BY <1>1, <1>2, <1>3, <1>4, <1>5, <1>6, <1>7, <1>8, <1>9, <1>10, <1>11, <1>12, <1>13, <1>14,
     <1>15, <1>16 DEF StepOf, SaveStep

\* Fresh is kept: what is new gets the next number, and renames do not copy.
LEMMA FreshNext ==
  ASSUME Typed, Typed', Fresh, NEW s \in Sessions, Moved(s), Others(s)
  PROVE  Fresh'
<1> USE DEF FreshNames, FreshOf, Apart
<1>1. /\ stamp \in Nat /\ stamp >= 1
      /\ FreshNames /\ FreshOf(s)
      /\ file # NoFile => file.ino \in Nat /\ file.mtime \in Nat
      /\ backup # NoFile => backup.ino \in Nat
      /\ \A t \in Sessions : temp[t] # NoFile => temp[t].ino \in Nat /\ temp[t].mtime \in Nat
      /\ \A t \in Sessions : ed[t].mtime \in Nat /\ save[t].seen \in Nat
  <2>1. \A f \in File : f.ino \in Nat /\ f.mtime \in Nat
    BY Bounds DEF File
  <2>2. stamp \in Nat /\ stamp >= 1
    BY Bounds DEF Typed, Counts
  <2>3. \A t \in Sessions : ed[t].mtime \in Nat /\ save[t].seen \in Nat
    BY Bounds DEF Typed, EdRec, SaveRec
  <2> QED  BY <2>1, <2>2, <2>3 DEF Typed, Disk, Fresh
<1>2. FreshNames'
  BY <1>1 DEF Moved, Same, New, Rewritten
<1>3. FreshOf(s)'
  BY <1>1 DEF Moved, Same, New, Rewritten
<1>4. ASSUME NEW t \in Sessions \ {s} PROVE FreshOf(t)' /\ Apart(s, t)' /\ Apart(t, s)'
  <2>1. FreshOf(t) /\ Apart(s, t) /\ temp'[t] = temp[t] /\ ed'[t] = ed[t] /\ save'[t] = save[t]
    BY <1>4 DEF Fresh, Others
  <2>2. FreshOf(t)'
    BY <1>1, <2>1 DEF Moved, Same, New, Rewritten
  <2>3. Apart(s, t)'
    BY <1>1, <2>1 DEF Moved, Same, New, Rewritten
  <2> QED  BY <2>2, <2>3
<1>5. ASSUME NEW t \in Sessions \ {s}, NEW u \in Sessions \ {s}, t # u PROVE Apart(t, u)'
  BY <1>5 DEF Fresh, Others
<1> QED  BY <1>2, <1>3, <1>4, <1>5 DEF Fresh

\* Drafted is kept: the buffer does not change while it is saved.
LEMMA DraftedNext ==
  ASSUME Typed, Drafted, NEW s \in Sessions, ShapeOf(s), StepOf(s), Others(s), UNCHANGED opt
  PROVE  Drafted'
<1> SUFFICES ASSUME opt.plain, DraftedOf(s) PROVE DraftedOf(s)'
  <2>1. ASSUME NEW t \in Sessions \ {s}, DraftedOf(t) PROVE DraftedOf(t)'
    BY <2>1 DEF DraftedOf, Others, Quick
  <2> QED  BY <2>1 DEF Drafted
<1>s. save[s].pc = "open" /\ save[s].mode # "quick" => temp[s] # NoFile
  BY DEF ShapeOf, Quick, Writing
<1>w. save[s].pc = "write" /\ ~Quick(s) => temp[s] # NoFile /\ save[s].fd = temp[s].ino
  BY DEF ShapeOf, Writing
<1>1. CASE Open(s)
  BY <1>1, OpenIs, IdleIs DEF DraftedOf, Quick
<1>2. CASE Modify(s)
  BY <1>2, ModifyIs DEF DraftedOf, Quick
<1>3. CASE Quit(s) \/ QuitAfterSave(s)
  BY <1>3, CleanIs, IdleIs, ClosedIs DEF DraftedOf, Quick
<1>4. CASE Die(s)
  BY <1>4, DieIs, IdleIs, ClosedIs DEF DraftedOf, Quick
<1>5. CASE SaveCmd(s)
  BY <1>5, SaveCmdIs DEF DraftedOf, Quick
<1>6. CASE SaveReturn(s)
  BY <1>6, ReturnIs, IdleIs DEF DraftedOf, Quick, KeepsSave
<1>7. CASE SaveChooseMode(s)
  BY <1>7, ChooseModeIs DEF DraftedOf, Quick
<1>8. CASE SaveCheck(s)
  BY <1>8, CheckIs DEF DraftedOf, Quick
<1>9. CASE SaveAskLinks(s)
  BY <1>9, AskLinksIs DEF DraftedOf, Quick
<1>10. CASE SaveAskMtime(s)
  BY <1>10, AskMtimeIs DEF DraftedOf, Quick
<1>11. CASE SaveTemp(s)
  BY <1>11, TempIs DEF DraftedOf, Quick, KeepsSave
<1>12. CASE SaveOpen(s)
  BY <1>12, <1>s, SaveOpenIs DEF DraftedOf, Quick
<1>13. CASE SaveWrite(s)
  <2>1. CASE ~Quick(s)' /\ save'[s].pc = "stat" /\ save'[s].res = "none"
    <3>1. ~Quick(s) /\ temp[s] # NoFile /\ save[s].fd = temp[s].ino
      BY <1>13, <1>w, <2>1, WriteIs DEF Quick, KeepsSave
    <3>2. IsPut(temp'[s], temp[s], ed[s].buf, TRUE, s) /\ ed' = ed
      BY <1>13, <2>1, <3>1, WriteIs DEF Mixed, Quick
    <3>3. IsWritten(temp'[s], temp[s], ed[s].buf, TRUE, s)
      BY <3>1, <3>2 DEF IsPut
    <3> QED  BY <3>2, <3>3 DEF DraftedOf, IsWritten
  <2>2. opt.plain => save'[s].pc \in {"stat", "done"}
    BY <1>13, WriteIs
  <2> QED  BY <2>1, <2>2 DEF DraftedOf
<1>14. CASE SaveStat(s)
  BY <1>14, StatIs DEF DraftedOf, Quick, KeepsSave
<1>15. CASE SaveBackup(s)
  BY <1>15, BackupIs DEF DraftedOf, Quick, KeepsSave
<1>16. CASE SaveRename(s)
  BY <1>16, RenameIs DEF DraftedOf, Quick, KeepsSave
<1> QED
    BY <1>1, <1>2, <1>3, <1>4, <1>5, <1>6, <1>7, <1>8, <1>9, <1>10, <1>11, <1>12, <1>13, <1>14,
     <1>15, <1>16 DEF StepOf, SaveStep

\* What steps do to the lock link as long as nobody goes on without one.
LEMMA LockMoves ==
  ASSUME Typed, NEW s \in Sessions, StepOf(s)
  PROVE  /\ \/ lock' = lock
            \/ lock \in {Nobody, Stale} /\ lock' = s
            \/ lock = s /\ lock' \in {Nobody, Stale}
            \/ unguarded'
         /\ unguarded => unguarded'
<1>1. CASE Modify(s) \/ SaveCmd(s)
  BY <1>1, ModifyIs, SaveCmdIs DEF LockFile
<1>2. CASE Quit(s) \/ QuitAfterSave(s) \/ SaveReturn(s) \/ Die(s)
  BY <1>2, CleanIs, ReturnIs, DieIs DEF Unlock
<1>3. CASE UNCHANGED <<lock, unguarded>>
  BY <1>3
<1> QED
  BY <1>1, <1>2, <1>3 DEF StepOf, SaveStep, Open, SaveChooseMode, SaveChooseWith, SaveCheck, SaveCheckWith,
     SaveAskLinks, SaveAskMtime, SaveTemp, SaveOpen, SaveWrite, SaveStat, SaveBackup, SaveRename

\* LockInv is kept.
LEMMA LockNext ==
  ASSUME Typed, LockInv, NEW s \in Sessions, ShapeOf(s), StepOf(s), Others(s)
  PROVE  LockInv'
<1> SUFFICES ASSUME ~unguarded', LockOf(s) PROVE LockOf(s)'
  <2>1. ASSUME NEW t \in Sessions \ {s}, LockOf(t), ~unguarded' PROVE LockOf(t)'
    BY <2>1, LockMoves, Bounds DEF LockOf, Others, Saving
  <2> QED  BY <2>1, LockMoves DEF LockInv
<1>1. CASE Open(s)
  BY <1>1, OpenIs, IdleIs DEF LockOf, Saving
<1>2. CASE Modify(s)
  <2>1. ~save[s].save_lock /\ save' = save /\ save[s].pc = "idle"
    BY <1>2, ModifyIs, IdleIs DEF ShapeOf
  <2> QED  BY <1>2, <2>1, ModifyIs DEF LockOf, Saving, LockFile
<1>3. CASE Quit(s) \/ QuitAfterSave(s)
  BY <1>3, CleanIs, IdleIs, ClosedIs DEF LockOf, Saving, Unlock
<1>4. CASE Die(s)
  BY <1>4, DieIs, IdleIs, ClosedIs DEF LockOf, Saving
<1>5. CASE SaveCmd(s)
  BY <1>5, SaveCmdIs DEF LockOf, Saving, LockFile
<1>6. CASE SaveReturn(s)
  BY <1>6, ReturnIs, IdleIs DEF LockOf, Saving, Unlock, KeepsSave
<1>7. CASE SaveChooseMode(s)
  BY <1>7, ChooseModeIs DEF LockOf, Saving
<1>8. CASE SaveCheck(s)
  BY <1>8, CheckIs DEF LockOf, Saving
<1>9. CASE SaveAskLinks(s)
  BY <1>9, AskLinksIs DEF LockOf, Saving
<1>10. CASE SaveAskMtime(s)
  BY <1>10, AskMtimeIs DEF LockOf, Saving
<1>11. CASE SaveTemp(s)
  BY <1>11, TempIs DEF LockOf, Saving, KeepsSave
<1>12. CASE SaveOpen(s)
  <2>1. save[s].pc = "open" /\ save[s].mode # "quick" => temp[s] # NoFile
    BY DEF ShapeOf, Quick, Writing
  <2> QED  BY <1>12, <2>1, SaveOpenIs DEF LockOf, Saving
<1>13. CASE SaveWrite(s)
  BY <1>13, WriteIs DEF LockOf, Saving, KeepsSave
<1>14. CASE SaveStat(s)
  BY <1>14, StatIs DEF LockOf, Saving, KeepsSave
<1>15. CASE SaveBackup(s)
  BY <1>15, BackupIs DEF LockOf, Saving, KeepsSave
<1>16. CASE SaveRename(s)
  BY <1>16, RenameIs DEF LockOf, Saving, KeepsSave
<1> QED
    BY <1>1, <1>2, <1>3, <1>4, <1>5, <1>6, <1>7, <1>8, <1>9, <1>10, <1>11, <1>12, <1>13, <1>14,
     <1>15, <1>16 DEF StepOf, SaveStep

\* A save that wrote straight into the file is not forgotten.
LEMMA DirectStays ==
  ASSUME NEW s \in Sessions, StepOf(s)
  PROVE  direct => direct'
  BY DEF StepOf, Open, Modify, Quit, Die, SaveCmd, SaveStep, Clean, SaveChooseMode, SaveChooseWith,
     SaveCheck, SaveCheckWith, SaveAskLinks, SaveAskMtime, SaveTemp, SaveOpen, SaveWrite, SaveStat,
     SaveBackup, SaveRename, SaveReturn, SaveReturnWith, QuitAfterSave

\* SafeInv is kept: only temporaries are truncated, and what is renamed is whole.
LEMMA SafeNext ==
  ASSUME Typed, Drafted, SafeInv, NEW s \in Sessions, ShapeOf(s), FreshOf(s), StepOf(s), Others(s),
         UNCHANGED opt
  PROVE  SafeInv'
<1> SUFFICES ASSUME opt.mode = "safe", opt.plain, ~direct', DraftedOf(s), Good(file), SafeOf(s)
             PROVE  Good(file)' /\ SafeOf(s)'
  <2>1. ASSUME NEW t \in Sessions \ {s}, SafeOf(t) PROVE SafeOf(t)'
    BY <2>1 DEF SafeOf, Others
  <2> QED  BY <2>1, DirectStays DEF SafeInv, Drafted
<1>1. CASE Open(s)
  BY <1>1, OpenIs, IdleIs DEF SafeOf, Good
<1>2. CASE Modify(s)
  BY <1>2, ModifyIs DEF SafeOf, Good
<1>3. CASE Quit(s) \/ QuitAfterSave(s)
  BY <1>3, CleanIs, IdleIs, ClosedIs DEF SafeOf, Good
<1>4. CASE Die(s)
  BY <1>4, DieIs, IdleIs, ClosedIs DEF SafeOf, Good
<1>5. CASE SaveCmd(s)
  BY <1>5, SaveCmdIs DEF SafeOf, Good
<1>6. CASE SaveReturn(s)
  BY <1>6, ReturnIs, IdleIs DEF SafeOf, Good, KeepsSave
<1>7. CASE SaveChooseMode(s)
  BY <1>7, ChooseModeIs DEF SafeOf, Good
<1>8. CASE SaveCheck(s)
  BY <1>8, CheckIs DEF SafeOf, Good
<1>9. CASE SaveAskLinks(s)
  BY <1>9, AskLinksIs DEF SafeOf, Good
<1>10. CASE SaveAskMtime(s)
  BY <1>10, AskMtimeIs DEF SafeOf, Good
<1>11. CASE SaveTemp(s)
  BY <1>11, TempIs DEF SafeOf, Good, KeepsSave
<1>12. CASE SaveOpen(s)
  <2>1. save[s].pc = "open" /\ save[s].mode # "quick" => temp[s] # NoFile
    BY DEF ShapeOf, Quick, Writing
  <2> QED  BY <1>12, <2>1, SaveOpenIs DEF SafeOf, Good
<1>13. CASE SaveWrite(s)
  <2>1. save[s].pc = "write" /\ save[s].mode = "safe"
    BY <1>13, WriteIs DEF SafeOf
  <2>2. temp[s] # NoFile /\ save[s].fd = temp[s].ino
    BY <2>1 DEF ShapeOf, Quick, Writing
  <2>3. file.ino # save[s].fd
    BY <2>2 DEF FreshOf, Good
  <2>4. file' = file
    BY <1>13, <2>3, WriteIs DEF IsPut
  <2> QED  BY <1>13, <2>1, <2>4, WriteIs DEF SafeOf, Good, KeepsSave
<1>14. CASE SaveStat(s)
  BY <1>14, StatIs DEF SafeOf, Good, KeepsSave
<1>15. CASE SaveBackup(s)
  BY <1>15, BackupIs DEF SafeOf, Good, KeepsSave
<1>16. CASE SaveRename(s)
  <2>1. save[s].pc = "rename" /\ save[s].mode = "safe"
    BY <1>16, RenameIs DEF SafeOf
  <2>2. temp[s] # NoFile /\ save[s].res = "none"
    BY <2>1 DEF ShapeOf, Quick, Writing
  <2>3. temp[s].whole
    BY <2>1, <2>2 DEF DraftedOf, Quick
  <2> QED  BY <1>16, <2>1, <2>2, <2>3, RenameIs DEF SafeOf, Good, KeepsSave
<1> QED
    BY <1>1, <1>2, <1>3, <1>4, <1>5, <1>6, <1>7, <1>8, <1>9, <1>10, <1>11, <1>12, <1>13, <1>14,
     <1>15, <1>16 DEF StepOf, SaveStep

\* Only the editors that were started do anything.
LEMMA Actor ==
  ASSUME Typed, NEW s \in Sessions, ShapeOf(s), StepOf(s)
  PROVE  s \in opt.who
<1>1. Open(s) \/ ed[s].open
  BY DEF StepOf, SaveStep, Modify, Quit, Die, SaveCmd, SaveChooseMode, SaveChooseWith, SaveCheck,
     SaveCheckWith,
     SaveAskLinks, SaveAskMtime, SaveTemp, SaveOpen, SaveWrite, SaveStat, SaveBackup, SaveRename,
     SaveReturn, SaveReturnWith, QuitAfterSave, At
<1> QED  BY <1>1 DEF ShapeOf, Open

\* A step fails at most once.
LEMMA FaultsGrow ==
  ASSUME Typed, NEW s \in Sessions, StepOf(s)
  PROVE  faults \in Nat /\ (faults' = faults \/ faults' = faults + 1)
<1>1. faults' = faults \/ Fault
  BY DEF StepOf, Open, Modify, Quit, Die, SaveCmd, SaveStep, Clean, SaveChooseMode, SaveChooseWith, SaveCheck,
     SaveCheckWith, SaveAskLinks, SaveAskMtime, SaveTemp, SaveOpen, SaveWrite, WriteTo, SaveStat,
     SaveBackup, SaveRename, SaveReturn, SaveReturnWith, QuitAfterSave, Fails
<1> QED  BY <1>1, Bounds DEF Fault, Typed, Counts

\* CopyInv is kept.
LEMMA CopyNext ==
  ASSUME Typed, Drafted, CopyInv, NEW s \in Sessions, Shape, FreshNames, FreshOf(s), StepOf(s),
         UNCHANGED opt
  PROVE  CopyInv'
<1>h. ShapeOf(s)
  BY DEF Shape
<1> SUFFICES ASSUME opt.mode = "backup", opt.plain, opt.who = {s}, ~direct', DraftedOf(s),
                    faults' <= 1, CopyOf(s)
             PROVE  CopyOf(s)'
  BY <1>h, Actor, FaultsGrow, DirectStays DEF CopyInv, Drafted
<1>o. \A t \in Sessions \ {s} : save[t].pc # "write"
  <2> SUFFICES ASSUME NEW t \in Sessions \ {s} PROVE save[t].pc # "write"
    OBVIOUS
  <2>1. save[t] = Idle
    BY DEF Shape, ShapeOf
  <2> QED  BY <2>1, IdleIs
<1>f. faults \in Nat /\ (faults = 0 \/ faults = 1) /\ (Fault => faults = 0 /\ faults' = 1)
  BY FaultsGrow DEF Fault
<1>m. ~Quick(s) /\ save[s].pc \notin {"idle", "mode"} => save[s].mode = "backup"
  BY <1>h DEF ShapeOf, CopyOf, Quick
<1>t. ~Quick(s) /\ save[s].pc \in Writing \cup {"open"} => temp[s] # NoFile
  BY <1>h DEF ShapeOf
<1>1. CASE Open(s)
  <2>1. save[s].pc = "idle" /\ ~ed[s].delete_file
    BY <1>1, <1>h, OpenIs, IdleIs, ClosedIs DEF ShapeOf
  <2>2. file = NoFile => IsCreated(file', {}, TRUE, s)
    BY <1>1, OpenIs
  <2>3. file = NoFile => file' # NoFile /\ file'.whole
    BY <2>2 DEF IsCreated
  <2> QED  BY <1>1, <2>1, <2>3, OpenIs, IdleIs DEF CopyOf, Good, Quick
<1>2. CASE Modify(s)
  BY <1>2, ModifyIs, <1>f, <1>m DEF CopyOf, Good, Quick
<1>3. CASE Quit(s) \/ QuitAfterSave(s)
  BY <1>3, CleanIs, IdleIs, ClosedIs, <1>f, <1>m DEF CopyOf, Good, Quick
<1>4. CASE Die(s)
  BY <1>4, DieIs, IdleIs, ClosedIs, <1>f, <1>m DEF CopyOf, Good, Quick
<1>5. CASE SaveCmd(s)
  BY <1>5, SaveCmdIs, <1>f, <1>m DEF CopyOf, Good, Quick
<1>6. CASE SaveReturn(s)
  BY <1>6, ReturnIs, IdleIs, <1>f, <1>m DEF CopyOf, Good, Quick, KeepsSave
<1>7. CASE SaveChooseMode(s)
  BY <1>7, ChooseModeIs, <1>f, <1>m DEF CopyOf, Good, Quick
<1>8. CASE SaveCheck(s)
  BY <1>8, CheckIs, <1>f, <1>m DEF CopyOf, Good, Quick
<1>9. CASE SaveAskLinks(s)
  BY <1>9, AskLinksIs, <1>f, <1>m DEF CopyOf, Good, Quick
<1>10. CASE SaveAskMtime(s)
  BY <1>10, AskMtimeIs, <1>f, <1>m DEF CopyOf, Good, Quick
<1>11. CASE SaveTemp(s)
  <2>1. save[s].pc = "temp" /\ ~Quick(s)
    BY <1>11, <1>h, TempIs DEF ShapeOf
  <2> QED  BY <1>11, <1>f, <2>1, TempIs DEF CopyOf, Good, Quick, KeepsSave
<1>12. CASE SaveOpen(s)
  <2>1. save[s].pc = "open" /\ save[s].mode # "quick" => temp[s] # NoFile
    BY <1>t DEF Quick
  <2>2. CASE ~Quick(s)
    BY <1>12, <1>f, <2>1, <2>2, SaveOpenIs DEF CopyOf, Good, Quick
  <2>3. CASE Quick(s)
    <3>1. save[s].pc = "open" /\ file = NoFile /\ Good(backup) /\ faults = 1
      BY <1>12, <2>1, <2>3, SaveOpenIs DEF CopyOf, Good
    <3>2. CASE save'[s].pc = "done"
      BY <1>12, <1>f, <2>1, <2>3, <3>1, <3>2, SaveOpenIs DEF CopyOf, Good, Quick
    <3>3. CASE /\ save'[s].pc = "write" /\ faults' = faults /\ save'[s].fd = file'.ino
               /\ IsCreated(file', {}, FALSE, s) /\ ~save'[s].shared
      BY <1>12, <2>1, <2>3, <3>1, <3>3, SaveOpenIs DEF CopyOf, Good, Quick, IsCreated
    <3> QED  BY <1>12, <1>o, <2>1, <2>3, <3>1, <3>2, <3>3, SaveOpenIs DEF Quick
  <2> QED  BY <2>2, <2>3
<1>13. CASE SaveWrite(s)
  <2>1. save[s].pc = "write" /\ KeepsSave(s) /\ save'[s].pc # "rename" /\ ed' = ed
    BY <1>13, WriteIs
  <2>2. CASE ~Quick(s)
    <3>1. temp[s] # NoFile /\ save[s].fd = temp[s].ino
      BY <1>h, <2>1, <2>2 DEF ShapeOf, Quick, Writing
    <3>2. (file # NoFile => file.ino # save[s].fd) /\ (backup # NoFile => backup.ino # save[s].fd)
      BY <3>1 DEF FreshOf
    <3>3. file' = file /\ backup' = backup
      BY <1>13, <3>2, WriteIs DEF IsPut
    <3> QED  BY <1>13, <1>f, <2>1, <2>2, <3>3, WriteIs DEF CopyOf, Good, Quick, KeepsSave
  <2>3. CASE Quick(s)
    <3>1. /\ faults = 1 /\ file # NoFile /\ file.ino = save[s].fd /\ Good(backup)
          /\ file.by = s /\ ~save[s].shared
      BY <2>1, <2>3 DEF CopyOf
    <3>m. ~Mixed(s)
      BY <3>1 DEF Mixed, FreshNames, Good
    <3>2. IsPut(file', file, ed[s].buf, TRUE, s) /\ IsPut(backup', backup, ed[s].buf, TRUE, s)
          /\ faults' = faults /\ save'[s].pc = "stat"
      <4>1. ~Fault
        BY <1>f, <3>1
      <4> QED  BY <1>13, <3>m, <4>1, WriteIs
    <3>3. IsWritten(file', file, ed[s].buf, TRUE, s)
      BY <3>1, <3>2 DEF IsPut
    <3>4. backup' = backup
      BY <3>1, <3>2 DEF IsPut, FreshNames, Good
    <3> QED  BY <2>1, <2>3, <3>1, <3>2, <3>3, <3>4 DEF CopyOf, Good, Quick, KeepsSave, IsWritten
  <2> QED  BY <2>2, <2>3
<1>14. CASE SaveStat(s)
  BY <1>14, StatIs, <1>f, <1>m DEF CopyOf, Good, Quick, KeepsSave
<1>15. CASE SaveBackup(s)
  BY <1>15, BackupIs, <1>f, <1>m DEF CopyOf, Good, Quick, KeepsSave
<1>16. CASE SaveRename(s)
  <2>1. save[s].pc = "rename"
    BY <1>16, RenameIs
  <2>2. ~Quick(s) => temp[s] # NoFile /\ temp[s].whole
    BY <1>h, <2>1, <1>t DEF DraftedOf, ShapeOf, Writing
  <2> QED  BY <1>16, <1>f, <2>1, <2>2, RenameIs DEF CopyOf, Good, Quick, KeepsSave
<1> QED
    BY <1>1, <1>2, <1>3, <1>4, <1>5, <1>6, <1>7, <1>8, <1>9, <1>10, <1>11, <1>12, <1>13, <1>14,
     <1>15, <1>16 DEF StepOf, SaveStep

\* What another session has written stays as it is, or is no longer under the name.
LEMMA ByOther ==
  ASSUME NEW s \in Sessions, NEW t \in Sessions \ {s}, FreshOf(s), Moved(s), By(t)'
  PROVE  file' = file /\ By(t)
  BY DEF By, Moved, Same, New, Rewritten, FreshOf

\* WrittenInv is kept.
LEMMA WrittenNext ==
  ASSUME Typed, Drafted, WrittenInv, NEW s \in Sessions, ShapeOf(s), FreshOf(s), StepOf(s), Moved(s),
         Others(s), UNCHANGED opt
  PROVE  WrittenInv'
<1> SUFFICES ASSUME opt.plain, DraftedOf(s), WrittenOf(s) PROVE WrittenOf(s)'
  <2>1. ASSUME NEW t \in Sessions \ {s}, WrittenOf(t) PROVE WrittenOf(t)'
    BY <2>1, ByOther DEF WrittenOf, Others, Quick
  <2> QED  BY <2>1 DEF WrittenInv, Drafted
<1>1. CASE Open(s)
  BY <1>1, OpenIs, IdleIs DEF WrittenOf, By, Quick, Writing
<1>2. CASE Modify(s)
  BY <1>2, ModifyIs DEF WrittenOf, By, Quick, Writing
<1>3. CASE Quit(s) \/ QuitAfterSave(s)
  BY <1>3, CleanIs, IdleIs, ClosedIs DEF WrittenOf, By, Quick, Writing
<1>4. CASE Die(s)
  BY <1>4, DieIs, IdleIs, ClosedIs DEF WrittenOf, By, Quick, Writing
<1>5. CASE SaveCmd(s)
  BY <1>5, SaveCmdIs DEF WrittenOf, By, Quick, Writing
<1>6. CASE SaveReturn(s)
  BY <1>6, ReturnIs, IdleIs DEF WrittenOf, By, Quick, Writing, KeepsSave
<1>7. CASE SaveChooseMode(s)
  BY <1>7, ChooseModeIs DEF WrittenOf, By, Quick, Writing
<1>8. CASE SaveCheck(s)
  BY <1>8, CheckIs DEF WrittenOf, By, Quick, Writing
<1>9. CASE SaveAskLinks(s)
  BY <1>9, AskLinksIs DEF WrittenOf, By, Quick, Writing
<1>10. CASE SaveAskMtime(s)
  BY <1>10, AskMtimeIs DEF WrittenOf, By, Quick, Writing
<1>11. CASE SaveTemp(s)
  <2>1. save[s].pc = "temp" /\ ~Quick(s)
    BY <1>11, TempIs DEF ShapeOf
  <2> QED  BY <1>11, <2>1, TempIs DEF WrittenOf, Quick, Writing, KeepsSave
<1>12. CASE SaveOpen(s)
  <2>1. save[s].pc = "open" /\ save[s].mode # "quick" => temp[s] # NoFile
    BY DEF ShapeOf, Quick, Writing
  <2>2. \/ save'[s].pc = "write" /\ (Quick(s)' => save'[s].fd = file'.ino)
        \/ save'[s].pc = "done" /\ save'[s].res = "error"
    BY <1>12, <2>1, SaveOpenIs DEF Quick
  <2> QED  BY <2>2 DEF WrittenOf, Writing
<1>13. CASE SaveWrite(s)
  <2>1. save[s].pc = "write" /\ KeepsSave(s) /\ save'[s].pc \in {"stat", "done"} /\ ed' = ed
        /\ (save'[s].pc = "done" => save'[s].res = "error")
    BY <1>13, WriteIs
  <2>2. CASE ~Quick(s)
    BY <2>1, <2>2 DEF WrittenOf, Quick, KeepsSave
  <2>3. CASE Quick(s) /\ By(s)'
    <3>1. IsPut(file', file, ed[s].buf, TRUE, s) \/ IsPut(file', file, {}, FALSE, s)
      BY <1>13, WriteIs
    <3>2. file # NoFile /\ file.ino = save[s].fd
      BY <2>1, <2>3, <3>1 DEF IsPut, WrittenOf, By, Writing
    <3>3. file'.ino = save'[s].fd
      BY <2>1, <3>1, <3>2 DEF IsPut, IsWritten, KeepsSave
    <3>4. save'[s].res = "none" /\ ~save'[s].shared => IsPut(file', file, ed[s].buf, TRUE, s)
      BY <1>13, WriteIs
    <3>5. save'[s].res = "none" /\ ~save'[s].shared => file'.whole /\ file'.text = ed[s].buf
      BY <3>2, <3>4 DEF IsPut, IsWritten
    <3> QED  BY <2>1, <3>3, <3>5 DEF WrittenOf
  <2> QED  BY <2>2, <2>3 DEF WrittenOf
<1>14. CASE SaveStat(s)
  BY <1>14, StatIs DEF WrittenOf, By, Quick, Writing, KeepsSave
<1>15. CASE SaveBackup(s)
  <2>1. save[s].pc = "backup" /\ save[s].res = "none"
    BY <1>15, BackupIs DEF ShapeOf
  <2> QED  BY <1>15, <2>1, BackupIs DEF WrittenOf, By, Quick, Writing, KeepsSave
<1>16. CASE SaveRename(s)
  <2>1. save[s].pc = "rename" /\ save[s].res = "none"
    BY <1>16, RenameIs DEF ShapeOf
  <2>2. ~Quick(s) => temp[s].whole /\ temp[s].text = ed[s].buf
    BY <2>1 DEF DraftedOf
  <2> QED  BY <1>16, <2>1, <2>2, RenameIs DEF WrittenOf, By, Quick, Writing, KeepsSave
<1> QED
    BY <1>1, <1>2, <1>3, <1>4, <1>5, <1>6, <1>7, <1>8, <1>9, <1>10, <1>11, <1>12, <1>13, <1>14,
     <1>15, <1>16 DEF StepOf, SaveStep

\* KnownInv is kept.
LEMMA KnownNext ==
  ASSUME Typed, KnownInv, NEW s \in Sessions, ShapeOf(s), FreshOf(s), StepOf(s), Moved(s),
         Others(s), UNCHANGED opt
  PROVE  KnownInv'
<1> SUFFICES ASSUME opt.plain, faults' = 0, KnownOf(s) PROVE KnownOf(s)'
  <2>1. ASSUME NEW t \in Sessions \ {s}, KnownOf(t) PROVE KnownOf(t)'
    BY <2>1, ByOther DEF KnownOf, Others, Quick
  <2> QED  BY <2>1, FaultsGrow DEF KnownInv
<1>f. ~Fault
  BY FaultsGrow DEF Fault
<1>1. CASE Open(s)
  BY <1>1, OpenIs, IdleIs, <1>f DEF KnownOf, By, Quick, IsCreated
<1>2. CASE Modify(s)
  BY <1>2, ModifyIs, <1>f DEF KnownOf, By, Quick
<1>3. CASE Quit(s) \/ QuitAfterSave(s)
  BY <1>3, CleanIs, IdleIs, ClosedIs, <1>f DEF KnownOf, By, Quick
<1>4. CASE Die(s)
  BY <1>4, DieIs, IdleIs, ClosedIs, <1>f DEF KnownOf, By, Quick
<1>5. CASE SaveCmd(s)
  BY <1>5, SaveCmdIs, <1>f DEF KnownOf, By, Quick
<1>6. CASE SaveReturn(s)
  BY <1>6, ReturnIs, IdleIs, <1>f DEF KnownOf, By, Quick, KeepsSave
<1>7. CASE SaveChooseMode(s)
  BY <1>7, ChooseModeIs, <1>f DEF KnownOf, By, Quick
<1>8. CASE SaveCheck(s)
  BY <1>8, CheckIs, <1>f DEF KnownOf, By, Quick
<1>9. CASE SaveAskLinks(s)
  BY <1>9, AskLinksIs, <1>f DEF KnownOf, By, Quick
<1>10. CASE SaveAskMtime(s)
  BY <1>10, AskMtimeIs, <1>f DEF KnownOf, By, Quick
<1>11. CASE SaveTemp(s)
  BY <1>11, TempIs, <1>f DEF KnownOf, By, Quick, KeepsSave
<1>12. CASE SaveOpen(s)
  <2>1. save[s].pc = "open" /\ save[s].mode # "quick" => temp[s] # NoFile
    BY DEF ShapeOf, Quick, Writing
  <2>2. save[s].pc = "open" /\ save'[s].pc = "write" /\ save'[s].res = save[s].res
    BY <1>12, <1>f, <2>1, SaveOpenIs
  <2>3. save[s].res = "none"
    BY <2>2 DEF ShapeOf
  <2> QED  BY <2>2, <2>3 DEF KnownOf
<1>13. CASE SaveWrite(s)
  <2>1. save[s].pc = "write" /\ save'[s].pc = "stat" /\ save'[s].res = save[s].res
    BY <1>13, <1>f, WriteIs
  <2>2. save[s].res = "none"
    BY <2>1 DEF ShapeOf
  <2> QED  BY <2>1, <2>2 DEF KnownOf
<1>14. CASE SaveStat(s)
  <2>1. save[s].pc = "stat" /\ KeepsSave(s) /\ file' = file /\ temp'[s] = temp[s]
    BY <1>14, StatIs
  <2>2. ~Quick(s) => temp[s] # NoFile
    BY <2>1 DEF ShapeOf, Writing
  <2>3. CASE Quick(s)
    BY <1>14, <1>f, <2>1, <2>3, StatIs DEF KnownOf, By, Quick, KeepsSave
  <2>4. CASE ~Quick(s)
    BY <1>14, <1>f, <2>1, <2>2, <2>4, StatIs DEF KnownOf, By, Quick, KeepsSave
  <2> QED  BY <2>3, <2>4
<1>15. CASE SaveBackup(s)
  BY <1>15, BackupIs, <1>f DEF KnownOf, By, Quick, KeepsSave
<1>16. CASE SaveRename(s)
  BY <1>16, RenameIs, <1>f DEF KnownOf, By, Quick, KeepsSave
<1> QED
    BY <1>1, <1>2, <1>3, <1>4, <1>5, <1>6, <1>7, <1>8, <1>9, <1>10, <1>11, <1>12, <1>13, <1>14,
     <1>15, <1>16 DEF StepOf, SaveStep

\* QuickInv is kept: who writes while another is about to write must have ignored its lock.
LEMMA QuickNext ==
  ASSUME Typed, Fresh, LockInv, QuickInv, NEW s \in Sessions, ShapeOf(s), StepOf(s), Moved(s),
         Others(s), UNCHANGED opt
  PROVE  QuickInv'
<1> SUFFICES ASSUME opt.mode = "quick", file # NoFile, ~file.links, \A t \in Sessions : QuickOf(t)
             PROVE  file' # NoFile /\ ~file'.links /\ \A t \in Sessions : QuickOf(t)'
  BY DEF QuickInv
<1>1. QuickOf(s) /\ Quick(s) /\ ~ed[s].delete_file /\ ~ed[s].skip_detach
  BY DEF QuickOf
<1>2. unguarded => unguarded'
  BY LockMoves
\* The file stays, or s has just truncated or written it.
<1>3. \/ file' = file
      \/ /\ file' # NoFile /\ ~file'.links /\ file'.mtime = stamp
         /\ \/ file'.text = {} /\ save[s].pc \in {"open", "write"}
            \/ file'.text = ed[s].buf /\ save[s].pc = "write"
  <2>1. save[s].mode = "quick"
    BY <1>1 DEF Quick
  <2>2. CASE SaveOpen(s)
    BY <2>1, <2>2, SaveOpenIs DEF IsWritten
  <2>3. CASE SaveWrite(s)
    BY <2>3, WriteIs DEF IsPut, IsWritten
  <2>4. CASE Quit(s) \/ QuitAfterSave(s)
    BY <1>1, <2>4, CleanIs
  <2>5. CASE Open(s) \/ SaveBackup(s) \/ SaveRename(s)
    BY <2>1, <2>5, OpenIs, BackupIs, RenameIs
  <2>6. CASE UNCHANGED file
    BY <2>6
  <2> QED
    BY <2>2, <2>3, <2>4, <2>5, <2>6 DEF StepOf, SaveStep, Modify, Die, SaveCmd, SaveChooseMode,
       SaveChooseWith,
       SaveCheck, SaveCheckWith, SaveAskLinks, SaveAskMtime, SaveTemp, SaveStat, SaveReturn,
       SaveReturnWith, disk
<1>4. file' # NoFile /\ ~file'.links
  BY <1>3
<1>5. ASSUME NEW t \in Sessions \ {s} PROVE QuickOf(t)'
  <2>1. QuickOf(t) /\ ed'[t] = ed[t] /\ save'[t] = save[t]
    BY <1>5 DEF Others
  <2>2. CASE file' = file
    BY <1>2, <2>1, <2>2 DEF QuickOf, Quick
  <2>3. CASE file' # file
    <3>1. ed[t].mtime # file'.mtime
      <4>1. ed[t].mtime < stamp /\ stamp \in Nat
        BY Bounds DEF Fresh, FreshOf, Typed, Counts
      <4> QED  BY <1>3, <2>3, <4>1, Bounds DEF Typed, EdRec
    <3>2. unguarded \/ save[t].pc \notin {"open", "write", "stat"}
      <4>1. save[s].pc \in {"open", "write"}
        BY <1>3, <2>3
      <4>2. unguarded \/ lock = s
        BY <1>1, <4>1 DEF LockInv, LockOf, Saving
      <4>3. unguarded \/ ~Saving(t) \/ lock = t
        BY <2>1 DEF LockInv, LockOf, QuickOf
      <4> QED  BY <1>5, <4>2, <4>3 DEF Saving
    <3> QED  BY <1>2, <2>1, <3>1, <3>2 DEF QuickOf, Quick
  <2> QED  BY <2>2, <2>3
<1>6. QuickOf(s)'
  <2>1. CASE Open(s)
    BY <2>1, OpenIs, IdleIs, <1>1, <1>2 DEF QuickOf, Quick
  <2>2. CASE Modify(s)
    <3>1. /\ save' = save /\ file' = file /\ ed[s].open /\ ed'[s].mtime = ed[s].mtime
          /\ save[s].pc = "idle" /\ ed[s].buf \subseteq ed'[s].buf
          /\ ed'[s].delete_file = ed[s].delete_file /\ ed'[s].skip_detach = ed[s].skip_detach
      BY <2>2, ModifyIs
    <3> QED  BY <1>1, <1>2, <3>1 DEF QuickOf, Quick
  <2>3. CASE Quit(s) \/ QuitAfterSave(s)
    BY <2>3, CleanIs, IdleIs, ClosedIs, <1>1, <1>2 DEF QuickOf, Quick
  <2>4. CASE Die(s)
    BY <2>4, DieIs, IdleIs, ClosedIs, <1>1, <1>2 DEF QuickOf, Quick
  <2>5. CASE SaveCmd(s)
    BY <2>5, SaveCmdIs, <1>1, <1>2 DEF QuickOf, Quick
  <2>6. CASE SaveReturn(s)
    BY <2>6, ReturnIs, IdleIs, <1>1, <1>2 DEF QuickOf, Quick, KeepsSave
  <2>7. CASE SaveChooseMode(s)
    BY <2>7, ChooseModeIs, <1>1, <1>2 DEF QuickOf, Quick
  <2>8. CASE SaveCheck(s)
    <3>1. save[s].pc = "check" /\ save[s].seen = 0
      BY <2>8, CheckIs DEF ShapeOf
    <3> QED  BY <2>8, <3>1, CheckIs, <1>1, <1>2 DEF QuickOf, Quick
  <2>9. CASE SaveAskLinks(s)
    BY <2>9, AskLinksIs, <1>1, <1>2 DEF QuickOf, Quick
  <2>10. CASE SaveAskMtime(s)
    BY <2>10, AskMtimeIs, <1>1, <1>2 DEF QuickOf, Quick
  <2>11. CASE SaveTemp(s)
    BY <1>1, <2>11, TempIs DEF ShapeOf
  <2>12. CASE SaveOpen(s)
    <3>1. /\ save[s].pc = "open" /\ ed' = ed /\ save'[s].mode = save[s].mode
          /\ save'[s].pc \in {"write", "done"}
          /\ save'[s].pc = "write" => file'.text = {}
          /\ save'[s].pc = "done" => file' = file
      BY <1>1, <2>12, SaveOpenIs DEF Quick, IsWritten
    <3> QED  BY <1>1, <1>2, <3>1 DEF QuickOf, Quick
  <2>13. CASE SaveWrite(s)
    <3>1. save[s].pc = "write" /\ ed' = ed /\ KeepsSave(s)
          /\ save'[s].pc \notin {"ask_links", "open"}
      BY <2>13, WriteIs
    <3>2. ~unguarded' /\ ed[s].open => file'.text \subseteq ed[s].buf
      BY <1>1, <1>2, <1>3, <3>1 DEF QuickOf
    <3> QED  BY <1>1, <3>1, <3>2 DEF QuickOf, Quick, KeepsSave
  <2>14. CASE SaveStat(s)
    BY <2>14, StatIs, <1>1, <1>2 DEF QuickOf, Quick, KeepsSave
  <2>15. CASE SaveBackup(s)
    BY <2>15, BackupIs, <1>1, <1>2 DEF QuickOf, Quick, KeepsSave
  <2>16. CASE SaveRename(s)
    BY <2>16, RenameIs, <1>1, <1>2 DEF QuickOf, Quick, KeepsSave
  <2> QED
    BY <2>1, <2>2, <2>3, <2>4, <2>5, <2>6, <2>7, <2>8, <2>9, <2>10, <2>11, <2>12, <2>13, <2>14,
     <2>15, <2>16 DEF StepOf, SaveStep
<1> QED  BY <1>4, <1>5, <1>6

\* DeleteInv is kept.
LEMMA DeleteNext ==
  ASSUME Typed, DeleteInv, NEW s \in Sessions, ShapeOf(s), FreshOf(s), StepOf(s), UNCHANGED opt
  PROVE  DeleteInv'
<1> SUFFICES ASSUME DeleteOf(s) PROVE DeleteOf(s)'
  BY Actor DEF DeleteInv
<1>s. save[s].pc = "open" /\ save[s].mode # "quick" => temp[s] # NoFile
  BY DEF ShapeOf, Quick, Writing
<1>1. CASE Open(s)
  <2>1. temp[s] = NoFile
    BY <1>1, OpenIs, IdleIs DEF ShapeOf, BeforeTemp
  <2>2. CASE file # NoFile
    BY <1>1, <2>2, OpenIs DEF DeleteOf
  <2>3. CASE file = NoFile
    <3>1. IsCreated(file', {}, TRUE, s) /\ ed'[s].buf = {} /\ temp' = temp
      BY <1>1, <2>3, OpenIs
    <3> QED  BY <2>1, <3>1 DEF DeleteOf, IsCreated
  <2> QED  BY <2>2, <2>3
<1>2. CASE Modify(s)
  BY <1>2, ModifyIs DEF DeleteOf
<1>3. CASE Quit(s) \/ QuitAfterSave(s)
  BY <1>3, CleanIs, IdleIs, ClosedIs DEF DeleteOf
<1>4. CASE Die(s)
  BY <1>4, DieIs, IdleIs, ClosedIs DEF DeleteOf
<1>5. CASE SaveCmd(s)
  BY <1>5, SaveCmdIs DEF DeleteOf
<1>6. CASE SaveReturn(s)
  BY <1>6, ReturnIs, IdleIs DEF DeleteOf
<1>7. CASE SaveChooseMode(s)
  BY <1>7, ChooseModeIs DEF DeleteOf
<1>8. CASE SaveCheck(s)
  BY <1>8, CheckIs DEF DeleteOf
<1>9. CASE SaveAskLinks(s)
  BY <1>9, AskLinksIs DEF DeleteOf
<1>10. CASE SaveAskMtime(s)
  BY <1>10, AskMtimeIs DEF DeleteOf
<1>11. CASE SaveTemp(s)
  BY <1>11, TempIs DEF DeleteOf, IsCreated
<1>12. CASE SaveOpen(s)
  BY <1>12, <1>s, SaveOpenIs DEF DeleteOf, IsCreated, IsWritten
<1>13. CASE SaveWrite(s)
  <2>1. PICK x \in {ed[s].buf, {}}, w \in BOOLEAN :
          IsPut(file', file, x, w, s) /\ IsPut(temp'[s], temp[s], x, w, s)
    BY <1>13, WriteIs
  <2>2. ed' = ed
    BY <1>13, WriteIs
  <2> QED  BY <2>1, <2>2 DEF DeleteOf, IsPut, IsWritten
<1>14. CASE SaveStat(s)
  BY <1>14, StatIs DEF DeleteOf
<1>15. CASE SaveBackup(s)
  BY <1>15, BackupIs DEF DeleteOf
<1>16. CASE SaveRename(s)
  BY <1>16, RenameIs DEF DeleteOf, FreshOf
<1> QED
    BY <1>1, <1>2, <1>3, <1>4, <1>5, <1>6, <1>7, <1>8, <1>9, <1>10, <1>11, <1>12, <1>13, <1>14,
     <1>15, <1>16 DEF StepOf, SaveStep

(***************************************************************************)
(* The invariant, and what it implies.                                     *)
(***************************************************************************)
\* The invariant holds at the start.
LEMMA Inductive == Init => SessionInv
<1> SUFFICES ASSUME Init PROVE SessionInv
  OBVIOUS
<1>1. TypeOK /\ opt \in Options
  BY TypeInit DEF Init
<1>2. /\ \A s \in Sessions : ed[s] = Closed /\ save[s] = Idle /\ temp[s] = NoFile
      /\ file # NoFile => /\ file.ino = 1 /\ file.mtime = 1 /\ file.by = Nobody
                          /\ file.whole /\ file.links = opt.linked
      /\ backup = NoFile /\ stamp = 2 /\ faults = 0
      /\ opt.exists => file # NoFile
  <2>1. CASE opt.exists
    <3>1. file = [text |-> {}, whole |-> TRUE, mtime |-> 1, ino |-> 1, by |-> Nobody, links |-> opt.linked]
      BY <2>1 DEF Init
    <3>2. file \in File \cup {NoFile} /\ file \in File \cup {NoFile}
      BY <1>1 DEF TypeOK
    <3>3. file # NoFile
      <4>1. [text |-> {}, whole |-> TRUE, mtime |-> 1, ino |-> 1, by |-> Nobody, links |-> opt.linked] \in File
        <5>1. 1 \in 1 .. MaxStamp /\ {} \in SUBSET Changes /\ opt.linked \in BOOLEAN
          BY Bounds, SessionAssumption, <1>1 DEF Option
        <5> QED  BY <5>1 DEF File
      <4> QED  BY <3>1, <4>1, Bounds
    <3> QED  BY <3>1, <3>3 DEF Init
  <2>2. CASE ~opt.exists
    BY <2>2 DEF Init
  <2> QED  BY <2>1, <2>2
<1>3. Shape
  BY <1>2, IdleIs, ClosedIs DEF Shape, ShapeOf, Quick, Writing, BeforeTemp
<1>4. Fresh
  BY <1>2, IdleIs, ClosedIs DEF Fresh, FreshNames, FreshOf, Apart
<1>5. Drafted /\ LockInv
  BY <1>2, IdleIs, ClosedIs DEF Drafted, DraftedOf, LockInv, LockOf, Saving
<1>6. SafeInv /\ CopyInv
  BY <1>2, IdleIs, ClosedIs DEF SafeInv, SafeOf, Good, CopyInv, CopyOf, Quick
<1>7. WrittenInv /\ KnownInv
  BY <1>2, IdleIs, ClosedIs, Bounds DEF WrittenInv, WrittenOf, KnownInv, KnownOf, By, Quick
<1>8. QuickInv /\ DeleteInv
  BY <1>2, IdleIs, ClosedIs DEF QuickInv, QuickOf, DeleteInv, DeleteOf, Quick
<1> QED  BY <1>1, <1>3, <1>4, <1>5, <1>6, <1>7, <1>8 DEF SessionInv, BaseInv

\* Every step keeps the invariant.
LEMMA InvNext == SessionInv /\ [Next]_vars => SessionInv'
<1> SUFFICES ASSUME SessionInv, [Next]_vars PROVE SessionInv'
  OBVIOUS
<1> USE DEF SessionInv, BaseInv
<1>1. CASE UNCHANGED vars
  BY <1>1 DEF vars, TypeOK, Shape, ShapeOf, Fresh, FreshNames, FreshOf, Apart, Drafted, DraftedOf,
     LockInv, LockOf, Saving, SafeInv, SafeOf, Good, CopyInv, CopyOf, WrittenInv, WrittenOf,
     KnownInv, KnownOf, By, QuickInv, QuickOf, Quick, DeleteInv, DeleteOf, Writing, BeforeTemp
<1>2. CASE Next
  <2>1. PICK s \in Sessions : StepOf(s) /\ UNCHANGED opt
    BY <1>2 DEF Next, StepOf
  <2>2. ShapeOf(s) /\ FreshOf(s) /\ FreshNames
    BY DEF Shape, Fresh
  <2>3. TypeOK' /\ Others(s)
    BY <2>1, StepTypes DEF StepOf
  <2>4. Typed /\ Typed'
    BY <2>3, Parts, PartsNext DEF Typed
  <2>5. Moved(s)
    BY <2>1, <2>2, <2>4, Moves
  <2>6. Shape' /\ Fresh' /\ Drafted' /\ opt' \in Options
    BY <2>1, <2>2, <2>3, <2>4, <2>5, ShapeNext, FreshNext, DraftedNext
  <2>7. LockInv' /\ SafeInv' /\ CopyInv'
    BY <2>1, <2>2, <2>3, <2>4, LockNext, SafeNext, CopyNext
  <2>8. WrittenInv' /\ KnownInv'
    BY <2>1, <2>2, <2>3, <2>4, <2>5, WrittenNext, KnownNext
  <2>9. QuickInv' /\ DeleteInv'
    BY <2>1, <2>2, <2>3, <2>4, <2>5, QuickNext, DeleteNext
  <2> QED  BY <2>3, <2>6, <2>7, <2>8, <2>9
<1> QED  BY <1>1, <1>2

\* The invariant of the editor sessions.
THEOREM SessionInvariant == Spec => []SessionInv
  BY Inductive, InvNext, PTL DEF Spec

\* Every state has the types that EditSession gives it.
THEOREM TypeCorrect == Spec => []TypeOK
<1>1. SessionInv => TypeOK
  BY DEF SessionInv, BaseInv
<1> QED  BY <1>1, SessionInvariant, PTL

\* edit_modification, edit_save_cmd: unsaved changes to a file that existed are
\* covered by the lock link, through failed and cancelled saves, as long as every
\* lock_file has ended with a link of its own, taken from nobody alive.
THEOREM ModifiedLocked == Spec => []ModifiedIsLocked
<1>1. SessionInv => ModifiedIsLocked
  BY DEF SessionInv, LockInv, LockOf, ModifiedIsLocked
<1> QED  BY <1>1, SessionInvariant, PTL

\* edit_save_file: with safe save the file is at no moment missing or cut, and with
\* backups a whole copy is under one of the names (one editor, one failure), wherever
\* a call fails or an editor is killed, as long as no save took a file that it could not
\* read for a new one.
THEOREM TextKept == Spec => []TextSurvives
<1>1. SessionInv => TextSurvives
  <2> SUFFICES ASSUME SafeInv, CopyInv PROVE TextSurvives
    BY DEF SessionInv
  <2>1. ~direct => OriginalUntouched
    BY DEF SafeInv, Good, OriginalUntouched
  <2>2. ~direct => CopySurvives
    BY DEF CopyInv, CopyOf, Good, CopySurvives
  <2> QED  BY <2>1, <2>2 DEF TextSurvives
<1> QED  BY <1>1, SessionInvariant, PTL

\* edit_save_file: a save that reported success, and had the file for itself while it
\* wrote, has put the whole buffer on disk, and the "modified in the meantime" question
\* is about another session's save.
THEOREM ReportsTrue == Spec => []SaveReports
<1>1. SessionInv => SaveReports
  <2> SUFFICES ASSUME Shape, WrittenInv, KnownInv PROVE SaveReports
    BY DEF SessionInv, BaseInv
  <2>1. SavedIsWritten
    BY DEF WrittenInv, WrittenOf, By, SavedIsWritten
  <2>2. WarningIsTrue
    BY IdleIs DEF Shape, ShapeOf, KnownInv, KnownOf, By, WarningIsTrue
  <2> QED  BY <2>1, <2>2 DEF SaveReports
<1> QED  BY <1>1, SessionInvariant, PTL

\* edit_save_file: a quick save that could look at the file replaces the changes of
\* others only if they were loaded or the user agreed, as long as nobody went on without
\* a lock; after "Detach" the shared content stays.
THEOREM AsksBeforeOverwriting == Spec => OverwritesAgreed
<1>1. SessionInv => \A s \in Sessions : OnlyKnown(s) /\ KeepsShared(s)
  <2> SUFFICES ASSUME SessionInv, NEW s \in Sessions PROVE OnlyKnown(s) /\ KeepsShared(s)
    OBVIOUS
  <2>1. Typed /\ ShapeOf(s) /\ FreshOf(s) /\ QuickInv
    BY Parts DEF SessionInv, BaseInv, Shape, Fresh, Typed
  <2>2. save[s].pc = "open" /\ save[s].mode # "quick" => temp[s] # NoFile
    BY <2>1 DEF ShapeOf, Quick, Writing
  <2>3. OnlyKnown(s)
    <3> SUFFICES ASSUME opt.mode = "quick", ~opt.linked, opt.exists, SaveOpen(s) \/ SaveRename(s),
                        file' # file, save[s].seen # 0, ~unguarded
                 PROVE  file.text \subseteq ed[s].buf \/ save[s].confirmed
      BY DEF OnlyKnown
    <3>1. QuickOf(s)
      BY <2>1 DEF QuickInv
    <3>2. save[s].mode = "quick"
      BY <3>1 DEF QuickOf, Quick
    <3>3. ~SaveRename(s)
      BY <2>1, <3>2, RenameIs
    <3>4. save[s].pc = "open" /\ ed[s].open
      BY <2>1, <2>2, <3>3, SaveOpenIs
    <3> QED  BY <3>1, <3>4 DEF QuickOf
  <2>4. KeepsShared(s)
    <3> SUFFICES ASSUME save[s].detach, file # NoFile, SaveOpen(s) \/ SaveWrite(s) PROVE file' = file
      BY DEF KeepsShared
    <3>1. save[s].mode # "quick" /\ save[s].mode = "safe"
      BY <2>1 DEF ShapeOf
    <3>2. CASE SaveOpen(s)
      BY <2>1, <2>2, <3>1, <3>2, SaveOpenIs
    <3>3. CASE SaveWrite(s)
      <4>1. save[s].pc = "write"
        BY <2>1, <3>3, WriteIs
      <4>2. file.ino # save[s].fd
        BY <2>1, <3>1, <4>1 DEF ShapeOf, FreshOf, Quick, Writing
      <4> QED  BY <2>1, <3>3, <4>2, WriteIs DEF IsPut
    <3> QED  BY <3>2, <3>3
  <2> QED  BY <2>3, <2>4
<1> QED  BY <1>1, SessionInvariant, PTL DEF OverwritesAgreed

\* edit_clean: the file that is unlinked when its only editor is left holds no text but
\* the remains of a failed save.
THEOREM KeepsText == Spec => NoTextDeleted
<1>1. SessionInv =>
        \A s \in Sessions :
          opt.who = {s} /\ (Quit(s) \/ QuitAfterSave(s)) /\ file # NoFile /\ file' = NoFile =>
            file.text = {} \/ (file.by = s /\ ed[s].modified)
  <2> SUFFICES ASSUME SessionInv, NEW s \in Sessions, opt.who = {s}, Quit(s) \/ QuitAfterSave(s),
                      file # NoFile, file' = NoFile
               PROVE  file.text = {} \/ (file.by = s /\ ed[s].modified)
    OBVIOUS
  <2>1. Typed /\ DeleteOf(s)
    BY Parts DEF SessionInv, BaseInv, Typed, DeleteInv
  <2>2. ed[s].delete_file
    BY <2>1, CleanIs
  <2> QED  BY <2>1, <2>2 DEF DeleteOf
<1> QED  BY <1>1, SessionInvariant, PTL DEF NoTextDeleted
==============================================================================
