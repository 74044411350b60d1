------------------------------ MODULE EditSession ------------------------------
(***************************************************************************)
(* The life of an edited file on disk: several editors (src/editor) load   *)
(* it, change their copies, save them in one of the three save modes and   *)
(* quit.  edit_save_cmd and edit_save_file are a sequence of system calls  *)
(* and dialogs, each a step, so that sessions overlap; every call may fail *)
(* and a session may be killed anywhere.                                   *)
(*                                                                         *)
(* A text is the set of the changes it contains, so that a change one      *)
(* editor saved and another overwrote can be told.  lock_file and          *)
(* unlock_file are single steps here; FileLock has their insides.          *)
(***************************************************************************)
EXTENDS Naturals, FiniteSets

CONSTANTS
  Sessions,   \* the editors that open the file
  Nobody,     \* no lock link
  Stale,      \* a lock link whose process is dead
  NoFile,     \* no such directory entry
  Options,    \* the circumstances to look at, a set of Option records
  MaxFaults,  \* bound: system calls of a save that fail, sessions killed
  MaxChanges, \* bound: changes made by one session
  MaxStamp    \* bound: writes to the directory

\* mode: option_save_mode; linked: the file starts with a second hard link;
\* exists: it exists before the first editor is started; plain: LB_ASIS and no
\* write filter; who: the editors that are started
Modes == {"quick", "safe", "backup"}

Option ==
  [mode : Modes, linked : BOOLEAN, exists : BOOLEAN, plain : BOOLEAN, who : SUBSET Sessions]

Changes == Sessions \X (1 .. MaxChanges)

\* ino is the identity a rename keeps, whole tells whether the content is
\* complete, by who wrote it last, links whether another name shares it
File ==
  [text : SUBSET Changes, whole : BOOLEAN, mtime : 1 .. MaxStamp,
   ino : 1 .. MaxStamp, by : Sessions \cup {Nobody}, links : BOOLEAN]

ASSUME SessionAssumption ==
  /\ {Nobody, Stale} \cap Sessions = {} /\ Nobody # Stale
  /\ Options \subseteq Option
  /\ {MaxFaults, MaxChanges} \subseteq Nat /\ MaxStamp \in Nat \ {0}
  /\ NoFile \notin File

VARIABLES
  opt,      \* the circumstances of this behavior; never changes
  file,     \* the directory entry being edited, a File or NoFile
  backup,   \* the entry with option_backup_ext
  temp,     \* temp[s]: the "cooledit" temporary of the running save of s (one
            \* that a failed save leaves behind is never used again)
  lock,     \* holder of the lock link, Nobody or Stale
  stamp,    \* the next modification time
  made,     \* made[s]: changes s has made so far
  ed,       \* ed[s]: the WEdit of s
  save,     \* save[s]: the locals of a running edit_save_cmd
  unguarded,\* somebody went on without a link of its own, or took a living
            \* editor's link away (history)
  direct,   \* a safe save or backup found the file unreadable and wrote straight
            \* into it (history)
  faults    \* failures so far

vars == <<opt, file, backup, temp, lock, stamp, made, ed, save, unguarded, direct, faults>>
disk == <<file, backup, temp, stamp>>

Closed ==
  [open |-> FALSE, modified |-> FALSE, locked |-> FALSE, delete_file |-> FALSE,
   skip_detach |-> FALSE, mtime |-> 0, buf |-> {}]

Idle ==
  [pc |-> "idle", quitting |-> FALSE, mode |-> "quick", save_lock |-> FALSE,
   seen |-> 0, fd |-> 0, shared |-> FALSE, confirmed |-> FALSE, detach |-> FALSE, res |-> "none"]

-----------------------------------------------------------------------------
At(s, l) == ed[s].open /\ save[s].pc = l

Becomes(s, l) == save' = [save EXCEPT ![s].pc = l]

\* edit_save_file returns 1 ("ok"), 0 ("error") or -1 ("abort")
Finish(s, r) == save' = [save EXCEPT ![s].pc = "done", ![s].res = r]

Fault == faults < MaxFaults /\ faults' = faults + 1

\* a call of the save fails: goto error_save
Fails(s) == Fault /\ Finish(s, "error")

\* an entry that s creates, and an entry that s writes to
Created(text, whole, s) ==
  [text |-> text, whole |-> whole, mtime |-> stamp, ino |-> stamp, by |-> s, links |-> FALSE]

Written(f, text, whole, s) ==
  [f EXCEPT !.text = text, !.whole = whole, !.mtime = stamp, !.by = s]

NextStamp == stamp <= MaxStamp /\ stamp' = stamp + 1

(***************************************************************************)
(* lock_file: without a living holder the lock is taken; otherwise the     *)
(* user is asked, and grabs or ignores it.  It also comes back with        *)
(* nothing when the file is not local, when the link cannot be read or     *)
(* made (the old one may be gone by then), or when another editor was      *)
(* faster; and it takes the new link of an editor away that found the same *)
(* dead one.  unlock_file removes its own link, or the one that has just   *)
(* been put in its place.                                                  *)
(***************************************************************************)
LockFile(s, got) ==
  \/ lock \in {Nobody, Stale} /\ got /\ lock' = s /\ UNCHANGED unguarded
  \/ lock \in Sessions /\ got /\ lock' = s /\ unguarded' = TRUE
  \/ ~got /\ lock' \in {lock, Nobody} /\ unguarded' = TRUE

Unlock(s) ==
  \/ lock' = IF lock = s THEN Nobody ELSE lock
  \/ unguarded /\ lock' = Nobody

-----------------------------------------------------------------------------
Init ==
  /\ opt \in Options
  /\ file = IF opt.exists
            THEN [text |-> {}, whole |-> TRUE, mtime |-> 1, ino |-> 1, by |-> Nobody, links |-> opt.linked]
            ELSE NoFile
  /\ backup = NoFile
  /\ temp = [s \in Sessions |-> NoFile]
  /\ lock = Nobody
  /\ stamp = 2
  /\ made = [s \in Sessions |-> 0]
  /\ ed = [s \in Sessions |-> Closed]
  /\ save = [s \in Sessions |-> Idle]
  /\ unguarded = FALSE
  /\ direct = FALSE
  /\ faults = 0

-----------------------------------------------------------------------------
(***************************************************************************)
(* Opening, changing, leaving.                                             *)
(***************************************************************************)
\* edit_init: check_file_access opens the file, or creates it empty with
\* O_EXCL and remembers to delete it; the text is loaded
Open(s) ==
  /\ s \in opt.who /\ ~ed[s].open
  /\ \/ /\ file # NoFile
        /\ ed' = [ed EXCEPT ![s] =
             [Closed EXCEPT !.open = TRUE, !.mtime = file.mtime, !.buf = file.text]]
        /\ UNCHANGED <<file, stamp>>
     \/ /\ file = NoFile
        /\ NextStamp
        /\ file' = Created({}, TRUE, s)
        /\ ed' = [ed EXCEPT ![s] =
             [Closed EXCEPT !.open = TRUE, !.mtime = stamp, !.delete_file = TRUE]]
  /\ save' = [save EXCEPT ![s] = Idle]
  /\ UNCHANGED <<backup, temp, lock, made, unguarded, direct, faults>>

\* edit_modification, from edit_insert and edit_delete: the first change after
\* a load or a save raises the lock
Modify(s) ==
  LET e == ed[s]
      change(locked) ==
        ed' = [ed EXCEPT ![s] =
          [e EXCEPT !.modified = TRUE, !.locked = locked,
                    !.buf = @ \cup {<<s, made[s] + 1>>}]]
  IN  /\ At(s, "idle")
      /\ made[s] < MaxChanges
      /\ made' = [made EXCEPT ![s] = @ + 1]
      /\ \/ /\ ~e.modified /\ ~e.delete_file
            /\ \E got \in BOOLEAN : LockFile(s, got) /\ change(got)
         \/ /\ e.modified \/ e.delete_file
            /\ change(e.locked)
            /\ UNCHANGED <<lock, unguarded>>
      /\ UNCHANGED <<disk, save, direct, faults>>

\* edit_clean: give the lock back; "File specified on the mcedit command line
\* and never saved" is unlinked
Clean(s) ==
  /\ IF ed[s].locked THEN Unlock(s) ELSE UNCHANGED lock
  /\ file' = IF ed[s].delete_file THEN NoFile ELSE file
  /\ ed' = [ed EXCEPT ![s] = Closed]
  /\ save' = [save EXCEPT ![s] = Idle]
  /\ UNCHANGED <<backup, temp, stamp, made, unguarded, direct, faults>>

\* edit_ok_to_exit without unsaved changes, or with the answer "No"
Quit(s) == At(s, "idle") /\ Clean(s)

\* the process is killed: nothing is cleaned up, its lock link stays
Die(s) ==
  /\ Fault
  /\ ed[s].open
  /\ lock' = IF lock = s THEN Stale ELSE lock
  /\ ed' = [ed EXCEPT ![s] = Closed]
  /\ save' = [save EXCEPT ![s] = Idle]
  /\ temp' = [temp EXCEPT ![s] = NoFile]
  /\ UNCHANGED <<file, backup, stamp, made, unguarded, direct>>

-----------------------------------------------------------------------------
(***************************************************************************)
(* edit_save_cmd.                                                          *)
(***************************************************************************)
\* F2, or the answer "Yes" of edit_ok_to_exit to a modified buffer; a save
\* without the modify lock takes a lock of its own
SaveCmd(s) ==
  LET e == ed[s]
      start(q, got) ==
        save' = [save EXCEPT ![s] =
          [Idle EXCEPT !.pc = "mode", !.quitting = q, !.save_lock = got]]
  IN  /\ At(s, "idle")
      /\ \E q \in BOOLEAN :
           /\ q => e.modified
           /\ \/ /\ ~e.locked /\ ~e.delete_file
                 /\ \E got \in BOOLEAN : LockFile(s, got) /\ start(q, got)
              \/ /\ e.locked \/ e.delete_file
                 /\ start(q, FALSE)
                 /\ UNCHANGED <<lock, unguarded>>
      /\ UNCHANGED <<disk, made, ed, direct, faults>>

\* edit_save_file has returned: unlock says whether the lock goes, delete
\* whether the file is still to be deleted when the editor is left.
\* edit_save_cmd returns 1 unless res is "error" (then edit_save_as_cmd asks for
\* a name and the user cancels), and a quit goes on when it returns 1.
SaveReturnWith(s, unlock, delete) ==
  /\ At(s, "done")
  /\ IF unlock THEN Unlock(s) ELSE UNCHANGED lock
  /\ IF save[s].quitting /\ save[s].res # "error"
     THEN save' = [save EXCEPT ![s].pc = "clean"]
     ELSE save' = [save EXCEPT ![s] = Idle]
  /\ ed' = [ed EXCEPT ![s].locked = @ /\ ~unlock,
                      ![s].modified = @ /\ save[s].res # "ok",
                      ![s].delete_file = delete]
  /\ temp' = [temp EXCEPT ![s] = NoFile]
  /\ UNCHANGED <<file, backup, stamp, made, unguarded, direct, faults>>

\* Mutant: a failed save gives up the lock of the unsaved changes
SaveReturnUnlocks(s) ==
  SaveReturnWith(s, ed[s].locked \/ save[s].save_lock, ed[s].delete_file /\ save[s].res # "ok")

\* Mutant: delete_file is not reset
SaveReturnDeletes(s) ==
  SaveReturnWith(s, (save[s].res = "ok" /\ ed[s].locked) \/ save[s].save_lock,
                 ed[s].delete_file)

\* "Maintain modify (not save) lock on failure"
SaveReturn(s) ==
  SaveReturnWith(s, (save[s].res = "ok" /\ ed[s].locked) \/ save[s].save_lock,
                 ed[s].delete_file /\ save[s].res # "ok")

\* edit_ok_to_exit returned TRUE: the dialog closes and destroys the editor
QuitAfterSave(s) == At(s, "clean") /\ Clean(s)

-----------------------------------------------------------------------------
(***************************************************************************)
(* edit_save_file, call by call.                                           *)
(***************************************************************************)
SaveChooseWith(s, missing) ==
  /\ At(s, "mode")
  /\ \/ /\ save' = [save EXCEPT ![s].pc = "check",
                               ![s].mode = IF file = NoFile THEN missing ELSE opt.mode]
        /\ UNCHANGED <<direct, faults>>
     \/ /\ opt.mode # "quick" /\ file # NoFile
        /\ Fault
        /\ save' = [save EXCEPT ![s].pc = "check", ![s].mode = "quick"]
        /\ direct' = TRUE
  /\ UNCHANGED <<disk, lock, made, ed, unguarded>>

\* Mutant: a mode edit_save_file does not know
SaveChooseNone(s) == SaveChooseWith(s, "none")

\* a file that cannot be opened is taken for one that "does not exists yet"
SaveChooseMode(s) == SaveChooseWith(s, "quick")

\* quick save looks at the file: other links, and its modification time; when
\* stat fails it asks nothing
SaveCheckWith(s, modified) ==
  /\ At(s, "check")
  /\ \/ /\ save[s].mode # "quick"
        /\ Becomes(s, "temp")
        /\ UNCHANGED faults
     \/ /\ save[s].mode = "quick"
        /\ \/ (ed[s].skip_detach \/ file = NoFile) /\ UNCHANGED faults
           \/ ~ed[s].skip_detach /\ file # NoFile /\ Fault
        /\ Becomes(s, "open")
     \/ /\ save[s].mode = "quick"
        /\ ~ed[s].skip_detach /\ file # NoFile
        /\ save' = [save EXCEPT ![s].seen = file.mtime,
             ![s].pc = IF file.links THEN "ask_links" ELSE IF modified THEN "ask_mtime" ELSE "open"]
        /\ UNCHANGED faults
  /\ UNCHANGED <<disk, lock, made, ed, unguarded, direct>>

\* Mutant: the modification time is not looked at
SaveCheckNever(s) == SaveCheckWith(s, FALSE)

SaveCheck(s) == SaveCheckWith(s, file # NoFile /\ ed[s].mtime # file.mtime)

\* "File has hard-links. Detach before saving?"  The answer is kept in rv, which
\* the modification-time test reads next: only "Yes" (0) passes on to it
SaveAskLinks(s) ==
  /\ At(s, "ask_links")
  /\ \/ /\ save' = [save EXCEPT ![s].mode = "safe", ![s].detach = TRUE,
              ![s].pc = IF ed[s].mtime # save[s].seen THEN "ask_mtime"
                        ELSE "temp"]
        /\ ed' = [ed EXCEPT ![s].skip_detach = TRUE]
     \/ /\ Becomes(s, "open")
        /\ ed' = [ed EXCEPT ![s].skip_detach = TRUE]
     \/ /\ Finish(s, "abort")
        /\ UNCHANGED ed
  /\ UNCHANGED <<disk, lock, made, unguarded, direct, faults>>

\* "The file has been modified in the meantime. Save anyway?"
SaveAskMtime(s) ==
  /\ At(s, "ask_mtime")
  /\ \/ save' = [save EXCEPT ![s].confirmed = TRUE,
                              ![s].pc = IF save[s].mode = "quick" THEN "open" ELSE "temp"]
     \/ Finish(s, "abort")
  /\ UNCHANGED <<disk, lock, made, ed, unguarded, direct, faults>>

\* mkstemps of "cooledit", then chown and chmod
SaveTemp(s) ==
  /\ At(s, "temp")
  /\ \/ /\ NextStamp
        /\ temp' = [temp EXCEPT ![s] = Created({}, FALSE, s)]
        /\ Becomes(s, "open")
        /\ UNCHANGED faults
     \/ Fails(s) /\ UNCHANGED <<temp, stamp>>
  /\ UNCHANGED <<file, backup, lock, made, ed, unguarded, direct>>

\* open of the file (quick) or of the temporary with O_CREAT | O_TRUNC; another
\* quick save may have the file open, too
SaveOpen(s) ==
  /\ At(s, "open")
  /\ \/ /\ NextStamp
        /\ IF save[s].mode = "quick"
           THEN LET f == IF file = NoFile THEN Created({}, FALSE, s)
                                          ELSE Written(file, {}, FALSE, s)
                IN  /\ file' = f
                    /\ save' = [save EXCEPT ![s].pc = "write", ![s].fd = f.ino,
                         ![s].shared = \E t \in Sessions \ {s} : save[t].pc = "write" /\ save[t].fd = f.ino]
                    /\ UNCHANGED temp
           ELSE /\ temp' = [temp EXCEPT ![s] = Written(@, {}, FALSE, s)]
                /\ save' = [save EXCEPT ![s].pc = "write", ![s].fd = temp[s].ino]
                /\ UNCHANGED file
        /\ UNCHANGED faults
     \/ Fails(s) /\ UNCHANGED <<file, temp, stamp>>
  /\ UNCHANGED <<backup, lock, made, ed, unguarded, direct>>

\* the buffers go to the descriptor, wherever its entry is by now, or nowhere
WriteTo(s, text, whole) ==
  LET put(f) == IF f # NoFile /\ f.ino = save[s].fd THEN Written(f, text, whole, s) ELSE f
  IN  /\ NextStamp
      /\ file' = put(file)
      /\ backup' = put(backup)
      /\ temp' = [temp EXCEPT ![s] = put(@)]

\* Another save had the file open when this one opened it, or has opened it since:
\* each writes at its own offset, and a piece of either text may be left
Mixed(s) ==
  /\ save[s].mode = "quick"
  /\ \/ save[s].shared
     \/ \E f \in {file, backup} \ {NoFile} : f.ino = save[s].fd /\ f.by # s

\* Mutant: a short write is not noticed
SaveWriteUnchecked(s) ==
  /\ At(s, "write")
  /\ \/ WriteTo(s, ed[s].buf, TRUE) /\ UNCHANGED faults
     \/ WriteTo(s, {}, FALSE) /\ Fault
  /\ Becomes(s, "stat")
  /\ UNCHANGED <<lock, made, ed, unguarded, direct>>

\* LB_ASIS: a short write makes filelen differ and the save fails in the end
\* (after the stat, or before it when a whole page was cut).  A write filter or
\* fopen for other line breaks: pclose and fclose are not checked.  Of a mix
\* nothing is noticed.
SaveWrite(s) ==
  /\ At(s, "write")
  /\ \/ /\ \/ WriteTo(s, ed[s].buf, TRUE)
           \/ Mixed(s) /\ WriteTo(s, {}, FALSE)
        /\ save' = [save EXCEPT ![s].pc = IF opt.plain THEN "stat" ELSE "backup",
                               ![s].shared = Mixed(s)]
        /\ UNCHANGED faults
     \/ /\ Fault
        /\ WriteTo(s, {}, FALSE)
        /\ \/ opt.plain /\ save' = [save EXCEPT ![s].pc = "stat", ![s].res = "error"]
           \/ opt.plain /\ Finish(s, "error")
           \/ ~opt.plain /\ Becomes(s, "backup")
  /\ UNCHANGED <<lock, made, ed, unguarded, direct>>

\* "Update the file information, especially the mtime": stat of the name
SaveStat(s) ==
  LET f == IF save[s].mode = "quick" THEN file ELSE temp[s]
  IN  /\ At(s, "stat")
      /\ \/ /\ f # NoFile
            /\ ed' = [ed EXCEPT ![s].mtime = f.mtime]
            /\ IF save[s].res = "error" THEN Finish(s, "error") ELSE Becomes(s, "backup")
            /\ UNCHANGED faults
         \/ /\ f = NoFile
            /\ Finish(s, "error")
            /\ UNCHANGED <<ed, faults>>
         \/ /\ Fails(s)
            /\ UNCHANGED ed
      /\ UNCHANGED <<disk, lock, made, unguarded, direct>>

\* rename of the file to the backup name
SaveBackup(s) ==
  /\ At(s, "backup")
  /\ \/ /\ save[s].mode # "backup"
        /\ Becomes(s, "rename")
        /\ UNCHANGED <<file, backup, faults>>
     \/ /\ save[s].mode = "backup" /\ file # NoFile
        /\ backup' = file
        /\ file' = NoFile
        /\ Becomes(s, "rename")
        /\ UNCHANGED faults
     \/ /\ save[s].mode = "backup" /\ file = NoFile
        /\ Finish(s, "error")
        /\ UNCHANGED <<file, backup, faults>>
     \/ /\ save[s].mode = "backup" /\ file # NoFile
        /\ Fails(s)
        /\ UNCHANGED <<file, backup>>
  /\ UNCHANGED <<temp, lock, stamp, made, ed, unguarded, direct>>

\* rename of the temporary to the file; quick save has nothing left to do
SaveRename(s) ==
  /\ At(s, "rename")
  /\ \/ /\ save[s].mode = "quick"
        /\ Finish(s, "ok")
        /\ UNCHANGED <<file, temp, faults>>
     \/ /\ save[s].mode # "quick"
        /\ file' = temp[s]
        /\ temp' = [temp EXCEPT ![s] = NoFile]
        /\ Finish(s, "ok")
        /\ UNCHANGED faults
     \/ /\ save[s].mode # "quick"
        /\ Fails(s)
        /\ UNCHANGED <<file, temp>>
  /\ UNCHANGED <<backup, lock, stamp, made, ed, unguarded, direct>>

-----------------------------------------------------------------------------
SaveStep(s) ==
  \/ SaveChooseMode(s) \/ SaveCheck(s) \/ SaveAskLinks(s) \/ SaveAskMtime(s)
  \/ SaveTemp(s) \/ SaveOpen(s) \/ SaveWrite(s) \/ SaveStat(s)
  \/ SaveBackup(s) \/ SaveRename(s) \/ SaveReturn(s) \/ QuitAfterSave(s)

Next ==
  /\ \E s \in Sessions :
       Open(s) \/ Modify(s) \/ Quit(s) \/ Die(s) \/ SaveCmd(s) \/ SaveStep(s)
  /\ UNCHANGED opt

Spec == Init /\ [][Next]_vars

-----------------------------------------------------------------------------
PCs == {"idle", "mode", "check", "ask_links", "ask_mtime", "temp", "open", "write",
        "stat", "backup", "rename", "done", "clean"}

TypeOK ==
  /\ file \in File \cup {NoFile}
  /\ backup \in File \cup {NoFile}
  /\ temp \in [Sessions -> File \cup {NoFile}]
  /\ lock \in Sessions \cup {Nobody, Stale}
  /\ stamp \in 2 .. MaxStamp + 1
  /\ made \in [Sessions -> 0 .. MaxChanges]
  /\ ed \in [Sessions ->
       [open : BOOLEAN, modified : BOOLEAN, locked : BOOLEAN, delete_file : BOOLEAN,
        skip_detach : BOOLEAN, mtime : 0 .. MaxStamp, buf : SUBSET Changes]]
  /\ save \in [Sessions ->
       [pc : PCs, quitting : BOOLEAN, mode : Modes,
        save_lock : BOOLEAN, seen : 0 .. MaxStamp, fd : 0 .. MaxStamp,
        shared : BOOLEAN, confirmed : BOOLEAN, detach : BOOLEAN, res : {"none", "ok", "error", "abort"}]]
  /\ unguarded \in BOOLEAN /\ direct \in BOOLEAN
  /\ faults \in 0 .. MaxFaults

\* "Prevent overwriting changes from other editor sessions": a quick save of a
\* file without other links that could be looked at (stat) replaces changes of
\* another session only if they were loaded here or the user said "Save anyway",
\* as long as nobody has gone on without a lock.  (Safe save does not look; see the README.)
OnlyKnown(s) ==
  /\ opt.mode = "quick" /\ ~opt.linked /\ opt.exists
  /\ SaveOpen(s) \/ SaveRename(s)
  /\ file # NoFile /\ file' # file
  /\ save[s].seen # 0 /\ ~unguarded
  => file.text \subseteq ed[s].buf \/ save[s].confirmed

\* After the answer "Yes" to "Detach before saving?" the save does not touch the
\* content that the other hard links share.
KeepsShared(s) ==
  save[s].detach /\ file # NoFile /\ file.links /\ (SaveOpen(s) \/ SaveWrite(s)) =>
    file' = file

\* A save replaces what is under the name only as the user was told and agreed:
\* the questions of edit_save_file are asked in time, and their answers kept.
OverwritesAgreed == [][\A s \in Sessions : OnlyKnown(s) /\ KeepsShared(s)]_vars

\* doc/man/mcedit.1.in of safe save: "In the event of an problem, the original
\* file is untouched": the file is at no moment missing or cut, whoever is killed
\* and whatever fails (except a write filter, whose status is not looked at).
OriginalUntouched ==
  opt.mode = "safe" /\ opt.exists /\ opt.plain => file # NoFile /\ file.whole

\* With backups a complete copy is always under one of the two names, as long as
\* there is one editor and no more than one failure: a save while the name is
\* missing is a quick one, and the next backup takes what that has left.
CopySurvives ==
  opt.mode = "backup" /\ opt.exists /\ opt.plain /\ faults <= 1 /\ (\E s \in Sessions : opt.who = {s}) =>
    (file # NoFile /\ file.whole) \/ (backup # NoFile /\ backup.whole)

\* Whatever fails and whoever is killed in safe saves and saves with backup, a whole
\* text is left where the mode says (edit_save_file), as long as no save found a file
\* it could not read and took it for a new one.
TextSurvives == ~direct => OriginalUntouched /\ CopySurvives

\* The entry that is unlinked when the only editor is left holds no text, or the
\* remains of its own failed save (edit_clean, delete_file).
NoTextDeleted ==
  [][\A s \in Sessions :
       opt.who = {s} /\ (Quit(s) \/ QuitAfterSave(s)) /\ file # NoFile /\ file' = NoFile =>
         file.text = {} \/ (file.by = s /\ ed[s].modified)]_vars

\* Leaving the editor by "Save with exit? Yes" never drops changes that were
\* not saved.
QuitKeepsChanges ==
  [][\A s \in Sessions : QuitAfterSave(s) => ~ed[s].modified]_vars

\* A save that reported success has put the whole buffer on disk (when no write
\* filter stands between, and no other save had the same file open).
SavedIsWritten ==
  \A s \in Sessions :
    /\ opt.plain /\ ~save[s].shared
    /\ save[s].pc = "done" /\ save[s].res = "ok" /\ file # NoFile /\ file.by = s
    => file.whole /\ file.text = ed[s].buf

\* A "modified in the meantime" question is about a file that another session
\* wrote last, never about this session's own save, as long as nothing failed
\* and the saves refresh stat1.
WarningIsTrue ==
  \A s \in Sessions :
    opt.plain /\ faults = 0 /\ save[s].pc = "ask_mtime" /\ file # NoFile => file.by # s

\* What edit_save_file tells the user is so: that it saved, and that another
\* program changed the file.
SaveReports == SavedIsWritten /\ WarningIsTrue

\* As long as every lock_file has ended with a link of its own, taken from nobody
\* alive, an editor with unsaved changes to a file that existed is named by the
\* lock link, through failed and cancelled saves.
ModifiedIsLocked ==
  ~unguarded => \A s \in Sessions :
    ed[s].modified /\ ~ed[s].delete_file /\ save[s].pc = "idle" => ed[s].locked /\ lock = s
=============================================================================
