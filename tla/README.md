# TLA+ models of GNU Midnight Commander

A visual file manager with a built-in editor, viewer and diff viewer, a virtual
file system, background jobs and a shell running behind the panels. This
directory holds specifications of its core logic, the TLC configurations that
check them on small instances, and theorems that TLAPS proves for every value of
the constants. Everything is translated from the C sources under `src/` and `lib/`;
line numbers in the modules refer to them.

1. [Inventory](#inventory): the system's parts, their state, what is hard in them
2. [Modules](#modules): which module models what, and how it corresponds to the code
3. [Runs](#runs): what each run checks, its bounds
4. [Fairness](#fairness)
5. [Proofs](#proofs)
6. [Where the code and its documents differ](#where-the-code-and-its-documents-differ)
7. [What is not modelled](#what-is-not-modelled)
8. [Plan](#plan)

To check everything by hand: `tlc -config MCFileLock.cfg MCFileLock` and so on for
each `.cfg`; `tlapm FileLockProofs.tla` and so on for `BackgroundProofs`,
`SubshellProofs`, `EditSessionProofs`, `FileOpsProofs`, `FtpConnectionProofs`,
`FtpReportsProofs` and `EditBufferProofs` (the large ones take about ten minutes each).

## Inventory

mc is one single-threaded process per user session, with these exceptions: a shell
and its signal handler, forked background jobs, the console saver, and other mc
processes that edit the same file. What looks concurrent inside the process is
*nesting*: every dialog runs an event loop of its own, and that loop serves
background jobs, the subshell's prompt and the collector of the virtual file system,
in the middle of whatever function opened the dialog.

### The core: where a mistake loses data or hangs

| Component | State | Operations | Interacts with | Hard behaviour | What makes it correct |
|---|---|---|---|---|---|
| File lock (`lib/lock.c`) | the symbolic link `.#name`, `edit->locked` | `lock_file`, `unlock_file` | editor, hex viewer, other mc processes | system calls of several processes interleave; a process dies and its id is used again | one holder; the holder is named; no link without a holder |
| Editor file session (`src/editor/edit.c`, `editcmd.c`) | file, backup, temporary; `modified`, `locked`, `delete_file`, `stat1`, `skip_detach_prompt` | open, change, save in three modes, quit | lock, file system, user's answers | a call of the save fails or the editor is killed between two; two sessions save the same file | the file or a copy survives; changes of others are not overwritten silently; what is reported saved is saved |
| Undo and redo (`src/editor/edit.c`) | two rings of actions with repeat counters, `undo_stack_disable`, `redo_stack_reset`, marks | push, pop, `edit_do_undo`, `edit_do_redo`, groups | buffer, selection, every editing command | rings grow, wrap and forget; undo pushes on redo; counters share the ring | undo gives back what was seen; everything undone is the loaded text; redo is the inverse of undo |
| Subshell (`src/subshell.c`, `execute.c`) | `subshell_state`, `subshell_ready`, `subshell_alive`, `subshell_stopped`, pty, pipe | start, cd, run, C-o, prompt, restart, quit | shell process, SIGCHLD handler, panels | three parties, two channels and signals; the shell dies, stops or is ahead at any point | the two agree whose turn it is and where; a command given is executed; mc never waits for nobody |
| Background jobs (`src/background.c`) | `task_list`, select list, pipes | start, call, attention, good-bye, jobs dialog | file operations, `lib/tty/key.c`, dialogs | a question is served in a dialog that serves other questions; tasks are freed in between | the answer is for the question; the list is true; a question is answered |
| VFS collector and superblocks (`gc.c`, `direntry.c`, `tar.c`) | list of stamps, superblocks, `fd_usage`, current directory | stamp, create a stamp, expire, open, close, chdir | panels, viewer, event loop | free functions call back into all of this; archives in archives; files on disk change | what is in use is kept; what is not is freed, once |
| File operations (`src/filemanager/file.c`) | files and trees, `linklist`, `dest_dirs`, `erase_list`, `do_append` | copy, move, delete with dialogs | VFS, background jobs | one of many steps fails; the user answers Skip, Retry, Abort at each | no content is lost; Abort ends it; what is reported copied is whole |
| VFS directory cache (`direntry.c` with the methods of `ftpfs.c`) | inodes with `st_nlink`, entries, listings with their time, local copies, `want_stale`, `flush` | look up, list, invalidate, expire, open, read and close directories, open, close and store files, unlink, rename | servers, panels, viewer, editor, file operations | an inode outlives its entry; the cache is thrown away under an open directory or file; a call fails after the cache was changed | links are counted exactly; the cache is what the server has; a directory that is read is read whole |
| FTP client (`ftpfs.c`) | control and data sockets, `isbinary`, `cwd_deferred`, `current_dir`, `ctl_connection_busy` | connect, log in, reconnect, list, read, store, abort, remove, rename | server, `direntry.c`, the user who interrupts | the server drops the connection in the middle of anything and the client logs in again inside another routine; two replies per transfer, four when aborted | each reply is read for the command that caused it; success is reported for what was done; nothing waits for ever |
| Editor buffer and what is remembered of it (`edit.c`, `bookmark.c`, `syntax.c`, `editdraw.c`) | blocks on both sides of the cursor; line numbers, offsets of lines, bookmarks with a pointer into them, a rule with markers | insert, insert ahead, delete, backspace, move, load; find a line; marks; draw | undo, every editing command, the screen | arithmetic at the boundaries of blocks; five caches corrected by hand in each of four routines | the blocks are a text with a cursor; each remembered number, offset, mark and colour is what the text says |

### The rest

| Component | State and operations | Hard behaviour |
|---|---|---|
| Editor commands and display | search and replace, blocks, macros, paragraphs, tags, drawing | sequences of buffer changes that must be one undo step |
| VFS core (`vfs.c`) | table of handles, dispatch by path, local copies for commands | a static buffer shared by nested `mc_readdir` loops |
| Panels, commands, layout | listings, selection, sort order, key dispatch, dialogs | a listing is stale the moment it is read; nested dialogs |
| Tree, hotlist, find, panelize | sorted list of directories shared by several users; lists with dialogs | a directory is removed while a scan or a callback holds it |
| User menu, extensions, completion, chmod, chown | macros, conditions, one system call per file | quoting; remote files copied for the command and stored after it |
| Other VFS back ends | tar, cpio, extfs, sfs, undelfs; fish, smbfs | formats; scripts on another machine |
| Viewer, diff viewer | data sources, coordinate cache, growing buffers, hunks | a pipe that grows while it is shown; cached coordinates |
| Widgets, dialog switch | dialog tree, focus, idle callbacks, history | callbacks that destroy what called them |
| Terminal and keys | key trie, escape timeouts, screen, mouse | a prefix that may still become a longer key |
| Hooks | lists of callbacks, executed from a copy | a callback deletes a hook that is about to run |
| Search, strings, charsets; configuration, skins, key bindings, highlighting | pure functions; tables read at start | conversions |
| Console saver, main, arguments, help, clipboard, logging | process set-up, a helper process over a pipe | little |
| Samba | vendored | — |

`PROJECT.json` lists every component with its sources and its status, and under
`hazards` the places where a test would hardly reach, each with the properties that
watch it.

## Modules

Every module has one action per operation, handler or system call, `Init` from the
code's initialisation, constants with a named assumption, and one type invariant.
Operators marked `Mutant:` are plausible mistakes; each stands before the definition
it would replace and shows that a property can fail. They are not part of any
specification.

**FileLock** (`lib/lock.c`). `link` is the target of the lock link, `locked[p]` the
value `lock_file` returned, `pc[p]` the next system call. `LockStat`, `LockRead`,
`LockKill`, `LockAskGrab`, `LockAskIgnore`, `LockUnlink`, `LockSymlink` are
`lock_file` from `lstat` to `symlink`; `UnlockStat`, `UnlockRead`, `UnlockUnlink` are
`unlock_file`. Processes die anywhere and later ones may get their ids. A name is the
process that wrote it; its id and machine are constants, as `lock_extract_info` keeps
only the id.

**EditSession** (`src/editor/edit.c`, `editcmd.c`). A text is the set of changes it
contains, so that a lost change can be told. `file`, `backup` and `temp` are directory
entries, `ed[s]` is the `WEdit`, `save[s]` the locals of `edit_save_cmd` and
`edit_save_file`. The save is `SaveCmd`, `SaveChooseMode`, `SaveCheck`,
`SaveAskLinks`, `SaveAskMtime`, `SaveTemp`, `SaveOpen`, `SaveWrite`, `SaveStat`,
`SaveBackup`, `SaveRename`, `SaveReturn`: one action per system call or dialog, each
of which may fail: the two that only look at the file (`open` in `SaveChooseMode`, `stat` in
`SaveCheck`) change what the save does next. `lock_file` is one step here, with all its
outcomes: `LockFile` takes the link, takes it from a living editor, or comes back with
nothing, because the user ignores the lock, a call fails or another editor was faster;
`unguarded` remembers the last three. Its insides are FileLock's. Two quick saves that have
the file open together leave a text that is neither's (`Mixed`).

**UndoRing** and **EditUndo** (`src/editor/edit.c`). UndoRing is the ring as data:
`Push` with growth (`Grow`), counting (`Count`), storing and forgetting (`Trim`,
`Reinit`), `Peek` and `Pop`. It has no recursion; the search for the next key press
is a minimum over the cells. EditUndo puts two rings into an editor: the text before
and after the cursor, the marks, and one action per key (`Type`, `BackspaceKey`,
`DeleteKey`, `KillKey`, `LeftKey`, `RightKey`, `ShiftRightKey`, `MarkKey`, `UndoKey`,
`RedoKey`), each the whole command with all the pushes it makes. Undo and redo are
recursive functions that pop up to the next key press.

**Subshell** (`src/subshell.c`, `execute.c`). `mc` is the main thread with the
variables of the file, `sh` the shell process, `chld` a pending SIGCHLD, `input` the
lines on the terminal, `pipe` the directories written to `subshell_pipe`, `out` the
output on the pty. `feed_subshell` is `FeedCheck`, `FeedEnter`, `FeedPty`, `FeedPipe`,
`FeedTimeout`, the keyboard actions (`KeySwitch`, `KeyLine`, and `KeyLineSwitch` for one
read that returns a line and the key that switches back); `synchronize` is `SyncWait`, `SyncResume`;
`Handle` is `sigchld_handler`; then `invoke_subshell`, `do_subshell_chdir`,
`init_subshell` and their callers. The gap between the test of `subshell_alive` and
`select` is there because `FeedCheck` and `FeedEnter` are two actions.

**Background** (`src/background.c`, with `lib/tty/key.c`, `file.c`, `boxes.c`). `loops`
is the stack of event loops of the parent, each with the channels its last `select`
found ready: `check_selects` serves them one after the other, and the dialogs it opens
push a loop. A call is sent in two writes (`CallHeader`, `CallRest`) and read in two
(`ReadHeader`, `ReadRest` with what it asks for). `KillTask` and `StopTask` are
`task_cb`, which uses the task after it was freed: whether freed memory keeps its
contents is a setting.

**VfsGc** (`lib/vfs/mc-vfs/gc.c`, `direntry.c`, `tar.c`, `vfs.c`, with `panel.c`,
`layout.c`, the viewer and the hotlist). The variable `todo` is the C call stack: each
action runs the function at its head up to the next call. `PathCall`, `SameCall`,
`InsertCall` look a superblock up or open the archive; `StampCreate`, `ExpireCall`,
`ScanCall`, `ForgetCall`, `FreeCall`, `CloseCall` are the collector; `ChdirCall` to
`ReleaseCall` are `mc_chdir` and `_do_panel_cd`; `DialogWaits` and `DialogClosed` are an
error dialog, in which the event loop may call the collector again. Ids are addresses:
one that is freed may be allocated again, and `fault` records the first use of freed
memory.

**FileOps** (`src/filemanager/file.c`, with `filegui.c` and `fileopctx.c`). `stack` is the C
call stack; each action runs the function at its head up to the next call that may
fail or ask. `src` is what is left of the source tree, `tgt` and `data` are what
is at the target names and in the files behind them, as pieces: what was there, a
whole copy, a part. `CopyFile`, `Link`, `Open`, `Fill`, `Short` are `copy_file_file`;
`CopyDir`, `Entry`, `CopiedEntry` are `copy_dir_dir`; `MoveFile` to `Remove`
`move_file_file`; `MoveDir` to `Moved` `move_dir_dir`; `Erase...` the erase routines.
`FileError` is a failed call with the user's answer, or a button of the progress
dialog. The tree and the operation are a setting: what is tagged, which targets exist,
whether the target is on another file system, which names are hard links. `Sub[n]` is
what lies in or under `n`: the least set with `n` that has the entries of its
directories. `TreeAssumption` says what the file system and the panel give: directories
form a tree, `readdir` gives each entry once, the tagged names are different entries of
one directory (a panelized list may hold a file and its directory and is left out), and a
target exists only in a directory that exists.

**Text** and **EditText** (`src/editor/edit.c`, `bookmark.c`, `syntax.c`, `editdraw.c`).
Text is what the editor promises: bytes before and after a cursor, changed by inserting
and removing one byte on either side of it and by moving. EditText is how it is kept.
`edit.buffers1` and `buffers2` are arrays of blocks, `NULL` where none is allocated;
`PutBefore`, `PutAfter`, `TakeBefore`, `TakeAfter` are the block arithmetic of
`edit_insert`, `edit_insert_ahead`, `edit_backspace` and `edit_delete` and, byte by byte,
of `edit_cursor_move`. The other fields are `curs_line`, `total_lines`, the top of the
screen, `numbers` and `offsets` with `valid` (the lines `edit_find_line` remembers; `Filled`, `Nearest` and `Reached` are its parts),
`marks` and `at` (`book_mark`, whose pointer each search leaves somewhere), `rule`,
`last` and `markers` (highlighting). `FindLine`'s random slot is a choice. `Apply` is
`apply_rules_going_right` stage by stage; `GetRule` is `edit_get_rule` with its markers;
`Update` is `edit_update_screen`, which may be skipped when keys wait. The refinement
mapping takes the bytes of `buffers1`, then those of `buffers2` backwards; only bytes
below the cursors count, whatever the blocks hold besides.

**FtpConnection** (`lib/vfs/mc-vfs/ftpfs.c`, with `direntry.c` and `file.c`). `stack` is
the C call stack as in FileOps, `ret` what the last call returned, `sup` the variables
of the superblock, `net` commands and replies under way on the control connection,
`data` the data connection. `Run` is the client: `Login` (`login_server`), `Connect`
(`open_command_connection`), `Reconnect` and `Relogged`, `Write` and `WriteAgain`
(`ftpfs_command`), `Reply` and `ReplyInterrupted` (`get_reply`; the interrupt key is enabled
only where the viewer fetches a file, as every command disables it), `NoPassword` (the
password dialog cancelled, which is shown before the greeting is read), `Chdir`, `DataConnection` and `Agreed` (EPSV, PASV,
PORT, EPRT, each tried when the one before is refused), `Open` (`open_data_connection`),
`Abort` to `Aborted`, and the operations on directories and files. `Serve` is the server,
one command after the other; it answers what it does not know with an error, and
tracks who is logged in, the transfer type, the directory, and whether both sides
agree on the data connection. `SrvDrop` closes the connection from its side; the user
may interrupt wherever the code looks for it.

**VfsEntries** (`lib/vfs/mc-vfs/direntry.c` with `ftpfs.c`). `cache.ino` is the heap of
inodes, each with its entry; addresses are model values, and `Blank` marks a free one,
so that an inode freed too early or never shows as a wrong count. `Insert`, `FreeInode`,
`FreeEntry`, `Invalidate` are the routines of those names; `Current`, `Load`, `Find` are
`vfs_s_find_entry_linear` with `vfs_s_dir_uptodate` and `ftpfs_dir_load`. The actions
are the calls of the library: `OpenDir`, `ReadDir`, `CloseDir`, `Stat`, `View`,
`CloseView`, `NewFile`, `OpenSave`, `CloseSave`, `Unlink`, `Rename`, `BeginOp` and `EndOp`
(`VFS_SETCTL_STALE_DATA` around an operation of the panels), `Reload`, `Expire`. Each
takes as parameters which of its steps fails. A directory handle may be open while
other calls are made: Find File keeps one open while the user looks at and edits what
it has found (`find.c:1071`).

Abstractions to know of: in EditSession `lock_file` is one step with the outcomes above, in VfsEntries a call of
the FTP client is one step that succeeds, fails, or may have been carried out although it
failed; FtpConnection shows what lies inside. The pieces of a file, the bytes of a
text and the entries of a directory are as few as the properties can tell apart.

The **MC** modules give the constants their values. The **...Proofs** modules hold the
theorems.

## Runs

| Run | Checks | Bounds, and why they are enough |
|---|---|---|
| `lock` | `MutualExclusion` while nobody dies or grabs; `NoOrphanLink` always | three processes on one machine, the third with the first one's process id: an owner, a rival, and a late one that looks like the owner. Both are proved without bounds |
| `session` | `TextSurvives` (the file in safe mode, the file or its copy with backups), `SaveReports` (what is reported saved is saved; the warning about a changed file is true), `ModifiedIsLocked`, `OverwritesAgreed` (changes of others go only with the user's consent), `NoTextDeleted` | two sessions with one change each and five writes to disk, or one session with eight; one failure or killed session; in every mode, through a filter, as a new file, with hard links. A lost update takes two sessions and one change each; losing file and backup takes several saves of one session. All are proved without bounds |
| `undo` | `UndoWhole`, `EndsExact` (undoing all gives the loaded text, redoing all what was undone) | one letter and a newline (the two classes `edit_insert` treats apart), texts up to four characters, rings of 8 and 16 cells, four to eight keys: enough for rings that grow, wrap, count and empty. The code starts with 32 cells and `option_max_undo` of 32768; only the sizes differ |
| `subshell` | `CommandFinished`, `InStep`, `Answered` | four deeds (lines, commands, cds, kills) and two directories: a command, its interruption, another and a change of directory. Users who wait for the prompt, who kill shells, or whose keys do not wait for the shell (typed while it runs, or behind a line in the same read); for the last ones nothing is promised but the types |
| `background` | `AnswerIsForQuestion`, `QuestionsAnswered`; the type invariant includes `ListIsTrue` | two jobs of two questions each: one served inside the other, then a second question while the first is still open; with stops, kills, freed memory kept or overwritten, a password |
| `vfs` | `CollectorSound` (stamps are of live superblocks, nothing else uses freed memory), `StampedWhenLeft` (the current directory's superblock is kept, none is lost), `Released`; the type invariant includes that `fd_usage` is exact | one archive in another, two panels, the viewer, five addresses, one rewrite on disk. The constraint `Sound` stops where a superblock is freed under an open file, or the stamp that `vfs_expire` goes on with, for nothing is promised after that. With two archives no nested `vfs_expire` ever finds a second stamp inside a scan, so the `locked` flag needs a third. Three archives gave no error either, in either arrangement (two in the third, and two inside different ones), but have 8 and 78 million states and take longer than a run should; `OneInside` bounds how deep archives lie |
| `fileops` | `NothingLost`, `UntaggedDone`, `AnswerObeyed`, `AbortStops` | a directory in a directory, each with a file, a file beside them (for deletions another directory); one of them a hard link; three failed calls or pressed buttons per operation. Loss by a forgotten result takes two entries and one failure, a stale `do_append` two files and one failure, and a third lets one failure hide another. All are proved without bounds |
| `text` | `ImplementsText` (EditText is Text), `LinesTrue`, `MarksFound`, `RulesTrue` | texts up to six bytes in blocks of two, a screen of two lines, four or five steps: every boundary of a block is crossed in both directions and the text reaches its limit. Comments, keywords and delimiters that are not part of the context; a marker every two bytes, and `rule.end` of 4 bits, where the code has 512 and 8. Highlighting, bookmarks and line look-ups are three settings, as they share nothing but the text |
| `ftp` | `InStep`, `ReportsTrue`, `OpsEnd` | three operations, two faults or interrupts, one piece of data; four servers: one that knows everything, one without EPSV, one that knows neither PASV nor PORT, one used with active connections. Two faults make one happen inside the recovery from another; a password that is refused in one connection, and not given when it is asked for in the next, takes four. `InStep` was checked so for one download, and the proof has no bound |
| `entries` | `CacheTrue`, `ListingWhole`; the type invariant is that every inode's count is the number of its entry and handles | a directory with a file and a subdirectory, twelve inodes, one change on the server, two failed calls, expired listings or reloads. A stale cache takes one change; a directory invalidated while it is read takes one, and its reload another. The view renames inodes by where they are first met, which is sound because no step compares addresses in any other way than for equality |

For each of these properties, the type invariants included, there is a mutant of the
model, a plausible mistake in the code, that breaks it.
CHECK_DEADLOCK is off everywhere, because every one of these systems may stop: editors
and mc are left, deeds, keys and operations run out, the parent aborts, freed memory
ends a behaviour, a file operation is over, a close waits for a reply that nobody owes.

Two runs state what a document or comment of the program says and TLC finds that the
code does otherwise:

| Run | Property | What happens |
|---|---|---|
| `session_cancelled` | `QuitKeepsChanges` | Quit, Yes, Cancel at "modified in the meantime": the editor closes without saving |
| `ftp_copy` | `OpsEnd` | a file is copied from one directory of a server to another: the target is opened first, its STOR waits for data, and RETR of the source is sent on the same connection, which the server will not look at |

## Fairness

* *Subshell*: weak fairness of the shell, of the signal handler and of mc's own steps:
  two processes the kernel schedules and a signal it delivers. The user owes nothing,
  so `Answered` speaks only of waits that do not look at the keyboard. A kill or a
  suspension owes nothing either.
* *Background*: weak fairness of every job's steps, of the parent's `select` and of
  serving each ready channel, and of `Answer`: the user answers dialogs in the end,
  without which no question could be promised an answer. Starting, stopping and
  killing jobs is not fair.
* *VfsGc*: weak fairness of calls (the program runs), of the timeout of the event loop
  (`vfs_timeout_handler` whenever the program waits for a key) and of the clock. Strong
  fairness of `DialogClosed`: the collector runs while a dialog is open, which disables
  and enables the closing again and again, and the user closes it in the end. `Released`
  speaks only of users who stop giving commands.
* *FtpConnection*: weak fairness of the client (`Run`: one process the kernel schedules,
  with a user who answers its dialogs) and of the server (`Serve`: it answers every
  command it reads). Drops and interrupts owe nothing; the code has no timeout for a
  server that is silent, and none is modelled.
* *FileLock*, *EditSession*, *EditUndo*, *FileOps*, *EditText* and *VfsEntries* have no liveness
  properties: whatever they should reach depends on the user and on system calls that may
  fail; a call of *VfsEntries* is one step.

## Proofs

TLAPS checks these for every value of the constants that satisfies the modules' assumptions.

**FileLockProofs**: any set of processes, any number of machines, any assignment of ids.

* `TypeCorrect`: `Spec => []TypeOK`, one step per action.
* `NoOrphan`: `Spec => []NoOrphanLink`. The property alone is not inductive: after
  `unlink` in `lock_file` one has to know that the process does not think it holds the
  lock, and after the one in `unlock_file` that it was the holder that gave it up.
  `PcAgrees` says so: `locked` is false at every step of `lock_file` and true at
  every step of `unlock_file`. `OrphanInv == TypeOK /\ PcAgrees /\ NoOrphanLink`.
* `Exclusive`: `Spec => [](MutualExclusion /\ HolderIsNamed)`. While all is quiet the
  test for a stale lock never succeeds, because every link and every name read belongs
  to a live process of this machine (`NamesAlive`), so nobody reaches `unlink` and
  `symlink` fails where a link is.

**BackgroundProofs**: any number of jobs, of calls of each and of dialogs open inside one
another, with jobs stopped and killed, and freed memory kept or overwritten.

* `TypeCorrect`: `Spec => []TypeOK`, with `ListIsTrue` in it.
* `RightAnswer`: `Spec => []AnswerIsForQuestion`. The property alone is not inductive: an
  answer is written when a dialog closes, long after the question was read, and nothing in
  the property says that the job has not gone on meanwhile. `JobsInv` does: what the parent
  has read of a call, what the job has written of it and where the job is in `parent_call`
  agree (`CallAgrees`); a job whose question a dialog shows waits for it or is dead
  (`DialogFits`); no two dialogs show one job's question, and the outermost loop is no
  dialog (`Stack`). `OneJob` covers every step about one job; the steps that change the
  stack of loops have lemmas of their own.

**SubshellProofs**: any set of directories, any lines, any number of deeds.

* `TypeCorrect`: `Spec => []TypeOK`.
* `KeptInStep`: `Spec => []InStep`. While mc is at its panels nothing is on its way between
  the two, but between a line and the next prompt a line, a directory, a stop and a
  SIGCHLD follow each other through two channels. `Handshake` follows a line through the
  stages Told, Executing, Reporting, Stopping and Stopped, or Exited (`Busy`), and says that
  mc is between two lines (`Idle`), in one of these stages, or has waited for the shell's
  end (`Gone`); `Place` is what mc relies on at each point of its own code. It holds
  while the users do not kill the shell and their keys wait for it (`Quiet`), as `InStep` says, and
  until `init_subshell` has given the shell up (`Trusted`). TLC checked it before the proof
  was written.
* `CommandsFinish`: `Spec => []CommandFinished`, here also for users who kill and suspend
  shells, where `Handshake` is of no use: a new shell reads what the dead one left in the terminal,
  and mc what it left in the pipe. `OrderParts` shows that only the stops matter: mc never
  takes the shell for idle without one, a shell that has stopped stays so until mc resumes it
  (`Stops`), no stop is on its way when a command is given (`Turns`), and a command that has
  not been executed is the one line the shell has (`Given`).

**EditSessionProofs**: any number of sessions, changes, writes and failures, every save mode.

* `TypeCorrect`, `ModifiedLocked`, `TextKept`, `ReportsTrue`: `Spec => []TypeOK`,
  `[]ModifiedIsLocked`, `[]TextSurvives`, `[]SaveReports`. `AsksBeforeOverwriting` and
  `KeepsText` are the action properties `OverwritesAgreed` and `NoTextDeleted`.
* One inductive invariant, `SessionInv`, proves them all. None is inductive alone: a save
  is twelve steps, and what it will do is decided at the first. `Shape` says what a session's
  variables can be at each of these steps; `Fresh`, that the inode and the time a session
  remembers are older than any to come and that no two names share a temporary inode;
  `Drafted`, that a temporary file that has been written holds the buffer. On these rest
  one part per property: `LockInv` (who has changes or saves holds the lock, until a
  `lock_file` goes otherwise), `SafeInv`, `CopyInv` (the backup is whole whenever the file is not),
  `WrittenInv` and `KnownInv` (who wrote the file last knows its time), `QuickInv` (who
  knows its time has its text) and `DeleteInv`. Each part is stated for one session; the
  lemma `Moves` shows that a step of one leaves the records of the others alone. TLC
  checked `SessionInv` first.

**FileOpsProofs**: any tree, any set of tagged entries, existing targets and hard links, any
number of failures and answers.

* The actions are first restated (`...Is`) as what they do to the frames of the call stack
  counted from its bottom: `Goes` changes the frame on top, `Enters` calls, `Returns` takes it
  off. `CoreHolds` is the invariant of that stack: which function waits for which, in which
  operation (`Fits`), with whose entry (`Linked`), and whom `erase_list` belongs to
  (`ListInv`). `TypeCorrect` follows from it.
* `CopyHolds`: what the frames still have to visit is disjoint, because the tree is
  (`Disjoint`). So a file is visited once, and until then (`Pending`) nothing has
  happened to it (`CarryInv`). All other theorems but `AbortStopsHolds` rest on this.
* `NothingIsLost`: `Spec => []NothingLost`. What may be removed is more than what has been
  copied at that moment: `erase_list`, a file just copied, the files of a directory about to be
  removed. `Kept` says that every inode has a name that is not among these, or is whole at
  a target that nothing will touch any more.
* `UntaggedIsDone`: `Spec => []UntaggedDone`, with `DoneInv` (a function that returned
  success has done its work) for copies and moves and `DeleteInv` for deletions.
* `AnswersObeyed`: `Spec => []AnswerObeyed`. `AnswerInv` says for copies and moves that a target is
  what it was until its question is answered, and that `do_append` is set only between an
  answer and the opening of that file (`FlagMeant`); `KeepInv`, that a deletion stays
  within the directory it was called for and goes around those the user keeps.
* `AbortStopsHolds`: `Spec => AbortStops`. After Abort each function that waits returns
  when control comes back to it (`AbortInv`).

**FtpConnectionProofs**: any servers (what they know, refuse and drop), any file sizes, any
number of operations, failures and interrupts.

* `TypeCorrect`: `Spec => []TypeOK`. That `ctl_connection_busy` is set exactly while a
  file is being read needs the call stack: the flag is cleared in `ftpfs_linear_abort` and
  in three other places, each reached from several callers.
* `RepliesInStep`: `Spec => []InStep`. The property is about the end of an operation and says
  nothing of the hundred steps before it. `Shape` says which function of `ftpfs.c` can be
  running while which other one waits (`Fits`), for stacks of any depth; the lemmas `Put1`
  to `Put4` and `Popped` show that calls and returns keep it. `Owed` says for each place
  the running function can be at what the server still owes: nothing, one reply (`OneDue`),
  one or two for a command that begins a transfer (`TransferDue`), the one that ends it
  (`EndDue`), and after ABOR one more (`BothDue`, `AborDue`). Each action of the client and of
  the server is then shown to keep both (`...Keeps`) on top of the types (`...Types`).
  Nothing is claimed once `late` is set, which happens in the five cases described below,
  nor of a copy from a server to itself, where one connection serves two transfers and
  the property is false. TLC checked `Shape` and `Owed` first.

**FtpReportsProofs**: the same, on top of FtpConnectionProofs.

* `ReportsAreTrue`: `Spec => []("copy" \notin opt.ops => ReportsTrue)`. A report is made in one step; whether
  it is true was decided by a connection broken and made again some calls deeper, by a
  type agreed on in a session that is gone, or by a reply to somebody else's command.
  `Told` says what mc takes for granted at each of those places. Its first part is about mc
  alone: every function on the stack works for the operation it was called for (`Args`),
  nothing is known of a session before its login is over (`NewSession`), nothing is written
  before STOR is accepted (`Unsent`). The second is about what has been said: a
  preliminary reply belongs to the transfer that waits for it (`Prelims`), and one to LIST was
  given in the directory mc knows (`Listing`); from the one to STOR on the pieces under way
  and on the server are those written, and a final reply that says yes means the whole
  file (`Storage`). The third is about the connection there is: the directory and the type of
  the session are those in `sup` (`Session`), except between a command that changes them and
  the place where its reply is looked at, and a session that may be new has agreed on no
  data connection (`Server1`), so a transfer after a reconnection is refused. The step
  from `Told` to `Told'` uses `Owed` throughout: which reply is read is known only because
  none is left over. Copies within one server are left out, as before. TLC checked `Told` on
  the states of the run `ftp`, too.

**EditBufferProofs**: any size of block, any bytes and texts, any number of remembered lines,
any screen, bookmarks, look-ups and highlighting in one session. First EditText:

* `Invariant`: `Spec => []IInv`, and from it `TypeCorrect` (`TypeOK`), `LinesAreTrue`
  (`LinesTrue`) and `MarksAreFound` (`MarksFound`).
* `TextImplemented`: `Spec => ImplementsText`, the refinement: what is loaded is an initial
  state of Text, and each routine makes one step of Text or leaves it as it is.
* Why an invariant is needed: a routine never counts the lines of the text; it looks at the
  byte it adds or takes away and corrects `curs_line`, `total_lines`, `start_line`, the
  remembered lines and the bookmarks by one each. That is right only if they were all right
  before, and if the byte it reads from a block is the byte of the text, which in turn needs
  the blocks to be there. So `IInv` says that the blocks lie as the counts of bytes on the
  two sides of the cursor ask (`Blocks`, in `Sound`), the counts of lines are true
  (`Counted`), so is every remembered line, and it is the start of a line (`Cached`), and
  the marks are sorted behind their dummy with `book_mark` among them (`Marked`).
* The argument goes from bytes to lines. Putting a byte into the blocks or taking one out
  changes what `edit_get_byte` answers as it changes the text; a count of lines
  over a text that has grown by one byte is then the old count, plus one where the byte is a
  newline before its end (`Grown`, `CountGrown`). A deletion is the same read backwards:
  the text before it has grown from the text after it.
* Some definitions are functions on numbers that call themselves (`MoveForward`,
  `CursorMove`, `Spared`, `MarkAll`). What is claimed of them is proved by the least number
  for which it would fail (`LeastNat`, from the well-foundedness of the naturals).

Then UndoRing, any ring size from four cells, any limit, any action:

* `PushWellFormed`, `PopWellFormed`: what `edit_push_undo_action` and
  `get_prev_undo_action` do keeps a ring well formed: pointers inside, the oldest
  action kept the start of a key press. The lemmas follow the code: neighbours
  on a circle, growth moves nothing (`GrowKeeps`), storing with forgetting
  (`StoreKeeps`), the search for the next key press stops (`NextPressStops`, by the
  least element of a set of numbers).
* `LastInFirstOut`: the action pushed last is the one popped next, whether it was
  stored, doubled or counted, as long as the push did not empty the ring.

The assumptions are those of the modules and nothing else: process ids are positive, the
absence of a link is no process; cells are numbered from 0; the absence of a job is no job;
the start directory is a directory, two lines joined in the pipe are none, and no directory
has the name of one of the words (`stay`, `exit`, `setup`) the model gives the shell beside them;
the absence of a file is no file, and a stamp is left for the file that is opened first;
directories are a tree, as described under FileOps; a block has two bytes at least (the
code's has 65536), texts fit the blocks, and one line more is remembered than the three
`edit_find_line` knows.

Only model-checked: the properties of EditUndo, VfsGc and VfsEntries, and `RulesTrue` of EditText. Of
EditUndo the rings are proved; what a sequence of undos and redos gives back was not
attempted. `RulesTrue` needs to know how far before a change the rule of a byte can depend
on the bytes after it, which is a statement about the words of all rules. `ReportsTrue`
is proved for operations other than a copy within one server, `InStep` and `AnswerObeyed` with the exceptions they state.
`QuitKeepsChanges` is violated, so there is nothing to prove, and so is `OpsEnd` in the
run `ftp_copy`. Liveness (`Answered`, `QuestionsAnswered`, `Released`, `OpsEnd`) stays with TLC:
the prover has no rule for fairness.

## Where the code and its documents differ

Besides the two runs above, modelling showed these; they are restrictions in the
properties named, or not modelled.

*Editor sessions.* Two sessions on a new file: leaving the one that created it unlinks
what the other one saved (`edit.c:2254`; `NoTextDeleted` asks for one session),
although "New file, delete it if it's not modified or saved" (`edit.c:384`). An existing file that cannot be opened for reading is taken for one that
"does not exists yet" and written directly (`editcmd.c:147`), where the manual of safe save has
"In the event of an problem, the original file is untouched" (`mcedit.1.in:451`);
`TextSurvives` holds until that happens (the variable `direct`). When `stat` of the file fails, the question about a file changed meanwhile
is not asked (`editcmd.c:165`; `OverwritesAgreed` speaks of saves that have seen it). When the
lock link cannot be read or made, `lock_file` comes back as it does after Ignore, without a
word to the user (`lock.c:223`, `lock.c:257`; the variable `unguarded`, after which
`ModifiedIsLocked` and `OverwritesAgreed` claim nothing). Two quick saves that have the same
file open write each at its own offset and both report success (`editcmd.c:239`;
`SaveReports` is about saves that had the file to themselves). Safe
save and backups do not look at the modification time (`editcmd.c:160`;
`OverwritesAgreed` is about quick saves). The answer to the question about hard
links, and its being remembered, skips that look too. The time is not refreshed after a
save with a filter or with converted line ends (`editcmd.c:326`; `SaveReports` asks
for plain saves there). The status of the filter is ignored (`SaveReports` too). With backups the file has no name
between two renames (`editcmd.c:357`): a second failure there, or the save of a second
session, which then takes the file for a new one, writes it directly (`editcmd.c:133`) and makes a
broken file the next backup, so that both copies can be lost. `TextSurvives` claims that mode for one
editor and one failure. A write within the
same tick of the clock goes unnoticed: modification times have the granularity of the file
system (`editcmd.c:188`), and every write of the model gets a new one. Save-as, loading
another file and VFS paths are not modelled.

*Undo.* `edit_do_redo` has no case for the two actions that delete a space or a newline
(`EndsExact` claims redo while none has been pushed; `edit.c:1363`), sets the first line shown to 0,
and replays one low-level action per key. After an undo inside a selection redo takes a
cursor mark for `mark2` (`edit.c:1386`), which then lies half a billion bytes beyond the
text.

*Subshell.* The comment at `subshell.c:82` has the state tell whether the shell runs a
command. When a line has been typed ahead on the command screen, the directory the shell
writes after it ends RUNNING_COMMAND for a command given from the panels, and the next
`feed_subshell` throws that command away (`subshell.c:535`): nothing is claimed of users
who type ahead. Nor of one whose line and switch key come in the same `read`:
`subshell_ready` is only cleared when a newline is the last byte read (`subshell.c:565`), so mc
is back at its panels with INACTIVE, "awaiting a command" (`subshell.c:80`), while the shell
runs the line (`subshell.c:557`), and a newline with other bytes behind it leaves `subshell_ready` set,
too. The model's `opt.ahead` stands for both kinds of keys that do not wait. A shell that dies between the look at `subshell_alive`
(`subshell.c:975`) and `select` (`subshell.c:481`) leaves mc waiting for ever, as no signal
is due any more: `Answered` excludes that death. A shell that dies during a cd leaves
RUNNING_COMMAND (`subshell.c:1264`), and commands are refused until C-o. What a dead shell left in the
pipe is taken for the answer of the next. A line typed and not finished is joined with mc's
own cd or command, and is not modelled. A shell that takes more than ten seconds to start is given up for the session.

*Background.* The parent keeps the writing end of every pipe open, so it never sees
the end of one: "Child died unexpectedly" cannot be reached, and a job that is killed
from outside stays in the list. A job stopped between two writes blocks the parent. A
task is read after it was freed at `background.c:122` and `boxes.c:509`. The password
dialog sends five arguments where four have room (`background.c:241`), and the parent aborts.

*Virtual file system.* A superblock may be released while a file of it is open in the viewer or
keeps an inner archive, though "our data structures should survive free of superblock at any
time" (`direntry.c:841`): the next `tar_read` or
`vfs_s_close` uses freed memory, and the run `vfs` looks no further. With a third
archive the collector does so itself: the superblock that `vfs_expire` frees closes its
file in the archive around it, `vfs_stamp_create` looks up a panel's directory, whose
archive has changed on disk, and `tar_super_same` frees that superblock and its stamp,
which may be the one `vfs_expire` goes on with (`gc.c:255`). The model has this free in
`Awaited`, and stops there. Archives three deep can leave two superblocks
of one archive in the list, as opening the second may re-read the first, and its stamp a
look-up that opens the second. Entering an archive in an archive stamps the outer one although
the inner one keeps a file of it open. A file closed after its archive changed on
disk frees the superblock inside `vfs_stamp_create`, which then stamps it. Hiding and
showing a panel stamps the superblock that panel shows; the panel reads the archive again. A panel that lists its directory again is not yet a
listing panel when `panel_new_with_dir` leaves that directory (`layout.c:1072`).

*File operations.* Abort in a sub-directory is turned into Retry by `recursive_erase`
(`file.c:721`), so the next tagged file is deleted all the same, where the manual
(`doc/man/mc.1.in:2517`) has Abort end the operation, and `move_dir_dir` ignores an Abort while it removes the directory it
has moved (`file.c:1964`): `AbortStops` speaks of the tagged entry at hand. Directories
are untagged although entries were skipped or could not be read, against "Failed
and skipped files are left tagged" (`mc.1.in`): `UntaggedDone` asks content only of
tagged files. A target that is incomplete or still the old one is what `check_hardlinks`
links the next name of the inode to (`file.c:1310`); `UntaggedDone` leaves links out.
After Append for a file that then cannot be looked up, `move_file_file` leaves
`do_append` set, and the next target is appended to where the user wants it overwritten:
`AnswerObeyed` leaves that out. After Retry a status stays `FILE_RETRY`, and what was
done in the end stays tagged. Reget stands beside the answers for "this target" and is
one for all of them (`filegui.c:864`); it is not modelled.

*Editor buffer.* `edit_backspace` corrects the bookmarks before it decrements `curs_line`
(`edit.c:745`): a mark on the line that is joined ends up on the line after it, and
`MarksFound` does not say which line a mark is on. `edit_delete` of a character of several
bytes moves the top of the screen by one only. Highlighting: the markers behind a change
are not dropped, so `RulesTrue` speaks of lines before the first one changed since it was
drawn; the end of a word is kept in one byte, and a word or delimiter 256 bytes behind
another one ends it early. `book_mark_serialize` skips a mark when an earlier one is on line 0.

*FTP.* Five cases leave one reply unread or read one too many, and everything after
them is answered one command late, until a wait for a reply that never comes: ABOR
meets a transfer that has just ended; the user interrupts `accept`; the user interrupts the
wait for the reply that ends a file fetched for the viewer (`ftpfs.c:1902`, taken for a broken
connection at `ftpfs.c:355`); an abort times out and the reconnection fails; the user
gives no password, and the greeting of the new connection stays unread (`ftpfs.c:567`). `late` records them, and `InStep` and `OpsEnd` end there. `InStep` is also false of a copy
from a server to itself, the case of the run `ftp_copy`, and leaves it out. A
reconnection inside EPSV or PASV loses the directory a listing was to be made in, and with
a server that refuses CWD the login directory is shown in its place (`ReportsTrue` states the
exception). An upload the client gives up is a complete file for the server. RNTO is
sent whatever RNFR answered. A login that is refused and not tried again leaves a
superblock whose descriptor is closed.

*VFS directory cache.* A file kept open by a viewer on another screen and then stored
loses its local copy (`ftpfs.c:2147`); closing the viewer waits for a reply nobody owes
(`hung`). The hex editor opens with O_WRONLY and without O_TRUNC (`hex.c:356`): STOR
empties the file on the server, the following `mc_lseek` fails, and the file is lost.
`vfs_s_ungetlocalcopy` ignores `has_changed`: what an external program wrote into a local
copy is shown from the cache and never stored. `VFS_SETCTL_STALE_DATA` with 0 whose lookup
fails leaves `want_stale` set, and nothing is invalidated any more (`direntry.c:798`;
`CacheTrue` speaks of caches not stale). `vfs_s_open` inserts an entry before the server
is asked, which stays when the server refuses; editing a new file fails the first time
for that reason (O_EXCL finds the local file just made, `edit.c:376`). Such listings are
marked `unsure` and excepted from `CacheTrue`.

*File lock.* Two editors find the link of the same dead process; the second one unlinks
the link the first one has just made (`lock.c:252`), and both hold the file:
`MutualExclusion` speaks of times when nobody dies.

## What is not modelled

The components listed as `not_modelled` in `PROJECT.json`, with the reason there:
conversions and parsers without state between calls, drawing, platform code, and
vendored code (the Samba client alone is almost a fifth of the C lines). In the
modelled components: `exit_subshell` and commands without a subshell; prompt capture; the
contents of file operations in background jobs; symbolic links, special files, masks and
Reget in file operations; `vfs_gc_done`; superblocks of back ends other than tar and ftpfs;
symbolic links, modes, owners, making and removing directories and linear reading in
the directory cache (the last ones have the shape of `Unlink`); proxies, accounts, IPv6 and
the parsing of listings in the FTP client; column selections, tabs, characters of several
bytes and macros in the editor; saving under another name and loading another file;
words with wildcards in highlighting rules.

## Plan

Done: FileLock, EditSession, UndoRing, EditUndo, Subshell, Background, VfsGc, FileOps, Text
and EditText, FtpConnection, VfsEntries, and the proofs above. What is left, in this order:

1. **EditSession implements a lock**: FileLock as the detailed version of the single
   step `LockFile` of EditSession.
2. **TreeStore** and **Hooks**: lists changed from callbacks while they are scanned.
3. The way of counting open files of extfs, which does without superblocks' `fd_usage`.
4. **VfsEntries over FtpConnection**: the calls of the cache as sequences of commands.

Proofs that are left: `TypeOK`, `CollectorSound` and `StampedWhenLeft` of VfsGc, `CacheTrue`
and `ListingWhole` of VfsEntries, `RulesTrue` of EditText, `EndsExact` and `UndoWhole` of EditUndo
from the theorems about its rings in EditBufferProofs.
