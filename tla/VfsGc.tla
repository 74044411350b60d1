------------------------------- MODULE VfsGc -------------------------------
(***************************************************************************)
(* The garbage collector of the virtual file system and the superblocks it *)
(* releases: lib/vfs/mc-vfs/gc.c with the parts of direntry.c, tar.c,      *)
(* vfs.c, panel.c and layout.c that create, look up, use and free an       *)
(* archive.                                                                *)
(*                                                                         *)
(* An archive entered for the first time gets a superblock.  When nobody   *)
(* needs it any more the superblock is stamped; vfs_expire, called from    *)
(* the wait for a key, frees the superblocks whose stamp is vfs_timeout    *)
(* seconds old.  An archive inside another one keeps a file of the outer   *)
(* archive open for as long as its superblock lives.                       *)
(*                                                                         *)
(* The program is single threaded but the calls nest: freeing a superblock *)
(* closes a file, which stamps, which looks up directories, which may open *)
(* or free superblocks, and an error dialog runs the event loop and with   *)
(* it the collector.  The variable todo is that call stack, the function   *)
(* to run next at its head; each action below runs one function up to its  *)
(* next call.  Everything the user does starts with an empty stack.        *)
(*                                                                         *)
(* An archive may be inside another one, and that is as deep as it goes:   *)
(* OneInside says why.                                                     *)
(***************************************************************************)
EXTENDS Integers, FiniteSets, Sequences, SequencesExt

CONSTANTS Arch,          \* the archives (tar files) that can be entered
          Local,         \* every directory of the local file system
          Within,        \* the archive an archive is a member of, or Local
          Ids,           \* the addresses superblocks are allocated at
          MaxRewrites    \* bound: how often an archive changes on disk

ASSUME ArchAssumption ==
    /\ Local \notin Arch
    /\ Within \in [Arch -> Arch \cup {Local}]
    /\ Ids \subseteq Nat \ {0}
    /\ MaxRewrites \in Nat

\* Bound: an archive in an archive holds no third one.  Opening the second of
\* three may re-read the first, whose stamp is created with a stat of a panel's
\* directory in the third, which opens the second: the code then lists two
\* superblocks of it, where super has one.
ASSUME OneInside == \A a \in Arch : Within[a] \in Arch => Within[Within[a]] = Local

Dir == Arch \cup {Local}

VARIABLES
    disk,       \* modification times: what a stat of each archive would show
    super,      \* MEDATA->supers: the superblock of each archive, or 0
    sb,         \* their contents: snap, the times seen when the archive was
                \* read; usage, fd_usage; fd, the superblock of the outer
                \* archive in which u.arch.fd is an open file, or 0
    stamps,     \* the list of stamps, each of an id, old after vfs_timeout
    cwd,        \* current_dir
    panel,      \* the directories of current_panel and of other_panel
    listing,    \* the other panel lists its directory (view_listing)
    view,       \* the superblock of the file open in the viewer, or 0
    todo,       \* the call stack
    ret,        \* the result of the last call: an id, or 1 and 0
    orphaned,   \* history: a superblock was freed with a file of it open or
                \* being closed, or the stamp vfs_expire goes on with was
    fault       \* the first use of freed memory, "none" before it

vars == <<disk, super, sb, stamps, cwd, panel, listing, view, todo, ret,
          orphaned, fault>>

data == <<super, sb, stamps>>
place == <<cwd, panel, listing>>
health == <<orphaned, fault>>

---------------------------------------------------------------------------
(* Calls, as they stand on the stack.                                      *)

Path(d, open)   == [op |-> "path", dir |-> d, open |-> open]
Same(d, open)   == [op |-> "same", dir |-> d, open |-> open]
Insert(d)       == [op |-> "insert", dir |-> d]
Create(id, k)   == [op |-> "create", id |-> id, at |-> k]
Free(id)        == [op |-> "free", id |-> id]
Forget(id)      == [op |-> "forget", id |-> id]
Close(id)       == [op |-> "close", id |-> id]
Return(r)       == [op |-> "return", id |-> r]
Dialog          == [op |-> "dialog"]
Expire(now)     == [op |-> "expire", now |-> now]
Scan(now, id)   == [op |-> "scan", now |-> now, id |-> id]
Chdir(d)        == [op |-> "chdir", dir |-> d]
Found(d)        == [op |-> "found", dir |-> d]
Enter(d)        == [op |-> "enter", dir |-> d]
Moved(d)        == [op |-> "moved", dir |-> d]
Release         == [op |-> "release"]
Shown(back)     == [op |-> "shown", dir |-> back]
Listed          == [op |-> "listed"]
Reloaded(p)     == [op |-> "reloaded", panel |-> p]
Opened          == [op |-> "opened"]

Call ==
    [op : {"path", "same"}, dir : Dir, open : BOOLEAN]
        \cup [op : {"insert", "chdir", "found", "enter", "moved", "shown"},
                 dir : Dir]
        \cup [op : {"create"}, id : Ids \cup {0}, at : 0 .. 3]
        \cup [op : {"free", "forget", "close", "return"}, id : Ids \cup {0, 1}]
        \cup [op : {"dialog", "release", "listed", "opened"}]
        \cup [op : {"expire"}, now : BOOLEAN]
        \cup [op : {"scan"}, now : BOOLEAN, id : Ids \cup {0}]
        \cup [op : {"reloaded"}, panel : {"cur", "other"}]

Running(op) == /\ todo # <<>>
               /\ Head(todo).op = op
               /\ fault = "none"
AtRest == todo = <<>> /\ fault = "none"

\* The function at the head of the stack leaves the result r and its place
\* to the calls it makes.
Go(calls, r) == /\ todo' = calls \o Tail(todo)
                /\ ret' = IF todo' = <<>> THEN 0 ELSE r

\* The user starts an operation.
Start(calls) == /\ AtRest
                /\ todo' = calls
                /\ ret' = 0

---------------------------------------------------------------------------
(* Superblocks and stamps.                                                 *)

Live(id) == \E a \in Arch : super[a] = id
Nested(d) == Within[d] \in Arch
Blank == [snap |-> [a \in Arch |-> 0], usage |-> 0, fd |-> 0]

\* The modification time a stat of the archive gives: from the disk, or from
\* the superblock of the archive it is a member of.
Mtime(d) == IF Nested(d) THEN sb[super[Within[d]]].snap[d] ELSE disk[d]

StampIds(s) == {s[i].id : i \in DOMAIN s}
Position(id) == CHOOSE i \in DOMAIN stamps : stamps[i].id = id

\* vfs_stamp: give a stamp a new timeout.
Refresh(s, id) ==
    [i \in DOMAIN s |-> IF s[i].id = id THEN [s[i] EXCEPT !.old = FALSE] ELSE s[i]]

\* vfs_addstamp: refresh the stamp or append one.
AddStamp(s, id) == IF id \in StampIds(s) THEN Refresh(s, id)
                   ELSE Append(s, [id |-> id, old |-> FALSE])

\* vfs_rmstamp.
RmStamp(s, id) == SelectSeq(s, LAMBDA st : st.id # id)

\* The id of the stamp that follows in the list, 0 after the last one.
After(id) == IF Position(id) = Len(stamps) THEN 0 ELSE stamps[Position(id) + 1].id

\* Addresses still written down somewhere, and the next one malloc returns.
Held == StampIds(stamps) \cup {view} \cup {super[a] : a \in Arch}
            \cup {sb[i].fd : i \in Ids}
            \cup {todo[i].id : i \in {j \in DOMAIN todo : "id" \in DOMAIN todo[j]}}
Fresh == CHOOSE id \in Ids \ Held : \A i \in Ids \ Held : id <= i

---------------------------------------------------------------------------
(* Looking up the superblock of a path: vfs_s_get_path_mangle.             *)

\* archive_check is a stat of the archive, which looks up the outer one, and
\* opens it whatever FL_NO_OPEN says.
PathCall ==
    /\ Running("path")
    /\ LET c == Head(todo)
       IN  IF c.dir = Local THEN Go(<<>>, 0)
           ELSE IF Nested(c.dir)
                THEN Go(<<Path(Within[c.dir], TRUE), Same(c.dir, c.open)>>, ret)
                ELSE Go(<<Same(c.dir, c.open)>>, ret)
    /\ UNCHANGED <<disk, data, place, view, health>>

\* vfs_expire, further down the stack, will go on with the stamp of id.
Awaited(id) == \E i \in DOMAIN todo : todo[i].op = "scan" /\ todo[i].id = id

\* The stat failed; nothing loaded under FL_NO_OPEN; a new superblock; an
\* archive changed on the disk, freed (tar_super_same) and read again; the
\* superblock found, with a new timeout.
SameCall ==
    /\ Running("same")
    /\ LET c == Head(todo)
           id == super[c.dir]
           open == <<Path(Within[c.dir], TRUE), Insert(c.dir)>>
           stale == sb[id].snap[c.dir] < Mtime(c.dir)
       IN  \/ /\ \/ Nested(c.dir) /\ ret = 0
                 \/ id = 0 /\ ~c.open
              /\ Go(<<>>, 0)
              /\ UNCHANGED <<stamps, orphaned>>
           \/ /\ Nested(c.dir) => ret # 0
              /\ id = 0 /\ c.open
              /\ Go(open, 0)
              /\ UNCHANGED <<stamps, orphaned>>
           \/ /\ Nested(c.dir) => ret # 0
              /\ id # 0 /\ stale
              /\ Go(<<Free(id), Forget(id)>>
                      \o (IF c.open THEN open ELSE <<Return(0)>>), 0)
              /\ orphaned' = (orphaned \/ Awaited(id))
              /\ UNCHANGED stamps
           \/ /\ Nested(c.dir) => ret # 0
              /\ id # 0 /\ ~stale
              /\ stamps' = Refresh(stamps, id)
              /\ Go(<<>>, id)
              /\ UNCHANGED orphaned
    /\ UNCHANGED <<disk, super, sb, place, view, fault>>

\* open_archive has looked up the outer archive to open the file there.  The
\* file does not open; it opens and is no tar archive; it is read, its
\* superblock enters the list and is offered to the collector.
InsertCall ==
    /\ Running("insert")
    /\ LET d == Head(todo).dir
           used == [sb EXCEPT ![ret].usage = @ + 1]
       IN  \/ /\ Go(<<Dialog, Return(0)>>, 0)
              /\ UNCHANGED data
           \/ /\ Nested(d) /\ ret # 0
              /\ sb' = used
              /\ stamps' = RmStamp(stamps, ret)
              /\ Go(<<Dialog, Close(ret), Return(0)>>, 0)
              /\ UNCHANGED super
           \/ /\ Nested(d) => ret # 0
              /\ super' = [super EXCEPT ![d] = Fresh]
              /\ sb' = [i \in Ids |->
                           IF i = Fresh
                           THEN [snap |-> IF Nested(d) THEN sb[ret].snap ELSE disk,
                                 usage |-> 0, fd |-> ret]
                           ELSE IF Nested(d) THEN used[i] ELSE sb[i]]
              /\ stamps' = RmStamp(stamps, ret)
              /\ Go(<<Create(Fresh, 0), Return(Fresh)>>, 0)
    /\ UNCHANGED <<disk, place, view, health>>

ReturnCall ==
    /\ Running("return")
    /\ Go(<<>>, Head(todo).id)
    /\ UNCHANGED <<disk, data, place, view, health>>

---------------------------------------------------------------------------
(* vfs_stamp_create: stamp a superblock unless one of the three            *)
(* directories is in it.                                                   *)

NothingIsOpen(id) == TRUE     \* vfs_s_nothingisopen

StampCreate ==
    /\ Running("create")
    /\ LET id == Head(todo).id
           k == Head(todo).at
           last == k = IF listing THEN 3 ELSE 2
       IN  \/ /\ k = 0
              /\ Go(<<Path(cwd, FALSE), Create(id, 1)>>, 0)
              /\ UNCHANGED stamps
           \/ /\ k = 1
              /\ stamps' = RmStamp(stamps, ret)
              /\ Go(IF id \in {0, ret} THEN <<>>
                    ELSE <<Path(panel.cur, FALSE), Create(id, 2)>>, 0)
           \/ /\ k = 2 /\ listing /\ ret # id
              /\ Go(<<Path(panel.other, FALSE), Create(id, 3)>>, 0)
              /\ UNCHANGED stamps
           \/ /\ k \in {2, 3}
              /\ ret = id \/ (last /\ ~NothingIsOpen(id))
              /\ Go(<<>>, 0)
              /\ UNCHANGED stamps
           \/ /\ last /\ ret # id /\ NothingIsOpen(id)
              /\ stamps' = AddStamp(stamps, id)
              /\ Go(<<>>, 0)
    /\ UNCHANGED <<disk, super, sb, place, view, health>>

---------------------------------------------------------------------------
(* Freeing.                                                                *)

\* The last file of the superblock is being closed.
Closing(id) == \E i \in 2 .. Len(todo) : todo[i].op = "create" /\ todo[i].id = id

\* vfs_s_free_super: out of the list, then free_archive closes the file.
FreeCall ==
    /\ Running("free")
    /\ LET id == Head(todo).id
       IN  IF Live(id)
           THEN /\ super' = [a \in Arch |-> IF super[a] = id THEN 0 ELSE super[a]]
                /\ sb' = [sb EXCEPT ![id] = Blank]
                /\ orphaned' = (orphaned \/ sb[id].usage > 0 \/ Closing(id))
                /\ Go(IF sb[id].fd = 0 THEN <<>> ELSE <<Close(sb[id].fd)>>, 0)
                /\ UNCHANGED fault
           ELSE /\ fault' = "superblock"
                /\ UNCHANGED <<super, sb, orphaned, todo, ret>>
    /\ UNCHANGED <<disk, stamps, place, view>>

\* vfs_rmstamp after the free.
ForgetCall ==
    /\ Running("forget")
    /\ stamps' = RmStamp(stamps, Head(todo).id)
    /\ Go(<<>>, 0)
    /\ UNCHANGED <<disk, super, sb, place, view, health>>

\* Mutant: the last close does not offer the superblock to the collector.
CloseSilently ==
    /\ Running("close")
    /\ sb' = [sb EXCEPT ![Head(todo).id].usage = @ - 1]
    /\ Go(<<>>, 0)
    /\ UNCHANGED <<disk, super, stamps, place, view, health>>

\* vfs_s_close of a file of the superblock: FH_SUPER is read in any case.
CloseCall ==
    /\ Running("close")
    /\ LET id == Head(todo).id
       IN  IF Live(id)
           THEN /\ sb' = [sb EXCEPT ![id].usage = @ - 1]
                /\ Go(IF sb[id].usage = 1 THEN <<Create(id, 0)>> ELSE <<>>, 0)
                /\ UNCHANGED fault
           ELSE /\ fault' = "handle"
                /\ UNCHANGED <<sb, todo, ret>>
    /\ UNCHANGED <<disk, super, stamps, place, view, orphaned>>

\* vfs_expire, which does nothing inside itself.
ExpireCall ==
    /\ Running("expire")
    /\ LET locked == \E i \in DOMAIN todo : todo[i].op = "scan"
       IN  Go(IF locked \/ stamps = <<>> THEN <<>>
              ELSE <<Scan(Head(todo).now, stamps[1].id)>>, 0)
    /\ UNCHANGED <<disk, data, place, view, health>>

\* Mutant: the next stamp is read from the stamp just removed.
ScanLateNext ==
    /\ Running("scan")
    /\ LET id == Head(todo).id
           now == Head(todo).now
       IN  IF id \notin StampIds(stamps) \cup {0}
           THEN /\ fault' = "stamp"
                /\ UNCHANGED <<todo, ret>>
           ELSE /\ Go(IF id = 0 THEN <<>> ELSE <<Free(id), Forget(id), Scan(now, id)>>, 0)
                /\ UNCHANGED fault
    /\ UNCHANGED <<disk, data, place, view, orphaned>>

\* One turn of its loop: the next stamp is read before the superblock is
\* freed, and must still be there when the loop comes to it.
ScanCall ==
    /\ Running("scan")
    /\ LET id == Head(todo).id
           now == Head(todo).now
       IN  IF id \notin StampIds(stamps) \cup {0}
           THEN /\ fault' = "stamp"
                /\ UNCHANGED <<todo, ret>>
           ELSE /\ Go(IF id = 0 THEN <<>>
                      ELSE IF now \/ stamps[Position(id)].old
                           THEN <<Free(id), Forget(id), Scan(now, After(id))>>
                           ELSE <<Scan(now, After(id))>>, 0)
                /\ UNCHANGED fault
    /\ UNCHANGED <<disk, data, place, view, orphaned>>

\* An error dialog: its event loop runs the collector, the user closes it.
DialogWaits ==
    /\ Running("dialog")
    /\ \E i \in DOMAIN stamps : stamps[i].old
    /\ Go(<<Expire(FALSE), Dialog>>, 0)
    /\ UNCHANGED <<disk, data, place, view, health>>
DialogClosed ==
    /\ Running("dialog")
    /\ Go(<<>>, 0)
    /\ UNCHANGED <<disk, data, place, view, health>>

---------------------------------------------------------------------------
(* mc_chdir, which returns 1 or 0, and the panels.                         *)

ChdirCall ==
    /\ Running("chdir")
    /\ Go(<<Path(Head(todo).dir, TRUE), Found(Head(todo).dir)>>, 0)
    /\ UNCHANGED <<disk, data, place, view, health>>

FoundCall ==
    /\ Running("found")
    /\ LET d == Head(todo).dir
       IN  IF d # Local /\ ret = 0 THEN Go(<<>>, 0)
           ELSE Go(<<Path(cwd, FALSE), Enter(d)>>, 0)
    /\ UNCHANGED <<disk, data, place, view, health>>

\* The stamp is created with the new current directory.
EnterCall ==
    /\ Running("enter")
    /\ cwd' = Head(todo).dir
    /\ Go(<<Create(ret, 0), Return(1)>>, 0)
    /\ UNCHANGED <<disk, data, panel, listing, view, health>>

\* Mutant: the old directory of the panel is not released.
MovedNoRelease ==
    /\ Running("moved")
    /\ LET d == Head(todo).dir
       IN  IF ret = 0 THEN Go(<<>>, 0) /\ UNCHANGED panel
           ELSE /\ panel' = [panel EXCEPT !.cur = d]
                /\ Go(<<Path(d, TRUE)>>, 0)
    /\ UNCHANGED <<disk, data, cwd, listing, view, health>>

\* _do_panel_cd after mc_chdir: the panel follows, its old directory is
\* released (vfs_release_path) and the new one read.
MovedCall ==
    /\ Running("moved")
    /\ LET d == Head(todo).dir
       IN  IF ret = 0 THEN Go(<<>>, 0) /\ UNCHANGED panel
           ELSE /\ panel' = [panel EXCEPT !.cur = d]
                /\ Go(<<Path(panel.cur, FALSE), Release, Path(d, TRUE)>>, 0)
    /\ UNCHANGED <<disk, data, cwd, listing, view, health>>

ReleaseCall ==
    /\ Running("release")
    /\ Go(<<Create(ret, 0)>>, 0)
    /\ UNCHANGED <<disk, data, place, view, health>>

\* panel_new_with_dir for a panel that lists again: it has entered its saved
\* directory, or takes the current one; it reads it, returns to where the
\* program was, and only then is the panel a listing panel.
ShownCall ==
    /\ Running("shown")
    /\ panel' = IF ret = 0 THEN [panel EXCEPT !.other = cwd] ELSE panel
    /\ Go(<<Path(panel'.other, TRUE), Chdir(Head(todo).dir), Listed>>, 0)
    /\ UNCHANGED <<disk, data, cwd, listing, view, health>>

ListedCall ==
    /\ Running("listed")
    /\ listing' = TRUE
    /\ Go(<<>>, 0)
    /\ UNCHANGED <<disk, data, cwd, panel, view, health>>

\* panel_reload goes to the parent of a directory it cannot enter; then
\* update_panels does the other panel and returns to the current one.
ReloadedCall ==
    /\ Running("reloaded")
    /\ LET p == Head(todo).panel
       IN  IF ret = 0
           THEN /\ panel' = [panel EXCEPT ![p] = Within[@]]
                /\ Go(<<Chdir(panel'[p]), Reloaded(p)>>, 0)
           ELSE /\ Go(<<Path(panel[p], TRUE)>>
                        \o (IF p = "cur" /\ listing
                            THEN <<Chdir(panel.other), Reloaded("other")>>
                            ELSE <<Chdir(panel.cur)>>), 0)
                /\ UNCHANGED panel
    /\ UNCHANGED <<disk, data, cwd, listing, view, health>>

\* Mutant: the open file is not counted.
OpenedUncounted ==
    /\ Running("opened")
    /\ view' = ret
    /\ stamps' = RmStamp(stamps, ret)
    /\ Go(<<>>, 0)
    /\ UNCHANGED <<disk, super, sb, place, health>>

\* vfs_s_open for the viewer, once the superblock is found.
OpenedCall ==
    /\ Running("opened")
    /\ IF ret = 0 THEN UNCHANGED <<sb, stamps, view>>
       ELSE /\ sb' = [sb EXCEPT ![ret].usage = @ + 1]
            /\ stamps' = RmStamp(stamps, ret)
            /\ view' = ret
    /\ Go(<<>>, 0)
    /\ UNCHANGED <<disk, super, place, health>>

---------------------------------------------------------------------------
(* What the user does, and the world.                                      *)

\* Entering a directory, from anywhere (the command line, the hotlist).
Cd(d) == /\ Start(<<Chdir(d), Moved(d)>>)
         /\ UNCHANGED <<disk, data, place, view, health>>

\* Tab: the other panel gets the focus, and mc_chdir to its directory.
Switch == /\ listing
          /\ Start(<<Chdir(panel.other)>>)
          /\ panel' = [cur |-> panel.other, other |-> panel.cur]
          /\ UNCHANGED <<disk, data, cwd, listing, view, health>>

\* set_display_type: the other panel, or the current one, which then makes
\* the other one current, shows something else than its directory; or it
\* lists its directory again.
Hide == /\ listing
        /\ Start(<<>>)
        /\ listing' = FALSE
        /\ panel' \in {panel, [cur |-> panel.other, other |-> panel.cur]}
        /\ UNCHANGED <<disk, data, cwd, view, health>>
Show == /\ ~listing
        /\ Start(<<Chdir(panel.other), Shown(cwd)>>)
        /\ UNCHANGED <<disk, data, place, view, health>>

\* update_panels: reading the panels again.
Reload == /\ Start(<<Chdir(panel.cur), Reloaded("cur")>>)
          /\ UNCHANGED <<disk, data, place, view, health>>

\* The viewer: opening a file of an archive, reading on in it from a screen
\* to which the user came back, closing it.
View(a) == /\ view = 0
           /\ Start(<<Path(a, TRUE), Opened>>)
           /\ UNCHANGED <<disk, data, place, view, health>>
Read == /\ view # 0
        /\ Start(<<>>)
        /\ LET alive == /\ Live(view)
                        /\ sb[view].fd # 0 => Live(sb[view].fd)
           IN  fault' = IF alive THEN "none" ELSE "handle"
        /\ UNCHANGED <<disk, data, place, view, orphaned>>
Leave == /\ view # 0
         /\ Start(<<Close(view)>>)
         /\ view' = 0
         /\ UNCHANGED <<disk, data, place, health>>

\* The wait for a key calls the collector; the user may ask for it.
Timeout == /\ \E i \in DOMAIN stamps : stamps[i].old
           /\ Start(<<Expire(FALSE)>>)
           /\ UNCHANGED <<disk, data, place, view, health>>
FreeAll == /\ stamps # <<>>
           /\ Start(<<Expire(TRUE)>>)
           /\ UNCHANGED <<disk, data, place, view, health>>

\* vfs_timeout seconds pass, while the program waits for a key.
Age == /\ AtRest \/ Running("dialog")
       /\ \E i \in DOMAIN stamps : ~stamps[i].old
       /\ stamps' = [i \in DOMAIN stamps |-> [stamps[i] EXCEPT !.old = TRUE]]
       /\ UNCHANGED <<disk, super, sb, place, view, todo, ret, health>>

\* Another program writes an archive anew, with or without a change of the
\* archives in it.
Rewrite(a) ==
    /\ AtRest \/ Running("dialog")
    /\ ~Nested(a)
    /\ disk[a] < MaxRewrites
    /\ \E inner \in SUBSET {x \in Arch : Within[x] = a} :
         disk' = [x \in Arch |-> IF x \in {a} \cup inner THEN disk[x] + 1 ELSE disk[x]]
    /\ UNCHANGED <<data, place, view, todo, ret, health>>

---------------------------------------------------------------------------
Init ==
    /\ disk = [a \in Arch |-> 0]
    /\ super = [a \in Arch |-> 0]
    /\ sb = [i \in Ids |-> Blank]
    /\ stamps = <<>>
    /\ cwd = Local
    /\ panel = [cur |-> Local, other |-> Local]
    /\ listing = TRUE
    /\ view = 0
    /\ todo = <<>> /\ ret = 0
    /\ orphaned = FALSE /\ fault = "none"

Calls ==
    \/ PathCall \/ SameCall \/ InsertCall \/ ReturnCall
    \/ StampCreate
    \/ FreeCall \/ ForgetCall \/ CloseCall
    \/ ExpireCall \/ ScanCall \/ DialogWaits \/ DialogClosed
    \/ ChdirCall \/ FoundCall \/ EnterCall \/ MovedCall \/ ReleaseCall
    \/ ShownCall \/ ListedCall \/ ReloadedCall \/ OpenedCall

User ==
    \/ \E d \in Dir : Cd(d)
    \/ Switch \/ Hide \/ Show \/ Reload
    \/ \E a \in Arch : View(a)
    \/ Read \/ Leave \/ FreeAll

Next ==
    \/ Calls \/ User \/ Timeout \/ Age
    \/ \E a \in Arch : Rewrite(a)

Fairness == /\ WF_vars(Calls) /\ SF_vars(DialogClosed)
            /\ WF_vars(Timeout) /\ WF_vars(Age)

Spec == Init /\ [][Next]_vars /\ Fairness

---------------------------------------------------------------------------
\* fd_usage is the number of open files of the superblock: the viewer's and
\* those of the superblocks of archives inside it, also after failures to
\* open such an archive; the superblock would stay for ever or go too early.
UsageExact ==
    AtRest /\ ~orphaned =>
        \A a \in Arch : super[a] # 0 =>
            sb[super[a]].usage =
                Cardinality({b \in Arch : super[b] # 0 /\ sb[super[b]].fd = super[a]})
                    + (IF view = super[a] THEN 1 ELSE 0)

\* Every variable has its type, and fd_usage is exact.
TypeOK ==
    /\ disk \in [Arch -> 0 .. MaxRewrites]
    /\ super \in [Arch -> Ids \cup {0}]
    /\ sb \in [Ids -> [snap : [Arch -> 0 .. MaxRewrites], usage : Nat, fd : Ids \cup {0}]]
    /\ \A i \in DOMAIN stamps : stamps[i] \in [id : Ids, old : BOOLEAN]
    /\ cwd \in Dir
    /\ panel \in [cur : Dir, other : Dir]
    /\ listing \in BOOLEAN
    /\ view \in Ids \cup {0}
    /\ \A i \in DOMAIN todo : todo[i] \in Call
    /\ ret \in Ids \cup {0, 1}
    /\ orphaned \in BOOLEAN
    /\ fault \in {"none", "superblock", "handle", "stamp"}
    /\ UsageExact

(* Once a superblock has been freed under an open file, or the stamp that  *)
(* vfs_expire goes on with, the program runs on freed memory, and nothing  *)
(* is promised.  vfs_s_nothingisopen and tar_super_same let it come to     *)
(* that (see the README).  The properties say that nothing else goes       *)
(* wrong: they are about the behaviours up to that free, to which the      *)
(* state constraint Sound keeps the model checker.                         *)

Sound == ~orphaned

\* The list of stamps holds every superblock at most once, and only
\* superblocks that exist, between any two operations of the user: a stamp
\* left behind would be freed again by vfs_expire (gc.c:244).
StampsAreLive ==
    AtRest /\ ~orphaned =>
        /\ \A i \in DOMAIN stamps : Live(stamps[i].id)
        /\ \A i, j \in DOMAIN stamps : stamps[i].id = stamps[j].id => i = j

\* No superblock is freed twice, no closed file used, and the stamp that
\* vfs_expire remembers while the free function runs is in the list when it
\* comes to it (gc.c:255): memory is used after it was freed only where a
\* superblock was freed under an open file, or that stamp with a superblock
\* whose archive has changed on disk.
NothingElseUsed == fault # "none" => orphaned

\* The collector never touches what is gone, though the functions it calls
\* close files, stamp, look up directories and show dialogs that run it again.
CollectorSound == StampsAreLive /\ NothingElseUsed

\* The superblock of the current directory is never left to the collector,
\* whatever panel operations led to that directory (gc.c:184).
CurrentKept ==
    AtRest /\ ~orphaned /\ cwd # Local => super[cwd] \notin StampIds(stamps)

\* No superblock is forgotten: one that no panel and not the current
\* directory is in, and of which no file is open, has a stamp, so that the
\* collector will free it (vfs_stamp_create is the only place that adds one).
InSight == {cwd, panel.cur, panel.other} \ {Local}
NoLeak ==
    AtRest /\ ~orphaned =>
        \A a \in Arch : super[a] # 0 =>
            \/ a \in InSight
            \/ sb[super[a]].usage > 0
            \/ super[a] \in StampIds(stamps)

\* vfs_stamp_create stamps what has been left, and only that: too early, and the
\* directory the user is in is freed; too late, and it is never freed.
StampedWhenLeft == CurrentKept /\ NoLeak

\* If the user stops working, what nobody needs is freed at last, archives
\* inside archives included (vfs_timeout_handler, key.c:1771 and 1859).
Needed(a) == a \in InSight \/ sb[super[a]].usage > 0
Released ==
    <>[][~User]_vars =>
        <>[](orphaned \/ \A a \in Arch : super[a] # 0 => Needed(a))
=============================================================================
