------------------------------ MODULE VfsEntries ------------------------------
(***************************************************************************)
(* The directory cache of a network file system: inodes, entries and local *)
(* copies as lib/vfs/mc-vfs/direntry.c keeps them for the classes with     *)
(* VFS_S_REMOTE, with the methods of ftpfs.c.  The root inode holds one    *)
(* entry per listed directory, named by its whole path; the inode of that  *)
(* entry holds the listing.  An open file, and a directory that is being   *)
(* read, count as links of their inodes and outlive their entries.         *)
(*                                                                         *)
(* The program has one thread, so a call of the library is one step.  A    *)
(* file open for writing is closed before anything else happens to the     *)
(* server, as in edit_save_file and copy_file_file; a viewer keeps its     *)
(* file open, and a directory is read while files are removed from it.     *)
(* Nobody else changes the server.                                         *)
(***************************************************************************)
EXTENDS Naturals, FiniteSets, SequencesExt, Functions, TLC

CONSTANTS
  Top,        \* the directory a session begins in
  Subs,       \* the directories in it
  Files,      \* names of files
  Present,    \* the files there are at first
  Ids,        \* addresses of inodes
  Null,       \* none of them
  MaxChanges, \* bound: changes of the server
  MaxTrouble  \* bound: calls that fail, listings that expire, C-r

Dirs == {Top} \cup Subs
Paths == Dirs \X Files

ASSUME EntriesAssumption ==
  /\ Top \notin Subs /\ Dirs \cap Files = {} /\ Present \subseteq Paths
  /\ Null \notin Ids /\ MaxChanges \in Nat /\ MaxTrouble \in Nat

\* what a file may hold: no file, nothing, the first text, later texts
Nothing == 0
Hollow == 1
First == 2
Text == 0 .. First + MaxChanges

VARIABLES
  srv,      \* the files of the server
  cache,    \* the superblock: inodes, the root, want_stale, and flush of the class
  reading,  \* the directory handle of a loop that reads a directory
  view,     \* the inode of the file open in the viewer
  save,     \* the file open for writing
  op,       \* the directory panel_operate works in, if it does
  made,     \* changes of the server so far
  trouble,  \* calls failed, listings expired and C-r pressed so far
  hung      \* the program waits for a reply the server does not owe

vars == <<srv, cache, reading, view, save, op, made, trouble, hung>>

NotReading == [dir |-> Null, cur |-> Null, names |-> <<>>, seen |-> <<>>]
NotOpen == [ino |-> Null, path |-> <<>>]

\* An inode and its entry: up and name, the entry's directory and name, up being Null
\* where the entry is gone; sub, the entries of a directory, by their inodes; st, the
\* size and time of a file; local, what localname holds.  unsure marks a listing that may differ from the server.
Blank == [kind |-> "free", nlink |-> 0, up |-> Null, name |-> Top,
          sub |-> <<>>, st |-> Nothing, local |-> Nothing, fresh |-> FALSE, unsure |-> FALSE]

-----------------------------------------------------------------------------
(* Inodes and entries.  Operators take and return the cache.                *)

FirstOf(s) == IF s = <<>> THEN Null ELSE s[1]
Place(s, x) == SelectInSeq(s, LAMBDA y : y = x)

\* malloc; an address that something still points to is not taken again, so that
\* a use of freed memory shows
InUse(c) ==
  {i \in Ids : c.ino[i].kind # "free"}
    \cup {c.root, reading.dir, reading.cur, view, save.ino}
NewIds(c, n) ==
  LET free == Ids \ InUse(c) IN CHOOSE s \in [1 .. n -> free] : IsInjective(s)

\* vfs_s_new_inode, vfs_s_new_entry and vfs_s_insert_entry, for each of a sequence
Insert(c, dir, new) ==
  LET ids == NewIds(c, Len(new))
      ino == [i \in ToSet(ids) |-> [new[Place(ids, i)] EXCEPT !.nlink = 1, !.up = dir]]
  IN [c EXCEPT !.ino = ino @@ [c.ino EXCEPT ![dir].sub = @ \o ids]]

\* what remains of an inode without its entry
Entryless(n) ==
  [Blank EXCEPT !.kind = n.kind, !.nlink = n.nlink, !.sub = n.sub, !.local = n.local]

\* vfs_s_free_inode, with the vfs_s_free_entry of what a directory holds.  The tree
\* has three levels: the root, the listings and what they list.
Below(c, s) == UNION {ToSet(c.ino[j].sub) : j \in s}
Dying(c, s) == {j \in s : c.ino[j].nlink <= 1}
Freed(c, gone) ==
  LET left == Below(c, gone) \ gone
  IN [c EXCEPT !.ino = [j \in gone |-> Blank]
                         @@ [j \in left |-> [Entryless(@[j]) EXCEPT !.nlink = @ - 1]] @@ @]
\* Mutant: what a directory holds is freed whoever reads it
FreeInodeAtOnce(c, i) ==
  LET below == Dying(c, Below(c, {i}))
  IN [Freed(c, below) EXCEPT !.ino[i].nlink = @ - 1, !.ino[i].sub = <<>>]
FreeInode(c, i) ==
  IF c.ino[i].nlink > 1 THEN [c EXCEPT !.ino[i].nlink = @ - 1]
  ELSE LET below == Dying(c, Below(c, {i}))
       IN Freed(c, {i} \cup below \cup Dying(c, Below(c, below)))

\* vfs_s_free_entry
FreeEntry(c, i) ==
  FreeInode([c EXCEPT !.ino[c.ino[i].up].sub = SelectSeq(@, LAMBDA j : j # i),
                      !.ino[i] = Entryless(@)], i)

\* vfs_s_invalidate
Invalidate(c) ==
  IF c.stale THEN c
  ELSE LET freed == FreeInode(c, c.root)
           i == NewIds(freed, 1)[1]
       IN [freed EXCEPT !.root = i, !.ino[i] = [Blank EXCEPT !.kind = "dir"]]

\* the first entry of that name in a directory
Named(c, dir, name) ==
  IF dir = Null THEN Null
  ELSE FirstOf(SelectSeq(c.ino[dir].sub, LAMBDA i : c.ino[i].name = name))

Names(c, s) == [k \in DOMAIN s |-> c.ino[s[k]].name]

-----------------------------------------------------------------------------
(* Looking things up.                                                       *)

\* what LIST sends
OnServer(d) ==
  {x \in Files : srv[<<d, x>>] # Nothing} \cup (IF d = Top THEN Subs ELSE {})

\* vfs_s_dir_uptodate; the flag flush is used up by the first listing asked for
Expired(c, i) == c.flush \/ ~c.ino[i].fresh

\* vfs_s_find_entry_linear of a directory up to dir_load
Current(c, d) ==
  LET i == Named(c, c.root, d)
  IN IF i = Null THEN c
     ELSE IF Expired(c, i) THEN FreeEntry([c EXCEPT !.flush = FALSE], i)
     ELSE c
Loads(c, d) == Named(Current(c, d), c.root, d) = Null

\* ftpfs_dir_load and the insertion of what it returns; a failed one leaves nothing
Load(c, d) ==
  LET listing == Insert(c, c.root, <<[Blank EXCEPT !.kind = "dir", !.name = d, !.fresh = TRUE]>>)
      names == SetToSeq(OnServer(d))
  IN Insert(listing, Named(listing, c.root, d),
            [k \in DOMAIN names |->
               IF names[k] \in Files
               THEN [Blank EXCEPT !.kind = "file", !.name = names[k], !.st = srv[<<d, names[k]>>]]
               ELSE [Blank EXCEPT !.kind = "dir", !.name = names[k]]])

\* the cache after vfs_s_find_inode (..., FL_DIR), and the inode found
Find(c, d, ok) ==
  LET now == Current(c, d)
      then == IF Named(now, c.root, d) = Null /\ ok THEN Load(now, d) ELSE now
  IN [c |-> then, dir |-> Named(then, c.root, d)]

\* vfs_s_inode_from_path of a directory's path, without FL_DIR: that of Top has
\* no last component and is listed itself, others are looked up in Top's listing
FindPath(c, d, ok) ==
  LET f == Find(c, Top, ok)
  IN [c |-> f.c, ino |-> IF d = Top THEN f.dir ELSE Named(f.c, f.dir, d)]

\* disturbances and changes are counted
Costs(n) == trouble + n <= MaxTrouble /\ trouble' = trouble + n
Changes == made < MaxChanges /\ made' = made + 1
Bad(ok) == IF ok THEN 0 ELSE 1
\* a listing that is not asked for does not fail
Asks(c, d, ok) == ok \/ Loads(c, d)

\* the cached listing of d is not what the server has, and will be believed
Unsure(c, d) ==
  LET i == Named(c, c.root, d)
  IN IF i = Null THEN c ELSE [c EXCEPT !.ino[i].unsure = TRUE]

\* vfs_s_open makes an entry for a file that is not there, and a local file, before
\* the server is asked to store anything
NewEntry(c, dir, p, local) ==
  Unsure(Insert(c, dir, <<[Blank EXCEPT !.kind = "file", !.name = p[2], !.local = local]>>), p[1])

Idle == save = NotOpen /\ ~hung

-----------------------------------------------------------------------------
(* Reading directories: opendir, readdir, closedir.  Find File reads one    *)
(* while the user looks at what it has found, and edits it.                 *)

\* Mutant: the directory that is read is not counted as in use
OpenDirUncounted(d, ok) ==
  /\ Idle /\ reading = NotReading /\ Costs(Bad(ok)) /\ Asks(cache, d, ok)
  /\ LET f == Find(cache, d, ok)
     IN /\ cache' = f.c
        /\ reading' = IF f.dir = Null THEN reading
                      ELSE [dir |-> f.dir, cur |-> FirstOf(f.c.ino[f.dir].sub),
                            names |-> Names(f.c, f.c.ino[f.dir].sub), seen |-> <<>>]
  /\ UNCHANGED <<srv, view, save, op, made, hung>>

\* vfs_s_opendir
OpenDir(d, ok) ==
  /\ Idle /\ reading = NotReading /\ Costs(Bad(ok)) /\ Asks(cache, d, ok)
  /\ LET f == Find(cache, d, ok)
     IN IF f.dir = Null THEN cache' = f.c /\ UNCHANGED reading
        ELSE /\ cache' = [f.c EXCEPT !.ino[f.dir].nlink = @ + 1]
             /\ reading' = [dir |-> f.dir, cur |-> FirstOf(f.c.ino[f.dir].sub),
                            names |-> Names(f.c, f.c.ino[f.dir].sub), seen |-> <<>>]
  /\ UNCHANGED <<srv, view, save, op, made, hung>>

\* the entries from cur on
Rest ==
  LET s == IF reading = NotReading THEN <<>> ELSE cache.ino[reading.dir].sub
  IN IF reading.cur \in ToSet(s) THEN SubSeq(s, Place(s, reading.cur), Len(s)) ELSE <<>>

\* vfs_s_readdir
ReadDir ==
  /\ Idle /\ Rest # <<>>
  /\ reading' = [reading EXCEPT !.seen = Append(@, cache.ino[reading.cur].name),
                                !.cur = FirstOf(Tail(Rest))]
  /\ UNCHANGED <<srv, cache, view, save, op, made, trouble, hung>>

\* vfs_s_closedir, also before the end
CloseDir ==
  /\ Idle /\ reading # NotReading
  /\ cache' = FreeInode(cache, reading.dir)
  /\ reading' = NotReading
  /\ UNCHANGED <<srv, view, save, op, made, trouble, hung>>

\* vfs_s_lstat of something in d
Stat(d, ok) ==
  /\ Idle /\ Costs(Bad(ok)) /\ Loads(cache, d)
  /\ cache' = Find(cache, d, ok).c
  /\ UNCHANGED <<srv, reading, view, save, op, made, hung>>

-----------------------------------------------------------------------------
(* Files.                                                                   *)

\* vfs_s_retrieve_file, unless there is a local copy
Retrieved(c, i, p) == IF c.ino[i].local = Nothing THEN srv[p] ELSE c.ino[i].local

\* vfs_s_open for reading
View(p, ok, got) ==
  /\ Idle /\ view = Null /\ op = {}
  /\ Costs(Bad(ok) + Bad(got)) /\ Asks(cache, p[1], ok)
  /\ LET f == Find(cache, p[1], ok)
         i == Named(f.c, f.dir, p[2])
     IN /\ ~got => i # Null /\ f.c.ino[i].local = Nothing
        /\ IF i # Null /\ got /\ Retrieved(f.c, i, p) # Nothing
           THEN /\ cache' = [f.c EXCEPT !.ino[i].nlink = @ + 1,
                                        !.ino[i].local = Retrieved(f.c, i, p)]
                /\ view' = i
           ELSE cache' = f.c /\ UNCHANGED view
  /\ UNCHANGED <<srv, reading, save, op, made, hung>>

\* vfs_s_close: ftpfs_fh_close takes the descriptor of a file without a local
\* copy for that of a transfer, and waits for its reply
CloseView ==
  /\ Idle /\ view # Null
  /\ IF cache.ino[view].local = Nothing
     THEN hung' = TRUE /\ UNCHANGED <<cache, view>>
     ELSE /\ cache' = FreeInode(cache, view)
          /\ view' = Null /\ UNCHANGED hung
  /\ UNCHANGED <<srv, reading, save, op, made, trouble>>

\* vfs_s_open with O_CREAT: where the file is not found its directory is looked up
\* once more, for the entry that is made
Lookups(p, ok, again) ==
  LET Again(f, old) ==
        [f |-> IF old # Null THEN f ELSE Find(f.c, p[1], again), old |-> old,
         asks |-> Asks(cache, p[1], ok) /\ (~again => old = Null /\ Loads(f.c, p[1]))]
      Looked(f) == Again(f, Named(f.c, f.dir, p[2]))
  IN Looked(Find(cache, p[1], ok))

\* check_file_access of a file that is not there: O_EXCL then refuses to open the
\* empty local file vfs_s_open has made
NewFile(p, ok, again) ==
  /\ Idle /\ op = {} /\ Costs(Bad(ok) + Bad(again))
  /\ \E g \in {Lookups(p, ok, again)} :
       /\ g.asks /\ g.old = Null
       /\ cache' = IF g.f.dir = Null THEN g.f.c ELSE NewEntry(g.f.c, g.f.dir, p, Hollow)
  /\ UNCHANGED <<srv, reading, view, save, op, made, hung>>

\* vfs_s_open with O_WRONLY | O_CREAT | O_TRUNC.  An entry that is made stays
\* whatever comes after.  ftpfs_fh_open starts STOR and gives the local copy up.
OpenSave(p, ok, again, how) ==
  /\ Idle /\ made < MaxChanges /\ Costs(Bad(ok) + Bad(again) + Bad(how = "ok"))
  /\ \E g \in {Lookups(p, ok, again)} :
       LET there == g.f.dir # Null
           new == there /\ g.old = Null
           c == IF new THEN NewEntry(g.f.c, g.f.dir, p, IF how = "nospace" THEN Nothing ELSE Hollow)
                ELSE g.f.c
           i == IF new THEN Last(c.ino[g.f.dir].sub) ELSE g.old
       IN /\ g.asks /\ (how = "nospace" => new) /\ (how = "refused" => there)
          /\ IF ~there \/ how # "ok" THEN cache' = c /\ UNCHANGED <<srv, save>>
             ELSE /\ cache' = [c EXCEPT !.ino[i].local = Nothing, !.ino[i].nlink = @ + 1]
                  /\ srv' = [srv EXCEPT ![p] = Hollow]
                  /\ save' = [ino |-> i, path |-> p]
  /\ UNCHANGED <<reading, view, op, made, hung>>

\* Mutant: a stored file is not a reason to list the directory again
CloseSaveKeeping(how) ==
  /\ save # NotOpen /\ ~hung
  /\ how = "ok" /\ Costs(0)
  /\ Changes
  /\ srv' = [srv EXCEPT ![save.path] = First + made']
  /\ cache' = FreeInode(cache, save.ino)
  /\ save' = NotOpen
  /\ UNCHANGED <<reading, view, op, hung>>

\* vfs_s_close after the last write: the reply to STOR, vfs_s_invalidate, and the
\* link of the handle.  Without a good reply the server has what it chose to keep.
CloseSave(how) ==
  /\ save # NotOpen /\ ~hung /\ Costs(Bad(how = "ok"))
  /\ Changes
  /\ \E kept \in {Hollow, First + made'} :
       /\ how = "ok" => kept = First + made'
       /\ srv' = [srv EXCEPT ![save.path] = kept]
  /\ cache' = FreeInode(IF how = "ok" THEN Invalidate(cache)
                        ELSE Unsure(cache, save.path[1]), save.ino)
  /\ save' = NotOpen
  /\ UNCHANGED <<reading, view, op, hung>>

-----------------------------------------------------------------------------
(* Commands: ftpfs_send_command invalidates after a good reply.  A command  *)
(* whose reply is lost may have been carried out.                           *)

\* ftpfs_unlink
Unlink(p, how) ==
  /\ Idle /\ srv[p] # Nothing /\ Changes /\ Costs(Bad(how = "ok"))
  /\ srv' = IF how = "refused" THEN srv ELSE [srv EXCEPT ![p] = Nothing]
  /\ cache' = CASE how = "ok" -> Invalidate(cache)
                [] how = "refused" -> cache
                [] how = "lost" -> Unsure(cache, p[1])
  /\ UNCHANGED <<reading, view, save, op, hung>>

\* ftpfs_rename: RNFR, whose good reply invalidates already, and RNTO
Rename(p, q, how) ==
  /\ Idle /\ p # q /\ srv[p] # Nothing /\ Changes /\ Costs(Bad(how = "ok"))
  /\ srv' = IF how = "refused" THEN srv ELSE [srv EXCEPT ![q] = srv[p], ![p] = Nothing]
  /\ LET c == Invalidate(cache)
     IN CASE how = "ok" -> cache' = Invalidate(c)
          [] how = "refused" -> cache' \in {cache, c}
          [] how = "lost" -> cache' = Unsure(Unsure(c, p[1]), q[1])
  /\ UNCHANGED <<reading, view, save, op, hung>>

-----------------------------------------------------------------------------
(* Time, C-r, and the operations of the panels.                             *)

\* ftpfs_directory_timeout seconds after the listing
Expire(d) ==
  /\ ~hung /\ Costs(1) /\ Named(cache, cache.root, d) # Null
  /\ cache.ino[Named(cache, cache.root, d)].fresh
  /\ cache' = [cache EXCEPT !.ino[Named(cache, cache.root, d)].fresh = FALSE]
  /\ UNCHANGED <<srv, reading, view, save, op, made, hung>>

\* VFS_SETCTL_FLUSH of update_one_panel_widget; the panel then lists its directory
Reload ==
  /\ Idle /\ op = {} /\ ~cache.flush /\ Costs(1)
  /\ cache' = [cache EXCEPT !.flush = TRUE]
  /\ UNCHANGED <<srv, reading, view, save, op, made, hung>>

\* VFS_SETCTL_STALE_DATA with 1, before panel_operate does its work in d
BeginOp(d, ok) ==
  /\ Idle /\ op = {} /\ reading = NotReading
  /\ Costs(Bad(ok)) /\ Asks(cache, Top, ok)
  /\ LET f == FindPath(cache, d, ok)
     IN IF f.ino = Null THEN cache' = f.c /\ UNCHANGED op
        ELSE /\ cache' = [f.c EXCEPT !.stale = TRUE]
             /\ op' = {d}
  /\ UNCHANGED <<srv, reading, view, save, made, hung>>

\* VFS_SETCTL_STALE_DATA with 0 afterwards: a path that is not found changes nothing
EndOp(ok) ==
  /\ Idle /\ reading = NotReading
  /\ Costs(Bad(ok)) /\ Asks(cache, Top, ok)
  /\ \E d \in op :
       LET f == FindPath(cache, d, ok)
       IN cache' = IF f.ino = Null THEN f.c ELSE Invalidate([f.c EXCEPT !.stale = FALSE])
  /\ op' = {}
  /\ UNCHANGED <<srv, reading, view, save, made, hung>>

-----------------------------------------------------------------------------
Init ==
  /\ srv = [p \in Paths |-> IF p \in Present THEN First ELSE Nothing]
  /\ LET root == CHOOSE i \in Ids : TRUE
     IN cache = [ino |-> [i \in Ids |-> [Blank EXCEPT !.kind = IF i = root THEN "dir" ELSE @]],
                 root |-> root, flush |-> FALSE, stale |-> FALSE]
  /\ reading = NotReading /\ view = Null /\ save = NotOpen /\ op = {}
  /\ made = 0 /\ trouble = 0 /\ hung = FALSE

Next ==
  \/ ReadDir \/ CloseDir \/ CloseView \/ Reload
  \/ \E how \in {"ok", "failed"} : CloseSave(how)
  \/ \E d \in Dirs : Expire(d)
  \/ \E ok \in BOOLEAN :
       \/ EndOp(ok)
       \/ \E d \in Dirs : OpenDir(d, ok) \/ Stat(d, ok) \/ BeginOp(d, ok)
       \/ \E p \in Paths :
            \/ \E got \in BOOLEAN : View(p, ok, got)
            \/ \E again \in BOOLEAN :
                 \/ NewFile(p, ok, again)
                 \/ \E how \in {"ok", "refused", "nospace"} : OpenSave(p, ok, again, how)
  \/ \E p \in Paths, how \in {"ok", "refused", "lost"} :
       Unlink(p, how) \/ \E q \in Paths : Rename(p, q, how)

Spec == Init /\ [][Next]_vars

-----------------------------------------------------------------------------
(* Properties.                                                              *)

IsLive(i) == i \in Ids /\ cache.ino[i].kind # "free"

\* what keeps an inode
Links(i) == Cardinality({h \in {"entry", "reading", "view", "save"} :
                          CASE h = "entry" -> cache.ino[i].up # Null
                            [] h = "reading" -> reading.dir = i
                            [] h = "view" -> view = i
                            [] h = "save" -> save.ino = i})

\* st_nlink of every inode is the number of its entry and its handles, so that
\* whatever is pointed to is there and whatever is not is gone; entries and
\* directories point to each other.
TypeOK ==
  /\ srv \in [Paths -> Text] /\ hung \in BOOLEAN
  /\ op \subseteq Dirs /\ made \in 0 .. MaxChanges /\ trouble \in 0 .. MaxTrouble
  /\ IsLive(cache.root)
  /\ \A i \in {reading.dir, reading.cur, view, save.ino} \ {Null} : IsLive(i)
  /\ \A i \in Ids :
       LET n == cache.ino[i]
       IN IsLive(i) =>
          /\ n.nlink = Links(i) /\ (n.nlink = 0 <=> i = cache.root)
          /\ n.up # Null => IsLive(n.up) /\ i \in ToSet(cache.ino[n.up].sub)
          /\ IsInjective(n.sub)
          /\ \A j \in ToSet(n.sub) : IsLive(j) /\ cache.ino[j].up = i
          /\ n.name \in Dirs \cup Files /\ n.local \in Text

\* When no operation has asked for stale data, a listing that a lookup would use
\* has each name of the server's directory once and no other, a file's size and time
\* are what the server has, unless it is just being stored, and so is a local copy:
\* every change of the server through the program made the cache forget.  Listings
\* that a failed call left in doubt are excepted.
CacheTrue ==
  ~cache.stale =>
    \A i \in ToSet(cache.ino[cache.root].sub) :
      LET n == cache.ino[i]
      IN ~n.unsure =>
           /\ ToSet(Names(cache, n.sub)) = OnServer(n.name)
           /\ Len(n.sub) = Cardinality(OnServer(n.name))
           /\ \A j \in ToSet(n.sub) :
                LET f == cache.ino[j]
                    p == <<n.name, f.name>>
                IN f.kind = "file" =>
                     /\ f.st = srv[p] \/ save.path = p
                     /\ f.local \in {Nothing, srv[p]}

\* readdir gives every name there was when the directory was opened, once and in
\* that order, whatever is expired, reloaded, saved or removed meanwhile.
ListingWhole ==
  reading # NotReading =>
    IsPrefix(reading.names, reading.seen \o Names(cache, Rest))
=============================================================================
