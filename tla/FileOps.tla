------------------------------- MODULE FileOps -------------------------------
(***************************************************************************)
(* Copying, moving and deleting tagged files and directories:              *)
(* panel_operate and what it calls in src/filemanager/file.c.              *)
(*                                                                         *)
(* Any system call may fail and ask "Skip, Retry, Abort", the progress     *)
(* dialog has Skip and Abort, and existing targets and directories that    *)
(* are not empty are asked about.  The functions call each other and hand  *)
(* the answers up as a FileProgressStatus; the variable stack is the C     *)
(* call stack, the running function at its head, and every action runs it  *)
(* up to the next call that can fail or ask.                               *)
(*                                                                         *)
(* The target of a node of the source tree is the node of the same name    *)
(* in the target directory, and of the same kind if it exists.  A retry    *)
(* that leaves no trace is no step.  Nobody else changes the two trees.    *)
(* Left out: symbolic links and special files, attributes (but not the     *)
(* failure to set them), the answer Reget, rename masks, "Dive into        *)
(* subdirs", a directory copied into itself, confirm_overwrite off.        *)
(***************************************************************************)
EXTENDS Naturals, Sequences, FiniteSets

CONSTANTS
  Nodes,      \* the files and directories of the source
  Kids,       \* Kids[d]: the entries of directory d, in the order of readdir
  Settings,   \* the operations to look at, a set of Setting records
  MaxTrouble  \* bound: calls that fail and buttons pressed in the progress dialog

Dirs == DOMAIN Kids
Files == Nodes \ Dirs
Entries(d) == {Kids[d][i] : i \in DOMAIN Kids[d]}

\* tops: the tagged entries; across: the target is on another file system;
\* there: targets that exist; ino: the first name of the inode of each file
Setting ==
  [op : {"copy", "move", "delete"}, tops : Seq(Nodes), across : BOOLEAN,
   there : SUBSET Nodes, ino : [Files -> Files]]

\* Sub[n]: n and all that is in it
HasEntries(S) == \A d \in S \cap Dirs : Entries(d) \subseteq S
Sub == [n \in Nodes |->
  {m \in Nodes : \A S \in SUBSET Nodes : n \in S /\ HasEntries(S) => m \in S}]

\* nothing is in two of the entries listed
Separate(q) == \A i, j \in DOMAIN q : i # j => Sub[q[i]] \cap Sub[q[j]] = {}

\* Directories are a tree, readdir gives an entry once, and what is tagged are
\* entries of one directory, at least one of them.  What exists at the target is in
\* directories that exist.
ASSUME TreeAssumption ==
  /\ Dirs \subseteq Nodes /\ "none" \notin Nodes
  /\ \A d \in Dirs :
       Kids[d] \in Seq(Nodes) /\ Separate(Kids[d]) /\ \A c \in Entries(d) : d \notin Sub[c]
  /\ Settings \subseteq Setting
  /\ \A o \in Settings :
       /\ o.tops # <<>> /\ Separate(o.tops)
       /\ \A d \in Dirs \ o.there : Sub[d] \cap o.there = {}
  /\ MaxTrouble \in Nat

VARIABLES
  opt,      \* the operation; never changes
  src,      \* the nodes that are still at the source
  tgt,      \* tgt[n]: what there is at the target name of n, see Target
  data,     \* data[n]: the content of the file created at the target name of n
  stack,    \* the call stack, see Frame
  ret,      \* the status returned last
  links,    \* linklist: the name copied first, for inodes with several names
  erase,    \* erase_list
  append,   \* ctx->do_append
  replace,  \* ui->replace_result, "ask" unless it is an answer for all
  recurse,  \* ctx->recursive_result, likewise
  tagged,   \* the entries still tagged in the panel
  said,     \* said[n]: what the user wants done with target or directory n (history)
  aborted,  \* the tagged entry that was aborted, if that was the user's last word (history)
  trouble   \* how often something has gone wrong

vars == <<opt, src, tgt, data, stack, ret, links, erase, append, replace,
          recurse, tagged, said, aborted, trouble>>
disk == <<src, tgt, data>>
answers == <<replace, recurse, said>>

\* file: whose data it has, its own or those of the target it is a hard link to
Target == [kind : {"none", "dir"}] \cup [kind : {"file"}, file : Files]
Nothing == [kind |-> "none"]
Directory == [kind |-> "dir"]
OwnFile(n) == [kind |-> "file", file |-> n]

\* pieces of content: what was there before, a copy of all of an inode, of a
\* part of it, the renamed inode itself
Piece == {"old", "whole", "part", "moved"} \X Files
Inode(n) == opt.ino[n]

\* FILE_CONT and so on
Status == {"cont", "retry", "skip", "abort"}

\* how far a function can be
Points ==
  {"operate", "operated", "copy_file", "link", "open", "fill", "short",
   "copy_dir", "entry", "copied_entry", "move_file", "rename", "copied", "remove",
   "move_dir", "dir_copied", "erasing", "erased", "moved", "erase_file", "erase_if_empty",
   "erase_dir", "recursive_erase", "erase_entry", "erased_entry"}

\* at: the function and how far it is; rest: directory entries or tagged files
\* still to do; rs: return_status; ask: ask_overwrite
Frame == [at : Points, n : Nodes, rest : Seq(Nodes), rs : Status, ask : BOOLEAN]
New(l, n) == [at |-> l, n |-> n, rest |-> <<>>, rs |-> "cont", ask |-> TRUE]
CopyUnasked(n) == [New("copy_file", n) EXCEPT !.ask = FALSE]

Cur == Head(stack)
At(l) == stack # <<>> /\ Cur.at = l
Become(f) == stack' = <<f>> \o Tail(stack) /\ UNCHANGED ret
GoOn(l, q, s) == Become([Cur EXCEPT !.at = l, !.rest = q, !.rs = s])
Goto(l) == GoOn(l, Cur.rest, Cur.rs)
\* the running function calls f and goes on at l when that returns
Call(f, l) == stack' = <<f, [Cur EXCEPT !.at = l]>> \o Tail(stack) /\ UNCHANGED ret
Leave(s) == stack' = Tail(stack) /\ ret' = s

Trouble == trouble < MaxTrouble /\ trouble' = trouble + 1
Quietly == Trouble /\ UNCHANGED aborted

\* the tagged entry that is operated on
Top == LET left == stack[Len(stack)].rest IN IF left = <<>> THEN "none" ELSE Head(left)
UserSays(abort) == aborted' = IF abort THEN Top ELSE "none"
Smooth == UNCHANGED <<aborted, trouble>>

\* file_error: a call fails and the user answers Skip or Abort; also these two
\* buttons of the progress dialog (check_progress_buttons)
FileError(s) == Trouble /\ UserSays(s = "abort")
Fails == \E s \in {"skip", "abort"} : FileError(s) /\ Leave(s)
AbortPressed == FileError("abort") /\ Leave("abort")

\* Retry, and return_status keeps it
Retried == FileError("retry") /\ GoOn(Cur.at, Cur.rest, "retry")

\* the entries of n as readdir gives them; opendir and readdir may fail, which
\* only ends the list
Listed(n, l) ==
  \/ GoOn(l, Kids[n], Cur.rs) /\ Smooth
  \/ \E k \in 0..Len(Kids[n]) - 1 :
       GoOn(l, SubSeq(Kids[n], 1, k), Cur.rs) /\ Quietly

IsEmpty(d) == Entries(d) \cap src = {}

-----------------------------------------------------------------------------
Init ==
  /\ opt \in Settings
  /\ src = Nodes
  /\ tgt = [n \in Nodes |->
       IF n \notin opt.there THEN Nothing
       ELSE IF n \in Dirs THEN Directory ELSE OwnFile(n)]
  /\ data = [n \in Files |-> IF n \in opt.there THEN <<<<"old", n>>>> ELSE <<>>]
  /\ stack = <<[New("operate", opt.tops[1]) EXCEPT !.rest = opt.tops]>>
  /\ ret = "cont"
  /\ links = [i \in Files |-> "none"]
  /\ erase = <<>> /\ append = FALSE
  /\ replace = "ask" /\ recurse = "ask"
  /\ tagged = {opt.tops[i] : i \in DOMAIN opt.tops}
  /\ said = [n \in Nodes |-> "nothing"]
  /\ aborted = "none" /\ trouble = 0

-----------------------------------------------------------------------------
(* panel_operate                                                            *)

\* the next tagged entry, by the function for what it is
Operate ==
  /\ At("operate") /\ Cur.rest # <<>>
  /\ LET n == Head(Cur.rest)
         f == CASE opt.op = "delete" -> IF n \in Dirs THEN "erase_dir" ELSE "erase_file"
                [] opt.op = "copy" -> IF n \in Dirs THEN "copy_dir" ELSE "copy_file"
                [] opt.op = "move" -> IF n \in Dirs THEN "move_dir" ELSE "move_file"
     IN Call(New(f, n), "operated")
  /\ UNCHANGED <<opt, disk, links, erase, append, answers, tagged>> /\ Smooth

\* Mutant: whatever was attempted is untagged
OperatedAll ==
  /\ At("operated")
  /\ tagged' = tagged \ {Head(Cur.rest)}
  /\ IF ret = "abort" THEN Leave(ret)
     ELSE GoOn("operate", Tail(Cur.rest), Cur.rs)
  /\ UNCHANGED <<opt, disk, links, erase, append, answers>> /\ Smooth

\* Abort ends it, also from the progress dialog; an entry that succeeded is untagged
Operated ==
  /\ At("operated")
  /\ tagged' = IF ret = "cont" THEN tagged \ {Head(Cur.rest)} ELSE tagged
  /\ \/ ret = "abort" /\ Leave(ret) /\ Smooth
     \/ /\ ret # "abort" /\ Smooth
        /\ GoOn("operate", Tail(Cur.rest), Cur.rs)
     \/ ret # "abort" /\ AbortPressed
  /\ UNCHANGED <<opt, disk, links, erase, append, answers>>

Finish ==
  /\ At("operate") /\ Cur.rest = <<>>
  /\ Leave("cont")
  /\ UNCHANGED <<opt, disk, links, erase, append, answers, tagged>> /\ Smooth

-----------------------------------------------------------------------------
(* Questions                                                                *)

\* query_replace for the target of n: the function goes on at l or returns.
\* "some" is Update or If size differs; answers from All on are for all targets
QueryReplace(n, l) ==
  \E a \in IF replace = "ask" THEN {"yes", "no", "append", "all", "none", "some", "abort"}
           ELSE {replace} :
    /\ replace' = IF a \in {"yes", "no", "append"} THEN "ask" ELSE a
    /\ append' = (append \/ a = "append")
    /\ UserSays(a = "abort")
    /\ \/ /\ a \in {"yes", "all", "some", "append"} /\ Goto(l)
          /\ said' = [said EXCEPT ![n] = IF a = "append" THEN a ELSE "replace"]
       \/ a \in {"no", "none", "some"} /\ Leave("skip") /\ UNCHANGED said
       \/ a = "abort" /\ Leave("abort") /\ UNCHANGED said
    /\ UNCHANGED <<opt, disk, links, erase, recurse, tagged, trouble>>

\* query_recursive for directory n, which is not empty
QueryRecursive(n) ==
  \E a \in IF recurse = "ask" THEN {"yes", "no", "all", "none", "abort"} ELSE {recurse} :
    /\ recurse' = IF a \in {"yes", "no"} THEN "ask" ELSE a
    /\ UserSays(a = "abort")
    /\ \/ a \in {"yes", "all"} /\ Become(New("recursive_erase", n)) /\ UNCHANGED said
       \/ a \in {"no", "none"} /\ Leave("skip") /\ said' = [said EXCEPT ![n] = "keep"]
       \/ a = "abort" /\ Leave("abort") /\ UNCHANGED said
    /\ UNCHANGED <<opt, disk, links, erase, append, replace, tagged, trouble>>

-----------------------------------------------------------------------------
(* copy_file_file                                                           *)

\* the source and the target are looked up, an existing target is asked about
CopyFile ==
  /\ At("copy_file")
  /\ \/ /\ Fails
        /\ UNCHANGED <<opt, disk, links, erase, append, answers, tagged>>
     \/ tgt[Cur.n] # Nothing /\ Cur.ask /\ QueryReplace(Cur.n, "link")
     \/ /\ tgt[Cur.n] = Nothing \/ ~Cur.ask
        /\ Goto("link") /\ Smooth
        /\ UNCHANGED <<opt, disk, links, erase, append, answers, tagged>>

\* st_nlink > 1: the inode has another name, at the source or renamed from there
HasOtherNames(n) ==
  \E m \in Files \ {n} :
    /\ Inode(m) = Inode(n)
    /\ m \in src \/ data[m] = <<<<"moved", Inode(m)>>>>

\* check_hardlinks: the target becomes a link to the target of the name of the
\* same inode that was copied first, which must still be there; a link does not
\* replace anything.  Otherwise the file is copied.
Link ==
  /\ At("link")
  /\ LET n == Cur.n
         first == links[Inode(n)]
         known == first # "none"
         linked == first \in src /\ tgt[first] # Nothing /\ tgt[n] = Nothing
     IN \/ /\ append \/ ~HasOtherNames(n) \/ (known /\ ~linked)
           /\ Goto("open") /\ UNCHANGED <<tgt, links>>
        \/ /\ ~append /\ HasOtherNames(n) /\ ~known
           /\ links' = [links EXCEPT ![Inode(n)] = n]
           /\ Goto("open") /\ UNCHANGED tgt
        \/ /\ ~append /\ HasOtherNames(n) /\ known /\ linked
           /\ tgt' = [tgt EXCEPT ![n] = tgt[first]]
           /\ Leave("cont") /\ UNCHANGED links
  /\ UNCHANGED <<opt, src, data, erase, append, answers, tagged>> /\ Smooth

\* Mutant: Append stays on after the file it was meant for
OpenStillAppending ==
  /\ At("open")
  /\ \/ Fails /\ UNCHANGED <<tgt, data>>
     \/ /\ LET t == IF tgt[Cur.n] = Nothing THEN OwnFile(Cur.n) ELSE tgt[Cur.n]
           IN /\ tgt' = [tgt EXCEPT ![Cur.n] = t]
              /\ data' = IF append /\ tgt[Cur.n] # Nothing THEN data
                         ELSE [data EXCEPT ![t.file] = <<>>]
        /\ Goto("fill") /\ Smooth
  /\ UNCHANGED <<opt, src, links, erase, append, answers, tagged>>

\* the target is created, emptied or, after Append, opened at its end
Open ==
  /\ At("open")
  /\ \/ Fails /\ UNCHANGED <<tgt, data>>
     \/ /\ LET t == IF tgt[Cur.n] = Nothing THEN OwnFile(Cur.n) ELSE tgt[Cur.n]
           IN /\ tgt' = [tgt EXCEPT ![Cur.n] = t]
              /\ data' = IF append /\ tgt[Cur.n] # Nothing THEN data
                         ELSE [data EXCEPT ![t.file] = <<>>]
        /\ Goto("fill") /\ Smooth
  /\ append' = FALSE
  /\ UNCHANGED <<opt, src, links, erase, answers, tagged>>

Written(n, pieces) ==
  LET f == tgt[n].file IN data' = [data EXCEPT ![f] = @ \o pieces]

\* the loop of reads and writes.  When all is written a file that does not close,
\* an attribute or the progress dialog may still give Skip or Abort; when it
\* stops early the target is incomplete
Fill ==
  /\ At("fill")
  /\ \/ /\ Written(Cur.n, <<<<"whole", Inode(Cur.n)>>>>)
        /\ (Leave("cont") /\ Smooth) \/ Fails
     \/ \E s \in {"skip", "abort"}, pieces \in {<<>>, <<<<"part", Inode(Cur.n)>>>>} :
          /\ FileError(s) /\ Written(Cur.n, pieces)
          /\ GoOn("short", Cur.rest, s)
  /\ UNCHANGED <<opt, src, tgt, links, erase, append, answers, tagged>>

\* Delete or Keep the incomplete file; when the files do not close, the answer
\* to that is the status
Short ==
  /\ At("short")
  /\ tgt' \in {tgt, [tgt EXCEPT ![Cur.n] = Nothing]}
  /\ (Leave(Cur.rs) /\ Smooth) \/ Fails
  /\ UNCHANGED <<opt, src, data, links, erase, append, answers, tagged>>

-----------------------------------------------------------------------------
(* copy_dir_dir                                                             *)

\* the target directory is made unless it exists, the entries are listed
CopyDir ==
  /\ At("copy_dir")
  /\ \/ Fails /\ UNCHANGED tgt
     \/ Retried /\ UNCHANGED tgt
     \/ tgt[Cur.n] # Nothing /\ Listed(Cur.n, "entry") /\ UNCHANGED tgt
     \/ /\ tgt[Cur.n] = Nothing
        /\ tgt' = [tgt EXCEPT ![Cur.n] = Directory]
        /\ Listed(Cur.n, "entry") \/ Fails
  /\ UNCHANGED <<opt, src, data, links, erase, append, answers, tagged>>

\* Mutant: the next entry whatever happened
EntryAfterAbort ==
  /\ At("entry") /\ Smooth
  /\ IF Cur.rest # <<>>
     THEN LET e == Head(Cur.rest)
          IN Call(New(IF e \in Dirs THEN "copy_dir" ELSE "copy_file", e), "copied_entry")
     ELSE Leave(Cur.rs)
  /\ UNCHANGED <<opt, disk, links, erase, append, answers, tagged>>

\* the next entry, unless the last one was aborted
Entry ==
  /\ At("entry") /\ Smooth
  /\ IF Cur.rest # <<>> /\ Cur.rs # "abort"
     THEN LET e == Head(Cur.rest)
          IN Call(New(IF e \in Dirs THEN "copy_dir" ELSE "copy_file", e), "copied_entry")
     ELSE Leave(Cur.rs)
  /\ UNCHANGED <<opt, disk, links, erase, append, answers, tagged>>

\* Mutant: what was skipped is to be erased too
CopiedEntryAny ==
  /\ At("copied_entry") /\ Smooth
  /\ erase' = IF opt.op = "move" THEN Append(erase, Head(Cur.rest)) ELSE erase
  /\ GoOn("entry", Tail(Cur.rest), ret)
  /\ UNCHANGED <<opt, disk, links, append, answers, tagged>>

\* do_delete: what was copied is to be erased at the end
CopiedEntry ==
  /\ At("copied_entry") /\ Smooth
  /\ erase' = IF opt.op = "move" /\ ret = "cont"
              THEN Append(erase, Head(Cur.rest)) ELSE erase
  /\ GoOn("entry", Tail(Cur.rest), ret)
  /\ UNCHANGED <<opt, disk, links, append, answers, tagged>>

-----------------------------------------------------------------------------
(* move_file_file                                                           *)

MoveFile ==
  /\ At("move_file")
  /\ \/ /\ Fails
        /\ UNCHANGED <<opt, disk, links, erase, append, answers, tagged>>
     \/ tgt[Cur.n] # Nothing /\ QueryReplace(Cur.n, "rename")
     \/ /\ tgt[Cur.n] = Nothing /\ Goto("rename") /\ Smooth
        /\ UNCHANGED <<opt, disk, links, erase, append, answers, tagged>>

\* the file is renamed or, when that fails or it is to be appended, copied
Rename ==
  /\ At("rename")
  /\ LET n == Cur.n IN
     \/ /\ ~append /\ ~opt.across
        /\ src' = src \ {n}
        /\ tgt' = [tgt EXCEPT ![n] = OwnFile(n)]
        /\ data' = [data EXCEPT ![n] = <<<<"moved", Inode(n)>>>>]
        /\ (Leave("cont") /\ Smooth) \/ Fails
     \/ /\ Call(CopyUnasked(n), "copied")
        /\ IF append \/ opt.across THEN Smooth ELSE Quietly
        /\ UNCHANGED disk
  /\ UNCHANGED <<opt, links, erase, append, answers, tagged>>

Copied ==
  /\ At("copied")
  /\ \/ ret # "cont" /\ Leave(ret) /\ Smooth
     \/ ret = "cont" /\ Goto("remove") /\ Smooth
     \/ ret = "cont" /\ Fails
  /\ UNCHANGED <<opt, disk, links, erase, append, answers, tagged>>

\* after a retry the status stays FILE_RETRY
Remove ==
  /\ At("remove")
  /\ \/ src' = src \ {Cur.n} /\ Leave(Cur.rs) /\ Smooth
     \/ Fails /\ UNCHANGED src
     \/ Retried /\ UNCHANGED src
  /\ UNCHANGED <<opt, tgt, data, links, erase, append, answers, tagged>>

-----------------------------------------------------------------------------
(* move_dir_dir                                                             *)

\* the directory is renamed with all that is in it, or copied
MoveDir ==
  /\ At("move_dir")
  /\ LET n == Cur.n
         copying == tgt[n] # Nothing \/ opt.across
     IN \/ AbortPressed /\ UNCHANGED disk
        \/ ~copying /\ Fails /\ UNCHANGED disk
        \/ /\ ~copying
           /\ src' = src \ Sub[n]
           /\ tgt' = [m \in Nodes |-> IF m \notin Sub[n] THEN tgt[m]
                       ELSE IF m \in Dirs THEN Directory ELSE OwnFile(m)]
           /\ data' = [f \in Files |->
                IF f \in Sub[n] THEN <<<<"moved", Inode(f)>>>> ELSE data[f]]
           /\ Leave("cont") /\ Smooth
        \/ /\ copying
           /\ Call(New("copy_dir", n), "dir_copied") /\ Smooth /\ UNCHANGED disk
  /\ UNCHANGED <<opt, links, erase, append, answers, tagged>>

\* Mutant: the list of what to erase outlives a copy that ended otherwise
DirCopiedListKept ==
  /\ At("dir_copied")
  /\ \/ ret # "cont" /\ Leave(ret) /\ Smooth
     \/ ret = "cont" /\ Fails
     \/ ret = "cont" /\ Goto("erasing") /\ Smooth
  /\ UNCHANGED <<opt, disk, links, erase, append, answers, tagged>>

\* only when the last entry was copied the sources are erased
DirCopied ==
  /\ At("dir_copied")
  /\ \/ ret # "cont" /\ erase' = <<>> /\ Leave(ret) /\ Smooth
     \/ ret = "cont" /\ erase' = <<>> /\ Fails
     \/ ret = "cont" /\ Goto("erasing") /\ Smooth /\ UNCHANGED erase
  /\ UNCHANGED <<opt, disk, links, append, answers, tagged>>

\* the next entry of erase_list; at its end, or after Abort, the directory itself
Erasing ==
  /\ At("erasing") /\ Smooth
  /\ IF erase # <<>> /\ Cur.rs # "abort"
     THEN LET e == Head(erase)
          IN Call(New(IF e \in Dirs THEN "erase_if_empty" ELSE "erase_file", e), "erased")
     ELSE Call(New("erase_if_empty", Cur.n), "moved")
  /\ UNCHANGED <<opt, disk, links, erase, append, answers, tagged>>

Erased ==
  /\ At("erased") /\ Smooth
  /\ erase' = Tail(erase)
  /\ GoOn("erasing", Cur.rest, ret)
  /\ UNCHANGED <<opt, disk, links, append, answers, tagged>>

\* what became of the directory itself is not looked at
Moved ==
  /\ At("moved") /\ Smooth
  /\ erase' = <<>>
  /\ Leave(Cur.rs)
  /\ UNCHANGED <<opt, disk, links, append, answers, tagged>>

-----------------------------------------------------------------------------
(* Erasing                                                                  *)

\* erase_file; after the copies of a move the progress dialog is looked at
EraseFile ==
  /\ At("erase_file")
  /\ \/ src' = src \ {Cur.n} /\ Leave("cont") /\ Smooth
     \/ src' = src \ {Cur.n} /\ opt.op = "move" /\ Fails
     \/ Fails /\ UNCHANGED src
  /\ UNCHANGED <<opt, tgt, data, links, erase, append, answers, tagged>>

\* erase_dir_iff_empty; a directory that cannot be read is left as well
EraseIfEmpty ==
  /\ At("erase_if_empty")
  /\ \/ AbortPressed /\ UNCHANGED src
     \/ ~IsEmpty(Cur.n) /\ Leave("cont") /\ Smooth /\ UNCHANGED src
     \/ IsEmpty(Cur.n) /\ Leave("cont") /\ Quietly /\ UNCHANGED src
     \/ IsEmpty(Cur.n) /\ Fails /\ UNCHANGED src
     \/ IsEmpty(Cur.n) /\ src' = src \ {Cur.n} /\ Leave("cont") /\ Smooth
  /\ UNCHANGED <<opt, tgt, data, links, erase, append, answers, tagged>>

\* erase_dir: asks before it deletes what is not empty
EraseDir ==
  /\ At("erase_dir")
  /\ \/ ~IsEmpty(Cur.n) /\ QueryRecursive(Cur.n)
     \/ /\ \/ Fails /\ UNCHANGED src
           \/ IsEmpty(Cur.n) /\ src' = src \ {Cur.n} /\ Leave("cont") /\ Smooth
        /\ UNCHANGED <<opt, tgt, data, links, erase, append, answers, tagged>>

RecursiveErase ==
  /\ At("recursive_erase")
  /\ \/ Leave("retry") /\ Quietly
     \/ Listed(Cur.n, "erase_entry")
  /\ UNCHANGED <<opt, disk, links, erase, append, answers, tagged>>

\* the next entry while all goes well, an entry that cannot be looked up ends it;
\* then the directory itself, which must be empty by then
EraseEntry ==
  /\ At("erase_entry")
  /\ LET e == Head(Cur.rest)
         done == Cur.rest = <<>> /\ Cur.rs = "cont"
     IN \/ Cur.rs # "cont" /\ Leave(Cur.rs) /\ Smooth /\ UNCHANGED src
        \/ /\ Cur.rs = "cont" /\ Cur.rest # <<>> /\ UNCHANGED src
           /\ \/ Leave("retry") /\ Quietly
              \/ /\ Call(New(IF e \in Dirs THEN "recursive_erase" ELSE "erase_file", e),
                          "erased_entry")
                 /\ Smooth
        \/ done /\ Fails /\ UNCHANGED src
        \/ done /\ IsEmpty(Cur.n) /\ src' = src \ {Cur.n} /\ Leave("cont") /\ Smooth
  /\ UNCHANGED <<opt, tgt, data, links, erase, append, answers, tagged>>

\* whatever goes wrong in a sub-directory, Abort too, is FILE_RETRY here
ErasedEntry ==
  /\ At("erased_entry") /\ Smooth
  /\ GoOn("erase_entry", Tail(Cur.rest),
       IF Head(Cur.rest) \in Dirs /\ ret # "cont" THEN "retry" ELSE ret)
  /\ UNCHANGED <<opt, disk, links, erase, append, answers, tagged>>

-----------------------------------------------------------------------------
Next ==
  \/ Operate \/ Operated \/ Finish
  \/ CopyFile \/ Link \/ Open \/ Fill \/ Short
  \/ CopyDir \/ Entry \/ CopiedEntry
  \/ MoveFile \/ Rename \/ Copied \/ Remove
  \/ MoveDir \/ DirCopied \/ Erasing \/ Erased \/ Moved
  \/ EraseFile \/ EraseIfEmpty \/ EraseDir \/ RecursiveErase \/ EraseEntry \/ ErasedEntry

Spec == Init /\ [][Next]_vars

-----------------------------------------------------------------------------
(* Properties                                                               *)

\* The variables have their types, and the list of entries to erase is empty
\* between directories: entries of one are never erased on behalf of another.
TypeOK ==
  /\ opt \in Settings /\ src \subseteq Nodes
  /\ tgt \in [Nodes -> Target] /\ data \in [Files -> Seq(Piece)]
  /\ stack \in Seq(Frame) /\ ret \in Status
  /\ links \in [Files -> Files \cup {"none"}]
  /\ erase \in Seq(Nodes) /\ append \in BOOLEAN
  /\ replace \in {"ask", "all", "none", "some", "abort"}
  /\ recurse \in {"ask", "all", "none", "abort"}
  /\ tagged \subseteq Nodes /\ said \in [Nodes -> {"nothing", "replace", "append", "keep"}]
  /\ aborted \in Nodes \cup {"none"} /\ trouble \in 0..MaxTrouble
  /\ erase # <<>> =>
       \E i \in DOMAIN stack : stack[i].at \in {"dir_copied", "erasing", "erased", "moved"}

\* the content found at the target name of file n
Content(n) == IF tgt[n].kind = "file" THEN data[tgt[n].file] ELSE <<>>

\* all of n has got there, after what was there if the user wanted that
Whole(n) ==
  LET c == Content(n)
  IN c # <<>> /\ c[Len(c)] \in {<<"whole", Inode(n)>>, <<"moved", Inode(n)>>}

\* Moving loses nothing: whatever fails, is skipped, retried or aborted, and
\* although copy_dir_dir forgets the results of all entries but the last, the
\* data of every file are under one of its source names or whole at a target.
NothingLost ==
  opt.op = "move" =>
    \A f \in Files : \E m \in Files : Inode(m) = Inode(f) /\ (m \in src \/ Whole(m))

\* A file that has been untagged is done: gone when it was deleted or moved, and
\* whole at its target when it was copied or moved, unless it became a hard link.
\* A directory that has been untagged is gone when it was deleted, and at the target otherwise.
UntaggedDone ==
  \A i \in DOMAIN opt.tops :
    LET n == opt.tops[i] IN n \notin tagged =>
      /\ opt.op = "delete" => Sub[n] \cap src = {}
      /\ opt.op # "delete" => tgt[n] # Nothing
      /\ opt.op = "move" /\ n \in Files => n \notin src
      /\ opt.op # "delete" /\ n \in Files => tgt[n] # OwnFile(n) \/ Whole(n)

\* What the user answers happens: an existing target stays as it is until the
\* user lets it be replaced or appended to, is appended to only when wanted, and
\* a directory that is not to be deleted keeps all that is in it.  A move where a
\* call fails is left out, see the README.
AnswerObeyed ==
  /\ \A n \in opt.there \cap Files :
       LET old == <<"old", n>>
           c == Content(n)
       IN /\ said[n] = "nothing" => c = <<old>>
          /\ said[n] = "append" => c = <<>> \/ Head(c) = old
          /\ said[n] = "replace" /\ (opt.op = "move" => trouble = 0) =>
               c = <<old>> \/ \A j \in DOMAIN c : c[j] # old
  /\ \A d \in Dirs : said[d] = "keep" => Sub[d] \subseteq src

\* After Abort nothing more is done to a file of the tagged entry at which the
\* user pressed it, and when copying to no file at all, but that the incomplete
\* target is unlinked if the user wants it deleted.
AbortStops ==
  [][aborted # "none" /\ aborted' = aborted /\ (opt.op = "copy" \/ Top = aborted) =>
       /\ src' \cap Files = src \cap Files /\ data' = data
       /\ tgt' = tgt \/ At("short")]_vars

==============================================================================
