----------------------------- MODULE MCVfsEntries -----------------------------
(* A directory with a file and a subdirectory, for TLC.                     *)
EXTENDS VfsEntries
CONSTANTS top, sub, file
MCPresent == {<<top, file>>}

\* States that differ in the addresses of inodes only are one state: inodes are
\* named by where they are first met, from the root and then from the handles.
Under(i) == IF i = Null THEN <<>> ELSE cache.ino[i].sub
Listed == Under(cache.root)
Met == <<cache.root>> \o Listed \o FlattenSeq([k \in DOMAIN Listed |-> Under(Listed[k])])
         \o <<reading.dir>> \o Under(reading.dir) \o <<view, save.ino>>
At(met, i) == IF i = Null THEN 0 ELSE SelectInSeq(met, LAMBDA j : i = j)
Renamed(met, i) ==
  IF i = Null THEN Blank
  ELSE [cache.ino[i] EXCEPT !.up = At(met, @), !.sub = [k \in DOMAIN @ |-> At(met, @[k])]]
MCView ==
  LET met == Met
  IN <<srv, op, made, trouble, hung, cache.flush, cache.stale,
       [k \in DOMAIN met |-> Renamed(met, met[k])],
       [reading EXCEPT !.dir = At(met, @), !.cur = At(met, @)],
       At(met, view), [save EXCEPT !.ino = At(met, @)]>>
=============================================================================
