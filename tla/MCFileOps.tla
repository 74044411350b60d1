------------------------------ MODULE MCFileOps ------------------------------
(***************************************************************************)
(* A directory with a file and a directory with a file, another directory  *)
(* with a file, and a file beside them.                                    *)
(***************************************************************************)
EXTENDS FileOps, TLC

CONSTANTS dir, sub, dir2, file, inDir, inSub, inDir2

MCKids == (dir :> <<inDir, sub>>) @@ (sub :> <<inSub>>) @@ (dir2 :> <<inDir2>>)

\* each file an inode of its own, or file another name of inDir
Apart == [n \in Files |-> n]
Linked == [Apart EXCEPT ![file] = inDir]

Op(op, tops, across, there, ino) ==
  [op |-> op, tops |-> tops, across |-> across, there |-> there, ino |-> ino]

MCSettings ==
  {Op("copy", <<dir, file>>, TRUE, there, ino) :
     there \in {{}, {file}, {dir, inDir}, {dir, sub, inDir, inSub, file}}, ino \in {Apart, Linked}}
  \cup {Op("move", <<dir, file>>, across, there, ino) :
     across \in BOOLEAN, there \in {{}, {dir}, {dir, inDir, file}}, ino \in {Apart, Linked}}
  \cup {Op("move", <<file, dir>>, TRUE, {file, dir}, Linked),
        Op("move", <<file, dir>>, TRUE, {file, dir, inDir}, Apart),
        Op("delete", <<dir2, dir, file>>, FALSE, {}, Apart)}

==============================================================================
