------------------------------ MODULE MCSubshell ------------------------------
(***************************************************************************)
(* Two directories, and users who kill shells, type ahead, or do neither.  *)
(***************************************************************************)
EXTENDS Subshell

CONSTANTS home, other, joined

MCDirs == {home, other}

MCUsers ==
  {[kills |-> FALSE, ahead |-> FALSE], [kills |-> TRUE, ahead |-> FALSE],
   [kills |-> FALSE, ahead |-> TRUE]}
=============================================================================
