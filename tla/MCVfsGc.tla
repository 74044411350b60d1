------------------------------ MODULE MCVfsGc ------------------------------
(* One archive inside another, for TLC. *)
EXTENDS VfsGc, TLC
CONSTANTS outer, inner
MCWithin == (outer :> Local) @@ (inner :> outer)
MCIds == 1 .. 5
=============================================================================
