------------------------------ MODULE MCFileLock ------------------------------
(***************************************************************************)
(* Three mc processes on one machine; the third one may be started after   *)
(* the first has died and be given its process id.                         *)
(***************************************************************************)
EXTENDS FileLock, TLC

CONSTANTS p1, p2, p3

MCProcs == {p1, p2, p3}
MCHost == [p \in MCProcs |-> "here"]
MCPid == p1 :> 1 @@ p2 :> 2 @@ p3 :> 1
=============================================================================
