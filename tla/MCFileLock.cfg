\* Three processes, the third may get the process id of the first.
SPECIFICATION Spec
CONSTANTS
  p1 = p1
  p2 = p2
  p3 = p3
  Procs <- MCProcs
  Host <- MCHost
  Pid <- MCPid
  NoLink = NoLink
CHECK_DEADLOCK FALSE
INVARIANTS
  TypeOK
  MutualExclusion
  NoOrphanLink
