\* Up to four deeds of users who wait for the prompt, kill shells, or type ahead.
SPECIFICATION Spec
CONSTANTS
  home = home
  other = other
  joined = joined
  Home = home
  Joined = joined
  Dirs <- MCDirs
  Users <- MCUsers
  MaxDeeds = 4
CHECK_DEADLOCK FALSE
INVARIANTS
  TypeOK
  CommandFinished
  InStep
PROPERTIES
  Answered
