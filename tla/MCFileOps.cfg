\* Copies, moves and deletions of one tree; three things go wrong.
SPECIFICATION Spec
CONSTANTS
  dir = dir
  sub = sub
  dir2 = dir2
  file = file
  inDir = inDir
  inSub = inSub
  inDir2 = inDir2
  Nodes = {dir, sub, dir2, file, inDir, inSub, inDir2}
  Kids <- MCKids
  Settings <- MCSettings
  MaxTrouble = 3
CHECK_DEADLOCK FALSE
INVARIANTS
  TypeOK
  NothingLost
  UntaggedDone
  AnswerObeyed
PROPERTY AbortStops
