\* Sessions of four to seven keys, with rings of 8 and 16 cells.
SPECIFICATION Spec
CONSTANTS
  StartSize = 8
  Slack = 5
  LastCell = 15
  Chars <- MCChars
  Texts <- MCTexts
  Settings <- MCSettings
  SIZE_LIMIT = 4
CHECK_DEADLOCK FALSE
INVARIANTS
  TypeOK
  EndsExact
PROPERTIES
  UndoWhole
