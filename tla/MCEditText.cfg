\* One screen of two lines, texts up to six bytes in blocks of two.
SPECIFICATION Spec
CONSTANTS
  Chars <- MCChars
  Texts <- MCTexts
  EDIT_BUF_SIZE = 2
  MAXBUFF = 5
  N_LINE_CACHES = 5
  SYNTAX_MARKER_DENSITY = 1
  ByteSize = 16
  Contexts <- MCContexts
  Height = 2
  Settings <- MCSettings
CHECK_DEADLOCK FALSE
INVARIANTS
  TypeOK
  LinesTrue
  MarksFound
  RulesTrue
PROPERTY ImplementsText
