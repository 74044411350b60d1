\* Leave, "Yes", and cancel at the next question.
SPECIFICATION Spec
CONSTANTS
  a = a
  b = b
  Sessions <- MCSessions
  Nobody = Nobody
  Stale = Stale
  NoFile = NoFile
  Options <- QuickOptions
  MaxFaults = 0
  MaxChanges = 1
  MaxStamp = 5
CHECK_DEADLOCK FALSE
SYMMETRY Symmetry
PROPERTIES
  QuitKeepsChanges
