\* Overlapping sessions in every save mode, with one fault.
SPECIFICATION Spec
CONSTANTS
  a = a
  b = b
  Sessions <- MCSessions
  Nobody = Nobody
  Stale = Stale
  NoFile = NoFile
  Options <- MCOptions
  MaxFaults = 1
  MaxChanges = 1
  MaxStamp = 9
CHECK_DEADLOCK FALSE
CONSTRAINT Writes
SYMMETRY Symmetry
INVARIANTS
  TypeOK
  ModifiedIsLocked
  SaveReports
  TextSurvives
PROPERTIES
  OverwritesAgreed
  NoTextDeleted
