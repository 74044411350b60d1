\* Two jobs, two questions each, in every setting.
SPECIFICATION Spec
CONSTANTS
  j1 = j1
  j2 = j2
  NoJob = NoJob
  Jobs <- MCJobs
  Settings <- MCSettings
  MaxCalls = 2
CHECK_DEADLOCK FALSE
INVARIANTS
  TypeOK
  AnswerIsForQuestion
PROPERTIES
  QuestionsAnswered
