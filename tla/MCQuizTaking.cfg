SPECIFICATION FairTakingSpec
CONSTANTS
  Students = {ann}
  Requests = {r1, r2}
  AutoQuestions = {auto}
  ManualQuestions = {essay}
  Quizzes <- TimedOrHidden
  InitialQuiz <- Timed
  Overrides <- AnyOverride
  PassPercent = 100
  MaxNumber = 1
  MaxTime = 2
  Asked = {q1}
  NoSave = NoSave
  MaxEdits = 1
  MaxMishaps = 2
INVARIANTS
  PassingAttemptCompletes
PROPERTIES
  BlockedAttemptCloses
  AutoSubmitGetsThrough
CHECK_DEADLOCK FALSE
