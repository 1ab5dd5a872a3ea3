SPECIFICATION RunnerSpec
CONSTANTS
  Asked = {q1, q2}
  NoSave = NoSave
  MaxEdits = 2
  MaxMishaps = 0
INVARIANTS
  AnswersAutosaved
CHECK_DEADLOCK FALSE
