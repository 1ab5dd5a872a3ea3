SPECIFICATION Spec
CONSTANTS
  Students = {ann}
  Requests = {r1, r2}
  AutoQuestions = {auto}
  ManualQuestions = {}
  Quizzes <- OneQuiz
  InitialQuiz <- OpenQuiz
  Overrides <- NoOverrides
  PassPercent = 100
  MaxNumber = 1
  MaxTime = 0
PROPERTIES
  ResponsesFrozenOnceSubmitted
