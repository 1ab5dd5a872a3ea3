SPECIFICATION CourseworkSpec
CONSTANTS
  r1 = r1
  r2 = r2
  Students = {ann}
  Requests = {r1, r2}
  AutoQuestions = {}
  ManualQuestions = {}
  Quizzes <- ThreeQuizzes
  InitialQuiz <- OpenQuiz
  Overrides <- AnyOverride
  PassPercent = 100
  MaxNumber = 3
  MaxTime = 2
  Asked = {r1, r2}
  NoSave = NoSave
  MaxEdits = 2
  MaxMishaps = 1
  Submissions = {essay}
  Graders = {r1, r2}
  Mortal = {r1, r2}
  Grades = {draft, published, revised}
  DraftGrades = {draft}
  NoGrade = NoGrade
  MaxHistory = 3
  MaxAppeals = 1
  Items = {exam}
  Sessions = {lecture}
  Pupils = {ann}
  Recorders = {r1, r2}
  Marks = {1, 2}
  Gone = Gone
  NoRecord = NoRecord
  Windows = {r1, r2}
  MaxReports = 2
  MaxLost = 1
SYMMETRY CourseworkSymmetry
INVARIANTS
  NumbersContiguous
  HistoryIsReal
  VisibleGradesAnnounced
  ReportsCounted
  AnswersAccountedFor
PROPERTIES
  SubmittedOnce
  WithinLimitRead
  ImplementsLedger
  RecordedAsOfNow
CHECK_DEADLOCK FALSE
