CONSTANTS
  g1 = g1
  g2 = g2
  g3 = g3
  Submissions = {essay}
  Graders = {g1, g2}
  Mortal = {}
  Grades = {draft, published, revised}
  DraftGrades = {draft}
  NoGrade = NoGrade
  MaxHistory = 2
  MaxAppeals = 0
SPECIFICATION GradingSpec
SYMMETRY Symmetry
INVARIANTS
  ChangesAudited
CHECK_DEADLOCK FALSE
