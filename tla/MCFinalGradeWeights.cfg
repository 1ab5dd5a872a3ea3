CONSTANTS
  c1 = c1
  c2 = c2
  GradeIds = {1, 2, 3}
  Grades <- NineGrades
  Categories = {c1, c2}
  Settings <- FiveCategories
  NoCategory = NoCategory
  NoWeight = NoWeight
SPECIFICATION GradesSpec
INVARIANT PercentIsFinite
CHECK_DEADLOCK FALSE
