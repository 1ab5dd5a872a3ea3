---------------------------- MODULE MCFinalGrades ----------------------------
(***************************************************************************)
(* Nine grades and five settings for two categories.                       *)
(***************************************************************************)
EXTENDS FinalGrades

CONSTANTS c1, c2

Graded(category, score, max) ==
  [category |-> category, score |-> score, max |-> max, extra |-> FALSE, counts |-> TRUE]

\* Shares and points that order the grades differently, extra credit, a grade
\* without a category and one that is not visible.
NineGrades ==
  {Graded(c1, 2, 2), Graded(c1, 3, 4), Graded(c1, 1, 4), Graded(c1, 0, 1), Graded(c2, 1, 2),
   Graded(c2, 3, 3), Graded(NoCategory, 1, 2), [Graded(c1, 2, 2) EXCEPT !.extra = TRUE],
   [Graded(NoCategory, 0, 1) EXCEPT !.counts = FALSE]}

GradeCategory(weight, dropLowest) ==
  [status |-> "active", weight |-> weight, dropLowest |-> dropLowest]

FiveCategories ==
  {GradeCategory(NoWeight, 1), GradeCategory(0, 0), GradeCategory(1, 1), GradeCategory(3, 2),
   [GradeCategory(1, 0) EXCEPT !.status = "archived"]}
=============================================================================
