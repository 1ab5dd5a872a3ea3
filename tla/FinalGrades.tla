----------------------------- MODULE FinalGrades -----------------------------
(***************************************************************************)
(* The final grade of one student: packages/core/src/gradebook/            *)
(* calculation.ts, computed whenever it is asked for from the categories   *)
(* of the gradebook and the grades, which staff change one at a time.      *)
(*                                                                         *)
(* A grade stands for that of an assignment or of a manual item.  It takes *)
(* part when its status is a visible one and, for a manual item, the item  *)
(* is active.  Percentages are kept as pairs of points and maximum and     *)
(* compared by multiplying out.                                            *)
(***************************************************************************)
EXTENDS Naturals, FiniteSets, FiniteSetsExt

CONSTANTS
  GradeIds,    \* grades, in the order they are listed
  Grades,      \* what a grade may be
  Categories,  \* categories of the gradebook
  Settings,    \* what a category may be
  NoCategory,
  NoWeight

ASSUME GradesAssumption ==
  /\ GradeIds \subseteq Nat /\ IsFiniteSet(GradeIds)
  /\ NoCategory \notin Categories
  /\ NoWeight \notin Nat
  /\ Grades \subseteq
       [category : Categories \cup {NoCategory}, score : Nat, max : Nat \ {0},
        extra : BOOLEAN, counts : BOOLEAN]
  /\ Settings \subseteq
       [status : {"active", "archived"}, weight : Nat \cup {NoWeight}, dropLowest : Nat]

VARIABLES
  grades,      \* the grades of the student
  categories   \* the categories

gradesVars == <<grades, categories>>

-----------------------------------------------------------------------------
GradesInit ==
  /\ grades \in [GradeIds -> {g \in Grades : ~g.counts}]
  /\ categories \in [Categories -> {c \in Settings : c.status = "archived"}]

\* A grade or its item is saved.
SaveGrade(i, g) ==
  /\ grades[i] # g
  /\ grades' = [grades EXCEPT ![i] = g]
  /\ UNCHANGED categories

\* createGradebookCategory, updateGradebookCategory.
SaveCategory(c, s) ==
  /\ categories[c] # s
  /\ categories' = [categories EXCEPT ![c] = s]
  /\ UNCHANGED grades

GradesNext ==
  \/ \E i \in GradeIds, g \in Grades : SaveGrade(i, g)
  \/ \E c \in Categories, s \in Settings : SaveCategory(c, s)

GradesSpec == GradesInit /\ [][GradesNext]_gradesVars

-----------------------------------------------------------------------------
(* The calculation.                                                        *)

Counting == {i \in GradeIds : grades[i].counts}

ActiveCategories == {c \in Categories : categories[c].status = "active"}

\* One descriptor for every active category, and one for no category when
\* some grade is in none or in one that is not active.
Descriptors ==
  ActiveCategories \cup
    (IF \E i \in Counting : grades[i].category \notin ActiveCategories
     THEN {NoCategory} ELSE {})

DropLowest(c) == IF c = NoCategory THEN 0 ELSE categories[c].dropLowest
Weight(c) == IF c = NoCategory THEN NoWeight ELSE categories[c].weight

In(c) == {i \in Counting : grades[i].category = c}
Regular(c) == {i \in In(c) : ~grades[i].extra}

\* Slip: by points and not by the share of the points.
LowerScore(i, j) ==
  grades[i].score < grades[j].score \/ (grades[i].score = grades[j].score /\ i < j)

\* Share of the points, ties in the order of the list.
Lower(i, j) ==
  \/ grades[i].score * grades[j].max < grades[j].score * grades[i].max
  \/ /\ grades[i].score * grades[j].max = grades[j].score * grades[i].max
     /\ i < j

\* The dropLowest lowest ones, but never all of them.
DropCount(c) ==
  LET most == IF Regular(c) = {} THEN 0 ELSE Cardinality(Regular(c)) - 1
  IN IF DropLowest(c) < most THEN DropLowest(c) ELSE most

DroppedGrades(c) ==
  {i \in Regular(c) : Cardinality({j \in Regular(c) : Lower(j, i)}) < DropCount(c)}

Counted(c) == Regular(c) \ DroppedGrades(c)

Points(S) == MapThenSumSet(LAMBDA i : grades[i].score, S)
Maximum(S) == MapThenSumSet(LAMBDA i : grades[i].max, S)

\* calculateRollup.
RollupScore(c) == Points(Counted(c) \cup (In(c) \ Regular(c)))
RollupMax(c) == Maximum(Counted(c))

Rollups == {c \in Descriptors : RollupScore(c) > 0 \/ RollupMax(c) > 0}

WeightedRollups == {c \in Rollups : Weight(c) # NoWeight /\ RollupMax(c) > 0}

WeightOf(S) == MapThenSumSet(LAMBDA c : Weight(c), S)

\* What calculateTotal divides by.
TotalWeight == WeightOf(WeightedRollups)

-----------------------------------------------------------------------------
GradesTypeOK ==
  /\ grades \in [GradeIds -> Grades]
  /\ categories \in [Categories -> Settings]

\* To drop the lowest grades of a category never lowers its percentage,
\* whatever the maxima of the grades are and with extra credit on top.
DropNeverLowers ==
  \A c \in Descriptors :
    RollupMax(c) > 0 =>
      RollupScore(c) * Maximum(Regular(c)) >= Points(In(c)) * RollupMax(c)

\* What packages/contracts/src/gradebook.ts:227 demands of the percentage of
\* the total: the weights that divide it are not all zero.
PercentIsFinite == WeightedRollups # {} => TotalWeight # 0
=============================================================================
