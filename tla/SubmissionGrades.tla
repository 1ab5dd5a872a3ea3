--------------------------- MODULE SubmissionGrades ---------------------------
(***************************************************************************)
(* The grades of submissions: upsertSubmissionGrade of the API, alone, in  *)
(* a batch or from a CSV file, over packages/core/src/feedback; the        *)
(* history rows, the audit log and the lifecycle events that go with them; *)
(* the appeals of students.                                                *)
(*                                                                         *)
(* A grader is one handler in flight, or one item of a batch, whose items  *)
(* run at once.  It reads the grade before the transaction that writes it, *)
(* the transaction reads it again, and the audit log and the event are     *)
(* saved one by one after the commit, by comparing what was written with   *)
(* the first read.                                                         *)
(***************************************************************************)
EXTENDS Naturals, Sequences

CONSTANTS
  Submissions,
  Graders,     \* handlers and batch items in flight at once
  Mortal,      \* those whose server may die or whose statement may fail
  Grades,      \* what a grade row may say: score, status, source
  DraftGrades,      \* those of status draft, which students do not see
  NoGrade,     \* no row
  MaxHistory,  \* bound: no grading begins after so many writes
  MaxAppeals   \* bound: appeals of one grade

ASSUME GradesAssumption ==
  /\ Submissions # {} /\ Grades # {}
  /\ Mortal \subseteq Graders
  /\ DraftGrades \subseteq Grades
  /\ NoGrade \notin Grades
  /\ MaxHistory \in Nat
  /\ MaxAppeals \in Nat

VARIABLES
  grade,    \* the grade row of each submission
  history,  \* its grade_history rows, in the order of their commits
  audits,   \* its change_grade rows of the audit log
  events,   \* its events of topic grade.lifecycle
  appeals,  \* its grade_appeal rows
  grader,   \* the graders in flight
  lost      \* history: grades whose grader died before its last statement

gradingVars == <<grade, history, audits, events, appeals, grader, lost>>

-----------------------------------------------------------------------------
GradeRows == Grades \cup {NoGrade}

Entries == [previous : GradeRows, grade : Grades]
Changes == [previous : Grades, grade : Grades]
Events  == [kind : {"published"}, grade : Grades] \cup [kind : {"changed"}, grade : Grades]

\* An appeal is open or under review, or it has ended one way or another.
Appeals == {"open", "ended"}

\* grade: what is to be written; previous and existing: the grade read
\* before and in the transaction.
Gradings == [pc : {"idle", "select", "write", "publish", "audit", "change"},
             submission : Submissions, grade : Grades, previous : GradeRows, existing : GradeRows]

NoGrading == [pc |-> "idle", submission |-> CHOOSE s \in Submissions : TRUE,
         grade |-> CHOOSE v \in Grades : TRUE, previous |-> NoGrade, existing |-> NoGrade]

GraderGoto(g, pc) == grader' = [grader EXCEPT ![g] = [@ EXCEPT !.pc = pc]]
GraderStops(g)     == grader' = [grader EXCEPT ![g] = NoGrading]

Visible(v) == v \notin DraftGrades

Open(s) == {i \in DOMAIN appeals[s] : appeals[s][i] = "open"}

\* The grades a submission has ever had.
Recorded(s) == {history[s][i].grade : i \in DOMAIN history[s]}

-----------------------------------------------------------------------------
GradingInit ==
  /\ grade   = [s \in Submissions |-> NoGrade]
  /\ history = [s \in Submissions |-> <<>>]
  /\ audits  = [s \in Submissions |-> {}]
  /\ events  = [s \in Submissions |-> {}]
  /\ appeals = [s \in Submissions |-> <<>>]
  /\ grader  = [g \in Graders |-> NoGrading]
  /\ lost    = [s \in Submissions |-> {}]

\* The checks, and the read of the previous grade.
BeginGrading(g, s, v) ==
  /\ grader[g].pc = "idle"
  /\ Len(history[s]) < MaxHistory
  /\ grader' = [grader EXCEPT ![g] = [pc |-> "select", submission |-> s, grade |-> v,
                                      previous |-> grade[s], existing |-> NoGrade]]
  /\ UNCHANGED <<grade, history, audits, events, appeals, lost>>

\* The transaction of upsertSubmissionGrade: its read takes no lock.
SelectExisting(g) ==
  /\ grader[g].pc = "select"
  /\ grader' = [grader EXCEPT ![g] =
       [@ EXCEPT !.pc = "write", !.existing = grade[grader[g].submission]]]
  /\ UNCHANGED <<grade, history, audits, events, appeals, lost>>

\* recordGradeLifecycleSideEffects, which goes by the first read.
\* Slip: a first visible grade is told, a later change is not.
SideEffectsOfFirst(g) ==
  IF grader[g].previous = NoGrade /\ Visible(grader[g].grade)
  THEN GraderGoto(g, "publish") ELSE GraderStops(g)

SideEffects(g) ==
  LET x == grader[g] IN
  \/ x.previous = NoGrade /\ Visible(x.grade) /\ GraderGoto(g, "publish")
  \/ x.previous = NoGrade /\ ~Visible(x.grade) /\ GraderStops(g)
  \/ x.previous = x.grade /\ GraderStops(g)
  \/ x.previous \notin {NoGrade, x.grade} /\ GraderGoto(g, "audit")

\* Slip: without the unique index on the submission.
WriteAgain(g) ==
  LET s == grader[g].submission IN
  /\ grader[g].pc = "write"
  /\ grade'   = [grade EXCEPT ![s] = grader[g].grade]
  /\ history' = [history EXCEPT ![s] =
       Append(@, [previous |-> grader[g].existing, grade |-> grader[g].grade])]
  /\ SideEffects(g)
  /\ UNCHANGED <<audits, events, appeals, lost>>

\* The row, locked until the commit, and its history; two inserts meet at
\* the unique index on the submission, and the second transaction fails.
Write(g) ==
  LET s == grader[g].submission IN
  /\ grader[g].pc = "write"
  /\ \/ /\ grader[g].existing = NoGrade /\ grade[s] # NoGrade
        /\ GraderStops(g)
        /\ UNCHANGED <<grade, history>>
     \/ /\ grader[g].existing # NoGrade \/ grade[s] = NoGrade
        /\ grade'   = [grade EXCEPT ![s] = grader[g].grade]
        /\ history' = [history EXCEPT ![s] =
             Append(@, [previous |-> grader[g].existing, grade |-> grader[g].grade])]
        /\ SideEffects(g)
  /\ UNCHANGED <<audits, events, appeals, lost>>

SavePublished(g) ==
  LET s == grader[g].submission IN
  /\ grader[g].pc = "publish"
  /\ events' = [events EXCEPT ![s] = @ \cup {[kind |-> "published", grade |-> grader[g].grade]}]
  /\ GraderStops(g)
  /\ UNCHANGED <<grade, history, audits, appeals, lost>>

SaveAudit(g) ==
  LET s == grader[g].submission IN
  /\ grader[g].pc = "audit"
  /\ audits' = [audits EXCEPT ![s] =
       @ \cup {[previous |-> grader[g].previous, grade |-> grader[g].grade]}]
  /\ GraderGoto(g, "change")
  /\ UNCHANGED <<grade, history, events, appeals, lost>>

SaveChanged(g) ==
  LET s == grader[g].submission IN
  /\ grader[g].pc = "change"
  /\ events' = [events EXCEPT ![s] = @ \cup {[kind |-> "changed", grade |-> grader[g].grade]}]
  /\ GraderStops(g)
  /\ UNCHANGED <<grade, history, audits, appeals, lost>>

\* The server dies or a statement fails: a transaction is rolled back, what
\* should have followed a commit never happens.
GraderDies(g) ==
  LET s == grader[g].submission IN
  /\ g \in Mortal
  /\ grader[g].pc # "idle"
  /\ lost' = [lost EXCEPT ![s] =
       IF grader[g].pc \in {"publish", "audit", "change"} THEN @ \cup {grader[g].grade} ELSE @]
  /\ GraderStops(g)
  /\ UNCHANGED <<grade, history, audits, events, appeals>>

\* createGradeAppeal: the partial unique index takes one open appeal.
CreateAppeal(s) ==
  /\ grade[s] # NoGrade
  /\ Open(s) = {}
  /\ Len(appeals[s]) < MaxAppeals
  /\ appeals' = [appeals EXCEPT ![s] = Append(@, "open")]
  /\ UNCHANGED <<grade, history, audits, events, grader, lost>>

WithStatus(rows, i, status) == [rows EXCEPT ![i] = status]

\* updateGradeAppeal: from any status to any other, as far as the index goes.
UpdateAppeal(s, i, status) ==
  /\ status = "open" => Open(s) \subseteq {i}
  /\ appeals' = [appeals EXCEPT ![s] = WithStatus(@, i, status)]
  /\ UNCHANGED <<grade, history, audits, events, grader, lost>>

GradingWork(g) ==
  \/ SelectExisting(g) \/ Write(g)
  \/ SavePublished(g) \/ SaveAudit(g) \/ SaveChanged(g)

GradingNext ==
  \/ \E g \in Graders : GradingWork(g) \/ GraderDies(g)
  \/ \E g \in Graders, s \in Submissions, v \in Grades : BeginGrading(g, s, v)
  \/ \E s \in Submissions : CreateAppeal(s)
  \/ \E s \in Submissions : \E i \in DOMAIN appeals[s], status \in Appeals :
       UpdateAppeal(s, i, status)

GradingSpec == GradingInit /\ [][GradingNext]_gradingVars

-----------------------------------------------------------------------------
(* Properties.                                                             *)

\* Rows, logs and graders have their types.
GradingTypeOK ==
  /\ grade \in [Submissions -> GradeRows]
  /\ history \in [Submissions -> Seq(Entries)]
  /\ audits \in [Submissions -> SUBSET Changes]
  /\ events \in [Submissions -> SUBSET Events]
  /\ appeals \in [Submissions -> Seq(Appeals)]
  /\ grader \in [Graders -> Gradings]
  /\ lost \in [Submissions -> SUBSET Grades]

\* The history of a submission ends with its grade, begins with the one entry
\* that had no predecessor, and every other entry names as its previous grade
\* one the submission really had: no race of two graders starts it twice or
\* invents a predecessor.
HistoryIsReal ==
  \A s \in Submissions :
    /\ IF history[s] = <<>> THEN grade[s] = NoGrade
                            ELSE grade[s] = history[s][Len(history[s])].grade
    /\ \A i \in DOMAIN history[s] :
         IF i = 1 THEN history[s][i].previous = NoGrade
                  ELSE \E k \in 1..(i - 1) : history[s][i].previous = history[s][k].grade

Announced(s) == {e.grade : e \in events[s]}
InHand(s) == {grader[g].grade : g \in {h \in Graders :
                /\ grader[h].pc \in {"publish", "audit", "change"}
                /\ grader[h].submission = s}}

\* Every grade a student could ever see has a lifecycle event that says so, or
\* a grader about to save it, or was lost with its server: although events
\* are decided by a grade read before the transaction, no race of graders
\* leaves a grade unannounced.
VisibleGradesAnnounced ==
  \A s \in Submissions : \A v \in Recorded(s) :
    Visible(v) => v \in Announced(s) \cup InHand(s) \cup lost[s]

\* A grade has one open appeal at most, ended ones that staff reopen included.
OneOpenAppeal ==
  \A s \in Submissions : \A i, k \in Open(s) : i = k

\* What the test of the handler says: a change to an existing grade gets its
\* row in the audit log.
ChangesAudited ==
  \A s \in Submissions :
    (\A g \in Graders : grader[g].pc = "idle") =>
      \A i \in DOMAIN history[s] :
        LET e == history[s][i] IN
        e.previous \notin {NoGrade, e.grade} => \E a \in audits[s] : a.grade = e.grade
=============================================================================
