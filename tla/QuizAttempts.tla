---------------------------- MODULE QuizAttempts ----------------------------
(***************************************************************************)
(* The attempts of one quiz: packages/api/src/dependencies.ts (the         *)
(* handlers) over packages/core/src/quizzes (the statements they issue).   *)
(*                                                                         *)
(* The API servers are stateless: a handler is a chain of awaited database *)
(* statements, each one atomic (READ COMMITTED), and any number of them    *)
(* run at once.  A member of Requests is one handler in flight: its        *)
(* control point and what it has read so far.  Between two of its          *)
(* statements every other handler, the staff and the clock may act, and    *)
(* the server may die, which abandons the request.                         *)
(*                                                                         *)
(* A point of a question is worth 1, a response is right, wrong or         *)
(* absent.  The active overrides that apply to a student, as its own, its  *)
(* groups' or its sections', are one value: the earliest opensAt, the      *)
(* latest closesAt and the greatest limits among them.                     *)
(***************************************************************************)
EXTENDS Naturals, Integers, FiniteSets, FiniteSetsExt

CONSTANTS
  Students,        \* learners of the course
  Requests,        \* handlers that may be in flight at once
  AutoQuestions,   \* questions with a compatible answer key
  ManualQuestions, \* questions a grader has to score (essay, or no key)
  Quizzes,         \* values of the quiz row
  InitialQuiz,     \* the one it is created with
  Overrides,       \* what the overrides of a student may come to
  PassPercent,     \* minScorePercent of the quiz's pass_quiz requirement
  MaxNumber,       \* bound: no effective maxAttempts exceeds it
  MaxTime          \* bound: the clock stops there

Questions == AutoQuestions \cup ManualQuestions
Numbers   == 1..MaxNumber
Times     == 0..MaxTime

\* A null score, submittedAt, timeLimitMinutes.
None == -1

\* A timeLimitMinutes of null is 0; an opensAt of null is 0, the first time,
\* and a closesAt of null is MaxTime, the last.
QuizRows ==
  [published : BOOLEAN, opensAt : Times, closesAt : Times,
   timeLimit : Nat, maxAttempts : Numbers]

EffectiveSettings ==
  [opensAt : Times, closesAt : Times, timeLimit : Nat, maxAttempts : Numbers]

\* Nothing applies: what changes no settings.
NoOverride == [opensAt |-> MaxTime, closesAt |-> 0, timeLimit |-> 0, maxAttempts |-> 1]

ASSUME QuizAssumption ==
  /\ Students # {}
  /\ IsFiniteSet(Questions)
  /\ AutoQuestions \cap ManualQuestions = {}
  /\ MaxNumber \in Nat \ {0}
  /\ MaxTime \in Nat
  /\ PassPercent \in Nat
  /\ Quizzes \subseteq QuizRows
  /\ InitialQuiz \in Quizzes
  /\ Overrides \subseteq EffectiveSettings
  /\ NoOverride \in Overrides

VARIABLES
  attempts,   \* the quiz_attempt rows, by student and attempt_number
  responses,  \* the quiz_attempt_response rows
  marks,      \* the quiz_attempt_question_grade rows: set by a grader
  completed,  \* students whose pass_quiz requirement is completed
  questions,  \* the quiz_question rows
  quiz,       \* the quiz row
  override,   \* what the overrides of each student come to
  now,        \* the servers' clock
  req         \* the handlers in flight

rows == <<attempts, responses, marks, completed>>
setup == <<questions, quiz, override>>
vars == <<attempts, responses, marks, completed, questions, quiz, override, now, req>>

-----------------------------------------------------------------------------
(* Rows and requests.                                                      *)

NoRow == [status |-> "absent", score |-> None, startedAt |-> None, submittedAt |-> None]

Rows == [status : {"absent", "in_progress", "submitted", "graded"},
         score : Nat \cup {None}, startedAt : Times \cup {None},
         submittedAt : Times \cup {None}]

Results == [status : {"submitted", "graded"}, score : Nat \cup {None}]
NoResult == [status |-> "submitted", score |-> None]

ControlPoints ==
  {"idle", "start_settings", "start_list", "start_insert",
   "save_settings", "save_questions", "save_upsert",
   "submit_settings", "submit_questions", "submit_responses", "submit_commit",
   "mark_upsert", "regrade_responses", "regrade_commit"}

\* quiz: the row as it was read, until the settings are known; limit: the
\* maxAttempts of a start; asked: the questions read; result: the grade
\* computed from what was read.
InFlight ==
  [pc : ControlPoints, student : Students, number : Nat, quiz : Quizzes, limit : Nat,
   asked : SUBSET Questions, result : Results]

AnyStudent == CHOOSE s \in Students : TRUE

Idle == [pc |-> "idle", student |-> AnyStudent, number |-> 0, quiz |-> InitialQuiz,
         limit |-> 0, asked |-> {}, result |-> NoResult]

Finish(r) == req' = [req EXCEPT ![r] = Idle]

Opened(s)     == {n \in Numbers : attempts[s][n].status # "absent"}
InProgress(s) == {n \in Numbers : attempts[s][n].status = "in_progress"}
Closed(s, n)  == attempts[s][n].status \in {"submitted", "graded"}

\* resolveEffectiveQuizSettings: overrides open a quiz earlier, close it later
\* and raise its limits, and what the quiz does not limit they do not either.
Effective(q, o) ==
  [opensAt     |-> Min({q.opensAt, o.opensAt}),
   closesAt    |-> Max({q.closesAt, o.closesAt}),
   timeLimit   |-> IF q.timeLimit = 0 THEN 0 ELSE Max({q.timeLimit, o.timeLimit}),
   maxAttempts |-> Max({q.maxAttempts, o.maxAttempts})]

\* isQuizAttemptExpired: the deadline itself is still in time.
Expired(s, n, timeLimit) == timeLimit > 0 /\ now > attempts[s][n].startedAt + timeLimit

IsClosed(closesAt) == now > closesAt

\* The settings a handler works by: the quiz row it has read before, merged
\* with the overrides of this moment.
Resolved(r) == Effective(req[r].quiz, override[req[r].student])

\* gradeQuizAttemptResponses[WithManualGrades] and the handlers' own case of
\* a quiz with no question: a manual question without a mark leaves the
\* attempt submitted and unscored.  graded is the marks that count.
Graded(asked, answers, graded) ==
  IF asked = {} \/ \E q \in asked \cap ManualQuestions : graded[q] = None
  THEN NoResult
  ELSE [status |-> "graded",
        score  |-> Cardinality({q \in asked \cap AutoQuestions : answers[q] = "right"})
                 + Cardinality({q \in asked \cap ManualQuestions : graded[q] = 1})]

NoMarks == [q \in ManualQuestions |-> None]

\* scoreMeetsCompletionThreshold, with maxScore one point per question.
MeetsThreshold(score, asked) ==
  /\ score # None
  /\ IF asked = {} THEN PassPercent = 0
                   ELSE score * 100 >= PassPercent * Cardinality(asked)

-----------------------------------------------------------------------------
(* The statements of quizzes/repository.ts.                                *)

\* The unique index on (tenant, quiz, student, attempt_number).
NumberIsFree(s, n) == attempts[s][n].status = "absent"

RecordQuizAttempt(s, n) ==
  attempts' = [attempts EXCEPT ![s][n] =
    [status |-> "in_progress", score |-> None, startedAt |-> now, submittedAt |-> None]]

\* Slip: the update does not ask for an attempt in progress.
SubmitAnyRow(s, n) == attempts[s][n].status # "absent"

\* UPDATE ... WHERE status = 'in_progress'.
SubmitIsAccepted(s, n) == attempts[s][n].status = "in_progress"

SubmitQuizAttempt(s, n, result) ==
  attempts' = [attempts EXCEPT ![s][n] =
    [@ EXCEPT !.status = result.status, !.score = result.score, !.submittedAt = now]]

UpdateQuizAttemptGrade(s, n, result) ==
  attempts' = [attempts EXCEPT ![s][n] =
    [@ EXCEPT !.status = result.status, !.score = result.score]]

RecordQuizAttemptResponse(s, n, q, answer) ==
  responses' = [responses EXCEPT ![s][n][q] = answer]

RecordQuizAttemptQuestionGrade(s, n, q, score) ==
  marks' = [marks EXCEPT ![s][n][q] = score]

-----------------------------------------------------------------------------
Init ==
  /\ attempts  = [s \in Students |-> [n \in Numbers |-> NoRow]]
  /\ responses = [s \in Students |-> [n \in Numbers |-> [q \in Questions |-> "none"]]]
  /\ marks     = [s \in Students |-> [n \in Numbers |-> NoMarks]]
  /\ completed = {}
  /\ questions \in SUBSET Questions
  /\ quiz      = InitialQuiz
  /\ override  = [s \in Students |-> NoOverride]
  /\ now       = 0
  /\ req       = [r \in Requests |-> Idle]

\* readVisibleQuizAttempt, and what else a handler checks before it goes on.
\* The quiz row is read just before the attempt; no client knows an attempt
\* before it is there, so the two reads are one step.  row: the quiz row, where
\* it is needed again.
Begin(r, pc, s, n, row, asked) ==
  /\ req[r].pc = "idle"
  /\ req' = [req EXCEPT ![r] = [Idle EXCEPT !.pc = pc, !.student = s, !.number = n,
                                            !.quiz = row, !.asked = asked]]
  /\ UNCHANGED <<rows, setup, now>>

(* startQuizAttempt: the quiz, then the overrides, then the list of        *)
(* attempts, then the insert, which the unique index on (quiz, student,    *)
(* number) may refuse.                                                     *)
BeginStart(r, s) ==
  /\ quiz.published
  /\ req[r].pc = "idle"
  /\ req' = [req EXCEPT ![r] = [Idle EXCEPT !.pc = "start_settings", !.student = s,
                                            !.quiz = quiz]]
  /\ UNCHANGED <<rows, setup, now>>

CheckStart(r) ==
  LET e == Resolved(r)
      refused == now < e.opensAt \/ IsClosed(e.closesAt)
  IN
  /\ req[r].pc = "start_settings"
  /\ \/ refused /\ Finish(r)
     \/ /\ ~refused
        /\ req' = [req EXCEPT ![r] = [@ EXCEPT !.pc = "start_list", !.quiz = InitialQuiz,
                                            !.limit = e.maxAttempts]]
  /\ UNCHANGED <<rows, setup, now>>

\* Slips: no check for an attempt in progress; a limit one too generous.
ListAttemptsUnchecked(r) ==
  LET s == req[r].student IN
  /\ req[r].pc = "start_list"
  /\ Cardinality(Opened(s)) < req[r].limit
  /\ req' = [req EXCEPT ![r] = [@ EXCEPT !.pc = "start_insert",
                                      !.number = Max(Opened(s) \cup {0}) + 1]]
  /\ UNCHANGED <<rows, setup, now>>

ListAttemptsGenerous(r) ==
  LET s == req[r].student IN
  /\ req[r].pc = "start_list"
  /\ InProgress(s) = {}
  /\ Cardinality(Opened(s)) <= req[r].limit
  /\ Cardinality(Opened(s)) < MaxNumber
  /\ req' = [req EXCEPT ![r] = [@ EXCEPT !.pc = "start_insert",
                                      !.number = Max(Opened(s) \cup {0}) + 1]]
  /\ UNCHANGED <<rows, setup, now>>

ListAttempts(r) ==
  LET s == req[r].student IN
  /\ req[r].pc = "start_list"
  /\ \/ /\ InProgress(s) # {} \/ Cardinality(Opened(s)) >= req[r].limit
        /\ Finish(r)
     \/ /\ InProgress(s) = {}
        /\ Cardinality(Opened(s)) < req[r].limit
        /\ req' = [req EXCEPT ![r] = [@ EXCEPT !.pc = "start_insert",
                                            !.number = Max(Opened(s) \cup {0}) + 1]]
  /\ UNCHANGED <<rows, setup, now>>

\* Slip: the number is taken at the insert, so the unique index never objects.
InsertNextAttempt(r) ==
  LET s == req[r].student IN
  /\ req[r].pc = "start_insert"
  /\ Cardinality(Opened(s)) < MaxNumber
  /\ RecordQuizAttempt(s, Max(Opened(s) \cup {0}) + 1)
  /\ Finish(r)
  /\ UNCHANGED <<responses, marks, completed, setup, now>>

InsertAttempt(r) ==
  LET s == req[r].student
      n == req[r].number
  IN
  /\ req[r].pc = "start_insert"
  /\ \/ NumberIsFree(s, n) /\ RecordQuizAttempt(s, n)
     \/ ~NumberIsFree(s, n) /\ UNCHANGED attempts   \* isQuizAttemptStartConflict
  /\ Finish(r)
  /\ UNCHANGED <<responses, marks, completed, setup, now>>

(* saveQuizAttemptResponse: nothing rechecks the attempt at the upsert.    *)
BeginSave(r, s, n) ==
  /\ quiz.published
  /\ attempts[s][n].status = "in_progress"
  /\ Begin(r, "save_settings", s, n, quiz, {})

CheckSave(r) ==
  LET late == Expired(req[r].student, req[r].number, Resolved(r).timeLimit) IN
  /\ req[r].pc = "save_settings"
  /\ \/ late /\ Finish(r)
     \/ /\ ~late
        /\ req' = [req EXCEPT ![r] = [@ EXCEPT !.pc = "save_questions", !.quiz = InitialQuiz]]
  /\ UNCHANGED <<rows, setup, now>>

\* The questions are a statement of their own, here and in a submit.
ReadQuestions(r, pc, next) ==
  /\ req[r].pc = pc
  /\ req' = [req EXCEPT ![r] = [@ EXCEPT !.pc = next, !.asked = questions]]
  /\ UNCHANGED <<rows, setup, now>>

ReadToSave(r) == ReadQuestions(r, "save_questions", "save_upsert")

UpsertResponse(r) ==
  /\ req[r].pc = "save_upsert"
  /\ \/ \E q \in req[r].asked, answer \in {"right", "wrong"} :
          RecordQuizAttemptResponse(req[r].student, req[r].number, q, answer)
     \/ UNCHANGED responses                   \* the question is not in this quiz
  /\ Finish(r)
  /\ UNCHANGED <<attempts, marks, completed, setup, now>>

(* submitQuizAttempt: the grade is computed from responses read before     *)
(* the transaction; the update there takes only an in-progress row.        *)
BeginSubmit(r, s, n) ==
  /\ quiz.published
  /\ attempts[s][n].status = "in_progress"
  /\ Begin(r, "submit_settings", s, n, quiz, {})

\* Slip: the deadline is that of the quiz, whatever the student was granted.
CheckSubmitByQuiz(r) ==
  LET e == Effective(req[r].quiz, NoOverride)
      late == IsClosed(e.closesAt) \/ Expired(req[r].student, req[r].number, e.timeLimit)
  IN
  /\ req[r].pc = "submit_settings"
  /\ \/ late /\ Finish(r)
     \/ /\ ~late
        /\ req' = [req EXCEPT ![r] = [@ EXCEPT !.pc = "submit_questions", !.quiz = InitialQuiz]]
  /\ UNCHANGED <<rows, setup, now>>

\* assertQuizSubmitAvailability.
CheckSubmit(r) ==
  LET e == Resolved(r)
      late == IsClosed(e.closesAt) \/ Expired(req[r].student, req[r].number, e.timeLimit)
  IN
  /\ req[r].pc = "submit_settings"
  /\ \/ late /\ Finish(r)
     \/ /\ ~late
        /\ req' = [req EXCEPT ![r] = [@ EXCEPT !.pc = "submit_questions", !.quiz = InitialQuiz]]
  /\ UNCHANGED <<rows, setup, now>>

ReadToGrade(r) == ReadQuestions(r, "submit_questions", "submit_responses")

GradeSubmission(r) ==
  /\ req[r].pc = "submit_responses"
  /\ req' = [req EXCEPT ![r] = [@ EXCEPT !.pc = "submit_commit",
       !.result = Graded(req[r].asked, responses[req[r].student][req[r].number], NoMarks)]]
  /\ UNCHANGED <<rows, setup, now>>

\* Slip: only a submit completes the requirement, not a regrade.
CompleteOnSubmit(r) ==
  completed' = IF /\ req[r].pc = "submit_commit"
                  /\ MeetsThreshold(req[r].result.score, req[r].asked)
               THEN completed \cup {req[r].student} ELSE completed

\* completePassQuizRequirementsForAttempt, in the transaction of the update.
Complete(r) ==
  completed' = IF MeetsThreshold(req[r].result.score, req[r].asked)
               THEN completed \cup {req[r].student} ELSE completed

CommitSubmission(r) ==
  LET s == req[r].student
      n == req[r].number
  IN
  /\ req[r].pc = "submit_commit"
  /\ \/ /\ SubmitIsAccepted(s, n)
        /\ SubmitQuizAttempt(s, n, req[r].result)
        /\ Complete(r)
     \/ /\ ~SubmitIsAccepted(s, n)                  \* isQuizAttemptSubmitConflict
        /\ UNCHANGED <<attempts, completed>>
  /\ Finish(r)
  /\ UNCHANGED <<responses, marks, setup, now>>

(* recordQuizAttemptQuestionGrade, by a grader.                            *)
BeginMark(r, s, n) ==
  /\ Closed(s, n)
  /\ Begin(r, "mark_upsert", s, n, InitialQuiz, questions)

UpsertMark(r) ==
  /\ req[r].pc = "mark_upsert"
  /\ \/ \E q \in req[r].asked \cap ManualQuestions, score \in 0..1 :
          RecordQuizAttemptQuestionGrade(req[r].student, req[r].number, q, score)
     \/ UNCHANGED marks                       \* no such manual question
  /\ Finish(r)
  /\ UNCHANGED <<attempts, responses, completed, setup, now>>

(* regradeQuizAttempt: the update is unconditional.                        *)
BeginRegrade(r, s, n) ==
  /\ Closed(s, n)
  /\ Begin(r, "regrade_responses", s, n, InitialQuiz, questions)

Regrade(r) ==
  LET s == req[r].student
      n == req[r].number
  IN
  /\ req[r].pc = "regrade_responses"
  /\ req' = [req EXCEPT ![r] = [@ EXCEPT !.pc = "regrade_commit",
       !.result = Graded(req[r].asked, responses[s][n], marks[s][n])]]
  /\ UNCHANGED <<rows, setup, now>>

CommitRegrade(r) ==
  /\ req[r].pc = "regrade_commit"
  /\ UpdateQuizAttemptGrade(req[r].student, req[r].number, req[r].result)
  /\ Complete(r)
  /\ Finish(r)
  /\ UNCHANGED <<responses, marks, setup, now>>

(* The environment: staff, the clock, a server that dies.                  *)

UpdateQuiz(row) ==
  /\ row # quiz
  /\ quiz' = row
  /\ UNCHANGED <<rows, questions, override, now, req>>

\* The create, update and delete of overrides.
ChangeOverride(s, o) ==
  /\ o # override[s]
  /\ override' = [override EXCEPT ![s] = o]
  /\ UNCHANGED <<rows, questions, quiz, now, req>>

CreateQuestion(q) ==
  /\ q \notin questions
  /\ questions' = questions \cup {q}
  /\ UNCHANGED <<rows, quiz, override, now, req>>

Tick ==
  /\ now < MaxTime
  /\ now' = now + 1
  /\ UNCHANGED <<rows, setup, req>>

Abandon(r) ==
  /\ req[r].pc # "idle"
  /\ Finish(r)
  /\ UNCHANGED <<rows, setup, now>>

Handle(r) ==
  \/ CheckStart(r) \/ ListAttempts(r) \/ InsertAttempt(r)
  \/ CheckSave(r) \/ ReadToSave(r) \/ UpsertResponse(r)
  \/ CheckSubmit(r) \/ ReadToGrade(r) \/ GradeSubmission(r) \/ CommitSubmission(r)
  \/ UpsertMark(r) \/ Regrade(r) \/ CommitRegrade(r)

Next ==
  \/ \E r \in Requests : Handle(r) \/ Abandon(r)
  \/ \E r \in Requests, s \in Students : BeginStart(r, s)
  \/ \E r \in Requests, s \in Students, n \in Numbers :
       \/ BeginSave(r, s, n) \/ BeginSubmit(r, s, n)
       \/ BeginMark(r, s, n) \/ BeginRegrade(r, s, n)
  \/ \E row \in Quizzes : UpdateQuiz(row)
  \/ \E s \in Students, o \in Overrides : ChangeOverride(s, o)
  \/ \E q \in Questions : CreateQuestion(q)
  \/ Tick

Spec == Init /\ [][Next]_vars

\* The clock runs and a handler in flight goes on unless it is killed; not
\* every submit is killed at the same statement; a student keeps trying to
\* submit an attempt in progress.
Fairness ==
  /\ WF_vars(Tick)
  /\ \A r \in Requests : WF_vars(Handle(r))
  /\ SF_vars(\E r \in Requests : CheckSubmit(r))
  /\ SF_vars(\E r \in Requests : ReadToGrade(r))
  /\ SF_vars(\E r \in Requests : GradeSubmission(r))
  /\ SF_vars(\E r \in Requests : CommitSubmission(r))
  /\ \A s \in Students, n \in Numbers :
       SF_vars(\E r \in Requests : BeginSubmit(r, s, n))

FairSpec == Spec /\ Fairness

-----------------------------------------------------------------------------
(* Properties.                                                             *)

\* Every table and every handler in flight has its type.
TypeOK ==
  /\ attempts \in [Students -> [Numbers -> Rows]]
  /\ responses \in [Students -> [Numbers -> [Questions -> {"none", "right", "wrong"}]]]
  /\ marks \in [Students -> [Numbers -> [ManualQuestions -> {None, 0, 1}]]]
  /\ completed \subseteq Students
  /\ questions \subseteq Questions
  /\ quiz \in Quizzes
  /\ override \in [Students -> Overrides]
  /\ now \in Times
  /\ req \in [Requests -> InFlight]

\* A student never has two attempts in progress, although startQuizAttempt
\* checks it against a list read before its insert and only the unique index
\* on the attempt number protects the insert.
OneInProgress ==
  \A s \in Students : \A m, n \in InProgress(s) : m = n

\* Attempts are numbered 1, 2, 3, ... without a gap, and only the last one
\* may be in progress: concurrent starts neither skip nor reuse a number.
NumbersContiguous ==
  \A s \in Students : \A n \in Opened(s) :
    \A m \in 1..(n - 1) : Closed(s, m)

\* An insert leaves the student with no more attempts than the maxAttempts
\* its handler read, whatever was started or changed since.
WithinLimitRead ==
  [][\A s \in Students :
       Opened(s)' # Opened(s) =>
         \E r \in Requests : /\ req[r].student = s
                            /\ Cardinality(Opened(s)') <= req[r].limit]_vars

\* Whoever has an attempt graded at or above the threshold, against the
\* questions of today, has the pass_quiz requirement completed: the row and
\* the completion progress are never seen apart.
PassingAttemptCompletes ==
  \A s \in Students, n \in Numbers :
    attempts[s][n].status = "graded" /\ MeetsThreshold(attempts[s][n].score, questions)
      => s \in completed

\* A mark exists only for an attempt the student has handed in, whatever
\* happened between the grader's check and the upsert.
MarksOnlyOnClosedAttempts ==
  \A s \in Students, n \in Numbers :
    (\E q \in ManualQuestions : marks[s][n][q] # None) => Closed(s, n)

\* An attempt is handed in once: no later submit, regrade or start reopens
\* it or changes when it was submitted.
SubmittedOnce ==
  [][\A s \in Students, n \in Numbers :
       Closed(s, n) => /\ Closed(s, n)'
                       /\ attempts'[s][n].submittedAt = attempts[s][n].submittedAt]_vars

\* The attempts of a student as a sequential ledger: the racing handlers are
\* indistinguishable from atomic starts and submits.
SequentialLedger ==
  INSTANCE AttemptLedger WITH
    opened <- [s \in Students |-> Cardinality(Opened(s))],
    open   <- [s \in Students |-> InProgress(s) # {}]

ImplementsLedger == SequentialLedger!Spec

\* What the handler's refusal and its test promise: no response is stored for
\* an attempt that has left in_progress.
ResponsesFrozenOnceSubmitted ==
  [][\A s \in Students, n \in Numbers :
       Closed(s, n) => responses'[s][n] = responses[s][n]]_vars

\* A student may hand the attempt n in: the quiz is visible and open to it
\* and the deadline has not passed.
MayHandIn(s, n) ==
  LET e == Effective(quiz, override[s])
  IN  quiz.published /\ ~IsClosed(e.closesAt) /\ ~Expired(s, n, e.timeLimit)

\* An attempt in progress blocks every new start, and past the deadline no
\* submit is taken and nothing sweeps.  But whatever held it up, a student
\* who keeps submitting gets it in once the staff let it: no race with saves,
\* graders or other submits, and no settings read too early, can keep it in
\* progress for ever if from some time on it may be handed in.
BlockedAttemptCloses ==
  \A s \in Students, n \in Numbers :
    <>[]MayHandIn(s, n) => (attempts[s][n].status = "in_progress" ~> Closed(s, n))
=============================================================================
