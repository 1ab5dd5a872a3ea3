------------------------- MODULE QuizAttemptsProofs -------------------------
(***************************************************************************)
(* Proofs about QuizAttempts, for any number of students, handlers,        *)
(* questions and settings, and about QuizRunner, for any number of         *)
(* questions, edits and mishaps.                                           *)
(*                                                                         *)
(* The argument: what a start has read may be stale at its insert, but an  *)
(* attempt that is closed stays closed, so "attempts 1 .. n-1 are closed"  *)
(* is still true then.  If n is free, no later attempt exists either       *)
(* (numbers have no gap), and the new row is the only one in progress.     *)
(***************************************************************************)
EXTENDS QuizAttempts, QuizRunner, FiniteSetTheorems, TLAPS

\* The attempts of a student: numbers 1..k, all but the last one closed.
Ledger(s) ==
  \E k \in 0..MaxNumber : /\ Opened(s) = 1..k
                          /\ \A m \in 1..(k - 1) : Closed(s, m)

\* What a handler in flight may still rely on, whatever happened since it
\* read it.
StartListOK(x) == x.pc = "start_list" => x.limit \in Numbers

StartInsertOK(x) ==
  x.pc = "start_insert" =>
    /\ x.number \in Numbers
    /\ x.number <= x.limit
    /\ \A m \in 1..(x.number - 1) : Closed(x.student, m)

LearnerOK(x) ==
  x.pc \in {"save_settings", "save_questions", "save_upsert", "submit_settings",
            "submit_questions", "submit_responses", "submit_commit"}
    => x.number \in Numbers

GraderOK(x) ==
  x.pc \in {"mark_upsert", "regrade_responses", "regrade_commit"} =>
    x.number \in Numbers /\ Closed(x.student, x.number)

RequestOK(x) == StartListOK(x) /\ StartInsertOK(x) /\ LearnerOK(x) /\ GraderOK(x)

IInv ==
  /\ TypeOK
  /\ \A s \in Students : Ledger(s)
  /\ \A r \in Requests : RequestOK(req[r])
  /\ MarksOnlyOnClosedAttempts

-----------------------------------------------------------------------------
(* Lemmas about the operators.                                             *)

\* The largest number of a ledger of k attempts is k, also when k = 0.
LEMMA MaxOfInterval == ASSUME NEW k \in Nat PROVE Max((1..k) \cup {0}) = k
<1>1. k \in (1..k) \cup {0} /\ \A y \in (1..k) \cup {0} : k >= y
  OBVIOUS
<1>2. \A x \in (1..k) \cup {0} : (\A y \in (1..k) \cup {0} : x >= y) => x = k
  BY <1>1
<1>. QED
  BY <1>1, <1>2 DEF Max

\* The first n numbers are n.
LEMMA PrefixSize == ASSUME NEW n \in Numbers PROVE Cardinality(1..n) = n
<1>1. n \in Int /\ ~(1 > n) /\ n - 1 + 1 = n
  BY QuizAssumption DEF Numbers
<1>. QED
  BY <1>1, FS_Interval

\* There is always a grade, and a score is a natural number or null.
LEMMA GradedType ==
  ASSUME NEW asked \in SUBSET Questions, NEW answers, NEW graded
  PROVE  Graded(asked, answers, graded) \in Results
<1>. DEFINE auto == {q \in asked \cap AutoQuestions : answers[q] = "right"}
            manual == {q \in asked \cap ManualQuestions : graded[q] = 1}
<1>1. auto \in SUBSET Questions /\ manual \in SUBSET Questions
  BY DEF Questions
<1>2. IsFiniteSet(auto) /\ IsFiniteSet(manual)
  BY <1>1, QuizAssumption, FS_Subset
<1>3. Cardinality(auto) \in Nat /\ Cardinality(manual) \in Nat
  BY <1>2, FS_CardinalityType
<1>. HIDE DEF auto, manual
<1>4. Cardinality(auto) + Cardinality(manual) \in Nat
  BY <1>3
<1>. QED
  BY <1>4 DEF Graded, Results, NoResult, None, auto, manual

\* An idle handler has read nothing.
LEMMA IdleType == Idle \in InFlight
  BY QuizAssumption DEF Idle, InFlight, AnyStudent, ControlPoints, NoResult, Results, None

\* A start that is let through takes the number after the last one.
LEMMA NextNumber ==
  ASSUME TypeOK, NEW s \in Students, Ledger(s)
  PROVE  LET n == Max(Opened(s) \cup {0}) + 1 IN
         /\ n \in Nat \ {0}
         /\ Cardinality(Opened(s)) = n - 1
         /\ InProgress(s) = {} => \A m \in 1..(n - 1) : Closed(s, m)
<1>1. PICK k \in 0..MaxNumber : Opened(s) = 1..k /\ \A m \in 1..(k - 1) : Closed(s, m)
  BY DEF Ledger
<1>2. Max(Opened(s) \cup {0}) = k /\ k \in Nat
  BY <1>1, MaxOfInterval, QuizAssumption
<1>3. Cardinality(Opened(s)) = k
  BY <1>1, <1>2, FS_Interval
<1>4. ASSUME InProgress(s) = {}, NEW m \in 1..k PROVE Closed(s, m)
  <2>1. m \in Numbers /\ attempts[s][m].status # "absent"
    BY <1>1, <1>4 DEF Opened
  <2>2. attempts[s][m].status # "in_progress"
    BY <1>4, <2>1 DEF InProgress
  <2>. QED
    BY <2>1, <2>2 DEF TypeOK, Rows, Closed
<1>5. Max(Opened(s) \cup {0}) + 1 = k + 1
  BY <1>2
<1>. QED
  BY <1>2, <1>3, <1>4, <1>5

-----------------------------------------------------------------------------
(* Each step, by what it may write.                                        *)

\* The three statements on quiz_attempt, and the handlers that issue them.
InsertStep(r) == InsertAttempt(r) /\ NumberIsFree(req[r].student, req[r].number)
SubmitStep(r) == CommitSubmission(r) /\ SubmitIsAccepted(req[r].student, req[r].number)

\* Only one of three statements of a handler touches the quiz_attempt table.
LEMMA AttemptsWrittenBy ==
  ASSUME [Next]_vars
  PROVE  \/ UNCHANGED attempts
         \/ \E r \in Requests : InsertStep(r) \/ SubmitStep(r) \/ CommitRegrade(r)
<1>. USE DEF rows, setup
<1>1. ASSUME NEW r \in Requests, Handle(r)
      PROVE  UNCHANGED attempts \/ InsertStep(r) \/ SubmitStep(r) \/ CommitRegrade(r)
  BY <1>1 DEF Handle, CheckStart, ListAttempts, InsertAttempt, CheckSave, ReadToSave,
              UpsertResponse, CheckSubmit, ReadToGrade, ReadQuestions,
              GradeSubmission, CommitSubmission, UpsertMark, Regrade, InsertStep, SubmitStep
<1>2. ASSUME NEW r \in Requests, NEW s \in Students, NEW n \in Numbers,
             BeginSave(r, s, n) \/ BeginSubmit(r, s, n) \/ BeginMark(r, s, n)
               \/ BeginRegrade(r, s, n)
      PROVE  UNCHANGED attempts
  BY <1>2 DEF BeginSave, BeginSubmit, BeginMark, BeginRegrade, Begin
<1>. QED
  BY <1>1, <1>2 DEF Next, Abandon, BeginStart, UpdateQuiz, ChangeOverride, CreateQuestion, Tick,
                    vars, setup

\* A submit or a regrade makes a row of a row.
LEMMA RowUpdates ==
  ASSUME NEW row \in Rows, NEW result \in Results, NEW time \in Times
  PROVE  LET submitted == [row EXCEPT !.status = result.status, !.score = result.score,
                                      !.submittedAt = time]
             regraded == [row EXCEPT !.status = result.status, !.score = result.score]
         IN  /\ submitted \in Rows /\ submitted.status \in {"submitted", "graded"}
             /\ regraded \in Rows /\ regraded.status \in {"submitted", "graded"}
             /\ regraded.submittedAt = row.submittedAt
<1>1. /\ result.status \in {"submitted", "graded"}
      /\ result.score \in Nat \cup {None}
  BY DEF Results
<1>. QED
  BY <1>1 DEF Rows

\* The row a statement writes, and only that row.
LEMMA AttemptsStep ==
  ASSUME IInv, [Next]_vars, ~ UNCHANGED attempts
  PROVE  \E r \in Requests, row \in Rows :
           LET s == req[r].student
               n == req[r].number
           IN  /\ n \in Numbers
               /\ attempts' = [attempts EXCEPT ![s][n] = row]
               /\ \/ /\ InsertStep(r)
                     /\ attempts[s][n].status = "absent"
                     /\ row.status = "in_progress"
                     /\ n <= req[r].limit
                     /\ \A m \in 1..(n - 1) : Closed(s, m)
                  \/ /\ attempts[s][n].status = "in_progress"
                     /\ row.status \in {"submitted", "graded"}
                  \/ /\ Closed(s, n)
                     /\ row.status \in {"submitted", "graded"}
                     /\ row.submittedAt = attempts[s][n].submittedAt
<1>. USE DEF IInv, TypeOK
<1>. PICK r \in Requests : InsertStep(r) \/ SubmitStep(r) \/ CommitRegrade(r)
  BY AttemptsWrittenBy
<1>. DEFINE s == req[r].student
            n == req[r].number
            result == req[r].result
<1>0. /\ s \in Students /\ result \in Results
      /\ RequestOK(req[r]) /\ attempts[s] \in [Numbers -> Rows] /\ now \in Times
  BY DEF InFlight
<1>. HIDE DEF s, n, result
<1>1. CASE InsertStep(r)
  <2>. DEFINE row == [status |-> "in_progress", score |-> None, startedAt |-> now,
                      submittedAt |-> None]
  <2>1. n \in Numbers /\ n <= req[r].limit /\ \A m \in 1..(n - 1) : Closed(s, m)
    BY <1>0, <1>1 DEF RequestOK, StartInsertOK, InsertStep, InsertAttempt, s, n
  <2>2. row \in Rows /\ row.status = "in_progress"
    BY <1>0 DEF Rows, None
  <2>3. attempts' = [attempts EXCEPT ![s][n] = row] /\ attempts[s][n].status = "absent"
    BY <1>1 DEF InsertStep, InsertAttempt, NumberIsFree, RecordQuizAttempt, s, n
  <2>. QED
    BY <1>1, <2>1, <2>2, <2>3 DEF s, n
<1>2. CASE SubmitStep(r)
  <2>. DEFINE row == [attempts[s][n] EXCEPT !.status = result.status, !.score = result.score,
                                            !.submittedAt = now]
  <2>1. n \in Numbers
    BY <1>0, <1>2 DEF RequestOK, LearnerOK, SubmitStep, CommitSubmission, n
  <2>2. row \in Rows /\ row.status \in {"submitted", "graded"}
    BY <1>0, <2>1, RowUpdates
  <2>3. attempts' = [attempts EXCEPT ![s][n] = row] /\ attempts[s][n].status = "in_progress"
    BY <1>0, <1>2, <2>1
    DEF SubmitStep, CommitSubmission, SubmitIsAccepted, SubmitQuizAttempt, s, n, result
  <2>. QED
    BY <2>1, <2>2, <2>3 DEF s, n
<1>3. CASE CommitRegrade(r)
  <2>. DEFINE row == [attempts[s][n] EXCEPT !.status = result.status, !.score = result.score]
  <2>1. n \in Numbers /\ Closed(s, n)
    BY <1>0, <1>3 DEF RequestOK, GraderOK, CommitRegrade, s, n
  <2>2. /\ row \in Rows /\ row.status \in {"submitted", "graded"}
        /\ row.submittedAt = attempts[s][n].submittedAt
    BY <1>0, <2>1, RowUpdates
  <2>3. attempts' = [attempts EXCEPT ![s][n] = row]
    BY <1>0, <1>3, <2>1 DEF CommitRegrade, UpdateQuizAttemptGrade, s, n, result
  <2>. QED
    BY <2>1, <2>2, <2>3 DEF s, n
<1>. QED
  BY <1>1, <1>2, <1>3

-----------------------------------------------------------------------------
(* The parts of the inductive invariant.                                   *)

\* The quiz_attempt table keeps its type.
LEMMA AttemptsType == ASSUME IInv, [Next]_vars
                      PROVE  attempts' \in [Students -> [Numbers -> Rows]]
<1>1. CASE UNCHANGED attempts
  BY <1>1 DEF IInv, TypeOK
<1>2. CASE ~ UNCHANGED attempts
  <2>1. PICK r \in Requests, row \in Rows :
          /\ req[r].number \in Numbers
          /\ attempts' = [attempts EXCEPT ![req[r].student][req[r].number] = row]
    BY <1>2, AttemptsStep
  <2>. QED
    BY <2>1 DEF IInv, TypeOK, InFlight
<1>. QED
  BY <1>1, <1>2

\* Nothing reopens an attempt or moves its submission time.
LEMMA ClosedStays ==
  ASSUME IInv, [Next]_vars, NEW s \in Students, NEW n \in Numbers, Closed(s, n)
  PROVE  Closed(s, n)' /\ attempts'[s][n].submittedAt = attempts[s][n].submittedAt
<1>1. CASE UNCHANGED attempts
  BY <1>1 DEF Closed
<1>2. CASE ~ UNCHANGED attempts
  <2>1. PICK r \in Requests, row \in Rows :
          LET t == req[r].student
              m == req[r].number
          IN  /\ m \in Numbers
              /\ attempts' = [attempts EXCEPT ![t][m] = row]
              /\ \/ attempts[t][m].status \in {"absent", "in_progress"}
                 \/ /\ row.status \in {"submitted", "graded"}
                    /\ row.submittedAt = attempts[t][m].submittedAt
    BY <1>2, AttemptsStep
  <2>2. CASE req[r].student = s /\ req[r].number = n
    <3>1. attempts'[s][n] = row
      BY <2>1, <2>2 DEF IInv, TypeOK
    <3>. QED
      BY <2>1, <2>2, <3>1 DEF Closed
  <2>3. CASE ~ (req[r].student = s /\ req[r].number = n)
    <3>1. attempts'[s][n] = attempts[s][n]
      BY <2>1, <2>3 DEF IInv, TypeOK
    <3>. QED
      BY <3>1 DEF Closed
  <2>. QED
    BY <2>2, <2>3
<1>. QED
  BY <1>1, <1>2

\* The ledger grows by the number its handler holds, which is the next one.
LEMMA LedgerGrows ==
  ASSUME IInv, [Next]_vars, NEW s \in Students, Opened(s)' # Opened(s)
  PROVE  \E r \in Requests :
           /\ req[r].student = s /\ req[r].number \in Numbers /\ req[r].number <= req[r].limit
           /\ Opened(s)' = 1..req[r].number /\ Opened(s) = 1..(req[r].number - 1)
           /\ attempts'[s][req[r].number].status = "in_progress"
           /\ \A m \in 1..(req[r].number - 1) : Closed(s, m)
<1>1. PICK k \in 0..MaxNumber : Opened(s) = 1..k /\ \A m \in 1..(k - 1) : Closed(s, m)
  BY DEF IInv, Ledger
<1>2. PICK r \in Requests, row \in Rows :
        LET t == req[r].student
            n == req[r].number
        IN  /\ n \in Numbers
            /\ attempts' = [attempts EXCEPT ![t][n] = row]
            /\ \/ /\ attempts[t][n].status = "absent"
                  /\ row.status = "in_progress"
                  /\ n <= req[r].limit
                  /\ \A m \in 1..(n - 1) : Closed(t, m)
               \/ /\ attempts[t][n].status # "absent"
                  /\ row.status # "absent"
  BY AttemptsStep DEF Opened, Closed
<1>. DEFINE n == req[r].number
<1>3. /\ \A m \in Numbers : m # n => attempts'[s][m] = attempts[s][m]
      /\ req[r].student = s => attempts'[s][n] = row
      /\ req[r].student # s => attempts'[s] = attempts[s]
  BY <1>2 DEF IInv, TypeOK
<1>4. req[r].student = s /\ attempts[s][n].status = "absent" /\ row.status = "in_progress"
  BY <1>2, <1>3 DEF Opened
<1>5. Opened(s)' = (1..k) \cup {n} /\ n \notin 1..k
  BY <1>1, <1>2, <1>3, <1>4 DEF Opened
<1>6. /\ n \in Numbers /\ n <= req[r].limit /\ \A m \in 1..(n - 1) : Closed(s, m)
      /\ attempts'[s][n].status = "in_progress"
  BY <1>2, <1>3, <1>4
<1>. HIDE DEF n
<1>7. n \in Nat /\ n >= 1 /\ n <= MaxNumber /\ MaxNumber \in Nat /\ k \in Nat
  BY <1>6, QuizAssumption DEF Numbers
<1>8. \A m \in 1..(n - 1) : m \in 1..k
  BY <1>1, <1>6, <1>7 DEF Closed, Opened, Numbers
<1>9. n = k + 1
  <2>1. n > k
    BY <1>5, <1>7
  <2>2. CASE n > k + 1
    BY <1>7, <1>8, <2>2
  <2>. QED
    BY <1>7, <2>1, <2>2
<1>10. Opened(s)' = 1..n /\ Opened(s) = 1..(n - 1)
  BY <1>1, <1>5, <1>7, <1>9
<1>. QED
  BY <1>4, <1>6, <1>10 DEF n

\* The ledger stays a gapless list of attempts, all but the last one closed.
LEMMA LedgerStep ==
  ASSUME IInv, [Next]_vars, NEW s \in Students
  PROVE  Ledger(s)'
<1>1. CASE Opened(s)' = Opened(s)
  <2>1. PICK k \in 0..MaxNumber : Opened(s) = 1..k /\ \A m \in 1..(k - 1) : Closed(s, m)
    BY DEF IInv, Ledger
  <2>2. \A m \in 1..(k - 1) : m \in Numbers
    BY QuizAssumption DEF Numbers
  <2>3. \A m \in 1..(k - 1) : Closed(s, m)'
    BY <2>1, <2>2, ClosedStays
  <2>. QED
    BY <1>1, <2>1, <2>3 DEF Ledger
<1>2. CASE Opened(s)' # Opened(s)
  <2>1. PICK r \in Requests :
          /\ req[r].number \in Numbers
          /\ Opened(s)' = 1..req[r].number
          /\ \A m \in 1..(req[r].number - 1) : Closed(s, m)
    BY <1>2, LedgerGrows
  <2>. DEFINE n == req[r].number
  <2>2. n \in 0..MaxNumber /\ \A m \in 1..(n - 1) : m \in Numbers
    BY <2>1, QuizAssumption DEF Numbers
  <2>3. \A m \in 1..(n - 1) : Closed(s, m)'
    BY <2>1, <2>2, ClosedStays
  <2>. QED
    BY <2>1, <2>2, <2>3 DEF Ledger
<1>. QED
  BY <1>1, <1>2

\* What a step writes into the handler it belongs to: a request that is well
\* formed against the rows of that moment.
Written(r) ==
  \E x \in InFlight : /\ req' = [req EXCEPT ![r] = x]
                      /\ x = Idle \/ (UNCHANGED attempts /\ RequestOK(x))

\* The limit a start works by, of the row it has read and the overrides of
\* the moment, is one.
LEMMA LimitType ==
  ASSUME IInv, NEW r \in Requests
  PROVE  Resolved(r).maxAttempts \in Numbers /\ Resolved(r).maxAttempts \in Nat
<1>. DEFINE q == req[r].quiz
            o == override[req[r].student]
<1>1. q \in QuizRows /\ o \in EffectiveSettings
  <2>1. req[r] \in InFlight /\ override \in [Students -> Overrides]
    BY DEF IInv, TypeOK
  <2>. QED
    BY <2>1, QuizAssumption DEF InFlight
<1>2. q.maxAttempts \in Numbers /\ o.maxAttempts \in Numbers
  BY <1>1 DEF QuizRows, EffectiveSettings
<1>3. \A a, b \in Numbers : Max({a, b}) \in Numbers
  <2>1. ASSUME NEW a \in Numbers, NEW b \in Numbers PROVE Max({a, b}) \in Numbers
    <3>1. \E m \in {a, b} : \A k \in {a, b} : m >= k
      BY DEF Numbers
    <3>. QED
      BY <3>1, Zenon DEF Max
  <2>. QED
    BY <2>1
<1>4. Resolved(r).maxAttempts = Max({q.maxAttempts, o.maxAttempts})
  BY DEF Resolved, Effective
<1>5. Numbers \subseteq Nat
  BY DEF Numbers
<1>. QED
  BY <1>2, <1>3, <1>4, <1>5

\* A handler that starts does not touch another one.
LEMMA WrittenByBegin ==
  ASSUME IInv, NEW r \in Requests, NEW s \in Students, NEW n \in Numbers,
         \/ BeginStart(r, s)
         \/ BeginSave(r, s, n) \/ BeginSubmit(r, s, n)
         \/ BeginMark(r, s, n) \/ BeginRegrade(r, s, n)
  PROVE  Written(r)
<1>. USE DEF RequestOK, StartListOK, StartInsertOK, LearnerOK, GraderOK, rows, setup, ControlPoints
<1>0. /\ Idle \in InFlight /\ NoResult \in Results /\ n \in Nat
      /\ questions \in SUBSET Questions /\ quiz \in Quizzes /\ InitialQuiz \in Quizzes
  BY IdleType, QuizAssumption DEF IInv, TypeOK, Numbers, NoResult, Results, None
<1>1. CASE BeginStart(r, s)
  <2>. DEFINE x == [Idle EXCEPT !.pc = "start_settings", !.student = s, !.quiz = quiz]
  <2>1. x \in InFlight /\ x.pc = "start_settings"
    BY <1>0 DEF InFlight
  <2>2. req' = [req EXCEPT ![r] = x] /\ UNCHANGED attempts
    BY <1>1 DEF BeginStart
  <2>. HIDE DEF x
  <2>. QED
    BY <2>1, <2>2 DEF Written
<1>2. ASSUME NEW pc \in {"save_settings", "submit_settings", "mark_upsert", "regrade_responses"},
             NEW row \in Quizzes, NEW asked \in SUBSET Questions,
             Begin(r, pc, s, n, row, asked),
             pc \in {"mark_upsert", "regrade_responses"} => Closed(s, n)
      PROVE  Written(r)
  <2>. DEFINE x == [Idle EXCEPT !.pc = pc, !.student = s, !.number = n, !.quiz = row,
                                !.asked = asked]
  <2>1. x \in InFlight /\ x.pc = pc /\ x.student = s /\ x.number = n
    BY <1>0 DEF InFlight
  <2>2. req' = [req EXCEPT ![r] = x] /\ UNCHANGED attempts
    BY <1>2 DEF Begin
  <2>. HIDE DEF x
  <2>. QED
    BY <1>2, <2>1, <2>2 DEF Written
<1>. QED
  BY <1>0, <1>1, <1>2 DEF BeginSave, BeginSubmit, BeginMark, BeginRegrade

\* What a step of a handler leaves it with meets the facts its next step needs.
LEMMA WrittenByHandle ==
  ASSUME IInv, NEW r \in Requests, Handle(r) \/ Abandon(r)
  PROVE  Written(r)
<1>. USE DEF RequestOK, StartListOK, StartInsertOK, LearnerOK, GraderOK, rows, setup, ControlPoints
<1>0. /\ Idle \in InFlight /\ req[r] \in InFlight /\ RequestOK(req[r])
      /\ req[r].student \in Students /\ req[r].asked \in SUBSET Questions
      /\ questions \in SUBSET Questions /\ InitialQuiz \in Quizzes
      /\ \A answers, graded : Graded(req[r].asked, answers, graded) \in Results
  <2>1. Idle \in InFlight /\ req[r] \in InFlight /\ questions \in SUBSET Questions
    BY IdleType DEF IInv, TypeOK
  <2>2. req[r].student \in Students /\ req[r].asked \in SUBSET Questions
    BY <2>1 DEF InFlight
  <2>. QED
    BY <2>1, <2>2, GradedType, QuizAssumption DEF IInv
<1>1. CASE Finish(r)
  BY <1>0, <1>1 DEF Finish, Written
<1>2. ASSUME NEW x \in InFlight, req' = [req EXCEPT ![r] = x], UNCHANGED attempts,
             x.number = req[r].number, x.student = req[r].student,
             \/ /\ x.pc \in {"save_questions", "save_upsert", "submit_questions",
                             "submit_responses", "submit_commit"}
                /\ req[r].pc \in {"save_settings", "save_questions", "submit_settings",
                                  "submit_questions", "submit_responses"}
             \/ x.pc = "regrade_commit" /\ req[r].pc = "regrade_responses"
      PROVE  Written(r)
  BY <1>0, <1>2 DEF Written
<1>3. CASE ListAttempts(r) /\ ~ Finish(r)
  <2>. DEFINE s == req[r].student
              n == Max(Opened(s) \cup {0}) + 1
              x == [req[r] EXCEPT !.pc = "start_insert", !.number = n]
  <2>1. s \in Students /\ Ledger(s) /\ req[r].limit \in Numbers
    BY <1>0, <1>3 DEF IInv, ListAttempts
  <2>2. /\ n \in Nat \ {0}
        /\ Cardinality(Opened(s)) = n - 1
        /\ InProgress(s) = {} => \A m \in 1..(n - 1) : Closed(s, m)
    BY <2>1, NextNumber DEF IInv
  <2>3. /\ InProgress(s) = {} /\ Cardinality(Opened(s)) < req[r].limit
        /\ req' = [req EXCEPT ![r] = x]
        /\ UNCHANGED attempts
    BY <1>3 DEF ListAttempts
  <2>. HIDE DEF n
  <2>4. n \in Numbers /\ n <= req[r].limit
    BY <2>1, <2>2, <2>3, QuizAssumption DEF Numbers
  <2>5. /\ x \in InFlight /\ x.pc = "start_insert" /\ x.number = n /\ x.student = s
        /\ x.limit = req[r].limit
    BY <1>0, <2>2 DEF InFlight
  <2>. HIDE DEF x
  <2>. QED
    BY <2>2, <2>3, <2>4, <2>5 DEF Written
<1>4. CASE CheckSave(r) /\ ~ Finish(r)
  <2>. DEFINE x == [req[r] EXCEPT !.pc = "save_questions", !.quiz = InitialQuiz]
  <2>1. req' = [req EXCEPT ![r] = x] /\ UNCHANGED attempts /\ req[r].pc = "save_settings"
    BY <1>4 DEF CheckSave
  <2>2. /\ x \in InFlight /\ x.pc = "save_questions"
        /\ x.number = req[r].number /\ x.student = req[r].student
    BY <1>0 DEF InFlight
  <2>. QED
    BY <1>2, <2>1, <2>2
<1>5. CASE CheckSubmit(r) /\ ~ Finish(r)
  <2>. DEFINE x == [req[r] EXCEPT !.pc = "submit_questions", !.quiz = InitialQuiz]
  <2>1. req' = [req EXCEPT ![r] = x] /\ UNCHANGED attempts /\ req[r].pc = "submit_settings"
    BY <1>5 DEF CheckSubmit
  <2>2. /\ x \in InFlight /\ x.pc = "submit_questions"
        /\ x.number = req[r].number /\ x.student = req[r].student
    BY <1>0 DEF InFlight
  <2>. QED
    BY <1>2, <2>1, <2>2
<1>9. CASE ReadToSave(r)
  <2>. DEFINE x == [req[r] EXCEPT !.pc = "save_upsert", !.asked = questions]
  <2>1. req' = [req EXCEPT ![r] = x] /\ UNCHANGED attempts /\ req[r].pc = "save_questions"
    BY <1>9 DEF ReadToSave, ReadQuestions
  <2>2. /\ x \in InFlight /\ x.pc = "save_upsert"
        /\ x.number = req[r].number /\ x.student = req[r].student
    BY <1>0 DEF InFlight
  <2>. QED
    BY <1>2, <2>1, <2>2
<1>10. CASE ReadToGrade(r)
  <2>. DEFINE x == [req[r] EXCEPT !.pc = "submit_responses", !.asked = questions]
  <2>1. req' = [req EXCEPT ![r] = x] /\ UNCHANGED attempts /\ req[r].pc = "submit_questions"
    BY <1>10 DEF ReadToGrade, ReadQuestions
  <2>2. /\ x \in InFlight /\ x.pc = "submit_responses"
        /\ x.number = req[r].number /\ x.student = req[r].student
    BY <1>0 DEF InFlight
  <2>. QED
    BY <1>2, <2>1, <2>2
<1>11. CASE CheckStart(r) /\ ~ Finish(r)
  <2>. DEFINE e == Resolved(r)
              x == [req[r] EXCEPT !.pc = "start_list", !.quiz = InitialQuiz,
                                  !.limit = e.maxAttempts]
  <2>1. req' = [req EXCEPT ![r] = x] /\ UNCHANGED attempts
    BY <1>11 DEF CheckStart
  <2>2. e.maxAttempts \in Numbers /\ e.maxAttempts \in Nat
    BY <1>0, LimitType
  <2>. HIDE DEF e
  <2>3. x \in InFlight /\ x.pc = "start_list" /\ x.limit = e.maxAttempts
    BY <1>0, <2>2 DEF InFlight
  <2>. HIDE DEF x
  <2>. QED
    BY <2>1, <2>2, <2>3 DEF Written
<1>6. CASE GradeSubmission(r)
  <2>. DEFINE result == Graded(req[r].asked, responses[req[r].student][req[r].number], NoMarks)
              x == [req[r] EXCEPT !.pc = "submit_commit", !.result = result]
  <2>1. req' = [req EXCEPT ![r] = x] /\ UNCHANGED attempts /\ req[r].pc = "submit_responses"
    BY <1>6 DEF GradeSubmission
  <2>2. /\ x \in InFlight /\ x.pc = "submit_commit"
        /\ x.number = req[r].number /\ x.student = req[r].student
    BY <1>0 DEF InFlight
  <2>. QED
    BY <1>2, <2>1, <2>2
<1>7. CASE Regrade(r)
  <2>. DEFINE result == Graded(req[r].asked, responses[req[r].student][req[r].number],
                               marks[req[r].student][req[r].number])
              x == [req[r] EXCEPT !.pc = "regrade_commit", !.result = result]
  <2>1. req' = [req EXCEPT ![r] = x] /\ UNCHANGED attempts /\ req[r].pc = "regrade_responses"
    BY <1>7 DEF Regrade
  <2>2. /\ x \in InFlight /\ x.pc = "regrade_commit"
        /\ x.number = req[r].number /\ x.student = req[r].student
    BY <1>0 DEF InFlight
  <2>. QED
    BY <1>2, <2>1, <2>2
<1>8. CASE InsertAttempt(r) \/ UpsertResponse(r) \/ CommitSubmission(r) \/ UpsertMark(r)
             \/ CommitRegrade(r) \/ Abandon(r)
  BY <1>1, <1>8 DEF InsertAttempt, UpsertResponse, CommitSubmission, UpsertMark,
                    CommitRegrade, Abandon
<1>. QED
  BY <1>1, <1>3, <1>4, <1>5, <1>6, <1>7, <1>8, <1>9, <1>10, <1>11 DEF Handle

\* A handler that has not moved still reads true: what it relies on is that
\* closed attempts stay closed.
LEMMA RequestOKStays ==
  ASSUME IInv, [Next]_vars, NEW x \in InFlight, RequestOK(x)
  PROVE  RequestOK(x)'
<1>. USE DEF RequestOK, StartListOK, StartInsertOK, LearnerOK, GraderOK
<1>0. x.student \in Students
  BY DEF InFlight
<1>1. StartListOK(x)' /\ LearnerOK(x)'
  OBVIOUS
<1>2. StartInsertOK(x)'
  <2>1. ASSUME x.pc = "start_insert", NEW m \in 1..(x.number - 1) PROVE Closed(x.student, m)'
    <3>1. m \in Numbers /\ Closed(x.student, m)
      BY <2>1, QuizAssumption DEF Numbers
    <3>. QED
      BY <1>0, <3>1, ClosedStays
  <2>. QED
    BY <2>1
<1>3. GraderOK(x)'
  <2>1. ASSUME x.number \in Numbers, Closed(x.student, x.number)
        PROVE  Closed(x.student, x.number)'
    BY <1>0, <2>1, ClosedStays
  <2>. QED
    BY <2>1
<1>. QED
  BY <1>1, <1>2, <1>3

\* Every handler in flight keeps the facts its next step relies on.
LEMMA RequestsStep ==
  ASSUME IInv, [Next]_vars
  PROVE  req' \in [Requests -> InFlight] /\ \A r \in Requests : RequestOK(req[r])'
<1>0. req \in [Requests -> InFlight] /\ \A r \in Requests : RequestOK(req[r])
  BY DEF IInv, TypeOK
<1>1. UNCHANGED req \/ \E r \in Requests : Written(r)
  <2>1. ASSUME NEW r \in Requests, NEW s \in Students, BeginStart(r, s) PROVE Written(r)
    <3>1. 1 \in Numbers
      BY QuizAssumption DEF Numbers
    <3>. QED
      BY <2>1, <3>1, WrittenByBegin
  <2>. QED
    BY <2>1, WrittenByBegin, WrittenByHandle
    DEF Next, UpdateQuiz, ChangeOverride, CreateQuestion, Tick,
                    vars, setup
<1>2. CASE UNCHANGED req
  BY <1>0, <1>2, RequestOKStays
<1>3. CASE \E r \in Requests : Written(r)
  <2>1. PICK r \in Requests, x \in InFlight :
          /\ req' = [req EXCEPT ![r] = x]
          /\ x = Idle \/ (UNCHANGED attempts /\ RequestOK(x))
    BY <1>3 DEF Written
  <2>2. RequestOK(x)
    BY <2>1 DEF RequestOK, StartListOK, StartInsertOK, LearnerOK, GraderOK, Idle
  <2>3. RequestOK(x)'
    BY <2>2, RequestOKStays
  <2>4. ASSUME NEW q \in Requests PROVE RequestOK(req[q])'
    <3>1. CASE q = r
      BY <1>0, <2>1, <2>3, <3>1
    <3>2. CASE q # r
      <4>1. req'[q] = req[q] /\ req[q] \in InFlight
        BY <1>0, <2>1, <3>2
      <4>. QED
        BY <1>0, <4>1, RequestOKStays
    <3>. QED
      BY <3>1, <3>2
  <2>. QED
    BY <1>0, <2>1, <2>4
<1>. QED
  BY <1>1, <1>2, <1>3

\* The tables beside quiz_attempt keep their types.
LEMMA TablesStep ==
  ASSUME IInv, [Next]_vars
  PROVE  /\ responses' \in [Students -> [Numbers -> [Questions -> {"none", "right", "wrong"}]]]
         /\ marks' \in [Students -> [Numbers -> [ManualQuestions -> {None, 0, 1}]]]
         /\ completed' \subseteq Students
         /\ questions' \subseteq Questions
         /\ quiz' \in Quizzes
         /\ override' \in [Students -> Overrides]
         /\ now' \in Times
<1>. USE DEF IInv, TypeOK, rows, setup
<1>1. ASSUME NEW r \in Requests, Handle(r)
      PROVE  /\ responses' \in [Students -> [Numbers -> [Questions -> {"none", "right", "wrong"}]]]
             /\ marks' \in [Students -> [Numbers -> [ManualQuestions -> {None, 0, 1}]]]
             /\ completed' \subseteq Students
             /\ UNCHANGED <<setup, now>>
  <2>0. req[r].student \in Students
    BY DEF InFlight
  <2>1. CASE UpsertResponse(r)
    <3>. DEFINE s == req[r].student
                n == req[r].number
    <3>1. n \in Numbers /\ req[r].asked \in SUBSET Questions
      BY <2>1 DEF RequestOK, LearnerOK, UpsertResponse, InFlight
    <3>2. CASE UNCHANGED responses
      BY <2>1, <3>2 DEF UpsertResponse
    <3>3. CASE ~ UNCHANGED responses
      <4>1. PICK q \in Questions, answer \in {"none", "right", "wrong"} :
              responses' = [responses EXCEPT ![s][n][q] = answer]
        BY <2>1, <3>1, <3>3 DEF UpsertResponse, RecordQuizAttemptResponse
      <4>2. [responses[s][n] EXCEPT ![q] = answer] \in [Questions -> {"none", "right", "wrong"}]
        BY <2>0, <3>1
      <4>. HIDE DEF s, n
      <4>3. responses' \in [Students -> [Numbers -> [Questions -> {"none", "right", "wrong"}]]]
        BY <4>1, <4>2
      <4>. QED
        BY <2>1, <4>3 DEF UpsertResponse
    <3>. QED
      BY <3>2, <3>3
  <2>2. CASE UpsertMark(r)
    <3>. DEFINE s == req[r].student
                n == req[r].number
    <3>1. n \in Numbers
      BY <2>2 DEF RequestOK, GraderOK, UpsertMark
    <3>2. CASE UNCHANGED marks
      BY <2>2, <3>2 DEF UpsertMark
    <3>3. CASE ~ UNCHANGED marks
      <4>1. PICK q \in ManualQuestions, score \in 0..1 :
              marks' = [marks EXCEPT ![s][n][q] = score]
        BY <2>2, <3>3 DEF UpsertMark, RecordQuizAttemptQuestionGrade
      <4>2. [marks[s][n] EXCEPT ![q] = score] \in [ManualQuestions -> {None, 0, 1}]
        BY <2>0, <3>1
      <4>. HIDE DEF s, n
      <4>3. marks' \in [Students -> [Numbers -> [ManualQuestions -> {None, 0, 1}]]]
        BY <4>1, <4>2
      <4>. QED
        BY <2>2, <4>3 DEF UpsertMark
    <3>. QED
      BY <3>2, <3>3
  <2>3. CASE CommitSubmission(r) \/ CommitRegrade(r)
    BY <2>0, <2>3 DEF CommitSubmission, CommitRegrade, Complete
  <2>4. CASE CheckStart(r) \/ ListAttempts(r) \/ InsertAttempt(r) \/ CheckSave(r)
               \/ ReadToSave(r) \/ CheckSubmit(r) \/ ReadToGrade(r) \/ GradeSubmission(r)
               \/ Regrade(r)
    BY <2>4 DEF CheckStart, ListAttempts, InsertAttempt, CheckSave, CheckSubmit, ReadToSave,
                ReadToGrade, ReadQuestions, GradeSubmission, Regrade
  <2>. QED
    BY <1>1, <2>1, <2>2, <2>3, <2>4 DEF Handle
<1>2. ASSUME NEW r \in Requests, NEW s \in Students, NEW n \in Numbers,
             BeginSave(r, s, n) \/ BeginSubmit(r, s, n) \/ BeginMark(r, s, n)
               \/ BeginRegrade(r, s, n)
      PROVE  UNCHANGED <<rows, setup, now>>
  BY <1>2 DEF BeginSave, BeginSubmit, BeginMark, BeginRegrade, Begin
<1>3. /\ \A row \in Quizzes :
           UpdateQuiz(row) => quiz' \in Quizzes /\ UNCHANGED <<rows, questions, override, now>>
      /\ \A s \in Students, o \in Overrides :
           ChangeOverride(s, o) =>
             override' \in [Students -> Overrides] /\ UNCHANGED <<rows, questions, quiz, now>>
  BY DEF UpdateQuiz, ChangeOverride
<1>4. ASSUME Tick PROVE now' \in Times /\ UNCHANGED <<rows, setup>>
  BY <1>4, QuizAssumption DEF Tick, Times
<1>. QED
  BY <1>1, <1>2, <1>3, <1>4 DEF Next, Abandon, BeginStart, CreateQuestion, vars

\* A mark is written by a handler whose attempt was closed, and still is.
LEMMA MarksStep ==
  ASSUME IInv, [Next]_vars
  PROVE  MarksOnlyOnClosedAttempts'
<1>. SUFFICES ASSUME NEW s \in Students, NEW n \in Numbers,
                     \E q \in ManualQuestions : marks'[s][n][q] # None
              PROVE  Closed(s, n)'
  BY DEF MarksOnlyOnClosedAttempts
<1>1. CASE \E q \in ManualQuestions : marks[s][n][q] # None
  BY <1>1, ClosedStays DEF IInv, MarksOnlyOnClosedAttempts
<1>2. CASE ~ \E q \in ManualQuestions : marks[s][n][q] # None
  <2>1. ~ UNCHANGED marks
    BY <1>2
  <2>2. PICK r \in Requests : UpsertMark(r)
    <3>1. ASSUME NEW r \in Requests, Handle(r) PROVE UpsertMark(r)
      BY <2>1, <3>1 DEF Handle, CheckStart, ListAttempts, InsertAttempt, CheckSave, ReadToSave,
                 ReadToGrade, ReadQuestions, UpsertResponse,
         CheckSubmit, GradeSubmission, CommitSubmission, Regrade, CommitRegrade, rows
    <3>2. ASSUME NEW r \in Requests, NEW t \in Students, NEW m \in Numbers,
                 BeginSave(r, t, m) \/ BeginSubmit(r, t, m) \/ BeginMark(r, t, m)
                   \/ BeginRegrade(r, t, m)
          PROVE  FALSE
      BY <2>1, <3>2 DEF BeginSave, BeginSubmit, BeginMark, BeginRegrade, Begin, rows
    <3>. QED
      BY <2>1, <3>1, <3>2
      DEF Next, Abandon, BeginStart, UpdateQuiz, ChangeOverride, CreateQuestion, Tick,
                    vars, setup, rows
  <2>3. req[r].number \in Numbers /\ Closed(req[r].student, req[r].number)
    BY <2>2 DEF IInv, RequestOK, GraderOK, UpsertMark
  <2>4. req[r].student = s /\ req[r].number = n
    <3>1. PICK q \in ManualQuestions, score \in 0..1 :
            marks' = [marks EXCEPT ![req[r].student][req[r].number][q] = score]
      BY <2>1, <2>2 DEF UpsertMark, RecordQuizAttemptQuestionGrade
    <3>2. marks \in [Students -> [Numbers -> [ManualQuestions -> {None, 0, 1}]]]
      BY DEF IInv, TypeOK
    <3>3. ~ (req[r].student = s /\ req[r].number = n) => marks'[s][n] = marks[s][n]
      BY <3>1, <3>2
    <3>. QED
      BY <1>2, <3>3
  <2>. QED
    BY <2>3, <2>4, ClosedStays
<1>. QED
  BY <1>1, <1>2

-----------------------------------------------------------------------------
(* The theorems.                                                           *)

\* The empty tables satisfy the inductive invariant.
LEMMA InitIInv == Init => IInv
<1>. SUFFICES ASSUME Init PROVE IInv
  OBVIOUS
<1>1. NoRow \in Rows /\ Idle \in InFlight
  BY IdleType DEF NoRow, Rows, None
<1>2. TypeOK
  BY <1>1, QuizAssumption DEF Init, TypeOK, NoMarks, Times
<1>3. ASSUME NEW s \in Students PROVE Ledger(s)
  <2>1. Opened(s) = {}
    BY <1>1 DEF Init, Opened, NoRow
  <2>2. 0 \in 0..MaxNumber /\ 1..0 = {} /\ 1..(0 - 1) = {}
    BY QuizAssumption
  <2>. QED
    BY <2>1, <2>2 DEF Ledger
<1>4. \A r \in Requests : RequestOK(req[r])
  BY DEF Init, Idle, RequestOK, StartListOK, StartInsertOK, LearnerOK, GraderOK
<1>5. MarksOnlyOnClosedAttempts
  BY DEF Init, MarksOnlyOnClosedAttempts, NoMarks
<1>. QED
  BY <1>2, <1>3, <1>4, <1>5 DEF IInv

\* Every step of a handler, the staff, the clock or a crash preserves it.
LEMMA StepIInv == IInv /\ [Next]_vars => IInv'
<1>. SUFFICES ASSUME IInv, [Next]_vars PROVE IInv'
  OBVIOUS
<1>1. TypeOK'
  BY AttemptsType, TablesStep, RequestsStep DEF TypeOK
<1>. QED
  BY <1>1, LedgerStep, RequestsStep, MarksStep DEF IInv

\* The inductive invariant holds in every state of every interleaving of
\* handlers, staff, clock and server deaths.
THEOREM Invariance == Spec => []IInv
<1>. QED
  BY InitIInv, StepIInv, PTL DEF Spec

\* Every table and every handler in flight keeps its type, whatever the
\* interleaving of handlers, staff and server deaths.
THEOREM TypeCorrect == Spec => []TypeOK
<1>1. IInv => TypeOK
  BY DEF IInv
<1>. QED
  BY <1>1, Invariance, PTL

\* startQuizAttempt numbers the attempts of a student 1, 2, 3, ... and never
\* starts one before the one before it is closed.
THEOREM NumberingCorrect == Spec => []NumbersContiguous
<1>1. IInv => NumbersContiguous
  BY DEF IInv, Ledger, NumbersContiguous
<1>. QED
  BY <1>1, Invariance, PTL

\* A student never has two attempts in progress.
THEOREM ExclusionCorrect == Spec => []OneInProgress
<1>1. IInv => OneInProgress
  <2>. SUFFICES ASSUME IInv, NEW s \in Students,
                       NEW m \in InProgress(s), NEW n \in InProgress(s), m < n
                PROVE  FALSE
    BY QuizAssumption DEF OneInProgress, InProgress, Numbers
  <2>1. m \in 1..(n - 1) /\ n \in Opened(s) /\ ~ Closed(s, m)
    BY QuizAssumption DEF InProgress, Opened, Closed, Numbers
  <2>. QED
    BY <2>1 DEF IInv, Ledger
<1>. QED
  BY <1>1, Invariance, PTL

\* A mark never reaches an attempt the student still works on.
THEOREM MarksCorrect == Spec => []MarksOnlyOnClosedAttempts
<1>1. IInv => MarksOnlyOnClosedAttempts
  BY DEF IInv
<1>. QED
  BY <1>1, Invariance, PTL

\* An attempt is submitted at most once, and nothing reopens it.
THEOREM SubmissionCorrect == Spec => SubmittedOnce
<1>1. IInv /\ [Next]_vars =>
        [\A s \in Students, n \in Numbers :
           Closed(s, n) => /\ Closed(s, n)'
                           /\ attempts'[s][n].submittedAt = attempts[s][n].submittedAt]_vars
  BY ClosedStays
<1>. QED
  BY <1>1, Invariance, PTL DEF Spec, SubmittedOnce

\* The maxAttempts a start has read bounds the attempts its insert leaves,
\* although other starts and the staff have acted since.
THEOREM LimitCorrect == Spec => WithinLimitRead
<1>1. IInv /\ [Next]_vars =>
        [\A s \in Students :
           Opened(s)' # Opened(s) =>
             \E r \in Requests : /\ req[r].student = s
                                /\ Cardinality(Opened(s)') <= req[r].limit]_vars
  <2>. SUFFICES ASSUME IInv, [Next]_vars, NEW s \in Students, Opened(s)' # Opened(s)
                PROVE  \E r \in Requests : /\ req[r].student = s
                                           /\ Cardinality(Opened(s)') <= req[r].limit
    OBVIOUS
  <2>1. PICK r \in Requests :
          /\ req[r].student = s /\ req[r].number \in Numbers /\ req[r].number <= req[r].limit
          /\ Opened(s)' = 1..req[r].number
    BY LedgerGrows
  <2>2. Cardinality(Opened(s)') = req[r].number
    BY <2>1, PrefixSize
  <2>. QED
    BY <2>1, <2>2
<1>. QED
  BY <1>1, Invariance, PTL DEF Spec, WithinLimitRead

-----------------------------------------------------------------------------
(* The handlers implement the sequential ledger.                           *)

\* An insert is a start of the ledger: nothing was open, the next number is
\* taken, and it is open now.
LEMMA InsertIsStart ==
  ASSUME IInv, [Next]_vars, NEW s \in Students, Opened(s)' # Opened(s)
  PROVE  /\ InProgress(s) = {} /\ InProgress(s)' # {}
         /\ Cardinality(Opened(s)) \in Nat /\ Cardinality(Opened(s)) < MaxNumber
         /\ Cardinality(Opened(s)') = Cardinality(Opened(s)) + 1
<1>1. PICK r \in Requests :
        /\ req[r].number \in Numbers
        /\ Opened(s)' = 1..req[r].number /\ Opened(s) = 1..(req[r].number - 1)
        /\ attempts'[s][req[r].number].status = "in_progress"
        /\ \A m \in 1..(req[r].number - 1) : Closed(s, m)
  BY LedgerGrows
<1>. DEFINE n == req[r].number
<1>2. n \in Nat /\ n - 1 \in Nat /\ n - 1 < MaxNumber
  BY <1>1, QuizAssumption DEF Numbers
<1>3. Cardinality(Opened(s)') = n /\ Cardinality(Opened(s)) = n - 1
  <2>1. \A k \in Nat : Cardinality(1..k) = k
    BY FS_Interval
  <2>. QED
    BY <1>1, <1>2, <2>1
<1>4. InProgress(s) = {}
  <2>1. InProgress(s) \subseteq Opened(s)
    BY DEF InProgress, Opened
  <2>. QED
    BY <1>1, <2>1 DEF InProgress, Closed
<1>5. n \in InProgress(s)'
  BY <1>1 DEF InProgress
<1>. QED
  BY <1>2, <1>3, <1>4, <1>5

\* A step without an insert never opens an attempt.
LEMMA NothingReopens ==
  ASSUME IInv, [Next]_vars, NEW s \in Students, Opened(s)' = Opened(s), InProgress(s)' # {}
  PROVE  InProgress(s) # {}
<1>1. PICK n \in Numbers : attempts'[s][n].status = "in_progress"
  BY DEF InProgress
<1>2. n \in Opened(s)
  BY <1>1 DEF Opened
<1>3. ~ Closed(s, n)
  BY <1>1, ClosedStays DEF Closed
<1>4. attempts[s][n] \in Rows
  BY DEF IInv, TypeOK
<1>5. attempts[s][n].status = "in_progress"
  BY <1>2, <1>3, <1>4 DEF Opened, Closed, Rows
<1>. QED
  BY <1>5 DEF InProgress

\* A step writes the rows of one student only.
LEMMA OneStudent ==
  ASSUME IInv, [Next]_vars, ~ UNCHANGED attempts
  PROVE  \E s \in Students : \A t \in Students \ {s} :
           Opened(t)' = Opened(t) /\ InProgress(t)' = InProgress(t)
<1>1. PICK r \in Requests, row \in Rows :
        attempts' = [attempts EXCEPT ![req[r].student][req[r].number] = row]
  BY AttemptsStep
<1>2. req[r].student \in Students
  BY DEF IInv, TypeOK, InFlight
<1>3. \A t \in Students \ {req[r].student} : attempts'[t] = attempts[t]
  BY <1>1 DEF IInv, TypeOK
<1>. QED
  BY <1>2, <1>3 DEF Opened, InProgress

\* Every step of the handlers is a start, a submit or nothing to the ledger.
LEMMA LedgerSimulated ==
  ASSUME IInv, [Next]_vars
  PROVE  [SequentialLedger!Next]_(SequentialLedger!vars)
<1>. DEFINE opened == [s \in Students |-> Cardinality(Opened(s))]
            open   == [s \in Students |-> InProgress(s) # {}]
<1>1. CASE UNCHANGED attempts
  BY <1>1 DEF SequentialLedger!vars, Opened, InProgress
<1>2. CASE ~ UNCHANGED attempts
  <2>1. PICK s \in Students : \A t \in Students \ {s} :
          Opened(t)' = Opened(t) /\ InProgress(t)' = InProgress(t)
    BY <1>2, OneStudent
  <2>2. CASE Opened(s)' # Opened(s)
    <3>1. ~open[s] /\ opened[s] < MaxNumber
      BY <2>2, InsertIsStart
    <3>2. opened' = [opened EXCEPT ![s] = @ + 1]
      BY <2>1, <2>2, InsertIsStart
    <3>3. open' = [open EXCEPT ![s] = TRUE]
      BY <2>1, <2>2, InsertIsStart
    <3>. QED
      BY <3>1, <3>2, <3>3 DEF SequentialLedger!Next, SequentialLedger!Start
  <2>3. CASE Opened(s)' = Opened(s) /\ (InProgress(s)' # {} <=> InProgress(s) # {})
    <3>1. opened' = opened /\ open' = open
      BY <2>1, <2>3
    <3>. QED
      BY <3>1 DEF SequentialLedger!vars
  <2>4. CASE Opened(s)' = Opened(s) /\ InProgress(s)' = {} /\ InProgress(s) # {}
    <3>1. open[s] /\ opened' = opened
      BY <2>1, <2>4
    <3>2. open' = [open EXCEPT ![s] = FALSE]
      BY <2>1, <2>4
    <3>. QED
      BY <3>1, <3>2 DEF SequentialLedger!Next, SequentialLedger!Submit
  <2>. QED
    BY <2>2, <2>3, <2>4, NothingReopens
<1>. QED
  BY <1>1, <1>2

\* However the statements of concurrent handlers interleave, to every student
\* their effect is that of atomic starts and submits, one at a time.
THEOREM LedgerImplemented == Spec => ImplementsLedger
<1>1. Init => SequentialLedger!Init
  <2>. SUFFICES ASSUME Init PROVE SequentialLedger!Init
    OBVIOUS
  <2>1. \A s \in Students : Opened(s) = {} /\ InProgress(s) = {}
    BY DEF Init, Opened, InProgress, NoRow
  <2>2. Cardinality({}) = 0
    BY FS_EmptySet
  <2>. QED
    BY <2>1, <2>2 DEF SequentialLedger!Init
<1>2. IInv /\ [Next]_vars => [SequentialLedger!Next]_(SequentialLedger!vars)
  BY LedgerSimulated
<1>. QED
  BY <1>1, <1>2, Invariance, PTL DEF Spec, ImplementsLedger, SequentialLedger!Spec

-----------------------------------------------------------------------------
(* The pass_quiz requirement.  A submit and a regrade measure the score    *)
(* against the questions they read, which today's may exceed but never     *)
(* fall short of: a score good enough for today's was good enough then.    *)

\* What a handler has read of the questions is still there, and no grade
\* comes from a quiz without questions.
AskedOK(x) ==
  /\ x.asked \subseteq questions
  /\ x.pc \in {"submit_commit", "regrade_commit"} /\ x.result.status = "graded"
       => x.asked # {}

PassInv ==
  /\ \A r \in Requests : AskedOK(req[r])
  /\ \A s \in Students, n \in Numbers :
       attempts[s][n].status = "graded" => questions # {}
  /\ PassingAttemptCompletes

\* A larger quiz asks for at least as many points.
LEMMA PercentMonotonic ==
  ASSUME NEW a \in Nat, NEW b \in Nat, NEW p \in Nat, a <= b
  PROVE  p * a <= p * b
<1>1. PICK d \in Nat : b = a + d
  BY b - a \in Nat
<1>2. p * b = p * a + p * d
  BY <1>1
<1>3. p * d \in Nat /\ p * a \in Nat
  OBVIOUS
<1>. QED
  BY <1>2, <1>3

\* A score that meets the threshold of a quiz meets that of a part of it.
LEMMA ThresholdOfPart ==
  ASSUME NEW score \in Nat \cup {None}, NEW whole \in SUBSET Questions,
         NEW part \in SUBSET whole, part # {}, MeetsThreshold(score, whole)
  PROVE  MeetsThreshold(score, part)
<1>1. IsFiniteSet(whole)
  BY FS_Subset, QuizAssumption
<1>2. IsFiniteSet(part) /\ Cardinality(part) <= Cardinality(whole)
  BY <1>1, FS_Subset
<1>3. Cardinality(part) \in Nat /\ Cardinality(whole) \in Nat
  BY <1>1, <1>2, FS_CardinalityType
<1>4. score \in Nat /\ score * 100 >= PassPercent * Cardinality(whole)
  BY DEF MeetsThreshold, None
<1>5. PassPercent * Cardinality(part) <= PassPercent * Cardinality(whole)
  BY <1>2, <1>3, PercentMonotonic, QuizAssumption
<1>. DEFINE least == PassPercent * Cardinality(part)
            most == PassPercent * Cardinality(whole)
            points == score * 100
<1>6. least \in Nat /\ most \in Nat /\ points \in Nat
  BY <1>3, <1>4, QuizAssumption
<1>7. points >= most /\ least <= most
  BY <1>4, <1>5
<1>. HIDE DEF least, most, points
<1>8. points >= least
  BY <1>6, <1>7
<1>. QED
  BY <1>4, <1>8 DEF MeetsThreshold, None, least, points

\* What a step leaves of the questions and the grade a handler has read.
AskedStep(x, y) ==
  \/ y = x
  \/ y.asked \subseteq questions /\ y.pc \notin {"submit_commit", "regrade_commit"}
  \/ /\ y.asked = x.asked
     /\ \E answers, graded : y.result = Graded(x.asked, answers, graded)

\* The questions only grow.
LEMMA QuestionsGrow ==
  ASSUME [Next]_vars PROVE questions \subseteq questions'
<1>. USE DEF rows, setup
<1>1. ASSUME NEW r \in Requests, Handle(r) PROVE UNCHANGED questions
  BY <1>1 DEF Handle, CheckStart, ListAttempts, InsertAttempt, CheckSave, ReadToSave,
              UpsertResponse, CheckSubmit, ReadToGrade, ReadQuestions,
              GradeSubmission, CommitSubmission, UpsertMark, Regrade, CommitRegrade
<1>2. ASSUME NEW r \in Requests, NEW s \in Students, NEW n \in Numbers,
             BeginSave(r, s, n) \/ BeginSubmit(r, s, n) \/ BeginMark(r, s, n)
               \/ BeginRegrade(r, s, n)
      PROVE  UNCHANGED questions
  BY <1>2 DEF BeginSave, BeginSubmit, BeginMark, BeginRegrade, Begin
<1>. QED
  BY <1>1, <1>2 DEF Next, Abandon, BeginStart, UpdateQuiz, ChangeOverride, CreateQuestion, Tick,
                    vars, setup

\* Every step changes what a handler has read as AskedStep says.
LEMMA AskedWritten ==
  ASSUME IInv, [Next]_vars, \A r \in Requests : AskedOK(req[r]), NEW q \in Requests
  PROVE  AskedStep(req[q], req'[q])
<1>. DEFINE Wrote(r, y) == req' = [req EXCEPT ![r] = y] /\ AskedStep(req[r], y)
<1>0. /\ req \in [Requests -> InFlight]
      /\ \A r \in Requests : req[r].asked \subseteq questions
  BY DEF IInv, TypeOK, AskedOK
<1>1. ASSUME NEW r \in Requests, NEW y, Wrote(r, y) PROVE AskedStep(req[q], req'[q])
  <2>1. CASE q = r
    BY <1>0, <1>1, <2>1
  <2>2. CASE q # r
    BY <1>0, <1>1, <2>2 DEF AskedStep
  <2>. QED
    BY <2>1, <2>2
<1>2. AskedStep(req[q], req[q])
  BY DEF AskedStep
<1>3. ASSUME NEW r \in Requests, Finish(r) PROVE AskedStep(req[q], req'[q])
  <2>1. AskedStep(req[r], Idle)
    BY DEF AskedStep, Idle
  <2>. QED
    BY <1>1, <1>3, <2>1 DEF Finish
<1>4. ASSUME NEW r \in Requests, Handle(r), ~ Finish(r) PROVE AskedStep(req[q], req'[q])
  <2>0. req[r] \in InFlight /\ req[r].asked \subseteq questions
    BY <1>0
  <2>1. CASE ListAttempts(r)
    <3>. DEFINE y == [req[r] EXCEPT !.pc = "start_insert",
                                    !.number = Max(Opened(req[r].student) \cup {0}) + 1]
    <3>1. req' = [req EXCEPT ![r] = y]
      BY <1>4, <2>1 DEF ListAttempts
    <3>2. AskedStep(req[r], y)
      BY <2>0 DEF AskedStep, InFlight
    <3>. QED
      BY <1>1, <3>1, <3>2
  <2>2. CASE CheckSave(r)
    <3>. DEFINE y == [req[r] EXCEPT !.pc = "save_questions", !.quiz = InitialQuiz]
    <3>1. req' = [req EXCEPT ![r] = y]
      BY <1>4, <2>2 DEF CheckSave
    <3>2. AskedStep(req[r], y)
      BY <2>0 DEF AskedStep, InFlight
    <3>. QED
      BY <1>1, <3>1, <3>2
  <2>3. CASE CheckSubmit(r)
    <3>. DEFINE y == [req[r] EXCEPT !.pc = "submit_questions", !.quiz = InitialQuiz]
    <3>1. req' = [req EXCEPT ![r] = y]
      BY <1>4, <2>3 DEF CheckSubmit
    <3>2. AskedStep(req[r], y)
      BY <2>0 DEF AskedStep, InFlight
    <3>. QED
      BY <1>1, <3>1, <3>2
  <2>6. CASE ReadToSave(r)
    <3>. DEFINE y == [req[r] EXCEPT !.pc = "save_upsert", !.asked = questions]
    <3>1. req' = [req EXCEPT ![r] = y]
      BY <1>4, <2>6 DEF ReadToSave, ReadQuestions
    <3>2. AskedStep(req[r], y)
      BY <2>0 DEF AskedStep, InFlight
    <3>. QED
      BY <1>1, <3>1, <3>2
  <2>7. CASE ReadToGrade(r)
    <3>. DEFINE y == [req[r] EXCEPT !.pc = "submit_responses", !.asked = questions]
    <3>1. req' = [req EXCEPT ![r] = y]
      BY <1>4, <2>7 DEF ReadToGrade, ReadQuestions
    <3>2. AskedStep(req[r], y)
      BY <2>0 DEF AskedStep, InFlight
    <3>. QED
      BY <1>1, <3>1, <3>2
  <2>8. CASE CheckStart(r)
    <3>. DEFINE y == [req[r] EXCEPT !.pc = "start_list", !.quiz = InitialQuiz,
                                    !.limit = Resolved(r).maxAttempts]
    <3>1. req' = [req EXCEPT ![r] = y]
      BY <1>4, <2>8 DEF CheckStart
    <3>2. AskedStep(req[r], y)
      BY <2>0 DEF AskedStep, InFlight
    <3>. QED
      BY <1>1, <3>1, <3>2
  <2>4. CASE GradeSubmission(r)
    <3>. DEFINE result == Graded(req[r].asked, responses[req[r].student][req[r].number], NoMarks)
                y == [req[r] EXCEPT !.pc = "submit_commit", !.result = result]
    <3>1. req' = [req EXCEPT ![r] = y]
      BY <2>4 DEF GradeSubmission
    <3>2. y.asked = req[r].asked /\ y.result = result
      BY <2>0 DEF InFlight
    <3>3. AskedStep(req[r], y)
      BY <3>2 DEF AskedStep
    <3>. QED
      BY <1>1, <3>1, <3>3
  <2>5. CASE Regrade(r)
    <3>. DEFINE result == Graded(req[r].asked, responses[req[r].student][req[r].number],
                                 marks[req[r].student][req[r].number])
                y == [req[r] EXCEPT !.pc = "regrade_commit", !.result = result]
    <3>1. req' = [req EXCEPT ![r] = y]
      BY <2>5 DEF Regrade
    <3>2. y.asked = req[r].asked /\ y.result = result
      BY <2>0 DEF InFlight
    <3>3. AskedStep(req[r], y)
      BY <3>2 DEF AskedStep
    <3>. QED
      BY <1>1, <3>1, <3>3
  <2>. QED
    BY <1>4, <2>1, <2>2, <2>3, <2>4, <2>5, <2>6, <2>7, <2>8
    DEF Handle, InsertAttempt, UpsertResponse, CommitSubmission, UpsertMark, CommitRegrade
<1>5. ASSUME NEW r \in Requests, NEW s \in Students, BeginStart(r, s)
      PROVE  AskedStep(req[q], req'[q])
  <2>. DEFINE y == [Idle EXCEPT !.pc = "start_settings", !.student = s, !.quiz = quiz]
  <2>1. req' = [req EXCEPT ![r] = y]
    BY <1>5 DEF BeginStart
  <2>2. AskedStep(req[r], y)
    BY DEF AskedStep, Idle
  <2>. QED
    BY <1>1, <2>1, <2>2
<1>6. ASSUME NEW r \in Requests, NEW s \in Students, NEW n \in Numbers,
             NEW pc \in {"save_settings", "submit_settings", "mark_upsert", "regrade_responses"},
             NEW row, NEW asked \in SUBSET questions, Begin(r, pc, s, n, row, asked)
      PROVE  AskedStep(req[q], req'[q])
  <2>. DEFINE y == [Idle EXCEPT !.pc = pc, !.student = s, !.number = n, !.quiz = row,
                                !.asked = asked]
  <2>1. req' = [req EXCEPT ![r] = y]
    BY <1>6 DEF Begin
  <2>2. AskedStep(req[r], y)
    BY DEF AskedStep, Idle
  <2>. QED
    BY <1>1, <2>1, <2>2
<1>7. ASSUME NEW r \in Requests, NEW s \in Students, NEW n \in Numbers,
             BeginSave(r, s, n) \/ BeginSubmit(r, s, n) \/ BeginMark(r, s, n)
               \/ BeginRegrade(r, s, n)
      PROVE  AskedStep(req[q], req'[q])
  <2>1. {} \in SUBSET questions /\ questions \in SUBSET questions
    OBVIOUS
  <2>. QED
    BY <1>6, <1>7, <2>1 DEF BeginSave, BeginSubmit, BeginMark, BeginRegrade
<1>8. UNCHANGED req \/ \E r \in Requests : Handle(r) \/ Finish(r)
        \/ \E s \in Students : BeginStart(r, s)
             \/ \E n \in Numbers : \/ BeginSave(r, s, n) \/ BeginSubmit(r, s, n)
                                   \/ BeginMark(r, s, n) \/ BeginRegrade(r, s, n)
  BY DEF Next, Abandon, UpdateQuiz, ChangeOverride, CreateQuestion, Tick,
                    vars, setup
<1>. QED
  BY <1>2, <1>3, <1>4, <1>5, <1>7, <1>8

\* What a handler has read of the questions stays good.
LEMMA AskedKeeps ==
  ASSUME IInv, [Next]_vars, \A r \in Requests : AskedOK(req[r]), NEW q \in Requests
  PROVE  AskedOK(req[q])'
<1>1. questions \subseteq questions'
  BY QuestionsGrow
<1>2. AskedStep(req[q], req'[q]) /\ AskedOK(req[q])
  BY AskedWritten
<1>3. \A answers, graded : Graded({}, answers, graded).status = "submitted"
  BY DEF Graded, NoResult
<1>. QED
  BY <1>1, <1>2, <1>3 DEF AskedStep, AskedOK

\* The two statements that grade a row write the grade and, in the same
\* transaction, the completion it earns.
LEMMA GradeWritten ==
  ASSUME IInv, NEW r \in Requests, SubmitStep(r) \/ CommitRegrade(r)
  PROVE  LET t == req[r].student
             m == req[r].number
         IN  /\ t \in Students /\ m \in Numbers
             /\ req[r].pc \in {"submit_commit", "regrade_commit"}
             /\ attempts'[t][m].status = req[r].result.status
             /\ attempts'[t][m].score = req[r].result.score
             /\ \A s \in Students, n \in Numbers :
                  s # t \/ n # m => attempts'[s][n] = attempts[s][n]
             /\ Complete(r) /\ UNCHANGED questions
<1>. DEFINE t == req[r].student
            m == req[r].number
<1>0. /\ t \in Students /\ m \in Numbers /\ attempts \in [Students -> [Numbers -> Rows]]
      /\ req[r].pc \in {"submit_commit", "regrade_commit"}
  BY DEF IInv, TypeOK, InFlight, RequestOK, LearnerOK, GraderOK, SubmitStep, CommitSubmission,
         CommitRegrade
<1>1. attempts[t][m] \in Rows
  BY <1>0
<1>2. CASE SubmitStep(r)
  <2>. DEFINE row == [attempts[t][m] EXCEPT !.status = req[r].result.status,
                          !.score = req[r].result.score, !.submittedAt = now]
  <2>1. attempts' = [attempts EXCEPT ![t][m] = row] /\ Complete(r) /\ UNCHANGED questions
    BY <1>0, <1>2 DEF SubmitStep, CommitSubmission, SubmitQuizAttempt, SubmitIsAccepted, setup
  <2>2. row.status = req[r].result.status /\ row.score = req[r].result.score
    BY <1>1 DEF Rows
  <2>. HIDE DEF row, t, m
  <2>3. /\ attempts'[t][m] = row
        /\ \A s \in Students, n \in Numbers :
             s # t \/ n # m => attempts'[s][n] = attempts[s][n]
    BY <1>0, <2>1
  <2>. QED
    BY <1>0, <2>1, <2>2, <2>3 DEF t, m
<1>3. CASE CommitRegrade(r)
  <2>. DEFINE row == [attempts[t][m] EXCEPT !.status = req[r].result.status,
                          !.score = req[r].result.score]
  <2>1. attempts' = [attempts EXCEPT ![t][m] = row] /\ Complete(r) /\ UNCHANGED questions
    BY <1>0, <1>3 DEF CommitRegrade, UpdateQuizAttemptGrade, setup
  <2>2. row.status = req[r].result.status /\ row.score = req[r].result.score
    BY <1>1 DEF Rows
  <2>. HIDE DEF row, t, m
  <2>3. /\ attempts'[t][m] = row
        /\ \A s \in Students, n \in Numbers :
             s # t \/ n # m => attempts'[s][n] = attempts[s][n]
    BY <1>0, <2>1
  <2>. QED
    BY <1>0, <2>1, <2>2, <2>3 DEF t, m
<1>. QED
  BY <1>2, <1>3

\* No completion is taken back.
LEMMA CompletionsStay ==
  ASSUME [Next]_vars PROVE completed \subseteq completed'
<1>. USE DEF rows, setup
<1>1. ASSUME NEW r \in Requests, Handle(r) PROVE completed \subseteq completed'
  BY <1>1 DEF Handle, CheckStart, ListAttempts, InsertAttempt, CheckSave, ReadToSave,
              UpsertResponse, CheckSubmit, ReadToGrade, ReadQuestions,
              GradeSubmission, CommitSubmission, UpsertMark, Regrade, CommitRegrade, Complete
<1>2. ASSUME NEW r \in Requests, NEW s \in Students, NEW n \in Numbers,
             BeginSave(r, s, n) \/ BeginSubmit(r, s, n) \/ BeginMark(r, s, n)
               \/ BeginRegrade(r, s, n)
      PROVE  UNCHANGED completed
  BY <1>2 DEF BeginSave, BeginSubmit, BeginMark, BeginRegrade, Begin
<1>. QED
  BY <1>1, <1>2 DEF Next, Abandon, BeginStart, UpdateQuiz, ChangeOverride, CreateQuestion, Tick,
                    vars, setup

\* A passing grade of today's quiz passed the quiz it was given for.
LEMMA PassingKeeps ==
  ASSUME IInv, IInv', PassInv, [Next]_vars, NEW s \in Students, NEW n \in Numbers,
         attempts'[s][n].status = "graded"
  PROVE  /\ questions' # {}
         /\ MeetsThreshold(attempts'[s][n].score, questions') => s \in completed'
<1>0. /\ attempts'[s][n] \in Rows /\ attempts'[s][n].score \in Nat \cup {None}
      /\ questions \subseteq questions' /\ questions' \in SUBSET Questions
  BY QuestionsGrow DEF IInv, TypeOK, Rows
<1>1. CASE attempts'[s][n] = attempts[s][n]
  <2>1. questions # {} /\ questions \in SUBSET questions'
    BY <1>0, <1>1 DEF PassInv
  <2>2. ASSUME MeetsThreshold(attempts'[s][n].score, questions') PROVE s \in completed
    <3>1. MeetsThreshold(attempts'[s][n].score, questions)
      BY <1>0, <2>1, <2>2, ThresholdOfPart
    <3>. QED
      BY <1>1, <3>1 DEF PassInv, PassingAttemptCompletes
  <2>. QED
    BY <2>1, <2>2, CompletionsStay
<1>2. CASE attempts'[s][n] # attempts[s][n]
  <2>1. ~ UNCHANGED attempts
    BY <1>2
  <2>2. PICK r \in Requests : InsertStep(r) \/ SubmitStep(r) \/ CommitRegrade(r)
    BY <2>1, AttemptsWrittenBy
  <2>3. CASE InsertStep(r)
    <3>. DEFINE t == req[r].student
                m == req[r].number
                row == [status |-> "in_progress", score |-> None, startedAt |-> now,
                        submittedAt |-> None]
    <3>1. attempts' = [attempts EXCEPT ![t][m] = row]
      BY <2>3 DEF InsertStep, InsertAttempt, RecordQuizAttempt, NumberIsFree
    <3>2. attempts \in [Students -> [Numbers -> Rows]]
      BY DEF IInv, TypeOK
    <3>. HIDE DEF t, m
    <3>3. attempts'[s][n] = attempts[s][n] \/ attempts'[s][n] = row
      BY <3>1, <3>2
    <3>. QED
      BY <1>2, <3>3
  <2>4. CASE SubmitStep(r) \/ CommitRegrade(r)
    <3>. DEFINE t == req[r].student
                m == req[r].number
    <3>1. /\ req[r].pc \in {"submit_commit", "regrade_commit"}
          /\ attempts'[t][m].status = req[r].result.status
          /\ attempts'[t][m].score = req[r].result.score
          /\ \A u \in Students, k \in Numbers :
               u # t \/ k # m => attempts'[u][k] = attempts[u][k]
          /\ Complete(r) /\ UNCHANGED questions
      BY <2>4, GradeWritten
    <3>2. s = t /\ n = m
      BY <1>2, <3>1
    <3>3. req[r].asked # {} /\ req[r].asked \in SUBSET questions'
      BY <3>1, <3>2 DEF PassInv, AskedOK
    <3>4. ASSUME MeetsThreshold(attempts'[s][n].score, questions') PROVE s \in completed'
      <4>1. MeetsThreshold(attempts'[s][n].score, req[r].asked)
        BY <1>0, <3>3, <3>4, ThresholdOfPart
      <4>2. MeetsThreshold(req[r].result.score, req[r].asked)
        BY <3>1, <3>2, <4>1
      <4>. QED
        BY <3>1, <3>2, <4>2 DEF Complete
    <3>. QED
      BY <3>3, <3>4
  <2>. QED
    BY <2>2, <2>3, <2>4
<1>. QED
  BY <1>1, <1>2

\* Whoever has an attempt graded at or above the threshold, against the
\* questions of today, has the pass_quiz requirement completed, although
\* submits and regrades measure the score against questions read before.
THEOREM CompletionCorrect == Spec => []PassingAttemptCompletes
<1>1. Init => PassInv
  BY DEF Init, PassInv, PassingAttemptCompletes, AskedOK, Idle, NoRow
<1>2. ASSUME IInv, IInv', PassInv, [Next]_vars PROVE PassInv'
  <2>1. \A r \in Requests : AskedOK(req[r])'
    BY <1>2, AskedKeeps DEF PassInv
  <2>2. \A s \in Students, n \in Numbers :
          attempts'[s][n].status = "graded" =>
            /\ questions' # {}
            /\ MeetsThreshold(attempts'[s][n].score, questions') => s \in completed'
    BY <1>2, PassingKeeps
  <2>. QED
    BY <2>1, <2>2 DEF PassInv, PassingAttemptCompletes
<1>3. PassInv => PassingAttemptCompletes
  BY DEF PassInv
<1>. QED
  BY <1>1, <1>2, <1>3, Invariance, PTL DEF Spec

-----------------------------------------------------------------------------
(* The page of an attempt.                                                 *)

\* A question that was not edited while a save of it was under way has at most
\* one save, of the answer on the screen, and none while the timer holds one.
QuestionOK(q) ==
  /\ \A x \in saves : x.question = q =>
       /\ \A y \in saves : y.question = q => y = x
       /\ screen[q] \in {0, x.edit}
       /\ x.stage = "stored" => stored[q] = x.edit
       /\ x.by = "nobody" => q \in failed
  /\ pending # NoSave /\ pending.question = q =>
       UnderWay(q) = {} /\ screen[q] \in {0, pending.edit}

\* What AnswersAccountedFor asks of one question.
Accounted(q) ==
  \/ screen[q] \in {0, stored[q]}
  \/ pending = [question |-> q, edit |-> screen[q]]
  \/ \E x \in saves : x.question = q /\ x.edit = screen[q]
  \/ q \in failed

QuestionsOK == \A q \in Asked \ raced : QuestionOK(q) /\ (q \notin overtaken => Accounted(q))

\* A page that shows the results waits for nothing.
PageOK ==
  /\ submit # "none" => phase = "submitting"
  /\ phase = "results" => pending = NoSave /\ \A x \in saves : x.by = "nobody"

RunnerInv == RunnerTypeOK /\ PageOK /\ (phase # "results" => QuestionsOK)

LEMMA SaveTypes ==
  ASSUME NEW x \in Saves
  PROVE  /\ x.question \in Asked /\ x.edit \in 1..MaxEdits
         /\ x.by \in {"timer", "flush", "nobody"}
         /\ x.stage \in {"sent", "checked", "stored", "refused"}
BY DEF Saves

LEMMA SaveStages ==
  ASSUME NEW x \in Saves, NEW s \in {"sent", "checked", "stored", "refused"}
  PROVE  LET y == [x EXCEPT !.stage = s]
         IN  y \in Saves /\ y.question = x.question /\ y.edit = x.edit /\ y.by = x.by
             /\ y.stage = s
BY DEF Saves

LEMMA SaveOrphans ==
  ASSUME NEW x \in Saves
  PROVE  LET y == [x EXCEPT !.by = "nobody"]
         IN  y \in Saves /\ y.question = x.question /\ y.edit = x.edit /\ y.by = "nobody"
             /\ y.stage = x.stage
BY DEF Saves

LEMMA OrphanTypes ==
  ASSUME RunnerTypeOK
  PROVE  \A y \in Orphans :
           y \in Saves /\ y.by = "nobody" /\ \E x \in saves : y.question = x.question
<1>. SUFFICES ASSUME NEW y \in Orphans
              PROVE  y \in Saves /\ y.by = "nobody" /\ \E x \in saves : y.question = x.question
  OBVIOUS
<1>1. PICK x \in saves : y = [x EXCEPT !.by = "nobody"]
  BY DEF Orphans
<1>2. x \in Saves
  BY DEF RunnerTypeOK
<1>. QED
  BY <1>1, <1>2, SaveOrphans

LEMMA PendingTypes ==
  ASSUME NEW p \in Pending, NEW by \in {"timer", "flush"}
  PROVE  /\ p.question \in Asked /\ p.edit \in 1..MaxEdits
         /\ Save(p, by) \in Saves
         /\ Save(p, by).question = p.question /\ Save(p, by).edit = p.edit
         /\ Save(p, by).by = by /\ Save(p, by).stage = "sent"
BY DEF Pending, Save, Saves

\* A save goes on to another stage, or loses who waits for it.
LEMMA MoveKeeps ==
  ASSUME QuestionsOK, RunnerTypeOK, NEW x \in saves, NEW y \in Saves,
         y.question = x.question, y.edit = x.edit,
         saves' = (saves \ {x}) \cup {y},
         UNCHANGED <<screen, pending, overtaken, raced>>,
         failed \subseteq failed',
         \A q \in Asked : q # x.question => stored'[q] = stored[q],
         stored'[x.question] \in {stored[x.question], x.edit},
         y.stage = "stored" => stored'[x.question] = x.edit \/ x.stage = "stored",
         y.by = "nobody" => x.by = "nobody" \/ x.question \in failed'
  PROVE  QuestionsOK'
<1>. SUFFICES ASSUME NEW q \in Asked \ raced
              PROVE  QuestionOK(q)' /\ (q \notin overtaken => Accounted(q)')
  BY DEF QuestionsOK
<1>1. QuestionOK(q) /\ (q \notin overtaken => Accounted(q))
  BY DEF QuestionsOK
<1>2. CASE q # x.question
  <2>1. \A z \in saves' : z.question = q => z \in saves
    BY <1>2
  <2>2. UnderWay(q)' = UnderWay(q)
    BY <1>2 DEF UnderWay
  <2>3. QuestionOK(q)'
    BY <1>1, <1>2, <2>1, <2>2 DEF QuestionOK
  <2>4. Accounted(q) => Accounted(q)'
    BY <1>2 DEF Accounted
  <2>. QED
    BY <1>1, <2>3, <2>4
<1>3. CASE q = x.question
  <2>1. /\ \A z \in saves : z.question = q => z = x
        /\ screen[q] \in {0, x.edit}
        /\ x.stage = "stored" => stored[q] = x.edit
        /\ x.by = "nobody" => q \in failed
    BY <1>1, <1>3 DEF QuestionOK
  <2>2. \A z \in saves' : z.question = q => z = y
    BY <2>1
  <2>3. ~(pending # NoSave /\ pending.question = q)
    BY <1>1, <1>3 DEF QuestionOK, UnderWay
  <2>4. QuestionOK(q)'
    BY <1>3, <2>1, <2>2, <2>3 DEF QuestionOK
  <2>5. Accounted(q)'
    BY <1>3, <2>1 DEF Accounted
  <2>. QED
    BY <2>4, <2>5
<1>. QED
  BY <1>2, <1>3

\* A save that comes to its end has stored the answer or is shown as failed.
LEMMA DropKeeps ==
  ASSUME QuestionsOK, RunnerTypeOK, NEW x \in saves,
         saves' = saves \ {x},
         UNCHANGED <<screen, pending, overtaken, raced, stored>>,
         \A q \in Asked : q # x.question /\ q \in failed => q \in failed',
         x.stage = "stored" \/ x.question \in failed'
           \/ (x.by = "nobody" /\ failed' = failed)
  PROVE  QuestionsOK'
<1>. SUFFICES ASSUME NEW q \in Asked \ raced
              PROVE  QuestionOK(q)' /\ (q \notin overtaken => Accounted(q)')
  BY DEF QuestionsOK
<1>1. QuestionOK(q) /\ (q \notin overtaken => Accounted(q))
  BY DEF QuestionsOK
<1>2. CASE q # x.question
  <2>1. \A z \in saves' : z \in saves
    OBVIOUS
  <2>2. UnderWay(q)' = UnderWay(q)
    BY <1>2 DEF UnderWay
  <2>3. QuestionOK(q)'
    BY <1>1, <1>2, <2>1, <2>2 DEF QuestionOK
  <2>4. Accounted(q) => Accounted(q)'
    BY <1>2 DEF Accounted
  <2>. QED
    BY <1>1, <2>3, <2>4
<1>3. CASE q = x.question
  <2>1. /\ \A z \in saves : z.question = q => z = x
        /\ screen[q] \in {0, x.edit}
        /\ x.stage = "stored" => stored[q] = x.edit
        /\ x.by = "nobody" => q \in failed
    BY <1>1, <1>3 DEF QuestionOK
  <2>2. \A z \in saves' : z.question # q
    BY <2>1
  <2>3. ~(pending # NoSave /\ pending.question = q)
    BY <1>1, <1>3 DEF QuestionOK, UnderWay
  <2>4. QuestionOK(q)'
    BY <2>2, <2>3 DEF QuestionOK
  <2>5. Accounted(q)'
    BY <1>3, <2>1 DEF Accounted
  <2>. QED
    BY <2>4, <2>5
<1>. QED
  BY <1>2, <1>3

\* The pending save is sent.
LEMMA PendingSent ==
  ASSUME QuestionsOK, RunnerTypeOK, pending # NoSave, NEW by \in {"timer", "flush"},
         saves' = saves \cup {Save(pending, by)}, pending' = NoSave,
         UNCHANGED <<screen, overtaken, raced, stored, failed>>
  PROVE  QuestionsOK'
<1>. DEFINE y == Save(pending, by)
<1>0. pending \in Pending
  BY DEF RunnerTypeOK
<1>1. y.question = pending.question /\ y.edit = pending.edit /\ y.by = by /\ y.stage = "sent"
  BY <1>0, PendingTypes
<1>2. saves' = saves \cup {y}
  OBVIOUS
<1>. HIDE DEF y
<1>. SUFFICES ASSUME NEW q \in Asked \ raced
              PROVE  QuestionOK(q)' /\ (q \notin overtaken => Accounted(q)')
  BY DEF QuestionsOK
<1>3. QuestionOK(q) /\ (q \notin overtaken => Accounted(q))
  BY DEF QuestionsOK
<1>4. CASE q # pending.question
  <2>1. \A z \in saves' : z.question = q => z \in saves
    BY <1>1, <1>2, <1>4
  <2>2. QuestionOK(q)'
    BY <1>3, <2>1 DEF QuestionOK
  <2>3. Accounted(q) => Accounted(q)'
    BY <1>2, <1>4 DEF Accounted
  <2>. QED
    BY <1>3, <2>2, <2>3
<1>5. CASE q = pending.question
  <2>1. UnderWay(q) = {} /\ screen[q] \in {0, pending.edit}
    BY <1>3, <1>5 DEF QuestionOK
  <2>2. \A z \in saves' : z.question = q => z = y
    BY <1>2, <2>1 DEF UnderWay
  <2>3. QuestionOK(q)'
    BY <1>1, <1>5, <2>1, <2>2 DEF QuestionOK
  <2>4. Accounted(q)'
    BY <1>1, <1>2, <1>5, <2>1 DEF Accounted
  <2>. QED
    BY <2>3, <2>4
<1>. QED
  BY <1>4, <1>5

\* Nothing the questions depend on changes.
LEMMA QuestionsStay ==
  ASSUME QuestionsOK, UNCHANGED <<screen, failed, pending, saves, stored, overtaken, raced>>
  PROVE  QuestionsOK'
BY DEF QuestionsOK, QuestionOK, Accounted, UnderWay

\* An answer is given: it waits for the timer, and takes the place of another.
LEMMA EditQuestions ==
  ASSUME QuestionsOK, RunnerTypeOK, NEW q \in Asked, Edit(q)
  PROVE  QuestionsOK'
<1>. DEFINE n == edits + 1
            p == [question |-> q, edit |-> n]
<1>1. /\ screen' = [screen EXCEPT ![q] = n] /\ failed' = failed \ {q} /\ pending' = p
      /\ overtaken' = IF pending = NoSave \/ pending.question = q
                    THEN overtaken \ {q}
                    ELSE (overtaken \cup {pending.question}) \ {q}
      /\ raced' = IF UnderWay(q) = {} THEN raced \ {q} ELSE raced \cup {q}
      /\ UNCHANGED <<saves, stored>>
  BY DEF Edit, netVars, rowVars
<1>2. p.question = q /\ p.edit = n /\ n \in 1..MaxEdits
  BY RunnerAssumption DEF Edit, RunnerTypeOK
<1>3. \A r \in Asked : screen'[r] = IF r = q THEN n ELSE screen[r]
  BY <1>1 DEF RunnerTypeOK
<1>4. p # NoSave
  <2>1. p \in [question : Asked, edit : Nat]
    BY <1>2
  <2>. QED
    BY <2>1, RunnerAssumption
<1>5. p = [question |-> q, edit |-> n]
  OBVIOUS
<1>. HIDE DEF p, n
<1>. SUFFICES ASSUME NEW r \in Asked, r \notin raced'
              PROVE  QuestionOK(r)' /\ (r \notin overtaken' => Accounted(r)')
  BY DEF QuestionsOK
<1>6. CASE r = q
  <2>1. UnderWay(q) = {} /\ UnderWay(q)' = {}
    BY <1>1, <1>6 DEF UnderWay
  <2>2. \A x \in saves' : x.question # q
    BY <2>1 DEF UnderWay
  <2>3. QuestionOK(r)'
    BY <1>1, <1>2, <1>3, <1>6, <2>1, <2>2 DEF QuestionOK
  <2>4. Accounted(r)'
    BY <1>1, <1>3, <1>5, <1>6 DEF Accounted
  <2>. QED
    BY <2>3, <2>4
<1>7. CASE r # q
  <2>1. r \notin raced
    BY <1>1, <1>7
  <2>2. QuestionOK(r) /\ (r \notin overtaken => Accounted(r))
    BY <2>1 DEF QuestionsOK
  <2>3. QuestionOK(r)'
    BY <1>1, <1>2, <1>3, <1>7, <2>2 DEF QuestionOK
  <2>4. ASSUME r \notin overtaken' PROVE Accounted(r)'
    <3>1. r \notin overtaken /\ (pending = NoSave \/ pending.question # r)
      BY <1>1, <1>7, <2>4
    <3>2. pending # [question |-> r, edit |-> screen[r]]
      <4>1. [question |-> r, edit |-> screen[r]] \in [question : Asked, edit : Nat]
        BY RunnerAssumption DEF RunnerTypeOK
      <4>2. [question |-> r, edit |-> screen[r]] # NoSave
        BY <4>1, RunnerAssumption
      <4>3. [question |-> r, edit |-> screen[r]].question = r
        OBVIOUS
      <4>. QED
        BY <3>1, <4>2, <4>3
    <3>3. Accounted(r)
      BY <2>2, <3>1
    <3>. QED
      BY <1>1, <1>3, <1>7, <3>2, <3>3 DEF Accounted
  <2>. QED
    BY <2>3, <2>4
<1>. QED
  BY <1>6, <1>7

LEMMA ClearQuestions ==
  ASSUME QuestionsOK, RunnerTypeOK, NEW q \in Asked, Clear(q)
  PROVE  QuestionsOK'
<1>1. \A r \in Asked : screen'[r] = IF r = q THEN 0 ELSE screen[r]
  BY DEF Clear, RunnerTypeOK
<1>2. UNCHANGED <<failed, pending, saves, stored, overtaken, raced>>
  BY DEF Clear, netVars, rowVars, histVars
<1>. QED
  BY <1>1, <1>2 DEF QuestionsOK, QuestionOK, Accounted, UnderWay

\* After a reload the screen shows what is stored, but for questions that are
\* raced, and what has a save is raced too.
LEMMA ReloadQuestions ==
  ASSUME RunnerTypeOK, Reload
  PROVE  QuestionsOK'
<1>1. /\ stored' = stored /\ pending' = NoSave /\ saves' = Orphans
      /\ raced' = {x.question : x \in saves} \cup {q \in Asked : screen'[q] # stored[q]}
  BY DEF Reload, rowVars
<1>2. \A y \in saves' : y.question \in raced'
  BY <1>1, OrphanTypes
<1>. SUFFICES ASSUME NEW q \in Asked \ raced'
              PROVE  QuestionOK(q)' /\ Accounted(q)'
  BY DEF QuestionsOK
<1>3. \A x \in saves' : x.question # q
  BY <1>2
<1>4. QuestionOK(q)'
  BY <1>1, <1>3 DEF QuestionOK
<1>5. Accounted(q)'
  BY <1>1 DEF Accounted
<1>. QED
  BY <1>4, <1>5

-----------------------------------------------------------------------------
(* The steps of the page and of the network.                               *)

\* What SaveReturns and SaveFails set in motion.
LEMMA AnsweredTypes ==
  ASSUME RunnerTypeOK, PageOK, NEW x \in saves, NEW well \in BOOLEAN, Answered(x, well),
         x.by # "nobody"
  PROVE  /\ failed' \subseteq Asked
         /\ phase' \in {"taking", "flushing", "submitting", "done"}
         /\ submit' \in {"none", "sent", "accepted", "refused"}
         /\ submit' # "none" => phase' = "submitting"
         /\ UNCHANGED <<screen, pending>>
         /\ failed' = IF well THEN failed \ {x.question} ELSE failed \cup {x.question}
<1>1. x.question \in Asked
  BY SaveTypes DEF RunnerTypeOK
<1>2. phase # "results"
  BY DEF PageOK
<1>. QED
  BY <1>1, <1>2 DEF Answered, SendSubmit, RunnerTypeOK, PageOK

LEMMA StartKeeps ==
  ASSUME RunnerInv,
         \/ \E q \in Asked : Edit(q) \/ Clear(q)
         \/ TimerFires \/ ManualSubmit \/ AutoSubmit
  PROVE  RunnerInv'
<1>1. ASSUME NEW q \in Asked, Edit(q) PROVE RunnerInv'
  <2>1. phase # "results" /\ UNCHANGED <<phase, submit, saves, stored, stray, mishaps, handedIn,
                                         cached, timeUp, late>>
    BY <1>1 DEF Edit, Editable, netVars, rowVars
  <2>2. QuestionsOK'
    BY <1>1, <2>1, EditQuestions DEF RunnerInv
  <2>3. edits + 1 \in 1..MaxEdits /\ edits' = edits + 1 /\ edits' \in 0..MaxEdits
    BY <1>1, RunnerAssumption DEF Edit, RunnerInv, RunnerTypeOK
  <2>4. pending' \in Pending
    BY <1>1, <2>3 DEF Edit, Pending
  <2>5. overtaken' \subseteq Asked /\ raced' \subseteq Asked /\ failed' \subseteq Asked
    <3>1. pending # NoSave => pending.question \in Asked
      BY PendingTypes DEF RunnerInv, RunnerTypeOK
    <3>. QED
      BY <1>1, <3>1 DEF Edit, RunnerInv, RunnerTypeOK
  <2>6. screen' \in [Asked -> 0..MaxEdits]
    BY <1>1, <2>3 DEF Edit, RunnerInv, RunnerTypeOK
  <2>7. RunnerTypeOK'
    BY <2>1, <2>3, <2>4, <2>5, <2>6 DEF RunnerInv, RunnerTypeOK
  <2>8. PageOK'
    BY <2>1 DEF RunnerInv, PageOK
  <2>. QED
    BY <2>2, <2>7, <2>8 DEF RunnerInv
<1>2. ASSUME NEW q \in Asked, Clear(q) PROVE RunnerInv'
  <2>1. phase # "results" /\ screen' = [screen EXCEPT ![q] = 0]
        /\ UNCHANGED <<failed, pending, phase, submit, saves, stray, mishaps, stored, handedIn,
                       edits, overtaken, raced, cached, timeUp, late>>
    BY <1>2 DEF Clear, Editable, netVars, rowVars, histVars
  <2>2. QuestionsOK'
    BY <1>2, <2>1, ClearQuestions DEF RunnerInv
  <2>3. screen' \in [Asked -> 0..MaxEdits]
    BY <2>1, RunnerAssumption DEF RunnerInv, RunnerTypeOK
  <2>4. RunnerTypeOK'
    BY <2>1, <2>3 DEF RunnerInv, RunnerTypeOK
  <2>. QED
    BY <2>1, <2>2, <2>4 DEF RunnerInv, PageOK
<1>3. ASSUME NEW by \in {"timer", "flush"}, pending # NoSave,
             saves' = saves \cup {Save(pending, by)}, pending' = NoSave,
             phase' \in {phase, "flushing"}, by = "flush" => phase = "taking",
             UNCHANGED <<screen, failed, submit, stray, mishaps, rowVars, histVars, cached, timeUp, late>>,
             by = "timer" => phase' = phase
      PROVE  RunnerInv'
  <2>0. UNCHANGED <<screen, failed, submit, stray, mishaps, stored, handedIn, edits, overtaken,
                    raced, cached, timeUp, late>>
    BY <1>3 DEF rowVars, histVars
  <2>1. phase # "results"
    BY <1>3 DEF RunnerInv, PageOK
  <2>2. QuestionsOK'
    BY <1>3, <2>0, <2>1, PendingSent DEF RunnerInv
  <2>3. Save(pending, by) \in Saves
    BY <1>3, PendingTypes DEF RunnerInv, RunnerTypeOK
  <2>4. RunnerTypeOK'
    BY <1>3, <2>0, <2>3 DEF RunnerInv, RunnerTypeOK
  <2>5. PageOK'
    BY <1>3, <2>0, <2>1 DEF RunnerInv, PageOK
  <2>. QED
    BY <2>2, <2>4, <2>5 DEF RunnerInv
<1>4. ASSUME TimerFires PROVE RunnerInv'
  BY <1>3, <1>4 DEF TimerFires
<1>5. ASSUME TriggerSubmit PROVE RunnerInv'
  <2>1. CASE pending # NoSave
    BY <1>3, <1>5, <2>1 DEF TriggerSubmit, Flush
  <2>2. CASE pending = NoSave
    <3>1. /\ phase = "taking" /\ phase' = "submitting" /\ submit' = "sent"
          /\ UNCHANGED <<pending, saves, screen, failed, stray, mishaps, stored, handedIn, edits,
                         overtaken, raced, cached, timeUp, late>>
      BY <1>5, <2>2 DEF TriggerSubmit, Flush, SendSubmit, rowVars, histVars
    <3>2. QuestionsOK'
      BY <3>1, QuestionsStay DEF RunnerInv
    <3>3. RunnerTypeOK'
      BY <3>1 DEF RunnerInv, RunnerTypeOK
    <3>. QED
      BY <3>1, <3>2, <3>3 DEF RunnerInv, PageOK
  <2>. QED
    BY <2>1, <2>2
<1>. QED
  BY <1>1, <1>2, <1>4, <1>5 DEF ManualSubmit, AutoSubmit

LEMMA ServerKeeps ==
  ASSUME RunnerInv,
         \/ \E x \in saves : CheckSaveRequest(x) \/ StoreAnswer(x)
         \/ SubmitArrives \/ StrayArrives
  PROVE  RunnerInv'
<1>1. ASSUME NEW x \in saves, CheckSaveRequest(x) PROVE RunnerInv'
  <2>1. PICK s \in {"checked", "refused"} :
          saves' = (saves \ {x}) \cup {[x EXCEPT !.stage = s]}
    BY <1>1 DEF CheckSaveRequest
  <2>. DEFINE y == [x EXCEPT !.stage = s]
  <2>2. x \in Saves /\ s \in {"sent", "checked", "stored", "refused"}
    BY DEF RunnerInv, RunnerTypeOK
  <2>3. y \in Saves /\ y.question = x.question /\ y.edit = x.edit /\ y.by = x.by /\ y.stage = s
    BY ONLY <2>2, SaveStages
  <2>4. saves' = (saves \ {x}) \cup {y}
    BY <2>1
  <2>. HIDE DEF y
  <2>5. UNCHANGED <<screen, failed, pending, phase, submit, stray, mishaps, stored, handedIn,
                    edits, overtaken, raced, cached, timeUp, late>>
    BY <1>1 DEF CheckSaveRequest, pageVars, rowVars, histVars
  <2>6. RunnerTypeOK'
    BY <2>3, <2>4, <2>5 DEF RunnerInv, RunnerTypeOK
  <2>7. PageOK'
    BY <2>3, <2>4, <2>5 DEF RunnerInv, PageOK
  <2>8. QuestionsOK => QuestionsOK'
    BY <2>3, <2>4, <2>5, MoveKeeps DEF RunnerInv
  <2>. QED
    BY <2>5, <2>6, <2>7, <2>8 DEF RunnerInv
<1>2. ASSUME NEW x \in saves, StoreAnswer(x) PROVE RunnerInv'
  <2>. DEFINE y == [x EXCEPT !.stage = "stored"]
  <2>2. x \in Saves
    BY DEF RunnerInv, RunnerTypeOK
  <2>3. y \in Saves /\ y.question = x.question /\ y.edit = x.edit /\ y.by = x.by
        /\ y.stage = "stored" /\ x.question \in Asked /\ x.edit \in 1..MaxEdits
    BY <2>2, SaveStages, SaveTypes
  <2>4. saves' = (saves \ {x}) \cup {y} /\ stored' = [stored EXCEPT ![x.question] = x.edit]
    BY <1>2 DEF StoreAnswer
  <2>. HIDE DEF y
  <2>5. UNCHANGED <<screen, failed, pending, phase, submit, stray, mishaps, handedIn,
                    edits, overtaken, raced, cached, timeUp, late>>
    BY <1>2 DEF StoreAnswer, pageVars, histVars
  <2>6. stored' \in [Asked -> 0..MaxEdits] /\ stored'[x.question] = x.edit
        /\ \A q \in Asked : q # x.question => stored'[q] = stored[q]
    BY <2>3, <2>4, RunnerAssumption DEF RunnerInv, RunnerTypeOK
  <2>7. RunnerTypeOK'
    BY <2>3, <2>4, <2>5, <2>6 DEF RunnerInv, RunnerTypeOK
  <2>8. PageOK'
    BY <2>3, <2>4, <2>5 DEF RunnerInv, PageOK
  <2>9. QuestionsOK => QuestionsOK'
    BY <2>3, <2>4, <2>5, <2>6, MoveKeeps DEF RunnerInv
  <2>. QED
    BY <2>5, <2>7, <2>8, <2>9 DEF RunnerInv
<1>3. ASSUME SubmitArrives \/ StrayArrives PROVE RunnerInv'
  <2>1. /\ UNCHANGED <<screen, failed, pending, phase, saves, mishaps, stored,
                       edits, overtaken, raced, cached, timeUp, late>>
        /\ submit' \in {submit, "accepted", "refused"} /\ (submit = "none" => submit' = "none")
    BY <1>3 DEF SubmitArrives, StrayArrives, pageVars, netVars, histVars
  <2>2. stray' \in BOOLEAN /\ handedIn' \in BOOLEAN
    BY <1>3 DEF SubmitArrives, StrayArrives, Accepts, netVars, RunnerInv, RunnerTypeOK
  <2>3. RunnerTypeOK'
    BY <2>1, <2>2 DEF RunnerInv, RunnerTypeOK
  <2>4. PageOK'
    BY <2>1 DEF RunnerInv, PageOK
  <2>. QED
    BY <2>1, <2>3, <2>4, QuestionsStay DEF RunnerInv
<1>. QED
  BY <1>1, <1>2, <1>3

LEMMA RepliesKeep ==
  ASSUME RunnerInv,
         \/ \E x \in saves : SaveReturns(x) \/ SaveFails(x)
         \/ SubmitReturns \/ SubmitLost
  PROVE  RunnerInv'
<1>1. ASSUME NEW x \in saves, SaveReturns(x) PROVE RunnerInv'
  <2>1. saves' = saves \ {x} /\ x.stage \in {"stored", "refused"}
        /\ UNCHANGED <<stray, mishaps, stored, handedIn, edits, overtaken, raced, cached, timeUp, late>>
    BY <1>1 DEF SaveReturns, rowVars, histVars
  <2>2. CASE x.by = "nobody"
    <3>1. UNCHANGED <<screen, failed, pending, phase, submit>>
      BY <1>1, <2>2 DEF SaveReturns, pageVars
    <3>2. RunnerTypeOK' /\ PageOK'
      BY <2>1, <3>1 DEF RunnerInv, RunnerTypeOK, PageOK
    <3>3. QuestionsOK => QuestionsOK'
      BY <2>1, <2>2, <3>1, DropKeeps DEF RunnerInv
    <3>. QED
      BY <3>1, <3>2, <3>3 DEF RunnerInv
  <2>3. CASE x.by # "nobody"
    <3>1. /\ failed' \subseteq Asked
          /\ phase' \in {"taking", "flushing", "submitting", "done"}
          /\ submit' \in {"none", "sent", "accepted", "refused"}
          /\ submit' # "none" => phase' = "submitting"
          /\ UNCHANGED <<screen, pending>>
          /\ failed' = IF x.stage = "stored" THEN failed \ {x.question}
                                            ELSE failed \cup {x.question}
      BY <1>1, <2>3, AnsweredTypes DEF SaveReturns, RunnerInv
    <3>2. RunnerTypeOK' /\ PageOK'
      BY <2>1, <3>1 DEF RunnerInv, RunnerTypeOK, PageOK
    <3>3. phase # "results"
      BY <2>3 DEF RunnerInv, PageOK
    <3>4. \A q \in Asked : q # x.question /\ q \in failed => q \in failed'
      BY <3>1
    <3>5. x.stage = "stored" \/ x.question \in failed'
      BY <2>1, <3>1
    <3>6. QuestionsOK'
      BY <2>1, <3>1, <3>3, <3>4, <3>5, DropKeeps DEF RunnerInv
    <3>. QED
      BY <3>2, <3>6 DEF RunnerInv
  <2>. QED
    BY <2>2, <2>3
<1>2. ASSUME NEW x \in saves, SaveFails(x) PROVE RunnerInv'
  <2>1. /\ x.by # "nobody" /\ mishaps < MaxMishaps /\ mishaps' = mishaps + 1
        /\ UNCHANGED <<stray, stored, handedIn, edits, overtaken, raced, cached, timeUp, late>>
    BY <1>2 DEF SaveFails, rowVars, histVars
  <2>2. mishaps' \in 0..MaxMishaps
    BY <2>1, RunnerAssumption DEF RunnerInv, RunnerTypeOK
  <2>3. /\ failed' \subseteq Asked
        /\ phase' \in {"taking", "flushing", "submitting", "done"}
        /\ submit' \in {"none", "sent", "accepted", "refused"}
        /\ submit' # "none" => phase' = "submitting"
        /\ UNCHANGED <<screen, pending>>
        /\ failed' = failed \cup {x.question}
    BY <1>2, <2>1, AnsweredTypes DEF SaveFails, RunnerInv
  <2>4. phase # "results"
    BY <2>1 DEF RunnerInv, PageOK
  <2>5. PageOK'
    BY <2>3 DEF PageOK
  <2>. DEFINE y == [x EXCEPT !.by = "nobody"]
  <2>6. y \in Saves /\ y.question = x.question /\ y.edit = x.edit /\ y.by = "nobody"
        /\ y.stage = x.stage
    BY SaveOrphans DEF RunnerInv, RunnerTypeOK
  <2>7. saves' = saves \ {x} \/ saves' = (saves \ {x}) \cup {y}
    BY <1>2 DEF SaveFails
  <2>. HIDE DEF y
  <2>8. RunnerTypeOK'
    BY <2>1, <2>2, <2>3, <2>6, <2>7 DEF RunnerInv, RunnerTypeOK
  <2>9. CASE saves' = saves \ {x}
    <3>1. QuestionsOK'
      BY <2>1, <2>3, <2>4, <2>9, DropKeeps DEF RunnerInv
    <3>. QED
      BY <2>5, <2>8, <3>1 DEF RunnerInv
  <2>10. CASE saves' = (saves \ {x}) \cup {y}
    <3>1. QuestionsOK'
      BY <2>1, <2>3, <2>4, <2>6, <2>10, MoveKeeps DEF RunnerInv
    <3>. QED
      BY <2>5, <2>8, <3>1 DEF RunnerInv
  <2>. QED
    BY <2>7, <2>9, <2>10
<1>3. ASSUME SubmitReturns \/ SubmitLost PROVE RunnerInv'
  <2>1. /\ submit # "none" /\ submit' = "none" /\ phase' \in {"taking", "done"}
        /\ UNCHANGED <<screen, failed, pending, saves, stored, handedIn, edits, overtaken, raced,
                       cached, timeUp, late>>
    BY <1>3 DEF SubmitReturns, SubmitLost, SubmitFails, netVars, rowVars, histVars
  <2>2. stray' \in BOOLEAN /\ mishaps' \in 0..MaxMishaps
    <3>1. stray \in BOOLEAN /\ mishaps \in 0..MaxMishaps
      BY DEF RunnerInv, RunnerTypeOK
    <3>2. CASE SubmitReturns
      BY <3>1, <3>2 DEF SubmitReturns, netVars
    <3>3. CASE SubmitLost
      <4>1. stray' \in BOOLEAN
        BY <3>1, <3>3, Zenon DEF SubmitLost
      <4>2. mishaps' \in 0..MaxMishaps
        BY <3>1, <3>3, RunnerAssumption DEF SubmitLost
      <4>. QED
        BY <4>1, <4>2
    <3>. QED
      BY <1>3, <3>2, <3>3
  <2>3. phase # "results"
    BY <2>1 DEF RunnerInv, PageOK
  <2>4. RunnerTypeOK'
    BY <2>1, <2>2 DEF RunnerInv, RunnerTypeOK
  <2>. QED
    BY <2>1, <2>3, <2>4, QuestionsStay DEF RunnerInv, PageOK
<1>. QED
  BY <1>1, <1>2, <1>3

LEMMA PageKeeps ==
  ASSUME RunnerInv, ResponsesRead \/ ShowResults \/ Reload PROVE RunnerInv'
<1>1. Orphans \subseteq Saves /\ \A y \in Orphans : y.by = "nobody"
  BY OrphanTypes DEF RunnerInv
<1>2. ASSUME ShowResults PROVE RunnerInv'
  <2>1. /\ phase' = "results" /\ pending' = NoSave /\ screen' = cached
        /\ saves' = Orphans /\ submit' = "none"
        /\ UNCHANGED <<failed, stray, mishaps, stored, handedIn, edits, overtaken, raced,
                       cached, timeUp, late>>
    BY <1>2 DEF ShowResults, rowVars, histVars
  <2>2. RunnerTypeOK'
    BY <1>1, <2>1 DEF RunnerInv, RunnerTypeOK
  <2>3. PageOK'
    BY <1>1, <2>1 DEF RunnerInv, PageOK
  <2>. QED
    BY <2>1, <2>2, <2>3 DEF RunnerInv
<1>3. ASSUME Reload PROVE RunnerInv'
  <2>1. /\ mishaps < MaxMishaps /\ mishaps' = mishaps + 1 /\ failed' = {}
        /\ screen' \in {cached, stored} /\ cached' = screen'
        /\ pending' = NoSave /\ saves' = Orphans /\ submit' = "none"
        /\ phase' \in {"results", "taking"} /\ overtaken' = {}
        /\ raced' = {x.question : x \in saves} \cup {q \in Asked : screen'[q] # stored[q]}
        /\ UNCHANGED <<edits, stored, handedIn, timeUp, late>>
    BY <1>3 DEF Reload, rowVars
  <2>2. mishaps' \in 0..MaxMishaps
    BY <2>1, RunnerAssumption DEF RunnerInv, RunnerTypeOK
  <2>3. raced' \subseteq Asked
    BY <2>1, SaveTypes DEF RunnerInv, RunnerTypeOK
  <2>4. stray' \in BOOLEAN
    BY <1>3 DEF Reload
  <2>5. RunnerTypeOK'
    BY <1>1, <2>1, <2>2, <2>3, <2>4 DEF RunnerInv, RunnerTypeOK
  <2>6. PageOK'
    BY <1>1, <2>1 DEF PageOK
  <2>. QED
    BY <1>3, <2>5, <2>6, ReloadQuestions DEF RunnerInv
<1>4. ASSUME ResponsesRead PROVE RunnerInv'
  <2>1. /\ cached' = stored /\ screen' \in {screen, stored}
        /\ phase # "results" => screen' = screen
        /\ UNCHANGED <<failed, pending, phase, submit, saves, stray, mishaps, stored, handedIn,
                       edits, overtaken, raced, timeUp, late>>
    BY <1>4 DEF ResponsesRead, netVars, rowVars, histVars
  <2>2. RunnerTypeOK' /\ PageOK'
    BY <2>1 DEF RunnerInv, RunnerTypeOK, PageOK
  <2>. QED
    BY <2>1, <2>2, QuestionsStay DEF RunnerInv
<1>. QED
  BY <1>2, <1>3, <1>4

LEMMA RunnerStepKeeps == RunnerInv /\ [RunnerNext]_runnerVars => RunnerInv'
<1>. SUFFICES ASSUME RunnerInv, [RunnerNext]_runnerVars PROVE RunnerInv'
  OBVIOUS
<1>1. ASSUME TimeIsUp \/ Deadline \/ UNCHANGED runnerVars PROVE RunnerInv'
  <2>1. UNCHANGED <<screen, failed, pending, phase, submit, saves, stray, mishaps, stored,
                    handedIn, edits, overtaken, raced, cached>>
    BY <1>1 DEF TimeIsUp, Deadline, runnerVars, pageVars, netVars, rowVars, histVars
  <2>2. timeUp' \in BOOLEAN /\ late' \in BOOLEAN
    BY <1>1 DEF TimeIsUp, Deadline, runnerVars, RunnerInv, RunnerTypeOK
  <2>3. RunnerTypeOK' /\ PageOK'
    BY <2>1, <2>2 DEF RunnerInv, RunnerTypeOK, PageOK
  <2>. QED
    BY <2>1, <2>3, QuestionsStay DEF RunnerInv
<1>. QED
  BY <1>1, StartKeeps, ServerKeeps, RepliesKeep, PageKeeps DEF RunnerNext

LEMMA RunnerInitial == RunnerInit => RunnerInv
<1>. SUFFICES ASSUME RunnerInit PROVE RunnerInv
  OBVIOUS
<1>1. 0 \in 0..MaxEdits /\ 0 \in 0..MaxMishaps
  BY RunnerAssumption
<1>2. RunnerTypeOK
  BY <1>1 DEF RunnerInit, RunnerTypeOK
<1>3. PageOK
  BY DEF RunnerInit, PageOK
<1>4. QuestionsOK
  BY DEF RunnerInit, QuestionsOK, QuestionOK, Accounted
<1>. QED
  BY <1>2, <1>3, <1>4 DEF RunnerInv

\* The page, its requests and the rows of QuizRunner have their types.
THEOREM RunnerTypeCorrect == RunnerSpec => []RunnerTypeOK
<1>. QED
  BY RunnerInitial, RunnerStepKeeps, PTL DEF RunnerSpec, RunnerInv

\* No answer on the screen is lost between the page and its row without a sign,
\* but for the cases the property names (scheduleSave, flushPendingSave).
THEOREM AnswersCorrect == RunnerSpec => []AnswersAccountedFor
<1>1. RunnerInv => AnswersAccountedFor
  BY DEF RunnerInv, QuestionsOK, Accounted, AnswersAccountedFor
<1>. QED
  BY <1>1, RunnerInitial, RunnerStepKeeps, PTL DEF RunnerSpec
=============================================================================
