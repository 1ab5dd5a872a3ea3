--------------------------- MODULE MCQuizAttempts ---------------------------
(***************************************************************************)
(* Instances of QuizAttempts for TLC.                                      *)
(***************************************************************************)
EXTENDS QuizAttempts, TLC

\* Open at all times, without a time limit.
OpenQuiz == [published |-> TRUE, opensAt |-> 0, closesAt |-> MaxTime,
             timeLimit |-> 0, maxAttempts |-> MaxNumber]

\* With a time limit of one tick; the same, of one attempt and open at time 1
\* only; hidden.
Timed  == [OpenQuiz EXCEPT !.timeLimit = 1]
Strict == [Timed EXCEPT !.opensAt = 1, !.closesAt = 1, !.maxAttempts = 1]
Hidden == [OpenQuiz EXCEPT !.published = FALSE]

\* A student is granted all there is.
Granted == [opensAt |-> 0, closesAt |-> MaxTime, timeLimit |-> MaxTime,
            maxAttempts |-> MaxNumber]

ThreeQuizzes == {OpenQuiz, Strict, Hidden}
OneQuiz == {OpenQuiz}
TimedOrHidden == {Timed, Hidden}

AnyOverride == {NoOverride, Granted}
NoOverrides == {NoOverride}

\* Handlers are interchangeable.
Symmetry == Permutations(Requests)
=============================================================================
