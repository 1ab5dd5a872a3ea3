---------------------------- MODULE MCQuizTaking ----------------------------
(***************************************************************************)
(* Small instances of the two sides of an attempt: QuizAttempts, the rows  *)
(* of the server and its handlers, and QuizRunner, the page a student      *)
(* takes a quiz on, which has its own summary of the server.  They share   *)
(* no state, so a behaviour of this module is a behaviour of the one that  *)
(* focus names.  QuizAttempts has two: "grading", with questions and at    *)
(* one moment under one setting, and "deadline", with neither questions    *)
(* nor anything else that stands still.                                    *)
(***************************************************************************)
EXTENDS MCQuizAttempts, QuizRunner

VARIABLE focus   \* the module that runs

takingVars == <<focus, vars, runnerVars>>

-----------------------------------------------------------------------------
\* The one that does not run begins in one of its initial states only.
TakingInit ==
  /\ focus \in {"grading", "deadline", "runner"}
  /\ Init /\ (focus # "grading" => questions = {})
  /\ RunnerInit

TakingNext ==
  \/ focus = "grading" /\ Next /\ UNCHANGED <<focus, quiz, override, now, runnerVars>>
  \/ focus = "deadline" /\ Next /\ UNCHANGED <<focus, questions, runnerVars>>
  \/ focus = "runner" /\ RunnerNext /\ UNCHANGED <<focus, vars>>

\* While attempts runs no fair action of the page is enabled; and where the
\* clock stands still no behaviour is fair, so that "grading" is there for the
\* invariants.
FairTakingSpec ==
  /\ TakingInit /\ [][TakingNext]_takingVars
  /\ focus # "runner" => Fairness
  /\ RunnerFairness
=============================================================================
