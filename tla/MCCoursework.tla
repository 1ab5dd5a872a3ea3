---------------------------- MODULE MCCoursework ----------------------------
(***************************************************************************)
(* Small instances of what students do in a course and staff record of it: *)
(* the attempts at a quiz and the page it is taken on, the grades of       *)
(* submissions, the registers kept by hand, SCORM attempts.  They keep a   *)
(* state each and share none here, so a behaviour of this module is a      *)
(* behaviour of the one that focus names; the others stay where they       *)
(* begin.                                                                  *)
(***************************************************************************)
EXTENDS MCQuizAttempts, QuizRunner, SubmissionGrades, CourseRegisters, ScormRuntime

CONSTANTS r1, r2

VARIABLE focus   \* the component that runs

courseworkVars == <<focus, vars, runnerVars, gradingVars, registerVars, scormVars>>

-----------------------------------------------------------------------------
\* A component that does not run begins in one of its initial states only.
CourseworkInit ==
  /\ focus \in {"attempts", "runner", "grades", "registers", "scorm"}
  /\ Init /\ (focus # "attempts" => questions = {})
  /\ RunnerInit
  /\ GradingInit
  /\ RegistersInit
  /\ focus # "registers" => /\ register = [r \in Registers |-> CHOOSE row \in RegisterRows : TRUE]
                            /\ role = [p \in Pupils |-> "student"]
  /\ ScormInit

CourseworkNext ==
  /\ UNCHANGED focus
  /\ \/ /\ focus = "attempts" /\ Next
        /\ UNCHANGED <<runnerVars, gradingVars, registerVars, scormVars>>
     \/ /\ focus = "runner" /\ RunnerNext
        /\ UNCHANGED <<vars, gradingVars, registerVars, scormVars>>
     \/ /\ focus = "grades" /\ GradingNext
        /\ UNCHANGED <<vars, runnerVars, registerVars, scormVars>>
     \/ /\ focus = "registers" /\ RegistersNext
        /\ UNCHANGED <<vars, runnerVars, gradingVars, scormVars>>
     \/ /\ focus = "scorm" /\ ScormNext
        /\ UNCHANGED <<vars, runnerVars, gradingVars, registerVars>>

CourseworkSpec == CourseworkInit /\ [][CourseworkNext]_courseworkVars

\* r1 and r2 are what runs at once: the handlers, the graders, the
\* transactions, the windows; and the questions on the page.
CourseworkSymmetry == Permutations({r1, r2})
=============================================================================
