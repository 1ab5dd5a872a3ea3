---------------------------- MODULE AttemptLedger ----------------------------
(***************************************************************************)
(* What the quiz handlers promise for the attempts of each student, as if  *)
(* every start and every submit were one atomic step: an attempt is        *)
(* started only when none is open, and takes the next number.              *)
(* QuizAttempts implements this with handlers that read and write in       *)
(* separate statements.                                                    *)
(***************************************************************************)
EXTENDS Naturals

CONSTANTS
  Students,
  MaxNumber  \* the largest limit on attempts

VARIABLES
  opened, \* how many attempts each student has started
  open    \* whether the last one is still open

vars == <<opened, open>>

Init ==
  /\ opened = [s \in Students |-> 0]
  /\ open   = [s \in Students |-> FALSE]

Start(s) ==
  /\ ~open[s]
  /\ opened[s] < MaxNumber
  /\ opened' = [opened EXCEPT ![s] = @ + 1]
  /\ open'   = [open EXCEPT ![s] = TRUE]

Submit(s) ==
  /\ open[s]
  /\ open' = [open EXCEPT ![s] = FALSE]
  /\ UNCHANGED opened

Next == \E s \in Students : Start(s) \/ Submit(s)

Spec == Init /\ [][Next]_vars
=============================================================================
