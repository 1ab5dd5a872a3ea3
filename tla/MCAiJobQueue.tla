---------------------------- MODULE MCAiJobQueue ----------------------------
(* Small instances of AiJobQueue.                                          *)
EXTENDS AiJobQueue, TLC

CONSTANTS w1, w2, w3

TwoJobs == 1..2
TwoAttempts == [j \in TwoJobs |-> 2]
\* The job with the larger id was created first.
Reversed == [j \in TwoJobs |-> 2 - j]
SameTime == [j \in TwoJobs |-> 0]
=============================================================================
