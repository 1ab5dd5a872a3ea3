--------------------------- MODULE InMemoryAiJobs ---------------------------
(***************************************************************************)
(* The queue of AI jobs as packages/ai/src/jobs.ts keeps it in the memory  *)
(* of one process, where each operation is atomic.  Which of the queued    *)
(* jobs is claimed is left open: the order of insertion there, the         *)
(* publisher's clock and the locks of other claims in the database.        *)
(***************************************************************************)
EXTENDS Naturals

CONSTANTS
  Jobs,        \* idempotency keys of the jobs that may be enqueued
  MaxAttempts  \* maxAttempts of each job

VARIABLE job   \* the jobs, by idempotency key

NoJob    == [status |-> "absent", attempts |-> 0, output |-> "none", lastError |-> "none"]
QueuedJob == [NoJob EXCEPT !.status = "queued"]

Init == job = [j \in Jobs |-> NoJob]

Enqueue(j) ==
  /\ job[j].status = "absent"
  /\ job' = [job EXCEPT ![j] = QueuedJob]

ClaimNext(j) ==
  /\ job[j].status = "queued"
  /\ job' = [job EXCEPT ![j] = [@ EXCEPT !.status = "running", !.attempts = job[j].attempts + 1]]

Complete(j) ==
  /\ job[j].status = "running"
  /\ job' = [job EXCEPT ![j] =
       [@ EXCEPT !.status = "succeeded", !.output = "text", !.lastError = "none"]]

\* The reason may be the empty text of an error without a message.
Fail(j, reason) ==
  /\ job[j].status = "running"
  /\ job' = [job EXCEPT ![j] =
       [@ EXCEPT !.status = IF job[j].attempts < MaxAttempts[j] THEN "queued" ELSE "failed",
                 !.lastError = reason]]

Next == \E j \in Jobs :
  \/ Enqueue(j) \/ ClaimNext(j) \/ Complete(j)
  \/ \E reason \in {"empty", "text"} : Fail(j, reason)

Spec == Init /\ [][Next]_job
=============================================================================
