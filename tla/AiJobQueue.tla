----------------------------- MODULE AiJobQueue -----------------------------
(***************************************************************************)
(* The durable queue of AI jobs: packages/core/src/ai-jobs.                *)
(*                                                                         *)
(* A worker claims the oldest queued job with one statement that locks the *)
(* row and skips rows other claims have locked, runs the executor of the   *)
(* job's action, and records the outcome: a read, then an update that asks *)
(* for a running job.  Nothing in a job says who runs it and there is no   *)
(* lease.  A worker may die anywhere.  A statement's outcome may not reach *)
(* the worker: then it was never executed, was executed, or is still on    *)
(* its way and will be executed when the worker has long gone on.          *)
(***************************************************************************)
EXTENDS Naturals, FiniteSets

CONSTANTS
  Jobs,          \* idempotency keys: natural numbers, in the order of ids
  Workers,       \* calls of processNextPersistentAiJob in flight
  Mortal,        \* the workers that may die
  MaxAttempts,   \* maxAttempts of each job
  CreatedAt,     \* createdAt of each job, by the clock of its publisher
  Unregistered,  \* jobs whose action has no executor
  MaxDoubts      \* bound: so many outcomes are lost

ASSUME QueueAssumption ==
  /\ Jobs \subseteq Nat /\ Jobs # {}
  /\ Mortal \subseteq Workers
  /\ MaxAttempts \in [Jobs -> Nat \ {0}]
  /\ CreatedAt \in [Jobs -> Nat]
  /\ Unregistered \subseteq Jobs
  /\ MaxDoubts \in Nat

VARIABLES
  job,     \* the ai_job rows, by idempotency key
  worker,  \* what each worker is doing
  late,    \* updates on their way that no worker waits for any more
  runs,    \* history: how often the executor of each job was started
  doubts,  \* how many outcomes have been lost
  lost     \* history: jobs with a worker that died, or lost the outcome by
           \* which it gave the job up

vars == <<job, worker, late, runs, doubts, lost>>

-----------------------------------------------------------------------------
Reasons == {"empty", "text"}

Rows == [status : {"absent", "queued", "running", "succeeded", "failed"},
         attempts : Nat, output : {"none", "text"}, lastError : {"none"} \cup Reasons]

\* reason: why the job fails; next: the status the read has led to.
Works == [pc : {"idle", "locked", "execute", "complete", "complete_update",
                "fail", "fail_update"},
          job : Jobs, reason : Reasons, next : {"queued", "failed"}]

AnyJob == CHOOSE j \in Jobs : TRUE

Idle == [pc |-> "idle", job |-> AnyJob, reason |-> "text", next |-> "queued"]

\* Updates: completions and failures.
Completions == [kind : {"complete"}, job : Jobs]
Failures    == [kind : {"fail"}, job : Jobs, reason : Reasons, next : {"queued", "failed"}]

\* The workers that have claimed a job and not yet given it up.
Holds(w, j) == worker[w].job = j /\ worker[w].pc \notin {"idle", "locked"}

Before(i, j) == CreatedAt[i] < CreatedAt[j] \/ (CreatedAt[i] = CreatedAt[j] /\ i < j)

Locked == {worker[w].job : w \in {v \in Workers : worker[v].pc = "locked"}}

Queued == {j \in Jobs : job[j].status = "queued"}

Goto(w, pc) == worker' = [worker EXCEPT ![w] = [@ EXCEPT !.pc = pc]]
Stop(w)     == worker' = [worker EXCEPT ![w] = Idle]

\* The worker turns to failAiJob, from its catch block or for want of an executor.
GoFail(w, reason) ==
  worker' = [worker EXCEPT ![w] = [@ EXCEPT !.pc = "fail", !.reason = reason]]

Doubt == doubts < MaxDoubts /\ doubts' = doubts + 1

\* UPDATE ... WHERE id = j AND status = 'running'.
Completed(j) ==
  IF job[j].status = "running"
  THEN [job EXCEPT ![j] =
         [@ EXCEPT !.status = "succeeded", !.output = "text", !.lastError = "none"]]
  ELSE job

Failed(j, reason, next) ==
  IF job[j].status = "running"
  THEN [job EXCEPT ![j] = [@ EXCEPT !.status = next, !.lastError = reason]]
  ELSE job

NextStatus(j) == IF job[j].attempts < MaxAttempts[j] THEN "queued" ELSE "failed"

-----------------------------------------------------------------------------
Init ==
  /\ job    = [j \in Jobs |-> [status |-> "absent", attempts |-> 0,
                              output |-> "none", lastError |-> "none"]]
  /\ worker = [w \in Workers |-> Idle]
  /\ late   = {}
  /\ runs   = [j \in Jobs |-> 0]
  /\ doubts = 0
  /\ lost   = {}

\* saveAiJob; a second save with the same key returns the row as it is.
Enqueue(j) ==
  /\ job[j].status = "absent"
  /\ job' = [job EXCEPT ![j] = [@ EXCEPT !.status = "queued"]]
  /\ UNCHANGED <<worker, late, runs, doubts, lost>>

\* Slip: the subquery does not skip locked rows, nor wait for them.
LockAnyway(w) ==
  /\ worker[w].pc = "idle"
  /\ \E j \in Queued :
       /\ \A i \in Queued \ {j} : Before(j, i)
       /\ worker' = [worker EXCEPT ![w] = [@ EXCEPT !.pc = "locked", !.job = j]]
  /\ UNCHANGED <<job, late, runs, doubts, lost>>

\* Slip: a worker leaves the oldest job alone when it has no executor for it.
LockRegistered(w) ==
  /\ worker[w].pc = "idle"
  /\ \E j \in Queued \ Locked :
       /\ \A i \in Queued \ (Locked \cup {j}) : Before(j, i)
       /\ j \notin Unregistered
       /\ worker' = [worker EXCEPT ![w] = [@ EXCEPT !.pc = "locked", !.job = j]]
  /\ UNCHANGED <<job, late, runs, doubts, lost>>

(* claimNextQueuedAiJob: ORDER BY created_at, id FOR UPDATE SKIP LOCKED    *)
(* LIMIT 1, then the update of the locked row.                             *)
Lock(w) ==
  /\ worker[w].pc = "idle"
  /\ \E j \in Queued \ Locked :
       /\ \A i \in Queued \ (Locked \cup {j}) : Before(j, i)
       /\ worker' = [worker EXCEPT ![w] = [@ EXCEPT !.pc = "locked", !.job = j]]
  /\ UNCHANGED <<job, late, runs, doubts, lost>>

\* Slip: the attempt is not counted.
RunUncounted(w) == job' = [job EXCEPT ![worker[w].job] = [@ EXCEPT !.status = "running"]]

\* The claim's update commits.
Run(w) ==
  LET j == worker[w].job IN
  job' = [job EXCEPT ![j] = [@ EXCEPT !.status = "running", !.attempts = job[j].attempts + 1]]

\* Slip: a job without an executor is left as it is.
ClaimOrLeave(w) ==
  LET j == worker[w].job IN
  /\ worker[w].pc = "locked"
  /\ Run(w)
  /\ \/ /\ j \in Unregistered
        /\ Stop(w)
        /\ UNCHANGED runs
     \/ /\ j \notin Unregistered
        /\ Goto(w, "execute")
        /\ runs' = [runs EXCEPT ![j] = runs[j] + 1]
  /\ UNCHANGED <<late, doubts, lost>>

Claim(w) ==
  LET j == worker[w].job IN
  /\ worker[w].pc = "locked"
  /\ Run(w)
  /\ \/ /\ j \in Unregistered
        /\ GoFail(w, "text")
        /\ UNCHANGED runs
     \/ /\ j \notin Unregistered
        /\ Goto(w, "execute")
        /\ runs' = [runs EXCEPT ![j] = runs[j] + 1]
  /\ UNCHANGED <<late, doubts, lost>>

\* The claim commits and nobody hears of it, or the row it returns is not one
\* that parseAiJobRow can read: the job stays running without a worker.
ClaimInDoubt(w) ==
  /\ worker[w].pc = "locked"
  /\ Doubt
  /\ Run(w)
  /\ Stop(w)
  /\ lost' = lost \cup {worker[w].job}
  /\ UNCHANGED <<late, runs>>

Execute(w) ==
  /\ worker[w].pc = "execute"
  /\ \/ Goto(w, "complete")
     \/ \E reason \in Reasons : GoFail(w, reason)
  /\ UNCHANGED <<job, late, runs, doubts, lost>>

\* completeAiJob, the read; it also throws when the output is not valid.
ReadToComplete(w) ==
  /\ worker[w].pc = "complete"
  /\ \/ job[worker[w].job].status = "running" /\ Goto(w, "complete_update")
     \/ GoFail(w, "text")
  /\ UNCHANGED <<job, late, runs, doubts, lost>>

UpdateComplete(w) ==
  LET j == worker[w].job IN
  /\ worker[w].pc = "complete_update"
  /\ job' = Completed(j)
  /\ \/ job[j].status = "running" /\ Stop(w)
     \/ job[j].status # "running" /\ GoFail(w, "text")
  /\ UNCHANGED <<late, runs, doubts, lost>>

CompleteInDoubt(w) ==
  /\ worker[w].pc = "complete_update"
  /\ Doubt
  /\ late' = late \cup {[kind |-> "complete", job |-> worker[w].job]}
  /\ \E reason \in Reasons : GoFail(w, reason)
  /\ UNCHANGED <<job, runs, lost>>

\* failAiJob, the read; what it throws leaves the worker.
ReadToFail(w) ==
  LET j == worker[w].job IN
  /\ worker[w].pc = "fail"
  /\ \/ /\ job[j].status = "running"
        /\ worker' = [worker EXCEPT ![w] =
             [@ EXCEPT !.pc = "fail_update", !.next = NextStatus(j)]]
     \/ /\ job[j].status # "running"
        /\ Stop(w)
  /\ UNCHANGED <<job, late, runs, doubts, lost>>

UpdateFail(w) ==
  /\ worker[w].pc = "fail_update"
  /\ job' = Failed(worker[w].job, worker[w].reason, worker[w].next)
  /\ Stop(w)
  /\ UNCHANGED <<late, runs, doubts, lost>>

FailInDoubt(w) ==
  /\ worker[w].pc = "fail_update"
  /\ Doubt
  /\ late' = late \cup {[kind |-> "fail", job |-> worker[w].job,
                        reason |-> worker[w].reason, next |-> worker[w].next]}
  /\ Stop(w)
  /\ lost' = lost \cup {worker[w].job}
  /\ UNCHANGED <<job, runs>>

\* An update in doubt is executed after all, or never.
Land(u) ==
  /\ u \in late
  /\ \/ u.kind = "complete" /\ job' = Completed(u.job)
     \/ u.kind = "fail" /\ job' = Failed(u.job, u.reason, u.next)
  /\ late' = late \ {u}
  /\ UNCHANGED <<worker, runs, doubts, lost>>

Vanish(u) ==
  /\ u \in late
  /\ late' = late \ {u}
  /\ UNCHANGED <<job, worker, runs, doubts, lost>>

\* Or an error of the database stops it.  The row lock of a claim that has
\* not committed goes with the connection.
Die(w) ==
  /\ w \in Mortal
  /\ worker[w].pc # "idle"
  /\ Stop(w)
  /\ lost' = IF worker[w].pc = "locked" THEN lost ELSE lost \cup {worker[w].job}
  /\ UNCHANGED <<job, late, runs, doubts>>

Work(w) ==
  \/ Claim(w) \/ Execute(w) \/ ReadToComplete(w) \/ UpdateComplete(w)
  \/ ReadToFail(w) \/ UpdateFail(w)

Next ==
  \/ \E j \in Jobs : Enqueue(j)
  \/ \E w \in Workers :
       \/ Lock(w) \/ Work(w) \/ Die(w)
       \/ ClaimInDoubt(w) \/ CompleteInDoubt(w) \/ FailInDoubt(w)
  \/ \E u \in late : Land(u) \/ Vanish(u)

Spec == Init /\ [][Next]_vars

\* A worker that does not die goes on, and is called again and again, not
\* only when every queued job is locked; one that may die goes on or dies; and
\* the database ends the claim of any worker, one way or another.
Fairness ==
  /\ \A w \in Workers \ Mortal : WF_vars(Work(w)) /\ SF_vars(Lock(w))
  /\ \A w \in Mortal : WF_vars(Work(w) \/ Die(w))
  /\ \A w \in Workers : WF_vars(Claim(w) \/ ClaimInDoubt(w))

FairSpec == Spec /\ Fairness

-----------------------------------------------------------------------------
(* Properties.                                                             *)

\* Rows and workers have their types; no job has more attempts than its
\* maxAttempts, although the count is read in one statement and decides in
\* another.
TypeOK ==
  /\ job \in [Jobs -> Rows]
  /\ \A j \in Jobs : job[j].attempts <= MaxAttempts[j]
  /\ worker \in [Workers -> Works]
  /\ late \subseteq Completions \cup Failures
  /\ runs \in [Jobs -> Nat]
  /\ doubts \in 0..MaxDoubts
  /\ lost \subseteq Jobs

\* Two workers never run the same job at the same time, and no job's executor
\* (a paid call to a provider) is started more often than maxAttempts.
OneRunner ==
  /\ \A v, w \in Workers, j \in Jobs : Holds(v, j) /\ Holds(w, j) => v = w
  /\ \A j \in Jobs : runs[j] <= MaxAttempts[j]

\* A job that has succeeded or failed keeps its output and its error: neither
\* a worker that failed to learn of it nor an update that lands late reopens it.
TerminalIsFinal ==
  [][\A j \in Jobs :
       job[j].status \in {"succeeded", "failed"} => job'[j] = job[j]]_vars

\* Each row is one that the schema of AI jobs accepts, so that it can be read
\* again: output on succeeded jobs only, which keep no error of earlier attempts.
RowsAreReadable ==
  \A j \in Jobs :
    /\ job[j].output = "text" <=> job[j].status = "succeeded"
    /\ job[j].status = "succeeded" => job[j].lastError = "none"

\* A running job has a worker that will still end its attempt, unless one of
\* its workers died or lost an outcome: no path of the code drops a job, with
\* or without an executor, and this is all there is in place of a lease.
RunningIsHeld ==
  \A j \in Jobs :
    job[j].status = "running" => j \in lost \/ \E w \in Workers : Holds(w, j)

\* The rows behave like the queue in memory: every interleaving of the
\* workers' statements is one of atomic claims, completions and failures.
InMemory == INSTANCE InMemoryAiJobs
ImplementsInMemory == InMemory!Spec

\* A queued job is claimed in the end, as long as one worker lives: failing,
\* dying and retrying ones ahead of it do not starve it.
QueuedIsClaimed ==
  \A j \in Jobs : job[j].status = "queued" ~> job[j].status # "queued"

\* A job whose workers do not die nor lose an outcome succeeds, or uses up its
\* attempts, whatever happens to the other jobs.
JobsFinish ==
  \A j \in Jobs :
    job[j].status = "queued" ~> job[j].status \in {"succeeded", "failed"} \/ j \in lost
=============================================================================
