-------------------------- MODULE AiJobQueueProofs --------------------------
(* Theorems about AiJobQueue, for any jobs, workers, maxAttempts and       *)
(* number of lost outcomes.                                                *)
EXTENDS AiJobQueue, TLAPS

USE QueueAssumption

-----------------------------------------------------------------------------
(* The inductive invariant.                                                *)

Busy(w) == worker[w].pc # "idle"

\* A row the schema accepts, of a job that has an attempt left if it is queued.
Fits(row, max) ==
  /\ row.attempts <= max
  /\ row.status = "absent" => row = InMemory!NoJob
  /\ row.status = "queued" => row.attempts < max
  /\ row.output = "text" <=> row.status = "succeeded"
  /\ row.status = "succeeded" => row.lastError = "none"

\* Each start of the executor was counted.
RowOK(j) ==
  /\ Fits(job[j], MaxAttempts[j])
  /\ runs[j] <= job[j].attempts

\* A locked job is queued, a held one runs or has succeeded by an update that
\* landed late; what the read before the failing update has led to still holds.
WorkerOK(w) ==
  LET j == worker[w].job IN
  /\ worker[w].pc = "locked" => job[j].status = "queued"
  /\ worker[w].pc \notin {"idle", "locked"} => job[j].status \in {"running", "succeeded"}
  /\ worker[w].pc = "fail_update" => worker[w].next = NextStatus(j)

\* Nobody else works on a job somebody works on.
Exclusive ==
  \A v, w \in Workers : Busy(v) /\ Busy(w) /\ worker[v].job = worker[w].job => v = w

\* While the failing update of a job is under way nobody works on the job, so
\* that nobody else can fail it, and its attempts stay what they were.
LateFailures == {u \in late : u.kind = "fail"}

LateOK ==
  /\ \A u \in LateFailures :
       /\ job[u.job].status \in {"running", "succeeded"}
       /\ u.next = NextStatus(u.job)
       /\ \A w \in Workers : Busy(w) => worker[w].job # u.job
  /\ \A u, v \in LateFailures : u.job = v.job => u = v

IInv ==
  /\ TypeOK
  /\ \A j \in Jobs : RowOK(j)
  /\ \A w \in Workers : WorkerOK(w)
  /\ Exclusive
  /\ LateOK
  /\ RunningIsHeld

-----------------------------------------------------------------------------
(* What the steps do to the rows.                                          *)

\* An idle worker is a worker.
LEMMA IdleType == Idle \in Works
BY DEF Idle, Works, AnyJob, Reasons

\* Every update of a row is an operation of the queue in memory, or nothing.
LEMMA RowSteps ==
  ASSUME IInv, [Next]_vars
  PROVE  [InMemory!Next]_job
<1>. USE DEF IInv, TypeOK, InMemory!Next
<1>1. ASSUME NEW j \in Jobs, Enqueue(j) PROVE InMemory!Enqueue(j)
  BY <1>1 DEF Enqueue, RowOK, Fits, InMemory!Enqueue, InMemory!NoJob, InMemory!QueuedJob
<1>2. ASSUME NEW w \in Workers, worker[w].pc = "locked", Run(w)
      PROVE  \E j \in Jobs : InMemory!ClaimNext(j)
  <2>1. InMemory!ClaimNext(worker[w].job)
    BY <1>2 DEF Run, WorkerOK, Works, InMemory!ClaimNext
  <2>. QED  BY <2>1 DEF Works
<1>3. ASSUME NEW j \in Jobs, job' = Completed(j)
      PROVE  InMemory!Complete(j) \/ UNCHANGED job
  BY <1>3 DEF Completed, InMemory!Complete
<1>4. ASSUME NEW j \in Jobs, NEW reason \in Reasons, job' = Failed(j, reason, NextStatus(j))
      PROVE  InMemory!Fail(j, reason) \/ UNCHANGED job
  BY <1>4 DEF Failed, NextStatus, InMemory!Fail
<1>5. ASSUME NEW w \in Workers, Lock(w) \/ Work(w) \/ Die(w) \/ ClaimInDoubt(w)
                                \/ CompleteInDoubt(w) \/ FailInDoubt(w)
      PROVE  [InMemory!Next]_job
  <2>1. CASE Claim(w) \/ ClaimInDoubt(w)
    BY <1>2, <2>1 DEF Claim, ClaimInDoubt
  <2>2. CASE UpdateComplete(w)
    BY <1>3, <2>2 DEF UpdateComplete, Works
  <2>3. CASE UpdateFail(w)
    <3>1. worker[w].job \in Jobs /\ worker[w].reason \in Reasons
      BY DEF Works
    <3>. QED  BY <1>4, <2>3, <3>1 DEF UpdateFail, WorkerOK, Reasons
  <2>. QED
    BY <1>5, <2>1, <2>2, <2>3
       DEF Lock, Work, Die, CompleteInDoubt, FailInDoubt, Execute, ReadToComplete, ReadToFail
<1>6. ASSUME NEW u \in late, Land(u) \/ Vanish(u) PROVE [InMemory!Next]_job
  <2>1. CASE u.kind = "complete" /\ job' = Completed(u.job)
    BY <1>3, <2>1 DEF Completions, Failures
  <2>2. CASE u.kind = "fail" /\ job' = Failed(u.job, u.reason, u.next)
    <3>1. u.job \in Jobs /\ u.reason \in Reasons /\ u.next = NextStatus(u.job)
      BY <2>2 DEF Completions, Failures, LateOK, LateFailures
    <3>. QED  BY <1>4, <2>2, <3>1 DEF Reasons
  <2>. QED
    BY <1>6, <2>1, <2>2 DEF Land, Vanish
<1>. QED
  BY <1>1, <1>5, <1>6 DEF Next, vars

\* One operation of the queue in memory leaves a fitting row of a job that had
\* not ended, and no fewer attempts.
Follows(old, row, max) ==
  /\ row \in Rows
  /\ Fits(row, max)
  /\ old.attempts <= row.attempts
  /\ old.status \notin {"succeeded", "failed"}

\* The four operations one by one.
LEMMA Operations ==
  ASSUME NEW max \in Nat \ {0}, NEW old \in Rows, Fits(old, max)
  PROVE  /\ Follows(InMemory!NoJob, InMemory!QueuedJob, max)
         /\ old.status = "queued" =>
              Follows(old, [old EXCEPT !.status = "running", !.attempts = old.attempts + 1], max)
         /\ old.status = "running" =>
              Follows(old, [old EXCEPT !.status = "succeeded", !.output = "text",
                                       !.lastError = "none"], max)
         /\ \A reason \in Reasons : old.status = "running" =>
              Follows(old, [old EXCEPT !.status = IF old.attempts < max THEN "queued"
                                                                       ELSE "failed",
                                       !.lastError = reason], max)
<1>1. Follows(InMemory!NoJob, InMemory!QueuedJob, max)
  BY DEF Follows, Fits, Rows, InMemory!NoJob, InMemory!QueuedJob
<1>2. ASSUME old.status = "queued"
      PROVE  Follows(old, [old EXCEPT !.status = "running", !.attempts = old.attempts + 1], max)
  <2>. DEFINE row == [old EXCEPT !.status = "running", !.attempts = old.attempts + 1]
  <2>0. old.attempts + 1 \in Nat
    BY DEF Rows
  <2>1. /\ row \in Rows
        /\ row.status = "running" /\ row.attempts = old.attempts + 1 /\ row.output = old.output
    BY <2>0 DEF Rows
  <2>2. old.attempts \in Nat /\ old.attempts < max /\ old.output # "text"
    BY <1>2 DEF Fits, Rows
  <2>3. Follows(old, row, max)
    <3>. HIDE DEF row
    <3>. QED
      BY <1>2, <2>1, <2>2 DEF Follows, Fits
  <2>. QED
    BY <2>3
<1>3. ASSUME old.status = "running"
      PROVE  Follows(old, [old EXCEPT !.status = "succeeded", !.output = "text",
                                      !.lastError = "none"], max)
  <2>. DEFINE row == [old EXCEPT !.status = "succeeded", !.output = "text", !.lastError = "none"]
  <2>1. /\ row \in Rows
        /\ row.status = "succeeded" /\ row.attempts = old.attempts
        /\ row.output = "text" /\ row.lastError = "none"
    BY DEF Rows
  <2>2. old.attempts \in Nat /\ old.attempts <= max
    BY DEF Fits, Rows
  <2>3. Follows(old, row, max)
    <3>. HIDE DEF row
    <3>. QED
      BY <1>3, <2>1, <2>2 DEF Follows, Fits
  <2>. QED
    BY <2>3
<1>4. ASSUME NEW reason \in Reasons, old.status = "running"
      PROVE  Follows(old, [old EXCEPT !.status = IF old.attempts < max THEN "queued"
                                                                      ELSE "failed",
                                      !.lastError = reason], max)
  <2>. DEFINE next == IF old.attempts < max THEN "queued" ELSE "failed"
              row == [old EXCEPT !.status = next, !.lastError = reason]
  <2>1. /\ row \in Rows
        /\ row.status = next /\ row.attempts = old.attempts /\ row.output = old.output
    BY DEF Rows
  <2>2. old.attempts \in Nat /\ old.attempts <= max /\ old.output # "text"
    BY <1>4 DEF Fits, Rows
  <2>3. Follows(old, row, max)
    <3>. HIDE DEF row
    <3>. QED
      BY <1>4, <2>1, <2>2 DEF Follows, Fits
  <2>. QED
    BY <2>3
<1>. QED
  BY <1>1, <1>2, <1>3, <1>4

\* An operation in memory keeps the rows fitting, loses no attempt, and leaves
\* an ended job alone.
LEMMA RowsKept ==
  ASSUME IInv, [InMemory!Next]_job
  PROVE  /\ job' \in [Jobs -> Rows]
         /\ \A j \in Jobs :
              /\ Fits(job'[j], MaxAttempts[j])
              /\ job[j].attempts <= job'[j].attempts
              /\ job[j].status \in {"succeeded", "failed"} => job'[j] = job[j]
<1>. USE DEF IInv, TypeOK, RowOK
<1>1. \A j \in Jobs : job[j].attempts \in Nat
  BY DEF Rows
<1>2. ASSUME NEW j \in Jobs, NEW row, job' = [job EXCEPT ![j] = row],
             Follows(job[j], row, MaxAttempts[j])
      PROVE  /\ job' \in [Jobs -> Rows]
             /\ \A i \in Jobs :
                  /\ Fits(job'[i], MaxAttempts[i])
                  /\ job[i].attempts <= job'[i].attempts
                  /\ job[i].status \in {"succeeded", "failed"} => job'[i] = job[i]
  BY <1>1, <1>2 DEF Follows
<1>3. CASE UNCHANGED job
  BY <1>1, <1>3
<1>4. CASE \E j \in Jobs : InMemory!Enqueue(j)
  <2>1. PICK j \in Jobs : InMemory!Enqueue(j)
    BY <1>4
  <2>2. job[j] = InMemory!NoJob /\ job' = [job EXCEPT ![j] = InMemory!QueuedJob]
    BY <2>1 DEF InMemory!Enqueue, Fits
  <2>. QED
    BY <1>2, <2>2, Operations
<1>5. CASE \E j \in Jobs : InMemory!ClaimNext(j)
  BY <1>2, <1>5, Operations DEF InMemory!ClaimNext
<1>6. CASE \E j \in Jobs : InMemory!Complete(j)
  BY <1>2, <1>6, Operations DEF InMemory!Complete
<1>7. CASE \E j \in Jobs, reason \in Reasons : InMemory!Fail(j, reason)
  BY <1>2, <1>7, Operations DEF InMemory!Fail
<1>. QED
  BY <1>3, <1>4, <1>5, <1>6, <1>7 DEF InMemory!Next, Reasons

-----------------------------------------------------------------------------
(* What the steps do to the workers.                                       *)

\* The steps of one worker.
Step(w) == Lock(w) \/ Work(w) \/ Die(w) \/ ClaimInDoubt(w) \/ CompleteInDoubt(w) \/ FailInDoubt(w)

\* A worker's step concerns that worker and the row of its job alone.
LEMMA StepIsLocal ==
  ASSUME IInv, NEW w \in Workers, Step(w)
  PROVE  /\ worker' \in [Workers -> Works]
         /\ \A v \in Workers \ {w} : worker'[v] = worker[v]
         /\ \A j \in Jobs : job'[j] # job[j] => Busy(w) /\ worker[w].job = j
<1>. USE IdleType DEF IInv, TypeOK, Busy
<1>1. worker[w] \in Works /\ worker[w].job \in Jobs
  BY DEF Works
<1>2. ASSUME NEW x \in Works, worker' = [worker EXCEPT ![w] = x]
      PROVE  /\ worker' \in [Workers -> Works]
             /\ \A v \in Workers \ {w} : worker'[v] = worker[v]
  BY <1>2
<1>3. ASSUME NEW pc \in {"idle", "locked", "execute", "complete", "complete_update",
                         "fail", "fail_update"},
             NEW j \in Jobs, NEW reason \in Reasons, NEW next \in {"queued", "failed"}
      PROVE  /\ [worker[w] EXCEPT !.pc = pc] \in Works
             /\ [worker[w] EXCEPT !.pc = pc, !.job = j] \in Works
             /\ [worker[w] EXCEPT !.pc = pc, !.reason = reason] \in Works
             /\ [worker[w] EXCEPT !.pc = pc, !.next = next] \in Works
  BY <1>1 DEF Works
<1>4. NextStatus(worker[w].job) \in {"queued", "failed"} /\ "text" \in Reasons
  BY DEF NextStatus, Reasons
<1>5. \E x \in Works : worker' = [worker EXCEPT ![w] = x]
  <2>1. CASE Lock(w)
    BY <1>3, <1>4, <2>1 DEF Lock, Queued
  <2>2. CASE Claim(w) \/ ClaimInDoubt(w)
    BY <1>1, <1>3, <1>4, <2>2 DEF Claim, ClaimInDoubt, GoFail, Goto, Stop
  <2>3. CASE Execute(w) \/ ReadToComplete(w) \/ UpdateComplete(w) \/ CompleteInDoubt(w)
    BY <1>1, <1>3, <1>4, <2>3
       DEF Execute, ReadToComplete, UpdateComplete, CompleteInDoubt, GoFail, Goto, Stop
  <2>4. CASE ReadToFail(w) \/ UpdateFail(w) \/ FailInDoubt(w) \/ Die(w)
    BY <1>1, <1>3, <1>4, <2>4 DEF ReadToFail, UpdateFail, FailInDoubt, Die, Stop
  <2>. QED
    BY <2>1, <2>2, <2>3, <2>4 DEF Step, Work
<1>6. \A j \in Jobs : job'[j] # job[j] => Busy(w) /\ worker[w].job = j
  <2>1. CASE Claim(w) \/ ClaimInDoubt(w)
    BY <1>1, <2>1 DEF Claim, ClaimInDoubt, Run
  <2>2. CASE UpdateComplete(w)
    BY <1>1, <2>2 DEF UpdateComplete, Completed
  <2>3. CASE UpdateFail(w)
    BY <1>1, <2>3 DEF UpdateFail, Failed
  <2>. QED
    BY <2>1, <2>2, <2>3
       DEF Step, Work, Lock, Execute, ReadToComplete, ReadToFail, Die, CompleteInDoubt, FailInDoubt
<1>. QED
  BY <1>2, <1>5, <1>6

\* A step of a worker loses at most the job it works on.
LEMMA LostKept ==
  ASSUME TypeOK, NEW w \in Workers, Step(w)
  PROVE  lost' \subseteq Jobs
<1>1. worker[w].job \in Jobs
  BY DEF TypeOK, Works
<1>2. lost' \in {lost, lost \cup {worker[w].job}}
  BY DEF Step, Work, Lock, Claim, Execute, ReadToComplete, UpdateComplete, ReadToFail,
         UpdateFail, Die, ClaimInDoubt, CompleteInDoubt, FailInDoubt
<1>. QED
  BY <1>1, <1>2 DEF TypeOK

\* Updates in doubt, the starts of executors and the doubts keep their types.
LEMMA TypesKept ==
  ASSUME IInv, [Next]_vars
  PROVE  TypeOK'
<1>. USE DEF IInv, TypeOK
<1>1. job' \in [Jobs -> Rows] /\ \A j \in Jobs : job'[j].attempts <= MaxAttempts[j]
  BY RowSteps, RowsKept DEF Fits
<1>2. ASSUME NEW w \in Workers, Step(w)
      PROVE  /\ late' \subseteq Completions \cup Failures
             /\ runs' \in [Jobs -> Nat]
             /\ doubts' \in 0..MaxDoubts
  <2>1. worker[w].job \in Jobs /\ worker[w].reason \in Reasons
          /\ worker[w].next \in {"queued", "failed"}
    BY DEF Works
  <2>2. Doubt => doubts' \in 0..MaxDoubts
    BY DEF Doubt
  <2>3. CASE Claim(w)
    BY <2>1, <2>3 DEF Claim
  <2>4. CASE CompleteInDoubt(w)
    BY <2>1, <2>2, <2>4 DEF CompleteInDoubt, Completions
  <2>5. CASE FailInDoubt(w)
    BY <2>1, <2>2, <2>5 DEF FailInDoubt, Failures
  <2>. QED
    BY <1>2, <2>2, <2>3, <2>4, <2>5
       DEF Step, Work, Lock, Execute, ReadToComplete, UpdateComplete, ReadToFail, UpdateFail,
           Die, ClaimInDoubt
<1>3. ASSUME NEW w \in Workers, Step(w) PROVE TypeOK'
  BY <1>1, <1>2, <1>3, StepIsLocal, LostKept
<1>4. CASE \E j \in Jobs : Enqueue(j)
  BY <1>1, <1>4 DEF Enqueue
<1>5. CASE \E u \in late : Land(u) \/ Vanish(u)
  BY <1>1, <1>5 DEF Land, Vanish
<1>6. CASE UNCHANGED vars
  BY <1>6 DEF vars
<1>. QED
  BY <1>3, <1>4, <1>5, <1>6 DEF Next, Step

\* A start of an executor comes with the attempt the claim counts.
LEMMA RowsOK ==
  ASSUME IInv, [Next]_vars
  PROVE  \A j \in Jobs : RowOK(j)'
<1>. USE DEF IInv, TypeOK
<1>1. \A j \in Jobs : Fits(job'[j], MaxAttempts[j]) /\ job[j].attempts <= job'[j].attempts
  BY RowSteps, RowsKept
<1>2. \A j \in Jobs : job[j].attempts \in Nat /\ job'[j].attempts \in Nat /\ runs[j] \in Nat
  BY TypesKept DEF Rows
<1>3. \A j \in Jobs : runs'[j] <= job'[j].attempts
  <2>1. CASE UNCHANGED runs
    BY <1>1, <1>2, <2>1 DEF RowOK
  <2>2. CASE \E w \in Workers : Claim(w)
    <3>1. PICK w \in Workers : Claim(w)
      BY <2>2
    <3>. DEFINE k == worker[w].job
    <3>2. k \in Jobs
      BY DEF Works
    <3>3. job'[k].attempts = job[k].attempts + 1
      BY <3>1, <3>2 DEF Claim, Run, Rows
    <3>4. runs'[k] \in {runs[k], runs[k] + 1} /\ \A j \in Jobs \ {k} : runs'[j] = runs[j]
      BY <3>1, <3>2 DEF Claim
    <3>. QED
      BY <1>1, <1>2, <3>2, <3>3, <3>4 DEF RowOK
  <2>. QED
    BY <2>1, <2>2
       DEF Next, vars, Work, Lock, Execute, ReadToComplete, UpdateComplete, ReadToFail,
           UpdateFail, Die, ClaimInDoubt, CompleteInDoubt, FailInDoubt, Enqueue, Land, Vanish
<1>. QED
  BY <1>1, <1>3 DEF RowOK

\* How a worker moves.
LEMMA Moves ==
  ASSUME TypeOK, NEW w \in Workers
  PROVE  /\ \A pc \in {"execute", "complete", "complete_update"} :
              Goto(w, pc) => worker'[w].pc = pc /\ worker'[w].job = worker[w].job
         /\ \A reason \in Reasons :
              GoFail(w, reason) => worker'[w].pc = "fail" /\ worker'[w].job = worker[w].job
         /\ Stop(w) => worker'[w].pc = "idle"
<1>1. worker[w] \in Works
  BY DEF TypeOK
<1>2. ASSUME NEW pc \in {"execute", "complete", "complete_update"}, Goto(w, pc)
      PROVE  worker'[w].pc = pc /\ worker'[w].job = worker[w].job
  BY <1>1, <1>2 DEF Goto, TypeOK, Works
<1>3. ASSUME NEW reason \in Reasons, GoFail(w, reason)
      PROVE  worker'[w].pc = "fail" /\ worker'[w].job = worker[w].job
  BY <1>1, <1>3 DEF GoFail, TypeOK, Works
<1>4. ASSUME Stop(w) PROVE worker'[w].pc = "idle"
  BY <1>4 DEF Stop, Idle, TypeOK
<1>. QED
  BY <1>2, <1>3, <1>4

\* A worker lets go of a running job only by dying or losing an outcome.
LEMMA MoverHolds ==
  ASSUME IInv, NEW w \in Workers, Step(w), NEW j \in Jobs, job'[j].status = "running",
         Holds(w, j) \/ job[j].status # "running"
  PROVE  j \in lost' \/ Holds(w, j)'
<1>. USE DEF IInv, TypeOK, Holds
<1>1. worker[w].job \in Jobs /\ worker[w] \in Works
  BY DEF Works
<1>2. job'[j] # job[j] => worker[w].job = j
  BY StepIsLocal
<1>3. CASE Lock(w)
  BY <1>3 DEF Lock
<1>4. CASE Claim(w)
  <2>1. worker[w].job = j
    BY <1>2, <1>4 DEF Claim
  <2>2. worker'[w].pc \in {"fail", "execute"} /\ worker'[w].job = worker[w].job
    BY <1>4, Moves DEF Claim, Reasons
  <2>. QED
    BY <2>1, <2>2
<1>5. CASE Execute(w) \/ ReadToComplete(w) \/ CompleteInDoubt(w)
  <2>1. worker'[w].pc \in {"complete", "complete_update", "fail"}
          /\ worker'[w].job = worker[w].job /\ job' = job
    BY <1>5, Moves DEF Execute, ReadToComplete, CompleteInDoubt, Reasons
  <2>. QED
    BY <2>1
<1>6. CASE UpdateComplete(w)
  <2>1. worker[w].job = j /\ job'[j].status # "running"
    BY <1>1, <1>2, <1>6 DEF UpdateComplete, Completed, Rows
  <2>. QED
    BY <2>1
<1>7. CASE ReadToFail(w)
  <2>1. worker[w].job = j /\ job[j].status = "running"
    BY <1>7 DEF ReadToFail
  <2>2. worker'[w].pc = "fail_update" /\ worker'[w].job = j
    <3>1. worker' = [worker EXCEPT ![w] = [@ EXCEPT !.pc = "fail_update", !.next = NextStatus(j)]]
      BY <1>7, <2>1 DEF ReadToFail
    <3>. QED
      BY ONLY <1>1, <2>1, <3>1, worker \in [Workers -> Works], w \in Workers DEF Works
  <2>. QED
    BY <2>2
<1>8. CASE UpdateFail(w)
  <2>1. worker[w].job = j /\ worker[w].next \in {"queued", "failed"}
    BY <1>1, <1>2, <1>8 DEF UpdateFail, Works
  <2>2. job'[j].status # "running"
    BY <1>8, <2>1 DEF UpdateFail, Failed, Rows
  <2>. QED
    BY <2>2
<1>9. CASE ClaimInDoubt(w) \/ FailInDoubt(w) \/ Die(w)
  <2>1. worker[w].job = j
    BY <1>2
  <2>2. job' # job => ClaimInDoubt(w)
    BY <1>9 DEF FailInDoubt, Die
  <2>. QED
    BY <1>9, <2>1, <2>2 DEF ClaimInDoubt, FailInDoubt, Die
<1>. QED
  BY <1>3, <1>4, <1>5, <1>6, <1>7, <1>8, <1>9 DEF Step, Work

\* No step drops a running job.
LEMMA HeldKept ==
  ASSUME IInv, [Next]_vars
  PROVE  RunningIsHeld'
<1>. SUFFICES ASSUME NEW j \in Jobs, job'[j].status = "running"
              PROVE  j \in lost' \/ \E w \in Workers : Holds(w, j)'
  BY DEF RunningIsHeld
<1>1. CASE \E w \in Workers : Step(w)
  <2>1. PICK w \in Workers : Step(w)
    BY <1>1
  <2>2. CASE Holds(w, j) \/ job[j].status # "running"
    BY <2>1, <2>2, MoverHolds
  <2>3. CASE ~Holds(w, j) /\ job[j].status = "running"
    <3>1. j \in lost \/ \E v \in Workers \ {w} : Holds(v, j)
      BY <2>3 DEF IInv, RunningIsHeld
    <3>2. lost \subseteq lost'
      BY <2>1 DEF Step, Work, Lock, Claim, Execute, ReadToComplete, UpdateComplete,
         ReadToFail, UpdateFail, Die, ClaimInDoubt, CompleteInDoubt, FailInDoubt
    <3>3. \A v \in Workers \ {w} : worker'[v] = worker[v]
      BY <2>1, StepIsLocal
    <3>. QED
      BY <3>1, <3>2, <3>3 DEF Holds
  <2>. QED
    BY <2>2, <2>3
<1>2. CASE ~\E w \in Workers : Step(w)
  <2>1. worker' = worker /\ lost' = lost
    BY <1>2 DEF Next, Step, vars, Enqueue, Land, Vanish
  <2>2. job[j].status = "running"
    <3>1. CASE \E i \in Jobs : Enqueue(i)
      BY <3>1 DEF Enqueue, IInv, TypeOK, Rows
    <3>2. CASE \E u \in late : Land(u)
      BY <3>2 DEF Land, Completed, Failed, IInv, TypeOK, Rows
    <3>. QED
      BY <1>2, <3>1, <3>2 DEF Next, Step, vars, Vanish
  <2>. QED
    BY <2>1, <2>2 DEF IInv, RunningIsHeld, Holds
<1>. QED
  BY <1>1, <1>2

\* A worker that did not move keeps what the invariant says of it.
LEMMA OthersOK ==
  ASSUME IInv, NEW w \in Workers, Step(w), NEW v \in Workers \ {w}
  PROVE  WorkerOK(v)'
<1>. USE DEF IInv, TypeOK, WorkerOK
<1>1. worker'[v] = worker[v] /\ worker[v].job \in Jobs
  BY StepIsLocal DEF Works
<1>2. Busy(v) => job'[worker[v].job] = job[worker[v].job]
  <2>1. ASSUME Busy(v), job'[worker[v].job] # job[worker[v].job] PROVE FALSE
    <3>1. Busy(w) /\ worker[w].job = worker[v].job
      BY <1>1, <2>1, StepIsLocal
    <3>. QED
      BY <2>1, <3>1 DEF Exclusive
  <2>. QED
    BY <2>1
<1>. QED
  BY <1>1, <1>2 DEF Busy, NextStatus

\* The worker that moved: it finds its job queued, then running or succeeded.
LEMMA MoverOK ==
  ASSUME IInv, NEW w \in Workers, Step(w)
  PROVE  WorkerOK(w)'
<1>. USE DEF IInv, TypeOK
<1>. DEFINE j == worker[w].job
<1>1. j \in Jobs /\ worker'[w] \in Works /\ WorkerOK(w)
  BY StepIsLocal DEF Works
<1>2. CASE worker'[w].pc = "idle"
  BY <1>2 DEF WorkerOK
<1>3. CASE Lock(w)
  <2>1. PICK k \in Queued : worker' = [worker EXCEPT ![w] = [@ EXCEPT !.pc = "locked", !.job = k]]
    BY <1>3 DEF Lock
  <2>2. worker'[w].pc = "locked" /\ worker'[w].job = k
    BY <2>1 DEF Works
  <2>. QED
    BY <1>3, <2>2 DEF Lock, WorkerOK, Queued
<1>4. CASE Claim(w)
  <2>1. worker'[w].pc \in {"fail", "execute"} /\ worker'[w].job = j
    BY <1>4, Moves DEF Claim, Reasons
  <2>2. job'[j].status = "running"
    BY <1>1, <1>4 DEF Claim, Run, Rows
  <2>. QED
    BY <2>1, <2>2 DEF WorkerOK
<1>5. CASE Execute(w) \/ ReadToComplete(w) \/ CompleteInDoubt(w)
  <2>1. worker'[w].pc \in {"complete", "complete_update", "fail"} /\ worker'[w].job = j
          /\ worker[w].pc \in {"execute", "complete", "complete_update"} /\ job' = job
    BY <1>5, Moves DEF Execute, ReadToComplete, CompleteInDoubt, Reasons
  <2>. QED
    BY <1>1, <2>1 DEF WorkerOK
<1>6. CASE UpdateComplete(w) /\ worker'[w].pc # "idle"
  <2>1. worker'[w].pc = "fail" /\ worker'[w].job = j /\ job'[j] = job[j]
          /\ worker[w].pc = "complete_update"
    BY <1>1, <1>6, Moves DEF UpdateComplete, Completed, Reasons
  <2>. QED
    BY <1>1, <2>1 DEF WorkerOK
<1>7. CASE ReadToFail(w) /\ worker'[w].pc # "idle"
  <2>1. job' = job /\ job[j].status = "running"
          /\ worker' = [worker EXCEPT ![w] = [@ EXCEPT !.pc = "fail_update", !.next = NextStatus(j)]]
    BY <1>1, <1>7, Moves DEF ReadToFail
  <2>2. worker'[w].pc = "fail_update" /\ worker'[w].job = j /\ worker'[w].next = NextStatus(j)
    BY <2>1 DEF Works
  <2>. QED
    BY <2>1, <2>2 DEF WorkerOK, NextStatus
<1>8. CASE ClaimInDoubt(w) \/ UpdateFail(w) \/ FailInDoubt(w) \/ Die(w)
  BY <1>2, <1>8 DEF ClaimInDoubt, UpdateFail, FailInDoubt, Die, Stop, Idle
<1>. QED
  BY <1>2, <1>3, <1>4, <1>5, <1>6, <1>7, <1>8 DEF Step, Work

\* A worker's step takes up a job only by locking it.
LEMMA JobsTaken ==
  ASSUME IInv, NEW w \in Workers, Step(w), Busy(w)'
  PROVE  \/ Busy(w) /\ worker'[w].job = worker[w].job
         \/ /\ job' = job
            /\ worker'[w].job \in Queued
            /\ \A v \in Workers : Busy(v) => worker[v].job # worker'[w].job
<1>. USE DEF IInv, TypeOK, Busy
<1>1. CASE Lock(w)
  <2>1. PICK k \in Queued \ Locked :
          worker' = [worker EXCEPT ![w] = [@ EXCEPT !.pc = "locked", !.job = k]]
    BY <1>1 DEF Lock
  <2>2. worker'[w].job = k
    BY <2>1 DEF Works
  <2>3. ASSUME NEW v \in Workers, Busy(v) PROVE worker[v].job # k
    BY <2>1, <2>3 DEF WorkerOK, Locked, Queued
  <2>. QED
    BY <1>1, <2>1, <2>2, <2>3 DEF Lock
<1>2. CASE worker'[w].pc = "idle"
  BY <1>2
<1>3. CASE Work(w) \/ CompleteInDoubt(w)
  <2>1. worker[w] \in Works /\ worker[w].pc # "idle"
    BY <1>3 DEF Work, Claim, Execute, ReadToComplete, UpdateComplete, ReadToFail, UpdateFail,
                CompleteInDoubt
  <2>2. CASE ReadToFail(w)
    <3>1. CASE Stop(w)
      BY <3>1, Moves
    <3>2. CASE worker' = [worker EXCEPT ![w] =
                 [@ EXCEPT !.pc = "fail_update", !.next = NextStatus(worker[w].job)]]
      <4>1. worker'[w].job = worker[w].job
        BY <2>1, <3>2 DEF Works
      <4>. QED
        BY <2>1, <4>1
    <3>. QED
      BY <2>2, <3>1, <3>2 DEF ReadToFail
  <2>3. CASE Claim(w) \/ Execute(w) \/ ReadToComplete(w) \/ UpdateComplete(w) \/ CompleteInDoubt(w)
    <3>1. \/ Stop(w)
          \/ \E pc \in {"execute", "complete", "complete_update"} : Goto(w, pc)
          \/ \E reason \in Reasons : GoFail(w, reason)
      BY <2>3 DEF Claim, Execute, ReadToComplete, UpdateComplete, CompleteInDoubt, Reasons
    <3>2. worker'[w].job = worker[w].job \/ worker'[w].pc = "idle"
      BY <3>1, Moves
    <3>. QED
      BY <2>1, <3>2
  <2>4. CASE UpdateFail(w)
    BY <2>4, Moves DEF UpdateFail
  <2>. QED
    BY <1>3, <2>2, <2>3, <2>4 DEF Work
<1>. QED
  BY <1>1, <1>2, <1>3 DEF Step, ClaimInDoubt, FailInDoubt, Die, Stop, Idle

\* Workers go on having jobs of their own.
LEMMA ExclusiveKept ==
  ASSUME IInv, NEW w \in Workers, Step(w)
  PROVE  Exclusive'
<1>1. \A v \in Workers \ {w} : worker'[v] = worker[v]
  BY StepIsLocal
<1>2. Exclusive /\ (Busy(w)' => \/ Busy(w) /\ worker'[w].job = worker[w].job
                               \/ \A v \in Workers : Busy(v) => worker[v].job # worker'[w].job)
  BY JobsTaken DEF IInv
<1>. QED
  BY <1>1, <1>2 DEF Exclusive, Busy

\* What is said of the updates in doubt survives a worker's step, which may
\* add one for the job of that worker and no one else's.
LEMMA LateKept ==
  ASSUME IInv, NEW w \in Workers, Step(w)
  PROVE  LateOK'
<1>. USE DEF IInv, TypeOK
<1>. DEFINE j == worker[w].job
<1>1. \A u \in LateFailures : u.job \in Jobs
  BY DEF LateFailures, Completions, Failures
<1>2. ASSUME NEW u \in LateFailures
      PROVE  /\ job'[u.job] = job[u.job]
             /\ \A v \in Workers : Busy(v)' => worker'[v].job # u.job
  <2>1. /\ job[u.job].status \in {"running", "succeeded"}
        /\ \A v \in Workers : Busy(v) => worker[v].job # u.job
    BY DEF LateOK
  <2>2. job'[u.job] = job[u.job]
    <3>1. u.job \in Jobs /\ ~(Busy(w) /\ worker[w].job = u.job)
      BY <1>1, <2>1
    <3>2. \A i \in Jobs : job'[i] # job[i] => Busy(w) /\ worker[w].job = i
      BY StepIsLocal
    <3>. QED
      BY <3>1, <3>2
  <2>3. Busy(w)' => worker'[w].job # u.job
    BY <2>1, JobsTaken DEF Queued
  <2>4. \A v \in Workers \ {w} : worker'[v] = worker[v]
    BY StepIsLocal
  <2>. QED
    BY <2>1, <2>2, <2>3, <2>4 DEF Busy
<1>3. CASE LateFailures' = LateFailures
  BY <1>1, <1>2, <1>3 DEF LateOK, NextStatus
<1>4. CASE FailInDoubt(w)
  <2>. DEFINE n == [kind |-> "fail", job |-> j, reason |-> worker[w].reason,
                    next |-> worker[w].next]
  <2>1. LateFailures' = LateFailures \cup {n} /\ job' = job /\ ~Busy(w)' /\ Busy(w)
    BY <1>4 DEF FailInDoubt, LateFailures, Stop, Idle, Busy
  <2>2. /\ job[j].status \in {"running", "succeeded"}
        /\ n.next = NextStatus(j) /\ n.job = j
    BY <1>4 DEF FailInDoubt, WorkerOK
  <2>3. \A v \in Workers \ {w} : worker'[v] = worker[v]
    BY StepIsLocal
  <2>4. \A v \in Workers : Busy(v)' => worker'[v].job # j
    BY <2>1, <2>3 DEF Exclusive, Busy
  <2>5. \A u \in LateFailures : u.job # j
    BY <2>1 DEF LateOK
  <2>. HIDE DEF n, j
  <2>. QED
    BY <1>2, <2>1, <2>2, <2>4, <2>5 DEF LateOK, NextStatus
<1>5. CASE CompleteInDoubt(w)
  BY <1>3, <1>5 DEF CompleteInDoubt, LateFailures
<1>. QED
  BY <1>3, <1>4, <1>5
     DEF LateFailures, Step, Work, Lock, Claim, Execute, ReadToComplete, UpdateComplete,
         ReadToFail, UpdateFail, Die, ClaimInDoubt

\* An update that lands changes a running job only: one that a worker may
\* still hold when it completes the job, and that nobody holds when it fails it.
LEMMA LandOK ==
  ASSUME IInv, NEW u \in late, Land(u) \/ Vanish(u)
  PROVE  (\A v \in Workers : WorkerOK(v)') /\ Exclusive' /\ LateOK'
<1>. USE DEF IInv, TypeOK
<1>1. worker' = worker /\ late' = late \ {u} /\ u.job \in Jobs
  BY DEF Land, Vanish, Completions, Failures
<1>2. \A i \in Jobs : job'[i] # job[i] => i = u.job /\ job[i].status = "running"
  BY <1>1 DEF Land, Vanish, Completed, Failed
<1>3. CASE u.kind = "complete"
  <2>1. \A i \in Jobs : /\ job'[i].attempts = job[i].attempts
                        /\ job'[i] # job[i] => job'[i].status = "succeeded"
    <3>1. CASE job' = job
      BY <3>1
    <3>2. CASE job[u.job].status = "running" /\ job' = [job EXCEPT ![u.job] =
                 [@ EXCEPT !.status = "succeeded", !.output = "text", !.lastError = "none"]]
      BY <1>1, <3>2 DEF Rows
    <3>. QED
      BY <1>3, <3>1, <3>2 DEF Land, Vanish, Completed
  <2>2. LateFailures' = LateFailures
    BY <1>1, <1>3 DEF LateFailures
  <2>3. \A v \in Workers : worker[v].job \in Jobs
    BY DEF Works
  <2>4. \A x \in LateFailures : x.job \in Jobs
    BY DEF LateFailures, Completions, Failures
  <2>5. \A i \in Jobs : NextStatus(i)' = NextStatus(i)
    BY <2>1 DEF NextStatus
  <2>6. \A v \in Workers : WorkerOK(v)'
    <3>. SUFFICES ASSUME NEW v \in Workers PROVE WorkerOK(v)'
      OBVIOUS
    <3>1. CASE job'[worker[v].job] = job[worker[v].job]
      BY <1>1, <2>3, <2>5, <3>1 DEF WorkerOK
    <3>2. CASE job'[worker[v].job] # job[worker[v].job]
      BY <1>1, <1>2, <2>1, <2>3, <2>5, <3>2 DEF WorkerOK
    <3>. QED
      BY <3>1, <3>2
  <2>7. LateOK'
    <3>1. \A x \in LateFailures : job'[x.job].status \in {"running", "succeeded"}
      BY <2>1, <2>4 DEF LateOK
    <3>2. \A x \in LateFailures : NextStatus(x.job)' = NextStatus(x.job)
      BY <2>4, <2>5
    <3>. QED
      BY <1>1, <2>2, <3>1, <3>2 DEF LateOK, Busy
  <2>. QED
    BY <1>1, <2>6, <2>7 DEF Exclusive, Busy
<1>4. CASE u.kind = "fail"
  <2>1. /\ u \in LateFailures
        /\ \A v \in Workers : Busy(v) => worker[v].job # u.job
        /\ \A x \in LateFailures : x # u => x.job # u.job
    BY <1>4 DEF LateFailures, LateOK
  <2>2. LateFailures' = LateFailures \ {u}
    BY <1>1 DEF LateFailures
  <2>3. \A v \in Workers : worker[v].job \in Jobs
    BY DEF Works
  <2>4. \A x \in LateFailures : x.job \in Jobs
    BY DEF LateFailures, Completions, Failures
  <2>5. \A i \in Jobs \ {u.job} : job'[i] = job[i] /\ NextStatus(i)' = NextStatus(i)
    BY <1>2 DEF NextStatus
  <2>6. \A v \in Workers : WorkerOK(v)'
    BY <1>1, <2>1, <2>3, <2>5 DEF WorkerOK, Busy
  <2>7. LateOK'
    BY <1>1, <2>1, <2>2, <2>4, <2>5 DEF LateOK, Busy
  <2>. QED
    BY <1>1, <2>6, <2>7 DEF Exclusive, Busy
<1>. QED
  BY <1>3, <1>4 DEF Completions, Failures

\* Saving a new job concerns nobody.
LEMMA EnqueueOK ==
  ASSUME IInv, NEW j \in Jobs, Enqueue(j)
  PROVE  (\A v \in Workers : WorkerOK(v)') /\ Exclusive' /\ LateOK'
<1>. USE DEF IInv, TypeOK
<1>1. /\ worker' = worker /\ late' = late /\ job[j].status = "absent"
      /\ \A i \in Jobs \ {j} : job'[i] = job[i] /\ NextStatus(i)' = NextStatus(i)
  <2>1. worker' = worker /\ late' = late /\ job[j].status = "absent"
    BY DEF Enqueue
  <2>2. \A i \in Jobs \ {j} : job'[i] = job[i]
    BY DEF Enqueue
  <2>. QED
    BY <2>1, <2>2 DEF NextStatus
<1>2. \A v \in Workers : Busy(v) => worker[v].job \in Jobs \ {j}
  BY <1>1 DEF WorkerOK, Works, Busy
<1>3. \A u \in LateFailures : u.job \in Jobs \ {j}
  BY <1>1 DEF LateOK, LateFailures, Completions, Failures
<1>4. \A v \in Workers : WorkerOK(v)'
  BY <1>1, <1>2 DEF WorkerOK, Busy
<1>5. LateOK'
  <2>1. LateFailures' = LateFailures /\ (\A v \in Workers : Busy(v)' <=> Busy(v))
    BY <1>1, Zenon DEF LateFailures, Busy
  <2>2. \A u \in LateFailures :
          job'[u.job] = job[u.job] /\ NextStatus(u.job)' = NextStatus(u.job)
    BY <1>1, <1>3, Zenon
  <2>3. \A v \in Workers : worker'[v].job = worker[v].job
    BY <1>1, Zenon
  <2>. QED
    BY <2>1, <2>2, <2>3 DEF LateOK
<1>. QED
  BY <1>1, <1>4, <1>5 DEF Exclusive, Busy

-----------------------------------------------------------------------------
(* The theorems.                                                           *)

\* Nothing has been enqueued at first.
LEMMA InitOK == Init => IInv
<1>. SUFFICES ASSUME Init PROVE IInv
  OBVIOUS
<1>1. TypeOK
  BY IdleType DEF Init, TypeOK, Rows
<1>2. \A j \in Jobs : RowOK(j)
  BY DEF Init, RowOK, Fits, InMemory!NoJob
<1>3. \A w \in Workers : worker[w].pc = "idle"
  BY DEF Init, Idle
<1>4. late = {}
  BY DEF Init
<1>5. RunningIsHeld
  BY DEF Init, RunningIsHeld
<1>. QED
  BY <1>1, <1>2, <1>3, <1>4, <1>5 DEF IInv, WorkerOK, Exclusive, Busy, LateOK, LateFailures

\* Every step keeps the inductive invariant.
LEMMA NextOK == IInv /\ [Next]_vars => IInv'
<1>. SUFFICES ASSUME IInv, [Next]_vars PROVE IInv'
  OBVIOUS
<1>1. TypeOK' /\ RunningIsHeld' /\ \A j \in Jobs : RowOK(j)'
  BY TypesKept, RowsOK, HeldKept
<1>2. ASSUME NEW w \in Workers, Step(w)
      PROVE  (\A v \in Workers : WorkerOK(v)') /\ Exclusive' /\ LateOK'
  <2>1. WorkerOK(w)' /\ Exclusive' /\ LateOK'
    BY <1>2, MoverOK, ExclusiveKept, LateKept
  <2>2. ASSUME NEW v \in Workers \ {w} PROVE WorkerOK(v)'
    BY <1>2, OthersOK
  <2>. QED
    BY <2>1, <2>2
<1>3. ASSUME UNCHANGED vars
      PROVE  (\A v \in Workers : WorkerOK(v)') /\ Exclusive' /\ LateOK'
  <2>1. job' = job /\ worker' = worker /\ late' = late
    BY <1>3 DEF vars
  <2>2. \A v \in Workers : WorkerOK(v)'
    BY <2>1 DEF IInv, WorkerOK, NextStatus
  <2>3. Exclusive'
    BY <2>1 DEF IInv, Exclusive, Busy
  <2>4. LateOK'
    BY <2>1 DEF IInv, LateOK, LateFailures, NextStatus, Busy
  <2>. QED
    BY <2>2, <2>3, <2>4
<1>4. (\A v \in Workers : WorkerOK(v)') /\ Exclusive' /\ LateOK'
  BY <1>2, <1>3, EnqueueOK, LandOK DEF Next, Step
<1>. QED
  BY <1>1, <1>4 DEF IInv

\* The inductive invariant holds of every reachable state.
THEOREM Invariance == Spec => []IInv
BY InitOK, NextOK, PTL DEF Spec

\* Rows and workers have their types, and attempts never exceed maxAttempts.
THEOREM TypeCorrect == Spec => []TypeOK
<1>1. IInv => TypeOK
  BY DEF IInv
<1>. QED
  BY <1>1, Invariance, PTL

\* A job has one runner at a time and no more runs than maxAttempts.
THEOREM RunnerCorrect == Spec => []OneRunner
<1>1. IInv => OneRunner
  <2>. SUFFICES ASSUME IInv PROVE OneRunner
    OBVIOUS
  <2>1. ASSUME NEW j \in Jobs PROVE runs[j] <= MaxAttempts[j]
    <3>1. runs[j] \in Nat /\ job[j].attempts \in Nat /\ MaxAttempts[j] \in Nat
      BY QueueAssumption DEF IInv, TypeOK, Rows
    <3>2. RowOK(j)
      BY Zenon DEF IInv
    <3>3. runs[j] <= job[j].attempts /\ job[j].attempts <= MaxAttempts[j]
      BY <3>2, Zenon DEF RowOK, Fits
    <3>. QED
      BY <3>1, <3>3
  <2>. QED
    BY <2>1 DEF IInv, OneRunner, Exclusive, Busy, Holds
<1>. QED
  BY <1>1, Invariance, PTL

\* No row is ever stored that cannot be read because of its output.
THEOREM RowsCorrect == Spec => []RowsAreReadable
<1>1. IInv => RowsAreReadable
  BY DEF IInv, RowOK, Fits, RowsAreReadable
<1>. QED
  BY <1>1, Invariance, PTL

\* No running job is dropped by a worker that lives and knows what it did.
THEOREM HeldCorrect == Spec => []RunningIsHeld
<1>1. IInv => RunningIsHeld
  BY DEF IInv
<1>. QED
  BY <1>1, Invariance, PTL

\* A job that has ended stays as it is.
THEOREM FinalityCorrect == Spec => TerminalIsFinal
<1>1. IInv /\ [Next]_vars =>
        [\A j \in Jobs : job[j].status \in {"succeeded", "failed"} => job'[j] = job[j]]_vars
  BY RowSteps, RowsKept
<1>. QED
  BY <1>1, Invariance, PTL DEF Spec, TerminalIsFinal

\* The statements of the workers implement the queue in memory.
THEOREM InMemoryImplemented == Spec => ImplementsInMemory
<1>1. Init => InMemory!Init
  BY DEF Init, InMemory!Init, InMemory!NoJob
<1>2. IInv /\ [Next]_vars => [InMemory!Next]_job
  BY RowSteps
<1>. QED
  BY <1>1, <1>2, Invariance, PTL DEF Spec, ImplementsInMemory, InMemory!Spec
=============================================================================
