----------------------------- MODULE QuizRunner -----------------------------
(***************************************************************************)
(* The page on which a student takes a quiz, packages/web/src/app/(app)/   *)
(* courses/[courseId]/quizzes/[quizId]/take: answers save themselves 600   *)
(* ms after the last edit, and the attempt is handed in by a button or     *)
(* when the time is up.  The timer, the clock and the replies are          *)
(* callbacks of one thread; the requests travel on their own, in any       *)
(* order, and may be lost on either way.                                   *)
(*                                                                         *)
(* An answer is the number of the edit that gave it, 0 for none.  The      *)
(* server is one attempt in progress as its requests find it; the          *)
(* statements of its handlers are in QuizAttempts.                         *)
(***************************************************************************)
EXTENDS Naturals, FiniteSets

CONSTANTS
  Asked,       \* questions of the quiz
  NoSave,      \* nothing waits for the timer
  MaxEdits,    \* bound: edits of the student
  MaxMishaps   \* bound: requests whose answer does not arrive, and times the
               \* page goes and comes back

ASSUME RunnerAssumption ==
  /\ MaxEdits \in Nat /\ MaxMishaps \in Nat
  /\ NoSave \notin [question : Asked, edit : Nat]

VARIABLES
  screen,    \* answers: what the student sees given
  failed,    \* questions of status error
  pending,   \* pendingSaveRef, with a timer running whenever there is one
  saves,     \* the saves under way, those of a page that is gone included
  phase,     \* of triggerSubmit: the guard submittingRef and its two awaits
  submit,    \* the page's submit request
  stray,     \* a submit request that nobody waits for has not arrived yet
  timeUp,    \* secondsLeft is 0
  late,      \* by the server's clock the deadline has passed
  stored,    \* the quiz_attempt_response rows
  handedIn,  \* the quiz_attempt row is no longer in progress
  cached,    \* the responses as the browser has last read them
  edits, mishaps,
  overtaken, \* history: questions whose save gave way to one of another
  raced      \* history: questions edited while a save of theirs was under way,
             \* or shown from data older than what is stored

pageVars == <<screen, failed, pending, phase, submit>>
netVars  == <<saves, stray, mishaps>>
rowVars  == <<stored, handedIn>>
histVars == <<edits, overtaken, raced>>
runnerVars ==
  <<pageVars, netVars, rowVars, histVars, cached, timeUp, late>>

-----------------------------------------------------------------------------
Pending == [question : Asked, edit : 1..MaxEdits]

\* by: what waits for the reply, the timer's callback, the flush of a submit,
\* or nobody any more.
Saves == [question : Asked, edit : 1..MaxEdits, by : {"timer", "flush", "nobody"},
          stage : {"sent", "checked", "stored", "refused"}]

Save(p, by) == [question |-> p.question, edit |-> p.edit, by |-> by, stage |-> "sent"]

UnderWay(q) == {x \in saves : x.question = q}

-----------------------------------------------------------------------------
RunnerInit ==
  /\ screen = [q \in Asked |-> 0]
  /\ failed = {}
  /\ pending = NoSave
  /\ saves = {}
  /\ phase = "taking"
  /\ submit = "none" /\ stray = FALSE
  /\ timeUp = FALSE /\ late = FALSE
  /\ stored = [q \in Asked |-> 0] /\ handedIn = FALSE
  /\ cached = stored
  /\ edits = 0 /\ mishaps = 0
  /\ overtaken = {} /\ raced = {}

(* handleAnswerChange and scheduleSave: there is one pending save for all  *)
(* questions.  The questions are disabled only while the submit request is *)
(* out, and gone with the page.                                            *)
Editable == phase \notin {"submitting", "results"}

Edit(q) ==
  /\ Editable
  /\ edits < MaxEdits
  /\ edits' = edits + 1
  /\ screen' = [screen EXCEPT ![q] = edits + 1]
  /\ failed' = failed \ {q}
  /\ pending' = [question |-> q, edit |-> edits + 1]
  /\ overtaken' = IF pending = NoSave \/ pending.question = q
                    THEN overtaken \ {q}
                    ELSE (overtaken \cup {pending.question}) \ {q}
  /\ raced' = IF UnderWay(q) = {} THEN raced \ {q} ELSE raced \cup {q}
  /\ UNCHANGED <<phase, submit, netVars, rowVars, cached, timeUp, late>>

\* An answer taken back is not saved, and neither is a save of it recalled.
Clear(q) ==
  /\ Editable
  /\ screen[q] # 0
  /\ screen' = [screen EXCEPT ![q] = 0]
  /\ UNCHANGED <<failed, pending, phase, submit, netVars, rowVars, histVars,
                 cached, timeUp, late>>

\* The callback of the timer.
TimerFires ==
  /\ pending # NoSave
  /\ saves' = saves \cup {Save(pending, "timer")}
  /\ pending' = NoSave
  /\ UNCHANGED <<screen, failed, phase, submit, stray, mishaps, rowVars, histVars,
                 cached, timeUp, late>>

(* triggerSubmit, up to the reply of the flush.                            *)
SendSubmit == phase' = "submitting" /\ submit' = "sent"

\* Slip: the timer is stopped and what it was to save forgotten.
FlushForgets ==
  /\ pending' = NoSave
  /\ SendSubmit
  /\ UNCHANGED saves

\* flushPendingSave.
Flush ==
  \/ /\ pending # NoSave
     /\ saves' = saves \cup {Save(pending, "flush")}
     /\ pending' = NoSave
     /\ phase' = "flushing"
     /\ UNCHANGED submit
  \/ /\ pending = NoSave
     /\ SendSubmit
     /\ UNCHANGED <<pending, saves>>

TriggerSubmit ==
  /\ phase = "taking"
  /\ Flush
  /\ UNCHANGED <<screen, failed, stray, mishaps, rowVars, histVars, cached, timeUp, late>>

ManualSubmit == TriggerSubmit
AutoSubmit   == timeUp /\ TriggerSubmit

-----------------------------------------------------------------------------
(* The server: saveQuizAttemptResponse looks at the attempt and its        *)
(* deadline and writes later, submitQuizAttempt in one statement.          *)
CheckSaveRequest(x) ==
  /\ x.stage = "sent"
  /\ saves' = (saves \ {x}) \cup
       {[x EXCEPT !.stage = IF handedIn \/ late THEN "refused" ELSE "checked"]}
  /\ UNCHANGED <<pageVars, stray, mishaps, rowVars, histVars, cached, timeUp, late>>

StoreAnswer(x) ==
  /\ x.stage = "checked"
  /\ stored' = [stored EXCEPT ![x.question] = x.edit]
  /\ saves' = (saves \ {x}) \cup {[x EXCEPT !.stage = "stored"]}
  /\ UNCHANGED <<pageVars, stray, mishaps, handedIn, histVars, cached, timeUp, late>>

Accepts == ~handedIn /\ ~late

SubmitArrives ==
  /\ submit = "sent"
  /\ submit' = IF Accepts THEN "accepted" ELSE "refused"
  /\ handedIn' = (handedIn \/ Accepts)
  /\ UNCHANGED <<screen, failed, pending, phase, netVars, stored, histVars,
                 cached, timeUp, late>>

StrayArrives ==
  /\ stray
  /\ stray' = FALSE
  /\ handedIn' = (handedIn \/ Accepts)
  /\ UNCHANGED <<pageVars, saves, mishaps, stored, histVars, cached, timeUp, late>>

-----------------------------------------------------------------------------
(* Replies.                                                                *)
\* What a save that comes back, well or not, sets in motion.
Answered(x, well) ==
  /\ failed' = IF well THEN failed \ {x.question} ELSE failed \cup {x.question}
  /\ IF x.by = "flush" THEN SendSubmit ELSE UNCHANGED <<phase, submit>>
  /\ UNCHANGED <<screen, pending>>

SaveReturns(x) ==
  /\ x.stage \in {"stored", "refused"}
  /\ saves' = saves \ {x}
  /\ IF x.by = "nobody" THEN UNCHANGED pageVars
       ELSE Answered(x, x.stage = "stored")
  /\ UNCHANGED <<stray, mishaps, rowVars, histVars, cached, timeUp, late>>

\* The page gives a save up, which may still reach its row, or be lost.
SaveFails(x) ==
  /\ x.by # "nobody"
  /\ mishaps < MaxMishaps
  /\ mishaps' = mishaps + 1
  /\ \/ saves' = saves \ {x}
     \/ saves' = (saves \ {x}) \cup {[x EXCEPT !.by = "nobody"]}
  /\ Answered(x, FALSE)
  /\ UNCHANGED <<stray, rowVars, histVars, cached, timeUp, late>>

\* Slip: after a failure the guard stays up.
SubmitFailsForGood == phase' = "done"

\* submittingRef is taken back: the next tick, or the student, tries again.
SubmitFails == phase' = "taking"

SubmitReturns ==
  /\ submit \in {"accepted", "refused"}
  /\ IF submit = "accepted" THEN phase' = "done" ELSE SubmitFails
  /\ submit' = "none"
  /\ UNCHANGED <<screen, failed, pending, netVars, rowVars, histVars, cached, timeUp, late>>

SubmitLost ==
  /\ submit # "none"
  /\ mishaps < MaxMishaps
  /\ mishaps' = mishaps + 1
  /\ stray' \in {stray, stray \/ submit = "sent"}
  /\ SubmitFails
  /\ submit' = "none"
  /\ UNCHANGED <<screen, failed, pending, saves, rowVars, histVars, cached, timeUp, late>>

-----------------------------------------------------------------------------
(* The page itself.                                                        *)
Orphans == {[x EXCEPT !.by = "nobody"] : x \in saves}

\* The responses are read again after a save that went well, or when a page
\* comes back to data gone stale, by a query that takes its time.  A page that
\* is there took its answers over when it came up.
ResponsesRead ==
  /\ cached # stored
  /\ cached' = stored
  /\ screen' = IF phase = "results" THEN stored ELSE screen
  /\ UNCHANGED <<failed, pending, phase, submit, netVars, rowVars, histVars, timeUp, late>>

\* The attempts are read again, after a submit or on a page that came up with
\* an old list of them, and the results take the place of the questions: what
\* is still pending goes with them.
ShowResults ==
  /\ phase # "results" /\ handedIn
  /\ phase' = "results"
  /\ pending' = NoSave
  /\ submit' = "none"
  /\ screen' = cached
  /\ saves' = Orphans
  /\ UNCHANGED <<failed, stray, mishaps, rowVars, histVars, cached, timeUp, late>>

\* The student leaves the page, or a query fails, and it comes back with the
\* attempts and responses that the server has, or that the browser still
\* holds.  What was under way may still get there, and so may the submit after
\* a flush whose page is gone.
Reload ==
  /\ phase # "results"
  /\ mishaps < MaxMishaps
  /\ mishaps' = mishaps + 1
  /\ screen' \in {cached, stored}
  /\ cached' = screen'
  /\ failed' = {}
  /\ pending' = NoSave
  /\ saves' = Orphans
  /\ stray' = (stray \/ phase = "flushing" \/ submit = "sent")
  /\ submit' = "none"
  /\ \/ phase' = "taking"
     \/ phase' = "results" /\ handedIn
  /\ overtaken' = {}
  /\ raced' = {x.question : x \in saves} \cup {q \in Asked : screen'[q] # stored[q]}
  /\ UNCHANGED <<edits, rowVars, timeUp, late>>

TimeIsUp ==
  ~timeUp /\ timeUp' = TRUE /\ UNCHANGED <<pageVars, netVars, rowVars, histVars, cached, late>>
Deadline ==
  ~late /\ late' = TRUE /\ UNCHANGED <<pageVars, netVars, rowVars, histVars, cached, timeUp>>

RunnerNext ==
  \/ \E q \in Asked : Edit(q) \/ Clear(q)
  \/ TimerFires \/ ManualSubmit \/ AutoSubmit
  \/ \E x \in saves : CheckSaveRequest(x) \/ StoreAnswer(x) \/ SaveReturns(x) \/ SaveFails(x)
  \/ SubmitArrives \/ StrayArrives \/ SubmitReturns \/ SubmitLost
  \/ ResponsesRead \/ ShowResults \/ Reload
  \/ TimeIsUp \/ Deadline

RunnerSpec == RunnerInit /\ [][RunnerNext]_runnerVars

\* A page that is open ticks every second, requests that are not lost are
\* answered, and the answers are heard.
RunnerFairness ==
  /\ WF_runnerVars(AutoSubmit)
  /\ WF_runnerVars(\E x \in saves : CheckSaveRequest(x))
  /\ WF_runnerVars(\E x \in saves : StoreAnswer(x))
  /\ WF_runnerVars(\E x \in saves : SaveReturns(x))
  /\ WF_runnerVars(SubmitArrives)
  /\ WF_runnerVars(SubmitReturns)

FairRunnerSpec == RunnerSpec /\ RunnerFairness

-----------------------------------------------------------------------------
RunnerTypeOK ==
  /\ screen \in [Asked -> 0..MaxEdits] /\ stored \in [Asked -> 0..MaxEdits]
  /\ cached \in [Asked -> 0..MaxEdits]
  /\ failed \subseteq Asked
  /\ pending \in Pending \cup {NoSave}
  /\ saves \subseteq Saves
  /\ phase \in {"taking", "flushing", "submitting", "done", "results"}
  /\ submit \in {"none", "sent", "accepted", "refused"}
  /\ stray \in BOOLEAN /\ timeUp \in BOOLEAN /\ late \in BOOLEAN /\ handedIn \in BOOLEAN
  /\ edits \in 0..MaxEdits /\ mishaps \in 0..MaxMishaps
  /\ overtaken \subseteq Asked /\ raced \subseteq Asked

\* An answer on the screen is stored, or waits for the timer, or is on its way,
\* or its save is shown as failed: requests, replies, a submit and a reload in
\* any order lose none, unless an edit of another question took its place
\* before the timer, or it was edited while an older save was under way, or
\* the page came back with data of the browser's older than what is stored.
AnswersAccountedFor ==
  phase # "results" =>
    \A q \in Asked \ (overtaken \cup raced) :
      \/ screen[q] \in {0, stored[q]}
      \/ pending = [question |-> q, edit |-> screen[q]]
      \/ \E x \in saves : x.question = q /\ x.edit = screen[q]
      \/ q \in failed

\* What the page says to the student (page.tsx: "Your answers autosave as you
\* work. Submit when you are done."): when nothing is waiting or under way,
\* an answer is stored or shown as not saved.
AnswersAutosaved ==
  phase = "taking" /\ pending = NoSave /\ saves = {} =>
    \A q \in Asked \ raced : screen[q] \in {0, stored[q]} \/ q \in failed

\* When the time is up the attempt is handed in, however often the request or
\* its answer is lost and whatever is being saved, if the request is in before
\* the server's own clock has passed the deadline.
AutoSubmitGetsThrough == timeUp ~> (handedIn \/ late)
=============================================================================
