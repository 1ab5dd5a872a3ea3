---------------------------- MODULE ScormRuntime ----------------------------
(***************************************************************************)
(* A SCORM package that a student runs: the bridge the package talks to,   *)
(* a script of the page (packages/core/src/scorm/runtime.ts), and the      *)
(* runtime handlers of the API, which read the student's attempt and save  *)
(* all of it in a later statement.                                         *)
(*                                                                         *)
(* The bridge's requests are synchronous: its page does nothing while one  *)
(* is under way.  But it may have given one up that is still running, and  *)
(* the student may open the package in a second window.                    *)
(*                                                                         *)
(* A value is of one of two sorts: the suspend data, statuses and score    *)
(* replace what the attempt has, and stand for each other here; a session  *)
(* time is added to it, here one unit each time.                           *)
(***************************************************************************)
EXTENDS Naturals, FiniteSets

CONSTANTS
  Windows,     \* pages the package runs in
  MaxReports,  \* bound: values and session times that the package sets
  MaxLost      \* bound: requests given up

ASSUME ScormAssumption == MaxReports \in Nat /\ MaxLost \in Nat

VARIABLES
  attempt,    \* the scorm_attempt row: the value (0 for none) and total_time
  bridge,     \* runtime of each page
  requests,   \* under way
  sets,       \* values set so far, a value's number
  times,      \* session times set so far
  givenUp,    \* requests given up so far
  crossed     \* history: two requests have been under way at once

scormVars == <<attempt, bridge, requests, sets, times, givenUp, crossed>>

-----------------------------------------------------------------------------
Attempts == [value : 0..MaxReports, total : 0..(MaxReports + MaxLost)]

\* buildInitialScormRuntimeAttempt, and an attempt that is not there.
NewAttempt == [value |-> 0, total |-> 0]

\* value: runtime.values; dirty, time, odd: the values of dirtyValues that
\* replace, that add, and that the server does not support.
Bridges ==
  [stage : {"new", "initialized", "finished"}, value : 0..MaxReports,
   dirty : BOOLEAN, time : 0..1, odd : BOOLEAN, calling : BOOLEAN]

NewBridge == [stage |-> "new", value |-> 0, dirty |-> FALSE, time |-> 0, odd |-> FALSE,
              calling |-> FALSE]

\* A request carries the dirty values, value 0 for none that replaces; it is
\* awaited until its page gives it up.
ScormRequests ==
  [window : Windows, kind : {"initialize", "commit", "finish"}, value : 0..MaxReports,
   time : 0..1, odd : BOOLEAN, awaited : BOOLEAN,
   stage : {"sent", "read", "saved", "refused"}, found : Attempts]

ScormInit ==
  /\ attempt = NewAttempt
  /\ bridge = [w \in Windows |-> NewBridge]
  /\ requests = {}
  /\ sets = 0 /\ times = 0 /\ givenUp = 0
  /\ crossed = FALSE

-----------------------------------------------------------------------------
(* The calls of the package.                                               *)
Call(w, kind) ==
  /\ ~bridge[w].calling
  /\ bridge' = [bridge EXCEPT ![w] = [@ EXCEPT !.calling = TRUE]]
  /\ requests' = requests \cup
       {[window |-> w, kind |-> kind, awaited |-> TRUE, stage |-> "sent", found |-> NewAttempt,
         value |-> IF bridge[w].dirty /\ kind # "initialize" THEN bridge[w].value ELSE 0,
         time |-> IF kind # "initialize" THEN bridge[w].time ELSE 0,
         odd |-> kind # "initialize" /\ bridge[w].odd]}
  /\ crossed' = (crossed \/ requests # {})
  /\ UNCHANGED <<attempt, sets, times, givenUp>>

LMSInitialize(w) == bridge[w].stage # "initialized" /\ Call(w, "initialize")
LMSCommit(w) == bridge[w].stage = "initialized" /\ Call(w, "commit")
LMSFinish(w) == bridge[w].stage = "initialized" /\ Call(w, "finish")

Running(w) == bridge[w].stage = "initialized" /\ ~bridge[w].calling

SetValue(w) ==
  /\ Running(w) /\ sets + times < MaxReports
  /\ sets' = sets + 1
  /\ bridge' = [bridge EXCEPT ![w] = [@ EXCEPT !.value = sets + 1, !.dirty = TRUE]]
  /\ UNCHANGED <<attempt, requests, times, givenUp, crossed>>

\* A time that replaces one not committed yet counts in its place.
SetSessionTime(w) ==
  /\ Running(w) /\ sets + times < MaxReports
  /\ times' = IF bridge[w].time = 0 THEN times + 1 ELSE times
  /\ bridge' = [bridge EXCEPT ![w] = [@ EXCEPT !.time = 1]]
  /\ UNCHANGED <<attempt, requests, sets, givenUp, crossed>>

\* The bridge takes any element, and answers "true".
SetUnsupported(w) ==
  /\ Running(w)
  /\ bridge' = [bridge EXCEPT ![w] = [@ EXCEPT !.odd = TRUE]]
  /\ UNCHANGED <<attempt, requests, sets, times, givenUp, crossed>>

-----------------------------------------------------------------------------
(* The server.                                                             *)
Move(x, y) == requests' = (requests \ {x}) \cup {y}

\* Nobody hears what becomes of a request that was given up.
Done(x, y) == requests' = (requests \ {x}) \cup (IF x.awaited THEN {y} ELSE {})

ReadAttempt(x) ==
  /\ x.stage = "sent"
  /\ IF x.odd THEN Done(x, [x EXCEPT !.stage = "refused"])
              ELSE Move(x, [x EXCEPT !.stage = "read", !.found = attempt])
  /\ UNCHANGED <<attempt, bridge, sets, times, givenUp, crossed>>

\* applyScormRuntimeCommit; an initialize saves the attempt as it was read.
Applied(x) == [value |-> IF x.value # 0 THEN x.value ELSE x.found.value,
               total |-> x.found.total + x.time]

UpsertAttempt(x) ==
  /\ x.stage = "read"
  /\ attempt' = Applied(x)
  /\ Done(x, [x EXCEPT !.stage = "saved"])
  /\ UNCHANGED <<bridge, sets, times, givenUp, crossed>>

-----------------------------------------------------------------------------
(* The bridge hears of its request.                                        *)
\* Slip: the dirty values stay after they are committed.
SyncedStillDirty(b, x) ==
  [b EXCEPT !.stage = IF x.kind = "finish" THEN "finished" ELSE "initialized",
            !.value = Applied(x).value, !.calling = FALSE]

\* What it has when a request has succeeded: the values of the answer, and,
\* after a commit, none that is dirty; an initialize finds none.
Synced(b, x) ==
  [b EXCEPT !.stage = IF x.kind = "finish" THEN "finished" ELSE "initialized",
            !.value = Applied(x).value, !.calling = FALSE,
            !.dirty = FALSE, !.time = 0, !.odd = FALSE]

\* When it has failed the dirty values stay, for the next commit to send.
Failed(b) == [b EXCEPT !.calling = FALSE]

ScormAnswer(x) ==
  /\ x.stage \in {"saved", "refused"}
  /\ requests' = requests \ {x}
  /\ bridge' = [bridge EXCEPT ![x.window] =
                   IF x.stage = "saved" THEN Synced(@, x) ELSE Failed(@)]
  /\ UNCHANGED <<attempt, sets, times, givenUp, crossed>>

\* The connection breaks, or the session has ended, or the package is not
\* published any more; the server may not notice and go on.
CallFails(x) ==
  /\ x.awaited
  /\ givenUp < MaxLost
  /\ givenUp' = givenUp + 1
  /\ \/ requests' = requests \ {x}
     \/ /\ x.stage \in {"sent", "read"}
        /\ Move(x, [x EXCEPT !.awaited = FALSE])
  /\ bridge' = [bridge EXCEPT ![x.window] = Failed(@)]
  /\ UNCHANGED <<attempt, sets, times, crossed>>

ScormNext ==
  \/ \E w \in Windows :
       \/ LMSInitialize(w) \/ LMSCommit(w) \/ LMSFinish(w)
       \/ SetValue(w) \/ SetSessionTime(w) \/ SetUnsupported(w)
  \/ \E x \in requests : ReadAttempt(x) \/ UpsertAttempt(x) \/ ScormAnswer(x) \/ CallFails(x)

ScormSpec == ScormInit /\ [][ScormNext]_scormVars

-----------------------------------------------------------------------------
ScormTypeOK ==
  /\ attempt \in Attempts
  /\ bridge \in [Windows -> Bridges]
  /\ requests \subseteq ScormRequests
  /\ sets \in 0..MaxReports /\ times \in 0..MaxReports /\ givenUp \in 0..MaxLost
  /\ crossed \in BOOLEAN

\* The attempt's time is never more than the times the package has set, one
\* counted again for each answer that was lost; and as long as one window is
\* used and no two requests have met, the attempt has the bridge's value and
\* all the times set, but for those that are dirty (LMSCommit, LMSFinish,
\* applyScormRuntimeCommit).
ReportsCounted ==
  /\ attempt.total <= times + givenUp
  /\ \A w \in Windows :
       (~crossed /\ Running(w) /\ \A v \in Windows \ {w} : bridge[v] = NewBridge) =>
         /\ bridge[w].dirty \/ attempt.value = bridge[w].value
         /\ attempt.total + bridge[w].time >= times
=============================================================================
