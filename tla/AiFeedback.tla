------------------------------ MODULE AiFeedback ------------------------------
(***************************************************************************)
(* Requests for the AI feedback draft of one submission under one          *)
(* idempotency key: packages/core/src/assignment-feedback (idempotency.ts, *)
(* ai-feedback-service.ts) and saveAiFeedbackDraft of feedback/            *)
(* repository.ts.                                                          *)
(*                                                                         *)
(* Every process keeps a map from the key to the request that came last    *)
(* under it.  A request waits for the one it found there, looks for a      *)
(* draft, and when there is none generates one, saves it and saves an      *)
(* event.  The processes share the tables and not the map, and the tables  *)
(* hold one draft for the key, the first that was saved.                   *)
(***************************************************************************)
EXTENDS Naturals, FiniteSets

CONSTANTS
  Requests,     \* requests under the key
  Servers,      \* processes
  ServerOf,     \* where a request is served
  Nobody,       \* no request
  MaxRestarts   \* bound: how often a process dies

ASSUME FeedbackAssumption ==
  /\ ServerOf \in [Requests -> Servers]
  /\ Nobody \notin Requests
  /\ MaxRestarts \in Nat

VARIABLES
  stage,      \* where a request is
  before,     \* the request it waits for
  last,       \* per process the entry of the map
  draft,      \* the row under the key: whose generation it is
  answer,     \* the draft a request was answered with
  announced,  \* requests that saved an event
  generated,  \* history: the requests that generated a draft
  unsaved,    \* history: those of them that failed before it was saved
  restarts    \* history: deaths

feedbackVars ==
  <<stage, before, last, draft, answer, announced, generated, unsaved, restarts>>

-----------------------------------------------------------------------------
Stages == {"new", "wait", "generate", "save", "announce", "done", "failed"}

FeedbackInit ==
  /\ stage = [r \in Requests |-> "new"]
  /\ before = [r \in Requests |-> Nobody]
  /\ last = [s \in Servers |-> Nobody]
  /\ draft = Nobody
  /\ answer = [r \in Requests |-> Nobody]
  /\ announced = {} /\ generated = {} /\ unsaved = {}
  /\ restarts = 0

InFlight(r) == stage[r] \in {"wait", "generate", "save", "announce"}

Over(r) == stage[r] \in {"done", "failed"}

HasTurn(r) == before[r] # Nobody => Over(before[r])

\* The submission, the assignment and the rubric have been read; the request
\* enters the queue of its process.
Enter(r) ==
  /\ stage[r] = "new"
  /\ stage' = [stage EXCEPT ![r] = "wait"]
  /\ before' = [before EXCEPT ![r] = last[ServerOf[r]]]
  /\ last' = [last EXCEPT ![ServerOf[r]] = r]
  /\ UNCHANGED <<draft, answer, announced, generated, unsaved, restarts>>

\* Slip: the entry goes whoever is waiting behind r.
ReleaseAlways(r) == last' = [last EXCEPT ![ServerOf[r]] = Nobody]

\* The finally of runWithIdempotencyKeyLock: the entry goes when it is r's own.
Release(r) ==
  last' = [last EXCEPT ![ServerOf[r]] = IF @ = r THEN Nobody ELSE @]

\* The request before it is over, its outcome aside: findExistingAiFeedbackDraft.
FindExisting(r) ==
  /\ stage[r] = "wait" /\ HasTurn(r)
  /\ IF draft # Nobody
     THEN /\ stage' = [stage EXCEPT ![r] = "done"]
          /\ answer' = [answer EXCEPT ![r] = draft]
          /\ Release(r)
     ELSE /\ stage' = [stage EXCEPT ![r] = "generate"]
          /\ UNCHANGED <<answer, last>>
  /\ UNCHANGED <<before, draft, announced, generated, unsaved, restarts>>

\* The policy allows it, the request is logged, its context package is saved
\* and the model has answered.
Generate(r) ==
  /\ stage[r] = "generate"
  /\ stage' = [stage EXCEPT ![r] = "save"]
  /\ generated' = generated \cup {r}
  /\ UNCHANGED <<before, last, draft, answer, announced, unsaved, restarts>>

\* saveAiFeedbackDraft: an insert that does nothing on a conflict, and then the
\* row that is there.
SaveDraft(r) ==
  /\ stage[r] = "save"
  /\ draft' = IF draft = Nobody THEN r ELSE draft
  /\ answer' = [answer EXCEPT ![r] = draft']
  /\ stage' = [stage EXCEPT ![r] = "announce"]
  /\ UNCHANGED <<before, last, announced, generated, unsaved, restarts>>

\* The generation is logged and the event saved, also by the one whose own
\* draft was not the first.
Announce(r) ==
  /\ stage[r] = "announce"
  /\ stage' = [stage EXCEPT ![r] = "done"]
  /\ announced' = announced \cup {r}
  /\ Release(r)
  /\ UNCHANGED <<before, draft, answer, generated, unsaved, restarts>>

\* What the request holds when it throws or its process dies.
Lost(S) == {r \in S : stage[r] = "save"}

\* The policy denies it, or one of its calls fails.
Throw(r) ==
  /\ InFlight(r) /\ HasTurn(r)
  /\ stage' = [stage EXCEPT ![r] = "failed"]
  /\ answer' = [answer EXCEPT ![r] = Nobody]
  /\ unsaved' = unsaved \cup Lost({r})
  /\ Release(r)
  /\ UNCHANGED <<before, draft, announced, generated, restarts>>

\* A process dies with its requests and its map.
Restart(s) ==
  LET here == {r \in Requests : ServerOf[r] = s /\ InFlight(r)}
  IN /\ here # {}
     /\ restarts < MaxRestarts
     /\ restarts' = restarts + 1
     /\ stage' = [r \in Requests |-> IF r \in here THEN "failed" ELSE stage[r]]
     /\ answer' = [r \in Requests |-> IF r \in here THEN Nobody ELSE answer[r]]
     /\ last' = [last EXCEPT ![s] = Nobody]
     /\ unsaved' = unsaved \cup Lost(here)
     /\ UNCHANGED <<before, draft, announced, generated>>

FeedbackNext ==
  \/ \E r \in Requests :
       Enter(r) \/ FindExisting(r) \/ Generate(r) \/ SaveDraft(r) \/ Announce(r) \/ Throw(r)
  \/ \E s \in Servers : Restart(s)

FeedbackSpec == FeedbackInit /\ [][FeedbackNext]_feedbackVars

-----------------------------------------------------------------------------
(* Properties.                                                             *)

\* Every request and every entry has its type.
FeedbackTypeOK ==
  /\ stage \in [Requests -> Stages]
  /\ before \in [Requests -> Requests \cup {Nobody}]
  /\ last \in [Servers -> Requests \cup {Nobody}]
  /\ draft \in Requests \cup {Nobody}
  /\ answer \in [Requests -> Requests \cup {Nobody}]
  /\ announced \subseteq Requests
  /\ generated \subseteq Requests /\ unsaved \subseteq generated
  /\ restarts \in 0..MaxRestarts

\* One process pays for one draft under the key, however many ask for it at
\* once and whichever of them fail: another only for one that was generated
\* and lost.  Whoever is answered is answered with the draft in the table.
GeneratedOnce ==
  /\ \A r, q \in generated \ unsaved : ServerOf[r] = ServerOf[q] => r = q
  /\ \A r \in Requests : answer[r] # Nobody => answer[r] = draft
=============================================================================
