--------------------------- MODULE OutboxDispatch ---------------------------
(***************************************************************************)
(* The transactional outbox of one tenant: events saved by the handlers of *)
(* packages/api, dispatched by packages/core/src/events/outbox-dispatcher  *)
(* with the handlers packages/api/src/outbox-dispatch.ts builds.           *)
(*                                                                         *)
(* A dispatcher is one run of the dispatch command.  Nothing keeps two of  *)
(* them from overlapping, and each goes through its batch statement by     *)
(* statement: list a topic, let the handler read and then save what it     *)
(* produces, mark the event.  It may die between any two of them.          *)
(*                                                                         *)
(* An event is a row: its topic, its occurredAt, whether its topic's       *)
(* handler supports its type, whether it is about a course, and whom it    *)
(* names.  Saving a produced notification and the delivery events that go  *)
(* with it is one transaction; so is the POST to an xAPI endpoint, which   *)
(* is "notifying" that endpoint.                                           *)
(***************************************************************************)
EXTENDS Naturals, FiniteSets

CONSTANTS
  Events,       \* outbox rows that may be saved
  NoEvent,      \* no row
  Users,        \* who can be notified
  Dispatchers,  \* runs of the dispatch command that may overlap
  Mortal,       \* the dispatchers that may die
  Topics,       \* number of topics with a handler, in the handlers' key order
  TopicOf,      \* the topic of each event; 0 for one no handler is built for
  OccurredAt,   \* the publisher's clock when it built the event
  Unsupported,  \* events whose type their topic's handler rejects
  CourseWide,   \* events for the members of a course
  Named,        \* the recipient of a personal event, the author of the others
  Limit,        \* OUTBOX_DISPATCH_LIMIT
  MaxLost       \* bound: an event's outcome is lost at most so often

ASSUME OutboxAssumption ==
  /\ IsFiniteSet(Events)
  /\ NoEvent \notin Events
  /\ IsFiniteSet(Dispatchers)
  /\ Mortal \subseteq Dispatchers
  /\ Topics \in Nat
  /\ TopicOf \in [Events -> 0..Topics]
  /\ OccurredAt \in [Events -> Nat]
  /\ Unsupported \subseteq Events
  /\ CourseWide \subseteq Events
  /\ Named \in [Events -> SUBSET Users]
  /\ Limit \in Nat \ {0}
  /\ MaxLost \in Nat

VARIABLES
  outbox,     \* the outbox_event rows: processedAt null or set
  members,    \* the active members of the course
  notified,   \* how often each user has been notified of each event
  dispatcher, \* the dispatch runs in flight
  steady,     \* history: members without interruption since the event
  lost        \* history: outcomes that never reached the dispatcher's mark

vars == <<outbox, members, notified, dispatcher, steady, lost>>

-----------------------------------------------------------------------------
\* topic: the last topic listed; remaining: what is left of the limit;
\* batch: the events listed and not yet handled; audience: the recipients
\* the handler has read.
Runs ==
  [pc : {"idle", "scan", "save", "mark"}, topic : 0..Topics, remaining : 0..Limit,
   batch : SUBSET Events, event : Events \cup {NoEvent}, audience : SUBSET Users]

Stopped == [pc |-> "idle", topic |-> 0, remaining |-> 0, batch |-> {},
            event |-> NoEvent, audience |-> {}]

Pending(t) == {e \in Events : outbox[e] = "pending" /\ TopicOf[e] = t}

\* Slip: the query does not ask for processedAt null.
UnfilteredListings(t, n) ==
  LET rows == {e \in Events : outbox[e] # "absent" /\ TopicOf[e] = t} IN
  {b \in SUBSET rows : Cardinality(b) <= n}

\* listPendingOutboxEventsByTopic: ORDER BY occurredAt LIMIT n.
Listings(t, n) ==
  {b \in SUBSET Pending(t) :
     /\ Cardinality(b) <= n
     /\ b = Pending(t) \/ Cardinality(b) = n
     /\ \A e \in b, f \in Pending(t) \ b : OccurredAt[e] <= OccurredAt[f]}

\* The events of a batch that may come next in its order.
Earliest(batch) == {e \in batch : \A f \in batch : OccurredAt[e] <= OccurredAt[f]}

\* A course's members but the author; the one person a personal event is
\* for; nobody, when what the event is about is gone or not visible.
Audience(e) == IF e \in CourseWide THEN members \ Named[e] ELSE Named[e]

Notify(d) ==
  notified' = [notified EXCEPT ![dispatcher[d].event] =
    [u \in Users |-> IF u \in dispatcher[d].audience THEN @[u] + 1 ELSE @[u]]]

\* The run goes on with its batch.
GoOn(d) ==
  dispatcher' = [dispatcher EXCEPT ![d] =
    [@ EXCEPT !.pc = "scan", !.event = NoEvent, !.audience = {}]]

Lose(e) == lost[e] < MaxLost /\ lost' = [lost EXCEPT ![e] = @ + 1]

-----------------------------------------------------------------------------
Init ==
  /\ outbox     = [e \in Events |-> "absent"]
  /\ members \in SUBSET Users
  /\ notified   = [e \in Events |-> [u \in Users |-> 0]]
  /\ dispatcher = [d \in Dispatchers |-> Stopped]
  /\ steady     = [e \in Events |-> {}]
  /\ lost       = [e \in Events |-> 0]

\* saveOutboxEvent.  The row becomes visible when its transaction commits,
\* in no particular order of occurredAt.
Publish(e) ==
  /\ outbox[e] = "absent"
  /\ outbox' = [outbox EXCEPT ![e] = "pending"]
  /\ steady' = [steady EXCEPT ![e] = members]
  /\ UNCHANGED <<members, notified, dispatcher, lost>>

Join(u) ==
  /\ u \notin members
  /\ members' = members \cup {u}
  /\ UNCHANGED <<outbox, notified, dispatcher, steady, lost>>

Leave(u) ==
  /\ u \in members
  /\ members' = members \ {u}
  /\ steady'  = [e \in Events |-> steady[e] \ {u}]
  /\ UNCHANGED <<outbox, notified, dispatcher, lost>>

StartBatch(d) ==
  /\ dispatcher[d].pc = "idle"
  /\ dispatcher' = [dispatcher EXCEPT ![d] =
       [@ EXCEPT !.pc = "scan", !.topic = 0, !.remaining = Limit]]
  /\ UNCHANGED <<outbox, members, notified, steady, lost>>

\* The next topic is listed, up to what remains of the limit.
Scan(d) ==
  /\ dispatcher[d].pc = "scan"
  /\ dispatcher[d].batch = {}
  /\ dispatcher[d].remaining > 0
  /\ dispatcher[d].topic < Topics
  /\ \E b \in Listings(dispatcher[d].topic + 1, dispatcher[d].remaining) :
       dispatcher' = [dispatcher EXCEPT ![d] =
         [@ EXCEPT !.topic = dispatcher[d].topic + 1, !.batch = b]]
  /\ UNCHANGED <<outbox, members, notified, steady, lost>>

EndBatch(d) ==
  /\ dispatcher[d].pc = "scan"
  /\ dispatcher[d].batch = {}
  /\ dispatcher[d].remaining = 0 \/ dispatcher[d].topic = Topics
  /\ dispatcher' = [dispatcher EXCEPT ![d] = Stopped]
  /\ UNCHANGED <<outbox, members, notified, steady, lost>>

\* Slip: an exception ends the batch.
TakeOrAbort(d) ==
  /\ dispatcher[d].pc = "scan"
  /\ \E e \in Earliest(dispatcher[d].batch) :
       \/ /\ e \in Unsupported
          /\ dispatcher' = [dispatcher EXCEPT ![d] = Stopped]
       \/ /\ e \notin Unsupported
          /\ dispatcher' = [dispatcher EXCEPT ![d] =
               [@ EXCEPT !.remaining = @ - 1, !.batch = @ \ {e}, !.pc = "save",
                         !.event = e, !.audience = Audience(e)]]
  /\ UNCHANGED <<outbox, members, notified, steady, lost>>

\* The event counts against the limit, then its handler throws at an event
\* type it does not support or reads whom to notify.
Take(d) ==
  LET x == dispatcher[d] IN
  /\ x.pc = "scan"
  /\ \E e \in Earliest(x.batch) :
       \/ /\ e \in Unsupported
          /\ dispatcher' = [dispatcher EXCEPT ![d] =
               [x EXCEPT !.remaining = x.remaining - 1, !.batch = x.batch \ {e}]]
       \/ /\ e \notin Unsupported
          /\ dispatcher' = [dispatcher EXCEPT ![d] =
               [x EXCEPT !.remaining = x.remaining - 1, !.batch = x.batch \ {e},
                         !.pc = "save", !.event = e, !.audience = Audience(e)]]
  /\ UNCHANGED <<outbox, members, notified, steady, lost>>

Save(d) ==
  /\ dispatcher[d].pc = "save"
  /\ Notify(d)
  /\ dispatcher' = [dispatcher EXCEPT ![d] = [@ EXCEPT !.pc = "mark"]]
  /\ UNCHANGED <<outbox, members, steady, lost>>

\* Slip: the producer swallows the failure.
SaveFailsSilently(d) ==
  /\ dispatcher[d].pc = "save"
  /\ dispatcher' = [dispatcher EXCEPT ![d] = [@ EXCEPT !.pc = "mark"]]
  /\ UNCHANGED <<outbox, members, notified, steady, lost>>

\* The handler throws: the transaction is rolled back or the POST refused.
SaveFails(d) ==
  /\ dispatcher[d].pc = "save"
  /\ GoOn(d)
  /\ UNCHANGED <<outbox, members, notified, steady, lost>>

\* The handler throws although the transaction or the POST took effect.
SaveInDoubt(d) ==
  /\ dispatcher[d].pc = "save"
  /\ Lose(dispatcher[d].event)
  /\ Notify(d)
  /\ GoOn(d)
  /\ UNCHANGED <<outbox, members, steady>>

Mark(d) ==
  /\ dispatcher[d].pc = "mark"
  /\ outbox' = [outbox EXCEPT ![dispatcher[d].event] = "processed"]
  /\ GoOn(d)
  /\ UNCHANGED <<members, notified, steady, lost>>

\* The update fails: the event counts as failed and stays pending.
MarkFails(d) ==
  /\ dispatcher[d].pc = "mark"
  /\ Lose(dispatcher[d].event)
  /\ GoOn(d)
  /\ UNCHANGED <<outbox, members, notified, steady>>

Die(d) ==
  /\ d \in Mortal
  /\ dispatcher[d].pc # "idle"
  /\ \/ dispatcher[d].pc = "mark" /\ Lose(dispatcher[d].event)
     \/ dispatcher[d].pc # "mark" /\ UNCHANGED lost
  /\ dispatcher' = [dispatcher EXCEPT ![d] = Stopped]
  /\ UNCHANGED <<outbox, members, notified, steady>>

\* The steps of a run that is not disturbed.
Run(d) == StartBatch(d) \/ Scan(d) \/ EndBatch(d) \/ Take(d) \/ Save(d) \/ Mark(d)

Fail(d) == SaveFails(d) \/ SaveInDoubt(d) \/ MarkFails(d) \/ Die(d)

Next ==
  \/ \E e \in Events : Publish(e)
  \/ \E u \in Users : Join(u) \/ Leave(u)
  \/ \E d \in Dispatchers : Run(d) \/ Fail(d)

Spec == Init /\ [][Next]_vars

\* The command is run again and again, not all of its runs die, and what a
\* handler tries to save for an event does not fail for ever.
Fairness ==
  \A d \in Dispatchers \ Mortal :
    /\ WF_vars(Run(d) \/ SaveFails(d))
    /\ \A e \in Events : SF_vars(Save(d) /\ dispatcher[d].event = e)

FairSpec == Spec /\ Fairness

-----------------------------------------------------------------------------
(* Properties.                                                             *)

\* Every row and every run has its type; what remains of a run's limit is
\* shared by the topics and never goes below zero.
TypeOK ==
  /\ outbox \in [Events -> {"absent", "pending", "processed"}]
  /\ members \in SUBSET Users
  /\ notified \in [Events -> [Users -> Nat]]
  /\ dispatcher \in [Dispatchers -> Runs]
  /\ steady \in [Events -> SUBSET Users]
  /\ lost \in [Events -> Nat]

\* Whom an event must have reached by the time it is processed: the person
\* it is for, or the members who have been there ever since but its author.
Owed(e) == IF e \in CourseWide THEN steady[e] \ Named[e] ELSE Named[e]

\* At least once: an event is never marked processed before everybody it is
\* owed to has been notified, whatever failed, died or overlapped.
ProcessedIsDelivered ==
  \A e \in Events : outbox[e] = "processed" => \A u \in Owed(e) : notified[e][u] >= 1

\* Duplicates have two causes only, an outcome that was lost and a run that
\* listed the event before another one marked it: a single run that loses
\* nothing notifies once.
DuplicatesBounded ==
  \A e \in Events, u \in Users :
    notified[e][u] <= Cardinality(Dispatchers) + lost[e]

\* A rejected event and an event of a topic without a handler stay pending:
\* nothing but its handler's success takes an event out of the outbox.
RejectedStaysPending ==
  \A e \in Events :
    e \in Unsupported \/ TopicOf[e] = 0 => outbox[e] # "processed"

\* Every supported event of a configured topic is eventually processed.
SupportedEventsProgress ==
  \A e \in Events \ Unsupported :
    TopicOf[e] # 0 => (outbox[e] = "pending" ~> outbox[e] = "processed")
=============================================================================
