-------------------------- MODULE CalendarReminders --------------------------
(***************************************************************************)
(* The reminders of one event of a course calendar: the rows that saving   *)
(* the event writes (packages/core/src/calendar/repository.ts) and the     *)
(* runs that turn those that are due into notifications (reminders.ts,     *)
(* packages/api/src/calendar-reminder-dispatch.ts).                        *)
(*                                                                         *)
(* Every save of the event deletes the reminders that are not sent and,    *)
(* when the event is published, inserts one for every offset: the row is   *)
(* named here by the save that wrote it and its offset.  A run lists the   *)
(* rows that are due, and for each of them notifies the members in one     *)
(* transaction and marks the row in another.  Nothing catches an error, so *)
(* one ends the run; a run may also die, and two may overlap.              *)
(***************************************************************************)
EXTENDS Naturals, FiniteSets

CONSTANTS
  Offsets,      \* defaultCourseCalendarReminderOffsetsMinutes
  Starts,       \* times an event may start at
  Rounds,       \* runs of the dispatcher
  PageSize,     \* reminders of a run
  LastMinute,   \* bound: the clock
  MaxSaves,     \* bound: how often the event is saved
  MaxBroken     \* bound: runs that end early

ASSUME RemindersAssumption ==
  /\ IsFiniteSet(Offsets) /\ Offsets \subseteq Nat
  /\ Starts \subseteq Nat
  /\ IsFiniteSet(Rounds)
  /\ PageSize \in Nat \ {0}
  /\ LastMinute \in Nat /\ MaxSaves \in Nat /\ MaxBroken \in Nat

VARIABLES
  event,      \* the course_calendar_event row
  saves,      \* how often it has been saved
  reminder,   \* the course_calendar_event_reminder rows
  minute,     \* the clock
  round,      \* the runs in flight
  told,       \* history: how often the members were notified of a row
  broken      \* history: runs that ended early

remindVars == <<event, saves, reminder, minute, round, told, broken>>

-----------------------------------------------------------------------------
ReminderIds == (1..MaxSaves) \X Offsets
Events == [state : {"unborn", "hidden", "published", "gone"}, start : Starts \cup {0}]
ReminderRows == [state : {"none", "pending", "sent"}, start : Starts \cup {0}]
RoundsInFlight == [pc : {"idle", "produce", "mark"}, batch : SUBSET ReminderIds]

NoReminder == [state |-> "none", start |-> 0]
NoRound == [pc |-> "idle", batch |-> {}]

PendingReminders == {k \in ReminderIds : reminder[k].state = "pending"}

\* remindAt of j is not after that of k.
NotLater(j, k) == reminder[j].start + k[2] <= reminder[k].start + j[2]

\* remindAt, the start less the offset, has come.
IsDue(k) == reminder[k].start <= minute + k[2] /\ event.state = "published"

RemindInit ==
  /\ event = [state |-> "unborn", start |-> 0]
  /\ saves = 0
  /\ reminder = [k \in ReminderIds |-> NoReminder]
  /\ minute = 0
  /\ round = [r \in Rounds |-> NoRound]
  /\ told = [k \in ReminderIds |-> 0]
  /\ broken = 0

\* Slip: the reminders that wait are kept, and the new ones do nothing on
\* their conflict.
KeepReminders(state, start) ==
  [k \in ReminderIds |->
     IF state = "published" /\ k[1] = saves + 1
          /\ \A j \in PendingReminders : j[2] # k[2]
     THEN [state |-> "pending", start |-> start] ELSE reminder[k]]

\* syncDefaultCourseCalendarEventReminders.
SyncReminders(state, start) ==
  [k \in ReminderIds |->
     IF k[1] = saves + 1
     THEN IF state = "published" THEN [state |-> "pending", start |-> start] ELSE NoReminder
     ELSE IF reminder[k].state = "pending" THEN NoReminder ELSE reminder[k]]

\* createCourseCalendarEvent and updateCourseCalendarEvent; the lock on the
\* event orders two saves, and the locks on its reminders a save and a mark.
SaveEvent(state, start) ==
  /\ event.state # "gone"
  /\ saves < MaxSaves
  /\ event' = [state |-> state, start |-> start]
  /\ saves' = saves + 1
  /\ reminder' = SyncReminders(state, start)
  /\ UNCHANGED <<minute, round, told, broken>>

\* The reminders go with the event.
DeleteEvent ==
  /\ event.state \in {"hidden", "published"}
  /\ event' = [event EXCEPT !.state = "gone"]
  /\ reminder' = [k \in ReminderIds |-> NoReminder]
  /\ UNCHANGED <<saves, minute, round, told, broken>>

Tick ==
  /\ minute < LastMinute
  /\ minute' = minute + 1
  /\ UNCHANGED <<event, saves, reminder, round, told, broken>>

\* The first PageSize of S in the order of remindAt.
IsPage(page, S) ==
  /\ page \subseteq S
  /\ \A j \in page, k \in S \ page : NotLater(j, k)
  /\ Cardinality(page) = IF Cardinality(S) < PageSize THEN Cardinality(S) ELSE PageSize

\* listDueCourseCalendarEventReminders; a run without any ends.
BeginRound(r) ==
  /\ round[r].pc = "idle"
  /\ \E page \in SUBSET PendingReminders :
       /\ page # {}
       /\ IsPage(page, {k \in PendingReminders : IsDue(k)})
       /\ round' = [round EXCEPT ![r] = [pc |-> "produce", batch |-> page]]
  /\ UNCHANGED <<event, saves, reminder, minute, told, broken>>

\* The reminder whose turn it is: the batch was listed in this order.
IsTurn(r, k) == k \in round[r].batch /\ \A j \in round[r].batch : k[2] >= j[2]

\* Slip: the row is marked before anybody is notified.
MarkFirst(r) == \E k \in round[r].batch :
  /\ round[r].pc = "produce"
  /\ IsTurn(r, k)
  /\ reminder' = [reminder EXCEPT ![k] =
       IF @.state = "pending" THEN [@ EXCEPT !.state = "sent"] ELSE @]
  /\ round' = [round EXCEPT ![r] = [@ EXCEPT !.pc = "mark"]]
  /\ UNCHANGED <<event, saves, minute, told, broken>>

\* produceNotifications for the active members, in one transaction.
ProduceReminder(r) == \E k \in round[r].batch :
  /\ round[r].pc = "produce"
  /\ IsTurn(r, k)
  /\ told' = [told EXCEPT ![k] = @ + 1]
  /\ round' = [round EXCEPT ![r] = [@ EXCEPT !.pc = "mark"]]
  /\ UNCHANGED <<event, saves, reminder, minute, broken>>

\* markCourseCalendarEventReminderSent finds the row only if it is still
\* there and not sent.
MarkReminder(r) == \E k \in round[r].batch :
  /\ round[r].pc = "mark"
  /\ IsTurn(r, k)
  /\ reminder' = [reminder EXCEPT ![k] =
       IF @.state = "pending" THEN [@ EXCEPT !.state = "sent"] ELSE @]
  /\ round' = [round EXCEPT ![r] =
       IF round[r].batch = {k} THEN NoRound
       ELSE [pc |-> "produce", batch |-> round[r].batch \ {k}]]
  /\ UNCHANGED <<event, saves, minute, told, broken>>

\* An error or a death; what the notifications had committed stays.
BreakRound(r) ==
  /\ round[r].pc # "idle"
  /\ broken < MaxBroken
  /\ broken' = broken + 1
  /\ round' = [round EXCEPT ![r] = NoRound]
  /\ UNCHANGED <<event, saves, reminder, minute, told>>

Round(r) == BeginRound(r) \/ ProduceReminder(r) \/ MarkReminder(r)

RemindNext ==
  \/ \E state \in {"hidden", "published"}, start \in Starts : SaveEvent(state, start)
  \/ DeleteEvent
  \/ Tick
  \/ \E r \in Rounds : Round(r) \/ BreakRound(r)

\* Runs are started again and again, and one that is started goes on.
RemindFairness == \A r \in Rounds : WF_remindVars(Round(r))

RemindSpec == RemindInit /\ [][RemindNext]_remindVars /\ RemindFairness

-----------------------------------------------------------------------------
(* Properties.                                                             *)

\* Every row and every run has its type.
RemindTypeOK ==
  /\ event \in Events
  /\ saves \in 0..MaxSaves
  /\ reminder \in [ReminderIds -> ReminderRows]
  /\ minute \in 0..LastMinute
  /\ round \in [Rounds -> RoundsInFlight]
  /\ told \in [ReminderIds -> Nat]
  /\ broken \in 0..MaxBroken

\* What waits to be sent is of a published event and of its present start,
\* however often the event was moved, hidden or deleted while runs sent and
\* marked its reminders.
PendingIsCurrent ==
  \A k \in PendingReminders :
    event.state = "published" /\ reminder[k].start = event.start

\* A reminder is marked as sent only when the members have been notified:
\* a run that breaks off leaves it for the next.
SentIsTold == \A k \in ReminderIds : reminder[k].state = "sent" => told[k] >= 1
=============================================================================
