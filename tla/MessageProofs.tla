---------------------------- MODULE MessageProofs ----------------------------
(***************************************************************************)
(* What holds of the messages to the members of a course for any number of *)
(* reminders, requests, devices, notices and runs: CalendarReminders and   *)
(* NotificationDelivery, alone and composed in DeliveryPipeline, and       *)
(* EmailDigests.                                                           *)
(*                                                                         *)
(* The two dispatchers of messages are counted alike.  For one message and *)
(* one target the runs in flight are told apart: those past the call and   *)
(* not yet at the mark, and those still ahead of it.  Until the message is *)
(* marked, the calls there have been are those of runs that are past and   *)
(* of failures; afterwards no run takes it up any more, so that the calls  *)
(* there have been and those ahead are no more than the runs and failures. *)
(***************************************************************************)
EXTENDS DeliveryPipeline, EmailDigests, FiniteSetTheorems, TLAPS

-----------------------------------------------------------------------------
(* Sets of runs.                                                           *)

\* What of a set of runs is left, or there is, when one goes or comes.
LEMMA RunCount ==
  ASSUME NEW S, IsFiniteSet(S), NEW c
  PROVE  /\ Cardinality(S) \in Nat
         /\ Cardinality(S \cup {c}) \in Nat /\ Cardinality(S \ {c}) \in Nat
         /\ Cardinality(S \ {c}) = IF c \in S THEN Cardinality(S) - 1 ELSE Cardinality(S)
         /\ Cardinality(S \cup {c}) = IF c \in S THEN Cardinality(S) ELSE Cardinality(S) + 1
<1>3. IsFiniteSet(S \cup {c}) /\ IsFiniteSet(S \ {c})
  BY FS_AddElement, FS_RemoveElement
<1>4. Cardinality(S) \in Nat
      /\ Cardinality(S \cup {c}) \in Nat /\ Cardinality(S \ {c}) \in Nat
  BY <1>3, FS_CardinalityType
<1>5. c \in S => Cardinality(S \ {c}) = Cardinality(S) - 1
  BY FS_RemoveElement
<1>6. c \notin S => Cardinality(S \cup {c}) = Cardinality(S) + 1
  BY FS_AddElement
<1>7. (c \notin S => S \ {c} = S) /\ (c \in S => S \cup {c} = S)
  OBVIOUS
<1>. QED
  BY <1>4, <1>5, <1>6, <1>7

\* Two sets of runs without a common one.
LEMMA DisjointCount ==
  ASSUME NEW R, IsFiniteSet(R), NEW S \in SUBSET R, NEW T \in SUBSET R, S \cap T = {}
  PROVE  /\ Cardinality(S) \in Nat /\ Cardinality(T) \in Nat /\ Cardinality(R) \in Nat
         /\ Cardinality(S) + Cardinality(T) <= Cardinality(R)
<1>1. /\ IsFiniteSet(S) /\ IsFiniteSet(T) /\ IsFiniteSet(S \cup T)
      /\ Cardinality(S \cup T) <= Cardinality(R)
  <2>1. S \cup T \subseteq R
    OBVIOUS
  <2>. QED
    BY <2>1, FS_Subset
<1>2. Cardinality(S \cup T) = Cardinality(S) + Cardinality(T) - Cardinality(S \cap T)
  BY <1>1, FS_Union
<1>3. Cardinality(S \cap T) = 0
  BY FS_EmptySet
<1>. QED
  BY <1>1, <1>2, <1>3, FS_CardinalityType

-----------------------------------------------------------------------------
(* The reminders of an event.                                              *)

\* Only the last save of the event has reminders that wait, so a run lists
\* those of one save, and the one whose turn it is is one.
OneSave ==
  /\ \A k \in PendingReminders : k[1] = saves
  /\ \A r \in Rounds : \A j, k \in round[r].batch : j[1] = k[1]

\* A run that is about to mark a reminder has notified the members of it.
MarkedIsTold ==
  \A r \in Rounds : round[r].pc = "mark" =>
    \A k \in round[r].batch : IsTurn(r, k) => told[k] >= 1

RemindInv ==
  RemindTypeOK /\ PendingIsCurrent /\ SentIsTold /\ OneSave /\ MarkedIsTold

\* A reminder that is marked.
LEMMA MarkTypes ==
  ASSUME NEW x \in ReminderRows
  PROVE  LET y == [x EXCEPT !.state = "sent"]
         IN  y \in ReminderRows /\ y.state = "sent"
BY DEF ReminderRows

LEMMA RoundTypes ==
  ASSUME NEW x \in RoundsInFlight
  PROVE  /\ x.pc \in {"idle", "produce", "mark"} /\ x.batch \subseteq ReminderIds
         /\ LET y == [x EXCEPT !.pc = "mark"]
            IN  y \in RoundsInFlight /\ y.pc = "mark" /\ y.batch = x.batch
BY DEF RoundsInFlight

LEMMA RemindInitial == RemindInit => RemindInv
BY RemindersAssumption
   DEF RemindInit, RemindInv, RemindTypeOK, PendingIsCurrent, SentIsTold, OneSave,
       MarkedIsTold, PendingReminders, Events, ReminderRows, RoundsInFlight, NoReminder, NoRound

\* A save leaves pending what it writes itself, and nothing else.
LEMMA SaveEventKeeps ==
  ASSUME RemindInv, NEW state \in {"hidden", "published"}, NEW start \in Starts,
         SaveEvent(state, start)
  PROVE  RemindInv'
<1>. DEFINE fresh == [state |-> "pending", start |-> start]
<1>1. fresh \in ReminderRows /\ fresh.state = "pending" /\ fresh.start = start
      /\ NoReminder \in ReminderRows /\ NoReminder.state = "none"
  BY DEF ReminderRows, NoReminder
<1>2. \A k \in ReminderIds :
        reminder'[k] = IF k[1] = saves + 1
                       THEN IF state = "published" THEN fresh ELSE NoReminder
                       ELSE IF reminder[k].state = "pending" THEN NoReminder ELSE reminder[k]
  BY DEF SaveEvent, SyncReminders
<1>. HIDE DEF fresh, NoReminder
<1>3. reminder' \in [ReminderIds -> ReminderRows]
  <2>1. DOMAIN reminder' = ReminderIds /\ reminder' = [k \in ReminderIds |-> reminder'[k]]
    BY DEF SaveEvent, SyncReminders
  <2>2. \A k \in ReminderIds : reminder[k] \in ReminderRows
    BY DEF RemindInv, RemindTypeOK
  <2>3. \A k \in ReminderIds : reminder'[k] \in ReminderRows
    BY <1>1, <1>2, <2>2
  <2>. QED
    BY <2>1, <2>3
<1>4. event' = [state |-> state, start |-> start] /\ saves' = saves + 1 /\ saves < MaxSaves
      /\ UNCHANGED <<minute, round, told, broken>>
  BY DEF SaveEvent
<1>5. event' \in Events /\ event'.state = state /\ event'.start = start
  BY <1>4 DEF Events
<1>6. saves' \in 0..MaxSaves
  BY <1>4, RemindersAssumption DEF RemindInv, RemindTypeOK
<1>7. RemindTypeOK'
  BY <1>3, <1>4, <1>5, <1>6 DEF RemindInv, RemindTypeOK
<1>8. \A k \in ReminderIds : reminder'[k].state = "pending" =>
        k[1] = saves + 1 /\ state = "published" /\ reminder'[k] = fresh
  BY <1>1, <1>2
<1>9. PendingIsCurrent'
  BY <1>1, <1>5, <1>8 DEF PendingIsCurrent, PendingReminders
<1>10. SentIsTold'
  BY <1>1, <1>2, <1>4 DEF RemindInv, SentIsTold
<1>11. OneSave'
  BY <1>4, <1>8 DEF RemindInv, OneSave, PendingReminders
<1>12. MarkedIsTold'
  BY <1>4 DEF RemindInv, MarkedIsTold, IsTurn
<1>. QED
  BY <1>7, <1>9, <1>10, <1>11, <1>12 DEF RemindInv

LEMMA DeleteEventKeeps == ASSUME RemindInv, DeleteEvent PROVE RemindInv'
<1>1. /\ event' = [event EXCEPT !.state = "gone"]
      /\ reminder' = [k \in ReminderIds |-> NoReminder]
      /\ UNCHANGED <<saves, minute, round, told, broken>>
  BY DEF DeleteEvent
<1>2. NoReminder \in ReminderRows /\ NoReminder.state = "none"
  BY DEF ReminderRows, NoReminder
<1>. HIDE DEF NoReminder
<1>3. event' \in Events
  BY <1>1 DEF RemindInv, RemindTypeOK, Events
<1>4. RemindTypeOK'
  BY <1>1, <1>2, <1>3 DEF RemindInv, RemindTypeOK
<1>5. PendingIsCurrent' /\ SentIsTold' /\ OneSave'
  BY <1>1, <1>2 DEF RemindInv, PendingIsCurrent, SentIsTold, OneSave, PendingReminders
<1>6. MarkedIsTold'
  BY <1>1 DEF RemindInv, MarkedIsTold, IsTurn
<1>. QED
  BY <1>4, <1>5, <1>6 DEF RemindInv

\* A run changes its own place only; what it brings with it is asked of here.
LEMMA RoundKeeps ==
  ASSUME RemindInv, NEW r \in Rounds, NEW y \in RoundsInFlight,
         round' = [round EXCEPT ![r] = y],
         \A j, k \in y.batch : j[1] = k[1],
         y.pc = "mark" =>
           \A k \in y.batch : (\A j \in y.batch : k[2] >= j[2]) => told'[k] >= 1,
         UNCHANGED <<event, saves, minute>>,
         broken' \in 0..MaxBroken,
         told' \in [ReminderIds -> Nat],
         \A k \in ReminderIds : told'[k] >= told[k],
         reminder' \in [ReminderIds -> ReminderRows],
         \A k \in ReminderIds :
           \/ reminder'[k] = reminder[k]
           \/ reminder'[k].state = "sent" /\ told[k] >= 1
  PROVE  RemindInv'
<1>1. \A q \in Rounds : round'[q] = IF q = r THEN y ELSE round[q]
  BY DEF RemindInv, RemindTypeOK
<1>2. RemindTypeOK'
  BY DEF RemindInv, RemindTypeOK
<1>3. \A k \in ReminderIds : reminder'[k].state = "pending" => reminder'[k] = reminder[k]
  OBVIOUS
<1>4. PendingIsCurrent'
  BY <1>3 DEF RemindInv, PendingIsCurrent, PendingReminders
<1>5. SentIsTold'
  <2>1. \A k \in ReminderIds : told[k] \in Nat /\ told'[k] \in Nat
    BY DEF RemindInv, RemindTypeOK
  <2>. QED
    BY <2>1 DEF RemindInv, SentIsTold
<1>6. OneSave'
  BY <1>1, <1>3 DEF RemindInv, OneSave, PendingReminders
<1>7. MarkedIsTold'
  <2>. SUFFICES ASSUME NEW q \in Rounds, round'[q].pc = "mark", NEW k \in round'[q].batch,
                       \A j \in round'[q].batch : k[2] >= j[2]
                PROVE  told'[k] >= 1
    BY DEF MarkedIsTold, IsTurn
  <2>1. CASE q = r
    BY <1>1, <2>1
  <2>2. CASE q # r
    <3>1. round'[q] = round[q] /\ round[q].batch \subseteq ReminderIds
      BY <1>1, <2>2, RoundTypes DEF RemindInv, RemindTypeOK
    <3>2. told[k] >= 1
      BY <3>1 DEF RemindInv, MarkedIsTold, IsTurn
    <3>3. k \in ReminderIds /\ told[k] \in Nat /\ told'[k] \in Nat
      BY <3>1 DEF RemindInv, RemindTypeOK
    <3>. QED
      BY <3>2, <3>3
  <2>. QED
    BY <2>1, <2>2
<1>. QED
  BY <1>2, <1>4, <1>5, <1>6, <1>7 DEF RemindInv

LEMMA BeginRoundKeeps == ASSUME RemindInv, NEW r \in Rounds, BeginRound(r) PROVE RemindInv'
<1>1. PICK page \in SUBSET PendingReminders :
        round' = [round EXCEPT ![r] = [pc |-> "produce", batch |-> page]]
  BY DEF BeginRound
<1>2. page \subseteq ReminderIds
  BY DEF PendingReminders
<1>. DEFINE y == [pc |-> "produce", batch |-> page]
<1>3. y \in RoundsInFlight /\ y.pc = "produce" /\ y.batch = page
  BY <1>2 DEF RoundsInFlight
<1>4. \A j, k \in page : j[1] = k[1]
  BY DEF RemindInv, OneSave
<1>. HIDE DEF y
<1>5. UNCHANGED <<event, saves, reminder, minute, told, broken>>
  BY DEF BeginRound
<1>6. round' = [round EXCEPT ![r] = y]
  BY <1>1 DEF y
<1>7. /\ told' \in [ReminderIds -> Nat] /\ \A j \in ReminderIds : told'[j] >= told[j]
      /\ reminder' \in [ReminderIds -> ReminderRows] /\ broken' \in 0..MaxBroken
  BY <1>5 DEF RemindInv, RemindTypeOK
<1>. QED
  BY <1>3, <1>4, <1>5, <1>6, <1>7, RoundKeeps

LEMMA ProduceReminderKeeps ==
  ASSUME RemindInv, NEW r \in Rounds, ProduceReminder(r)
  PROVE  RemindInv'
<1>1. PICK k \in round[r].batch :
        /\ IsTurn(r, k)
        /\ told' = [told EXCEPT ![k] = @ + 1]
        /\ round' = [round EXCEPT ![r] = [@ EXCEPT !.pc = "mark"]]
        /\ UNCHANGED <<event, saves, reminder, minute, broken>>
  BY DEF ProduceReminder
<1>. DEFINE y == [round[r] EXCEPT !.pc = "mark"]
<1>2. y \in RoundsInFlight /\ y.batch = round[r].batch /\ round[r].batch \subseteq ReminderIds
  BY RoundTypes DEF RemindInv, RemindTypeOK
<1>3. round' = [round EXCEPT ![r] = y]
  BY <1>1
<1>. HIDE DEF y
<1>4. told' \in [ReminderIds -> Nat] /\ \A j \in ReminderIds : told'[j] >= told[j]
  BY <1>1, <1>2 DEF RemindInv, RemindTypeOK
<1>5. told'[k] >= 1
  BY <1>1, <1>2 DEF RemindInv, RemindTypeOK
<1>6. \A j \in y.batch : (\A i \in y.batch : j[2] >= i[2]) => j = k
  <2>. SUFFICES ASSUME NEW j \in y.batch, \A i \in y.batch : j[2] >= i[2]
                PROVE  j = k
    OBVIOUS
  <2>1. j[2] >= k[2] /\ k[2] >= j[2] /\ j[1] = k[1]
    BY <1>1, <1>2 DEF IsTurn, RemindInv, OneSave
  <2>2. j \in (1..MaxSaves) \X Offsets /\ k \in (1..MaxSaves) \X Offsets
    BY <1>2 DEF ReminderIds
  <2>3. j[2] \in Nat /\ k[2] \in Nat
    BY <2>2, RemindersAssumption
  <2>. QED
    BY <2>1, <2>2, <2>3
<1>7. \A i, j \in y.batch : i[1] = j[1]
  BY <1>2 DEF RemindInv, OneSave
<1>. QED
  BY <1>1, <1>2, <1>3, <1>4, <1>5, <1>6, <1>7, RoundKeeps DEF RemindInv, RemindTypeOK

LEMMA MarkReminderKeeps ==
  ASSUME RemindInv, NEW r \in Rounds, MarkReminder(r)
  PROVE  RemindInv'
<1>1. PICK k \in round[r].batch :
        /\ round[r].pc = "mark"
        /\ IsTurn(r, k)
        /\ reminder' = [reminder EXCEPT ![k] =
             IF @.state = "pending" THEN [@ EXCEPT !.state = "sent"] ELSE @]
        /\ round' = [round EXCEPT ![r] =
             IF round[r].batch = {k} THEN NoRound
             ELSE [pc |-> "produce", batch |-> round[r].batch \ {k}]]
        /\ UNCHANGED <<event, saves, minute, told, broken>>
  BY DEF MarkReminder
<1>2. round[r].batch \subseteq ReminderIds /\ reminder[k] \in ReminderRows
  BY RoundTypes DEF RemindInv, RemindTypeOK
<1>3. told[k] >= 1
  BY <1>1 DEF RemindInv, MarkedIsTold
<1>. DEFINE marked == [reminder[k] EXCEPT !.state = "sent"]
<1>4. marked \in ReminderRows /\ marked.state = "sent"
  BY <1>2, MarkTypes
<1>5. reminder' = [reminder EXCEPT ![k] = IF reminder[k].state = "pending" THEN marked ELSE reminder[k]]
  BY <1>1
<1>. HIDE DEF marked
<1>6. /\ reminder' \in [ReminderIds -> ReminderRows]
      /\ \A j \in ReminderIds :
           \/ reminder'[j] = reminder[j]
           \/ reminder'[j].state = "sent" /\ told[j] >= 1
  BY <1>2, <1>3, <1>4, <1>5 DEF RemindInv, RemindTypeOK
<1>. DEFINE y == IF round[r].batch = {k} THEN NoRound
                 ELSE [pc |-> "produce", batch |-> round[r].batch \ {k}]
<1>7. y \in RoundsInFlight /\ y.batch \subseteq round[r].batch /\ y.pc # "mark"
  BY <1>2 DEF RoundsInFlight, NoRound
<1>8. round' = [round EXCEPT ![r] = y]
  BY <1>1
<1>. HIDE DEF y
<1>9. \A i, j \in y.batch : i[1] = j[1]
  BY <1>7 DEF RemindInv, OneSave
<1>10. /\ told' \in [ReminderIds -> Nat] /\ \A j \in ReminderIds : told'[j] >= told[j]
      /\ reminder' \in [ReminderIds -> ReminderRows] /\ broken' \in 0..MaxBroken
  BY <1>1, <1>6 DEF RemindInv, RemindTypeOK
<1>. QED
  BY <1>1, <1>6, <1>7, <1>8, <1>9, <1>10, RoundKeeps

LEMMA BreakRoundKeeps == ASSUME RemindInv, NEW r \in Rounds, BreakRound(r) PROVE RemindInv'
<1>1. NoRound \in RoundsInFlight /\ NoRound.batch = {} /\ NoRound.pc # "mark"
  BY DEF NoRound, RoundsInFlight
<1>2. broken' \in 0..MaxBroken /\ UNCHANGED <<event, saves, reminder, minute, told>>
      /\ round' = [round EXCEPT ![r] = NoRound]
  BY RemindersAssumption DEF BreakRound, RemindInv, RemindTypeOK
<1>3. /\ told' \in [ReminderIds -> Nat] /\ \A j \in ReminderIds : told'[j] >= told[j]
      /\ reminder' \in [ReminderIds -> ReminderRows] /\ broken' \in 0..MaxBroken
  BY <1>2 DEF RemindInv, RemindTypeOK
<1>. HIDE DEF NoRound
<1>. QED
  BY <1>1, <1>2, <1>3, RoundKeeps

LEMMA RemindStepKeeps == RemindInv /\ [RemindNext]_remindVars => RemindInv'
<1>. SUFFICES ASSUME RemindInv, [RemindNext]_remindVars PROVE RemindInv'
  OBVIOUS
<1>1. ASSUME Tick PROVE RemindInv'
  <2>1. minute' \in 0..LastMinute
    BY <1>1, RemindersAssumption DEF Tick, RemindInv, RemindTypeOK
  <2>. QED
    BY <1>1, <2>1 DEF Tick, RemindInv, RemindTypeOK, PendingIsCurrent, SentIsTold, OneSave,
       MarkedIsTold, PendingReminders, IsTurn
<1>2. CASE UNCHANGED remindVars
  BY <1>2 DEF remindVars, RemindInv, RemindTypeOK, PendingIsCurrent, SentIsTold, OneSave,
     MarkedIsTold, PendingReminders, IsTurn
<1>. QED
  BY <1>1, <1>2, SaveEventKeeps, DeleteEventKeeps, BeginRoundKeeps, ProduceReminderKeeps,
     MarkReminderKeeps, BreakRoundKeeps DEF RemindNext, Round

\* The rows, runs and counters of CalendarReminders have their types.
THEOREM RemindTypeCorrect == RemindSpec => []RemindTypeOK
<1>. QED
  BY RemindInitial, RemindStepKeeps, PTL DEF RemindSpec, RemindInv

\* What waits to be sent is of the event as it is now, however often it is
\* saved or deleted while runs send and mark its reminders
\* (syncDefaultCourseCalendarEventReminders).
THEOREM RemindersCurrent == RemindSpec => []PendingIsCurrent
<1>. QED
  BY RemindInitial, RemindStepKeeps, PTL DEF RemindSpec, RemindInv

\* A reminder is marked as sent only when the members have been notified
\* (dispatchDueCourseCalendarEventReminders).
THEOREM SentRemindersTold == RemindSpec => []SentIsTold
<1>. QED
  BY RemindInitial, RemindStepKeeps, PTL DEF RemindSpec, RemindInv

-----------------------------------------------------------------------------
(* The requests to deliver a notification.                                 *)

First(x, e) == e \in x.batch /\ \A f \in x.batch : e <= f

\* What a request has to reach before it is marked.
Due(e) == IF e \in Mail THEN {Mailbox} ELSE {d \in steady : e \in HolderOf[d]}

\* A run that has taken up a request has sent it wherever it is not left to be
\* sent; nothing is left when it marks it.
Sending ==
  \A c \in Couriers : courier[c].pc \in {"send", "mark"} =>
    /\ \A e \in Deliveries : First(courier[c], e) =>
         \A t \in Due(e) : t \in courier[c].left \/ sent[e][t] >= 1
    /\ courier[c].pc = "mark" => courier[c].left = {}

\* A run that is past sending a request to a target, and one that may still
\* come to it.
Past(x, e, t) == First(x, e) /\ x.pc \in {"send", "mark"} /\ t \notin x.left
Ahead(x, e, t) == e \in x.batch /\ ~Past(x, e, t)

PastRuns(e, t)  == {c \in Couriers : Past(courier[c], e, t)}
AheadRuns(e, t) == {c \in Couriers : Ahead(courier[c], e, t)}

\* While a request is not marked, the calls for it are those of the runs that
\* still hold it and those of failed ones; once it is, nobody lists it again.
Counted(e, t) ==
  IF e \in Hopeless THEN sent[e][t] <= misses
  ELSE IF e \in processed
    THEN sent[e][t] + Cardinality(AheadRuns(e, t)) <= Cardinality(Couriers) + misses
    ELSE sent[e][t] <= Cardinality(PastRuns(e, t)) + misses

DeliverInv ==
  /\ DeliverTypeOK
  /\ steady \subseteq tokens
  /\ \A c \in Couriers : courier[c].batch \subseteq requested
  /\ Sending
  /\ \A e \in processed : \A t \in Due(e) : sent[e][t] >= 1
  /\ \A e \in Deliveries, t \in Targets : Counted(e, t)

\* No run is both.
LEMMA PastAndAhead ==
  ASSUME NEW e \in Deliveries, NEW t \in Targets
  PROVE  /\ Cardinality(PastRuns(e, t)) \in Nat /\ Cardinality(AheadRuns(e, t)) \in Nat
         /\ Cardinality(Couriers) \in Nat
         /\ Cardinality(PastRuns(e, t)) + Cardinality(AheadRuns(e, t)) <= Cardinality(Couriers)
<1>1. PastRuns(e, t) \subseteq Couriers /\ AheadRuns(e, t) \subseteq Couriers
      /\ PastRuns(e, t) \cap AheadRuns(e, t) = {}
  BY DEF PastRuns, AheadRuns, Ahead
<1>. QED
  BY <1>1, DisjointCount, DeliveryAssumption

\* The two counts after a step of the run c, which is y after it.
LEMMA CountsAfter ==
  ASSUME DeliverTypeOK, NEW c \in Couriers, NEW y,
         \A d \in Couriers : courier'[d] = IF d = c THEN y ELSE courier[d],
         NEW e \in Deliveries, NEW t \in Targets
  PROVE  /\ PastRuns(e, t)' = IF Past(y, e, t) THEN PastRuns(e, t) \cup {c}
                                             ELSE PastRuns(e, t) \ {c}
         /\ AheadRuns(e, t)' = IF Ahead(y, e, t) THEN AheadRuns(e, t) \cup {c}
                                                ELSE AheadRuns(e, t) \ {c}
         /\ c \in PastRuns(e, t) <=> Past(courier[c], e, t)
         /\ c \in AheadRuns(e, t) <=> Ahead(courier[c], e, t)
<1>1. PastRuns(e, t)' = {d \in Couriers : Past(courier'[d], e, t)}
  BY DEF PastRuns, Past, First
<1>2. AheadRuns(e, t)' = {d \in Couriers : Ahead(courier'[d], e, t)}
  BY DEF AheadRuns, Ahead, Past, First
<1>3. \A d \in Couriers : d # c => courier'[d] = courier[d]
  OBVIOUS
<1>4. courier'[c] = y
  OBVIOUS
<1>. QED
  BY <1>1, <1>2, <1>3, <1>4 DEF PastRuns, AheadRuns

\* How a step of the run c may change what there is to count for one request
\* and one target: a call that reached the target leaves the run past it or is
\* a failure, and a run stops being past it by marking, failing or being refused.
LEMMA CountedKeeps ==
  ASSUME DeliverTypeOK, NEW c \in Couriers, NEW y,
         \A d \in Couriers : courier'[d] = IF d = c THEN y ELSE courier[d],
         NEW e \in Deliveries, NEW t \in Targets,
         Counted(e, t),
         sent'[e][t] \in Nat,
         misses' = misses \/ misses' = misses + 1,
         sent'[e][t] = sent[e][t] \/ sent'[e][t] = sent[e][t] + 1,
         sent'[e][t] = sent[e][t] + 1 =>
           /\ Ahead(courier[c], e, t)
           /\ processed' = processed
           /\ misses' = misses + 1 \/ (e \notin Hopeless /\ Past(y, e, t)),
         e \notin Hopeless /\ e \notin processed' /\ Past(courier[c], e, t) =>
           Past(y, e, t) \/ misses' = misses + 1,
         processed \subseteq processed',
         e \in processed' /\ Ahead(y, e, t) => Ahead(courier[c], e, t)
  PROVE  Counted(e, t)'
<1>. DEFINE P == Cardinality(PastRuns(e, t))
            A == Cardinality(AheadRuns(e, t))
            C == Cardinality(Couriers)
<1>1. sent[e][t] \in Nat /\ misses \in Nat
  BY DeliveryAssumption DEF DeliverTypeOK
<1>2. P \in Nat /\ A \in Nat /\ C \in Nat /\ P + A <= C
  BY PastAndAhead
<1>3. /\ P' \in Nat /\ A' \in Nat
      /\ Past(y, e, t) /\ ~Past(courier[c], e, t) => P' = P + 1
      /\ Past(y, e, t) /\ Past(courier[c], e, t) => P' = P
      /\ ~Past(y, e, t) /\ Past(courier[c], e, t) => P' = P - 1
      /\ ~Past(y, e, t) /\ ~Past(courier[c], e, t) => P' = P
      /\ Ahead(y, e, t) /\ Ahead(courier[c], e, t) => A' = A
      /\ ~Ahead(y, e, t) /\ Ahead(courier[c], e, t) => A' = A - 1
      /\ ~Ahead(y, e, t) /\ ~Ahead(courier[c], e, t) => A' = A
  <2>1. PastRuns(e, t) \in SUBSET Couriers /\ AheadRuns(e, t) \in SUBSET Couriers
    BY DEF PastRuns, AheadRuns
  <2>2. /\ PastRuns(e, t)' = IF Past(y, e, t) THEN PastRuns(e, t) \cup {c}
                                              ELSE PastRuns(e, t) \ {c}
        /\ AheadRuns(e, t)' = IF Ahead(y, e, t) THEN AheadRuns(e, t) \cup {c}
                                                ELSE AheadRuns(e, t) \ {c}
        /\ c \in PastRuns(e, t) <=> Past(courier[c], e, t)
        /\ c \in AheadRuns(e, t) <=> Ahead(courier[c], e, t)
    BY CountsAfter
  <2>3. P' = IF Past(y, e, t) THEN Cardinality(PastRuns(e, t) \cup {c})
                              ELSE Cardinality(PastRuns(e, t) \ {c})
    BY <2>2
  <2>4. A' = IF Ahead(y, e, t) THEN Cardinality(AheadRuns(e, t) \cup {c})
                               ELSE Cardinality(AheadRuns(e, t) \ {c})
    BY <2>2
  <2>5. IsFiniteSet(PastRuns(e, t)) /\ IsFiniteSet(AheadRuns(e, t))
    BY <2>1, DeliveryAssumption, FS_Subset
  <2>6. /\ Cardinality(PastRuns(e, t) \cup {c}) \in Nat /\ Cardinality(PastRuns(e, t) \ {c}) \in Nat
        /\ Cardinality(PastRuns(e, t) \ {c}) = IF c \in PastRuns(e, t) THEN P - 1 ELSE P
        /\ Cardinality(PastRuns(e, t) \cup {c}) = IF c \in PastRuns(e, t) THEN P ELSE P + 1
    BY ONLY <2>5, RunCount
  <2>7. /\ Cardinality(AheadRuns(e, t) \cup {c}) \in Nat /\ Cardinality(AheadRuns(e, t) \ {c}) \in Nat
        /\ Cardinality(AheadRuns(e, t) \ {c}) = IF c \in AheadRuns(e, t) THEN A - 1 ELSE A
        /\ Cardinality(AheadRuns(e, t) \cup {c}) = IF c \in AheadRuns(e, t) THEN A ELSE A + 1
    BY ONLY <2>5, RunCount
  <2>. HIDE DEF P, A
  <2>. QED
    BY ONLY <2>2, <2>3, <2>4, <2>6, <2>7
<1>4. Ahead(courier[c], e, t) => ~Past(courier[c], e, t)
  BY DEF Ahead
<1>5. Past(y, e, t) => ~Ahead(y, e, t)
  BY DEF Ahead
<1>6. Counted(e, t) <=>
        IF e \in Hopeless THEN sent[e][t] <= misses
        ELSE IF e \in processed THEN sent[e][t] + A <= C + misses
        ELSE sent[e][t] <= P + misses
  BY DEF Counted
<1>7. Counted(e, t)' <=>
        IF e \in Hopeless THEN sent'[e][t] <= misses'
        ELSE IF e \in processed' THEN sent'[e][t] + A' <= C + misses'
        ELSE sent'[e][t] <= P' + misses'
  BY DEF Counted
<1>. HIDE DEF P, A, C
<1>8. CASE e \in Hopeless
  BY <1>1, <1>6, <1>7, <1>8
<1>9. CASE e \notin Hopeless /\ e \notin processed'
  BY <1>1, <1>2, <1>3, <1>4, <1>5, <1>6, <1>7, <1>9
<1>10. CASE e \notin Hopeless /\ e \in processed
  BY <1>1, <1>2, <1>3, <1>4, <1>5, <1>6, <1>7, <1>10
<1>11. CASE e \notin Hopeless /\ e \in processed' /\ e \notin processed
  BY <1>1, <1>2, <1>3, <1>4, <1>5, <1>6, <1>7, <1>11
<1>. QED
  BY <1>8, <1>9, <1>10, <1>11

LEMMA CourierTypes ==
  ASSUME NEW x \in CouriersInFlight
  PROVE  x.pc \in {"idle", "take", "send", "mark"} /\ x.batch \subseteq Deliveries
         /\ x.left \subseteq Targets
BY DEF CouriersInFlight

\* One more call that reached a target.
LEMMA OneMore ==
  ASSUME DeliverTypeOK, NEW e \in Deliveries, NEW t \in Targets,
         sent' = [sent EXCEPT ![e] = [@ EXCEPT ![t] = sent[e][t] + 1]]
  PROVE  /\ sent' \in [Deliveries -> [Targets -> Nat]]
         /\ \A f \in Deliveries, u \in Targets :
              sent'[f][u] = IF f = e /\ u = t THEN sent[f][u] + 1 ELSE sent[f][u]
<1>. DEFINE row == [sent[e] EXCEPT ![t] = sent[e][t] + 1]
<1>1. sent[e] \in [Targets -> Nat]
  BY DEF DeliverTypeOK
<1>2. row \in [Targets -> Nat] /\ \A u \in Targets : row[u] = IF u = t THEN sent[e][u] + 1 ELSE sent[e][u]
  BY <1>1
<1>3. sent' = [sent EXCEPT ![e] = row]
  OBVIOUS
<1>. HIDE DEF row
<1>. QED
  BY <1>2, <1>3 DEF DeliverTypeOK

\* A step of one run, which is y after it.
LEMMA CourierKeeps ==
  ASSUME DeliverInv, NEW c \in Couriers, NEW y \in CouriersInFlight,
         courier' = [courier EXCEPT ![c] = y],
         y.batch \subseteq requested,
         UNCHANGED <<requested, tokens, steady>>,
         processed \subseteq processed', processed' \subseteq requested,
         sent' \in [Deliveries -> [Targets -> Nat]],
         misses' \in 0..MaxMisses,
         \A e \in Deliveries, t \in Targets : sent'[e][t] >= sent[e][t],
         y.pc \in {"send", "mark"} =>
           \A e \in Deliveries : First(y, e) =>
             \A t \in Due(e) : t \in y.left \/ sent'[e][t] >= 1,
         y.pc = "mark" => y.left = {},
         \A e \in processed' \ processed : \A t \in Due(e) : sent'[e][t] >= 1,
         \A e \in Deliveries, t \in Targets : Counted(e, t)'
  PROVE  DeliverInv'
<1>1. \A d \in Couriers : courier'[d] = IF d = c THEN y ELSE courier[d]
  BY DEF DeliverInv, DeliverTypeOK
<1>2. DeliverTypeOK'
  BY DEF DeliverInv, DeliverTypeOK
<1>3. steady' \subseteq tokens' /\ \A d \in Couriers : courier'[d].batch \subseteq requested'
  BY <1>1 DEF DeliverInv
<1>4. \A e \in Deliveries : Due(e) \subseteq Targets /\ Due(e)' = Due(e)
  BY DEF DeliverInv, DeliverTypeOK, Due, Targets
<1>5. \A e \in Deliveries, t \in Targets : sent[e][t] \in Nat /\ sent'[e][t] \in Nat
  BY DEF DeliverInv, DeliverTypeOK
<1>6. Sending'
  <2>. SUFFICES ASSUME NEW d \in Couriers, courier'[d].pc \in {"send", "mark"}
                PROVE  /\ \A e \in Deliveries : First(courier'[d], e) =>
                            \A t \in Due(e)' : t \in courier'[d].left \/ sent'[e][t] >= 1
                       /\ courier'[d].pc = "mark" => courier'[d].left = {}
    BY DEF Sending, First
  <2>1. CASE d = c
    BY <1>1, <1>4, <2>1
  <2>2. CASE d # c
    <3>1. courier'[d] = courier[d]
      BY <1>1, <2>2
    <3>2. /\ \A e \in Deliveries : First(courier[d], e) =>
               \A t \in Due(e) : t \in courier[d].left \/ sent[e][t] >= 1
          /\ courier[d].pc = "mark" => courier[d].left = {}
      BY <3>1 DEF DeliverInv, Sending
    <3>. QED
      BY <1>4, <1>5, <3>1, <3>2
  <2>. QED
    BY <2>1, <2>2
<1>7. \A e \in processed' : \A t \in Due(e)' : sent'[e][t] >= 1
  <2>. SUFFICES ASSUME NEW e \in processed', NEW t \in Due(e) PROVE sent'[e][t] >= 1
    BY <1>2, <1>4 DEF DeliverTypeOK
  <2>1. e \in Deliveries /\ t \in Targets
    BY <1>2, <1>4 DEF DeliverTypeOK
  <2>2. CASE e \in processed
    <3>1. sent[e][t] >= 1
      BY <2>2 DEF DeliverInv
    <3>. QED
      BY <1>5, <2>1, <3>1
  <2>3. CASE e \notin processed
    BY <2>3
  <2>. QED
    BY <2>2, <2>3
<1>. QED
  BY <1>2, <1>3, <1>6, <1>7 DEF DeliverInv

\* The run after it has done with the request whose turn it was.
LEMMA NextRun ==
  ASSUME DeliverTypeOK, NEW c \in Couriers, NEW e \in courier[c].batch, IsFirst(c, e),
         NextDelivery(c, e)
  PROVE  \E y \in CouriersInFlight :
           /\ courier' = [courier EXCEPT ![c] = y]
           /\ y.pc \in {"idle", "take"} /\ y.batch = courier[c].batch \ {e}
           /\ \A f \in Deliveries, t \in Targets :
                /\ ~Past(y, f, t)
                /\ Ahead(y, f, t) => Ahead(courier[c], f, t) /\ f # e
                /\ Past(courier[c], f, t) => f = e
<1>. DEFINE y == IF courier[c].batch = {e} THEN NoBatch
                 ELSE [pc |-> "take", batch |-> courier[c].batch \ {e}, left |-> {}]
<1>1. courier[c].batch \subseteq Deliveries
  BY CourierTypes DEF DeliverTypeOK
<1>2. /\ y \in CouriersInFlight /\ y.pc \in {"idle", "take"}
      /\ y.batch = courier[c].batch \ {e}
  BY <1>1 DEF CouriersInFlight, NoBatch
<1>3. courier' = [courier EXCEPT ![c] = y]
  BY DEF NextDelivery
<1>. HIDE DEF y
<1>4. ASSUME NEW f \in Deliveries, NEW t \in Targets
      PROVE  /\ ~Past(y, f, t)
             /\ Ahead(y, f, t) => Ahead(courier[c], f, t) /\ f # e
             /\ Past(courier[c], f, t) => f = e
  <2>1. ~Past(y, f, t)
    BY <1>2 DEF Past
  <2>2. Past(courier[c], f, t) => f = e
    <3>1. SUFFICES ASSUME First(courier[c], f) PROVE f = e
      BY DEF Past
    <3>2. f <= e /\ e <= f
      BY <3>1 DEF First, IsFirst
    <3>3. e \in Nat /\ f \in Nat
      BY <1>1, DeliveryAssumption
    <3>. QED
      BY <3>2, <3>3
  <2>3. Ahead(y, f, t) => f \in courier[c].batch /\ f # e
    BY <1>2 DEF Ahead
  <2>. QED
    BY <2>1, <2>2, <2>3 DEF Ahead
<1>. QED
  BY <1>2, <1>3, <1>4

LEMMA BeginBatchKeeps == ASSUME DeliverInv, NEW c \in Couriers, BeginBatch(c) PROVE DeliverInv'
<1>1. PICK batch \in SUBSET Undelivered :
        courier' = [courier EXCEPT ![c] = [pc |-> "take", batch |-> batch, left |-> {}]]
  BY DEF BeginBatch
<1>. DEFINE y == [pc |-> "take", batch |-> batch, left |-> {}]
<1>2. batch \subseteq requested /\ batch \cap processed = {} /\ requested \subseteq Deliveries
  BY DEF Undelivered, DeliverInv, DeliverTypeOK
<1>3. y \in CouriersInFlight /\ y.pc = "take" /\ y.batch = batch
  BY <1>2 DEF CouriersInFlight
<1>4. courier' = [courier EXCEPT ![c] = y]
      /\ UNCHANGED <<requested, processed, tokens, sent, misses, steady>>
      /\ courier[c].pc = "idle"
  BY <1>1 DEF BeginBatch
<1>. HIDE DEF y
<1>5. \A d \in Couriers : courier'[d] = IF d = c THEN y ELSE courier[d]
  BY <1>4 DEF DeliverInv, DeliverTypeOK
<1>6. ASSUME NEW e \in Deliveries, NEW t \in Targets PROVE Counted(e, t)'
  <2>1. ~Past(courier[c], e, t) /\ (Ahead(y, e, t) => e \notin processed')
    BY <1>2, <1>3, <1>4 DEF Past, Ahead
  <2>2. sent'[e][t] \in Nat /\ sent'[e][t] = sent[e][t] /\ misses' = misses
        /\ sent'[e][t] # sent[e][t] + 1
    BY <1>4 DEF DeliverInv, DeliverTypeOK
  <2>. QED
    BY <1>4, <1>5, <2>1, <2>2, CountedKeeps DEF DeliverInv
<1>7. /\ sent' \in [Deliveries -> [Targets -> Nat]] /\ misses' \in 0..MaxMisses
      /\ \A e \in Deliveries, t \in Targets : sent'[e][t] >= sent[e][t]
      /\ processed' = processed /\ processed \subseteq requested
  BY <1>4 DEF DeliverInv, DeliverTypeOK
<1>. QED
  BY <1>2, <1>3, <1>4, <1>6, <1>7, CourierKeeps

\* A request is taken up with every device that is registered now, so with
\* every one that has been all along.
LEMMA TakeUpKeeps == ASSUME DeliverInv, NEW c \in Couriers, TakeUp(c) PROVE DeliverInv'
<1>1. PICK e \in courier[c].batch : IsFirst(c, e) /\ courier[c].pc = "take" /\
        LET left == IF e \in Mail THEN {Mailbox} ELSE {d \in tokens : e \in HolderOf[d]}
        IN courier' = [courier EXCEPT ![c] =
             [pc |-> IF left = {} THEN "mark" ELSE "send", batch |-> @.batch, left |-> left]]
  BY DEF TakeUp
<1>. DEFINE left == IF e \in Mail THEN {Mailbox} ELSE {d \in tokens : e \in HolderOf[d]}
            y == [pc |-> IF left = {} THEN "mark" ELSE "send", batch |-> courier[c].batch,
                  left |-> left]
<1>2. UNCHANGED <<requested, processed, tokens, sent, misses, steady>>
  BY DEF TakeUp
<1>3. courier[c].batch \subseteq Deliveries /\ courier[c].batch \subseteq requested
  BY CourierTypes DEF DeliverInv, DeliverTypeOK
<1>4. left \subseteq Targets /\ Due(e) \subseteq left
  BY DEF Targets, Due, DeliverInv, DeliverTypeOK
<1>5. courier' = [courier EXCEPT ![c] = y]
  BY <1>1
<1>. HIDE DEF left
<1>6. /\ y \in CouriersInFlight /\ y.batch = courier[c].batch /\ y.left = left
      /\ y.pc = IF left = {} THEN "mark" ELSE "send"
  BY <1>3, <1>4 DEF CouriersInFlight
<1>. HIDE DEF y
<1>7. \A d \in Couriers : courier'[d] = IF d = c THEN y ELSE courier[d]
  BY <1>5 DEF DeliverInv, DeliverTypeOK
<1>8. ASSUME NEW f \in Deliveries, NEW t \in Targets PROVE Counted(f, t)'
  <2>1. ~Past(courier[c], f, t) /\ (Ahead(y, f, t) => Ahead(courier[c], f, t))
    BY <1>1, <1>6 DEF Past, Ahead
  <2>2. sent'[f][t] \in Nat /\ sent'[f][t] = sent[f][t] /\ misses' = misses
        /\ sent'[f][t] # sent[f][t] + 1
    BY <1>2 DEF DeliverInv, DeliverTypeOK
  <2>. QED
    BY <1>2, <1>7, <2>1, <2>2, CountedKeeps DEF DeliverInv
<1>9. /\ sent' \in [Deliveries -> [Targets -> Nat]] /\ misses' \in 0..MaxMisses
      /\ \A f \in Deliveries, t \in Targets : sent'[f][t] >= sent[f][t]
      /\ processed' = processed /\ processed \subseteq requested
  BY <1>2 DEF DeliverInv, DeliverTypeOK
<1>10. \A f \in Deliveries : First(y, f) => f = e
  <2>. SUFFICES ASSUME NEW f \in Deliveries, First(y, f) PROVE f = e
    OBVIOUS
  <2>1. f <= e /\ e <= f
    BY <1>1, <1>6 DEF First, IsFirst
  <2>2. e \in Nat /\ f \in Nat
    BY <1>3, DeliveryAssumption
  <2>. QED
    BY <2>1, <2>2
<1>11. y.pc = "mark" => y.left = {}
  BY <1>6
<1>. QED
  BY <1>2, <1>3, <1>4, <1>5, <1>6, <1>8, <1>9, <1>10, <1>11, CourierKeeps

\* One call: the run is past the target, and not before.
LEMMA SendKeeps == ASSUME DeliverInv, NEW c \in Couriers, Send(c) PROVE DeliverInv'
<1>1. PICK e \in courier[c].batch, t \in courier[c].left :
        /\ courier[c].pc = "send"
        /\ IsFirst(c, e)
        /\ e \notin Hopeless
        /\ sent' = [sent EXCEPT ![e] = [@ EXCEPT ![t] = sent[e][t] + 1]]
        /\ courier' = [courier EXCEPT ![c] =
             [pc |-> IF courier[c].left = {t} THEN "mark" ELSE "send",
              batch |-> courier[c].batch, left |-> courier[c].left \ {t}]]
        /\ UNCHANGED <<requested, processed, tokens, misses, steady>>
  BY DEF Send
<1>. DEFINE y == [pc |-> IF courier[c].left = {t} THEN "mark" ELSE "send",
                  batch |-> courier[c].batch, left |-> courier[c].left \ {t}]
<1>3. courier[c].batch \subseteq Deliveries /\ courier[c].batch \subseteq requested
      /\ courier[c].left \subseteq Targets
  BY CourierTypes DEF DeliverInv, DeliverTypeOK
<1>4. courier' = [courier EXCEPT ![c] = y]
  BY <1>1
<1>5. /\ y \in CouriersInFlight /\ y.batch = courier[c].batch
      /\ y.left = courier[c].left \ {t} /\ y.pc \in {"send", "mark"}
      /\ y.pc = "mark" => y.left = {}
  BY <1>3 DEF CouriersInFlight
<1>. HIDE DEF y
<1>6. e \in Deliveries /\ t \in Targets
  BY <1>3
<1>7. /\ sent' \in [Deliveries -> [Targets -> Nat]]
      /\ \A f \in Deliveries, u \in Targets :
           sent'[f][u] = IF f = e /\ u = t THEN sent[f][u] + 1 ELSE sent[f][u]
  BY <1>1, <1>6, OneMore DEF DeliverInv
<1>8. \A f \in Deliveries, u \in Targets : sent[f][u] \in Nat
  BY DEF DeliverInv, DeliverTypeOK
<1>9. \A d \in Couriers : courier'[d] = IF d = c THEN y ELSE courier[d]
  BY <1>4 DEF DeliverInv, DeliverTypeOK
<1>10. First(courier[c], e) /\ First(y, e)
       /\ \A f : First(y, f) <=> First(courier[c], f)
  BY <1>1, <1>5 DEF First, IsFirst
<1>11. ASSUME NEW f \in Deliveries, NEW u \in Targets PROVE Counted(f, u)'
  <2>1. Past(courier[c], f, u) => Past(y, f, u)
    BY <1>1, <1>5, <1>10 DEF Past
  <2>2. Ahead(y, f, u) => Ahead(courier[c], f, u)
    BY <1>5, <2>1 DEF Ahead
  <2>3. f = e /\ u = t => Ahead(courier[c], f, u) /\ Past(y, f, u)
    BY <1>1, <1>5, <1>10 DEF Past, Ahead
  <2>4. sent'[f][u] \in Nat /\ sent'[f][u] = IF f = e /\ u = t THEN sent[f][u] + 1 ELSE sent[f][u]
    BY <1>7
  <2>5. sent'[f][u] = sent[f][u] \/ sent'[f][u] = sent[f][u] + 1
    BY <2>4
  <2>6. sent'[f][u] = sent[f][u] + 1 => f = e /\ u = t
    BY <1>8, <2>4
  <2>7. sent'[f][u] = sent[f][u] + 1 =>
          /\ Ahead(courier[c], f, u) /\ processed' = processed
          /\ f \notin Hopeless /\ Past(y, f, u)
    BY <1>1, <2>3, <2>6
  <2>8. DeliverTypeOK /\ Counted(f, u) /\ misses' = misses /\ processed \subseteq processed'
    BY <1>1 DEF DeliverInv
  <2>. QED
    BY <1>9, <2>1, <2>2, <2>4, <2>5, <2>7, <2>8, CountedKeeps
<1>12. \A f \in Deliveries : First(y, f) =>
         \A u \in Due(f) : u \in y.left \/ sent'[f][u] >= 1
  <2>. SUFFICES ASSUME NEW f \in Deliveries, First(y, f), NEW u \in Due(f)
                PROVE  u \in y.left \/ sent'[f][u] >= 1
    OBVIOUS
  <2>1. u \in Targets
    BY DEF Due, Targets, DeliverInv, DeliverTypeOK
  <2>2. f = e
    <3>1. f <= e /\ e <= f
      BY <1>3, <1>5, <1>10 DEF First
    <3>2. e \in Nat /\ f \in Nat
      BY <1>6, DeliveryAssumption
    <3>. QED
      BY <3>1, <3>2
  <2>3. u \in courier[c].left \/ sent[f][u] >= 1
    BY <1>1, <1>10 DEF DeliverInv, Sending
  <2>. QED
    BY <1>5, <1>7, <1>8, <2>1, <2>2, <2>3
<1>13. /\ misses' \in 0..MaxMisses
       /\ \A f \in Deliveries, u \in Targets : sent'[f][u] >= sent[f][u]
       /\ processed' = processed /\ processed \subseteq requested
  BY <1>1, <1>7, <1>8 DEF DeliverInv, DeliverTypeOK
<1>. QED
  BY <1>1, <1>3, <1>4, <1>5, <1>7, <1>11, <1>12, <1>13, CourierKeeps

\* A run that is done with a request, for which it may have reached the target
\* t of its own in a failure: the counts of the others do not change.
LEMMA NextRunKeeps ==
  ASSUME DeliverInv, NEW c \in Couriers, NEW e \in courier[c].batch, IsFirst(c, e),
         NextDelivery(c, e),
         UNCHANGED <<requested, tokens, steady>>,
         misses' = misses \/ misses' = misses + 1,
         misses' \in 0..MaxMisses,
         processed' \in {processed, processed \cup {e}},
         processed' # processed => \A t \in Due(e) : sent[e][t] >= 1,
         misses' = misses => e \in processed' \/ e \in Hopeless,
         \/ sent' = sent
         \/ /\ misses' = misses + 1 /\ processed' = processed /\ courier[c].pc = "send"
            /\ \E t \in courier[c].left :
                 sent' = [sent EXCEPT ![e] = [@ EXCEPT ![t] = sent[e][t] + 1]]
  PROVE  DeliverInv'
<1>1. PICK y \in CouriersInFlight :
           /\ courier' = [courier EXCEPT ![c] = y]
           /\ y.pc \in {"idle", "take"} /\ y.batch = courier[c].batch \ {e}
           /\ \A f \in Deliveries, t \in Targets :
                /\ ~Past(y, f, t)
                /\ Ahead(y, f, t) => Ahead(courier[c], f, t) /\ f # e
                /\ Past(courier[c], f, t) => f = e
  BY NextRun DEF DeliverInv
<1>2. courier[c].batch \subseteq Deliveries /\ courier[c].batch \subseteq requested
      /\ courier[c].left \subseteq Targets
  BY CourierTypes DEF DeliverInv, DeliverTypeOK
<1>3. e \in Deliveries /\ e \in requested
  BY <1>2
<1>4. \A f \in Deliveries, u \in Targets : sent[f][u] \in Nat
  BY DEF DeliverInv, DeliverTypeOK
<1>5. /\ sent' \in [Deliveries -> [Targets -> Nat]]
      /\ \A f \in Deliveries, u \in Targets :
           \/ sent'[f][u] = sent[f][u]
           \/ /\ sent'[f][u] = sent[f][u] + 1 /\ Ahead(courier[c], f, u)
              /\ misses' = misses + 1 /\ processed' = processed
  <2>1. CASE sent' = sent
    BY <2>1 DEF DeliverInv, DeliverTypeOK
  <2>2. CASE sent' # sent
    <3>1. PICK t \in courier[c].left :
            sent' = [sent EXCEPT ![e] = [@ EXCEPT ![t] = sent[e][t] + 1]]
      BY <2>2
    <3>2. /\ sent' \in [Deliveries -> [Targets -> Nat]]
          /\ \A f \in Deliveries, u \in Targets :
               sent'[f][u] = IF f = e /\ u = t THEN sent[f][u] + 1 ELSE sent[f][u]
      <4>1. DeliverTypeOK /\ e \in Deliveries /\ t \in Targets
        BY <1>2, <1>3 DEF DeliverInv
      <4>. QED
        BY ONLY <3>1, <4>1, OneMore
    <3>3. Ahead(courier[c], e, t)
      BY DEF Ahead, Past
    <3>. QED
      BY <2>2, <3>2, <3>3
  <2>. QED
    BY <2>1, <2>2
<1>6. \A d \in Couriers : courier'[d] = IF d = c THEN y ELSE courier[d]
  BY <1>1 DEF DeliverInv, DeliverTypeOK
<1>7. ASSUME NEW f \in Deliveries, NEW u \in Targets PROVE Counted(f, u)'
  <2>1. sent'[f][u] \in Nat /\ sent[f][u] \in Nat
    BY <1>4, <1>5
  <2>2. \/ sent'[f][u] = sent[f][u]
        \/ /\ sent'[f][u] = sent[f][u] + 1 /\ Ahead(courier[c], f, u)
           /\ misses' = misses + 1 /\ processed' = processed
    BY <1>5
  <2>3. sent'[f][u] = sent[f][u] + 1 =>
          Ahead(courier[c], f, u) /\ misses' = misses + 1 /\ processed' = processed
    BY <2>1, <2>2
  <2>4. f \notin Hopeless /\ f \notin processed' /\ Past(courier[c], f, u) =>
          misses' = misses + 1
    BY <1>1
  <2>5. Ahead(y, f, u) => Ahead(courier[c], f, u)
    BY <1>1
  <2>6. processed \subseteq processed' /\ Counted(f, u) /\ DeliverTypeOK
        /\ (sent'[f][u] = sent[f][u] \/ sent'[f][u] = sent[f][u] + 1)
    BY <2>2 DEF DeliverInv
  <2>. QED
    BY <1>6, <2>1, <2>3, <2>4, <2>5, <2>6, CountedKeeps
<1>8. /\ \A f \in Deliveries, u \in Targets : sent'[f][u] >= sent[f][u]
      /\ processed \subseteq processed' /\ processed' \subseteq requested
      /\ \A f \in processed' \ processed : \A t \in Due(f) : sent'[f][t] >= 1
  <2>1. \A f \in Deliveries, u \in Targets : sent'[f][u] >= sent[f][u]
    BY <1>4, <1>5
  <2>2. processed \subseteq requested
    BY DEF DeliverInv, DeliverTypeOK
  <2>3. processed' # processed => sent' = sent
    OBVIOUS
  <2>. QED
    BY <1>3, <2>1, <2>2, <2>3
<1>9. y.batch \subseteq requested /\ y.pc \notin {"send", "mark"}
  BY <1>1, <1>2
<1>. QED
  BY <1>1, <1>5, <1>7, <1>8, <1>9, CourierKeeps

\* Requests are added, at any time, whatever they are.
LEMMA RequestsKeep ==
  ASSUME DeliverInv, NEW E, RequestDeliveries(E)
  PROVE  DeliverInv'
BY DEF RequestDeliveries, DeliverInv, DeliverTypeOK, Sending, Due, Counted, PastRuns, AheadRuns,
   Past, Ahead, First

\* What has to be reached only becomes less when a token goes.
LEMMA TokensKeep ==
  ASSUME DeliverInv, NEW d \in Fickle, RegisterToken(d) \/ RevokeToken(d)
  PROVE  DeliverInv'
<1>1. /\ UNCHANGED <<requested, processed, courier, sent, misses>>
      /\ steady' \subseteq steady /\ steady' \subseteq tokens' /\ tokens' \subseteq Devices
  BY DeliveryAssumption DEF RegisterToken, RevokeToken, DeliverInv, DeliverTypeOK
<1>2. \A e \in Deliveries : Due(e)' \subseteq Due(e)
  BY <1>1 DEF Due
<1>3. DeliverTypeOK'
  BY <1>1 DEF DeliverInv, DeliverTypeOK
<1>4. Sending'
  BY <1>1, <1>2 DEF DeliverInv, Sending, First
<1>5. \A e \in processed' : \A t \in Due(e)' : sent'[e][t] >= 1
  BY <1>1, <1>2, <1>3 DEF DeliverInv, DeliverTypeOK
<1>6. \A e \in Deliveries, t \in Targets : Counted(e, t)'
  BY <1>1 DEF DeliverInv, Counted, PastRuns, AheadRuns, Past, Ahead, First
<1>. QED
  BY <1>1, <1>3, <1>4, <1>5, <1>6 DEF DeliverInv

LEMMA CourierStep ==
  ASSUME DeliverInv, NEW c \in Couriers, Deliver(c) \/ Miss(c) \/ CourierDies(c)
  PROVE  DeliverInv'
<1>0. misses \in Nat /\ misses \in 0..MaxMisses /\ MaxMisses \in Nat
  BY DeliveryAssumption DEF DeliverInv, DeliverTypeOK
<1>1. ASSUME Miss(c) PROVE DeliverInv'
  <2>1. PICK e \in courier[c].batch :
          /\ IsFirst(c, e) /\ misses < MaxMisses /\ misses' = misses + 1
          /\ \/ sent' = sent
             \/ \E t \in courier[c].left :
                  courier[c].pc = "send"
                  /\ sent' = [sent EXCEPT ![e] = [@ EXCEPT ![t] = sent[e][t] + 1]]
          /\ NextDelivery(c, e)
          /\ UNCHANGED <<requested, processed, tokens, steady>>
    BY <1>1 DEF Miss
  <2>2. misses' \in 0..MaxMisses /\ misses' # misses
    BY <1>0, <2>1
  <2>. QED
    BY <2>1, <2>2, NextRunKeeps
<1>2. ASSUME Refuse(c) PROVE DeliverInv'
  <2>1. PICK e \in courier[c].batch :
          /\ IsFirst(c, e) /\ e \in Hopeless /\ NextDelivery(c, e)
          /\ UNCHANGED <<requested, processed, tokens, sent, misses, steady>>
    BY <1>2 DEF Refuse
  <2>. QED
    BY <1>0, <2>1, NextRunKeeps
<1>3. ASSUME MarkDelivered(c) PROVE DeliverInv'
  <2>1. PICK e \in courier[c].batch :
          /\ courier[c].pc = "mark" /\ IsFirst(c, e) /\ NextDelivery(c, e)
          /\ processed' = processed \cup {e}
          /\ UNCHANGED <<requested, tokens, sent, misses, steady>>
    BY <1>3 DEF MarkDelivered
  <2>2. e \in Deliveries /\ First(courier[c], e)
    BY <2>1, CourierTypes DEF DeliverInv, DeliverTypeOK, First, IsFirst
  <2>3. \A t \in Due(e) : sent[e][t] >= 1
    BY <2>1, <2>2 DEF DeliverInv, Sending
  <2>. QED
    BY <1>0, <2>1, <2>3, NextRunKeeps
<1>4. ASSUME CourierDies(c) PROVE DeliverInv'
  <2>1. /\ misses' = misses + 1 /\ misses' \in 0..MaxMisses
        /\ courier' = [courier EXCEPT ![c] = NoBatch]
        /\ UNCHANGED <<requested, processed, tokens, sent, steady>>
    BY <1>0, <1>4 DEF CourierDies
  <2>2. NoBatch \in CouriersInFlight /\ NoBatch.batch = {} /\ NoBatch.pc = "idle"
    BY DEF NoBatch, CouriersInFlight
  <2>. HIDE DEF NoBatch
  <2>3. \A d \in Couriers : courier'[d] = IF d = c THEN NoBatch ELSE courier[d]
    BY <2>1 DEF DeliverInv, DeliverTypeOK
  <2>4. ASSUME NEW f \in Deliveries, NEW u \in Targets PROVE Counted(f, u)'
    <3>1. ~Ahead(NoBatch, f, u)
      BY <2>2 DEF Ahead
    <3>2. sent'[f][u] \in Nat /\ sent'[f][u] = sent[f][u] /\ sent'[f][u] # sent[f][u] + 1
      BY <2>1 DEF DeliverInv, DeliverTypeOK
    <3>3. DeliverTypeOK /\ Counted(f, u) /\ processed \subseteq processed'
      BY <2>1 DEF DeliverInv
    <3>. QED
      BY <2>1, <2>3, <3>1, <3>2, <3>3, CountedKeeps
  <2>5. /\ sent' \in [Deliveries -> [Targets -> Nat]]
        /\ \A f \in Deliveries, u \in Targets : sent'[f][u] >= sent[f][u]
        /\ processed' = processed /\ processed \subseteq requested
    BY <2>1 DEF DeliverInv, DeliverTypeOK
  <2>. QED
    BY <2>1, <2>2, <2>4, <2>5, CourierKeeps
<1>. QED
  BY <1>1, <1>2, <1>3, <1>4, BeginBatchKeeps, TakeUpKeeps, SendKeeps DEF Deliver

LEMMA DeliverStutters == ASSUME DeliverInv, UNCHANGED deliverVars PROVE DeliverInv'
BY DEF deliverVars, DeliverInv, DeliverTypeOK, Sending, Due, Counted, PastRuns, AheadRuns,
   Past, Ahead, First

LEMMA DeliverStepKeeps == DeliverInv /\ [DeliverNext]_deliverVars => DeliverInv'
BY RequestsKeep, TokensKeep, CourierStep, DeliverStutters DEF DeliverNext

LEMMA DeliverInitial == DeliverInit => DeliverInv
<1>. SUFFICES ASSUME DeliverInit PROVE DeliverInv
  OBVIOUS
<1>1. tokens \subseteq Devices /\ steady = tokens
  BY DEF DeliverInit
<1>2. NoBatch \in CouriersInFlight /\ NoBatch.batch = {} /\ NoBatch.pc = "idle"
  BY DEF NoBatch, CouriersInFlight
<1>. HIDE DEF NoBatch
<1>3. DeliverTypeOK
  BY <1>1, <1>2, DeliveryAssumption DEF DeliverInit, DeliverTypeOK
<1>4. ASSUME NEW e \in Deliveries, NEW t \in Targets PROVE Counted(e, t)
  <2>1. PastRuns(e, t) = {}
    BY <1>2 DEF DeliverInit, PastRuns, Past
  <2>2. sent[e][t] = 0 /\ misses = 0 /\ e \notin processed
    BY DEF DeliverInit
  <2>. QED
    BY <2>1, <2>2, FS_EmptySet DEF Counted
<1>. QED
  BY <1>1, <1>2, <1>3, <1>4 DEF DeliverInit, DeliverInv, Sending

\* What the two properties say is part of the invariant.
LEMMA DeliverImplies == DeliverInv => DeliverTypeOK /\ ProcessedIsSent /\ SentBounded
<1>. SUFFICES ASSUME DeliverInv PROVE DeliverTypeOK /\ ProcessedIsSent /\ SentBounded
  OBVIOUS
<1>1. ProcessedIsSent
  BY DEF DeliverInv, ProcessedIsSent, Due
<1>2. ASSUME NEW e \in Deliveries, NEW t \in Targets
      PROVE  sent[e][t] <= Cardinality(Couriers) + misses
  <2>. DEFINE P == Cardinality(PastRuns(e, t))
              A == Cardinality(AheadRuns(e, t))
              C == Cardinality(Couriers)
  <2>1. P \in Nat /\ A \in Nat /\ C \in Nat /\ P + A <= C
    BY PastAndAhead
  <2>2. sent[e][t] \in Nat /\ misses \in Nat
    BY DeliveryAssumption DEF DeliverInv, DeliverTypeOK
  <2>3. \/ sent[e][t] <= misses
        \/ sent[e][t] + A <= C + misses
        \/ sent[e][t] <= P + misses
    BY DEF DeliverInv, Counted
  <2>. HIDE DEF P, A, C
  <2>4. sent[e][t] <= C + misses
    BY <2>1, <2>2, <2>3
  <2>. QED
    BY <2>4 DEF C
<1>. QED
  BY <1>1, <1>2 DEF SentBounded, DeliverInv

\* The requests, tokens and runs of NotificationDelivery have their types.
THEOREM DeliverTypeCorrect == DeliverSpec => []DeliverTypeOK
<1>. QED
  BY DeliverInitial, DeliverStepKeeps, DeliverImplies, PTL DEF DeliverSpec

\* A request is marked only after it reached what it had to reach
\* (dispatchPendingNotificationDeliveries).
THEOREM DeliveryCorrect == DeliverSpec => []ProcessedIsSent
<1>. QED
  BY DeliverInitial, DeliverStepKeeps, DeliverImplies, PTL DEF DeliverSpec

\* Nobody gets a request more often than there are runs and failures
\* (listPendingNotificationDeliveryEvents, markOutboxEventProcessed).
THEOREM DeliveryBounded == DeliverSpec => []SentBounded
<1>. QED
  BY DeliverInitial, DeliverStepKeeps, DeliverImplies, PTL DEF DeliverSpec

-----------------------------------------------------------------------------
(* The two dispatchers together.                                           *)

PipeInv == RemindInv /\ DeliverInv

LEMMA PipeStepKeeps == PipeInv /\ [PipeNext]_pipeVars => PipeInv'
<1>. SUFFICES ASSUME PipeInv, [PipeNext]_pipeVars PROVE PipeInv'
  OBVIOUS
<1>1. ASSUME NEW r \in Rounds, ProduceRequests(r) PROVE PipeInv'
  BY <1>1, ProduceReminderKeeps, RequestsKeep DEF ProduceRequests, PipeInv
<1>2. ASSUME RemindStep PROVE PipeInv'
  <2>1. RemindNext \/ UNCHANGED remindVars
    BY <1>2 DEF RemindStep, RemindNext, Round
  <2>. QED
    BY <1>2, <2>1, RemindStepKeeps, DeliverStutters DEF RemindStep, PipeInv
<1>3. ASSUME DeliverStep PROVE PipeInv'
  <2>1. DeliverNext \/ UNCHANGED deliverVars
    BY <1>3 DEF DeliverStep, DeliverNext
  <2>. QED
    BY <1>3, <2>1, RemindStepKeeps, DeliverStepKeeps DEF DeliverStep, PipeInv
<1>4. CASE UNCHANGED pipeVars
  BY <1>4, RemindStepKeeps, DeliverStutters DEF pipeVars, PipeInv
<1>. QED
  BY <1>1, <1>2, <1>3, <1>4 DEF PipeNext

LEMMA PipeInvariant == PipeSpec => []PipeInv
<1>1. PipeInit => PipeInv
  BY RemindInitial, DeliverInitial DEF PipeInit, PipeInv
<1>. QED
  BY <1>1, PipeStepKeeps, PTL DEF PipeSpec

\* Composed, each of the two keeps what it promises, however the runs of the
\* one and of the other interleave: the rows of both dispatchers have their
\* types.
THEOREM PipeTypeCorrect == PipeSpec => [](RemindTypeOK /\ DeliverTypeOK)
<1>1. PipeInv => RemindTypeOK /\ DeliverTypeOK
  BY DEF PipeInv, RemindInv, DeliverInv
<1>. QED
  BY <1>1, PipeInvariant, PTL

\* What waits to be sent is of the event as it is now, however often it is
\* saved or deleted while runs send and mark its reminders
\* (syncDefaultCourseCalendarEventReminders).
THEOREM PipeRemindersCurrent == PipeSpec => []PendingIsCurrent
<1>1. PipeInv => PendingIsCurrent
  BY DEF PipeInv, RemindInv
<1>. QED
  BY <1>1, PipeInvariant, PTL

\* A reminder is marked as sent only when the members have been notified, and
\* so the requests of its notifications saved
\* (dispatchDueCourseCalendarEventReminders).
THEOREM PipeSentRemindersTold == PipeSpec => []SentIsTold
<1>1. PipeInv => SentIsTold
  BY DEF PipeInv, RemindInv
<1>. QED
  BY <1>1, PipeInvariant, PTL

\* A request is marked only after every device registered all along got it
\* (dispatchPendingNotificationDeliveries).
THEOREM PipeDeliveryCorrect == PipeSpec => []ProcessedIsSent
<1>1. PipeInv => ProcessedIsSent
  BY DeliverImplies DEF PipeInv
<1>. QED
  BY <1>1, PipeInvariant, PTL

\* Nobody gets a request more often than there are runs and failures
\* (listPendingNotificationDeliveryEvents, markOutboxEventProcessed).
THEOREM PipeDeliveryBounded == PipeSpec => []SentBounded
<1>1. PipeInv => SentBounded
  BY DeliverImplies DEF PipeInv
<1>. QED
  BY <1>1, PipeInvariant, PTL

\* What the pipeline does to the reminders is what CalendarReminders does: it
\* implements it, but for its fairness.
THEOREM PipeImplementsReminders == PipeSpec => RemindInit /\ [][RemindNext]_remindVars
<1>1. [PipeNext]_pipeVars => [RemindNext]_remindVars
  BY DEF PipeNext, pipeVars, ProduceRequests, RemindStep, DeliverStep, RemindNext, Round
<1>2. PipeInit => RemindInit
  BY DEF PipeInit
<1>. QED
  BY <1>1, <1>2, PTL DEF PipeSpec

-----------------------------------------------------------------------------
(* The digests.                                                            *)

\* The notices of a run's first recipient; Digest(r) is that of digester[r].
TurnOf(x) == {n \in x.listed : \A m \in x.listed : RecipientOf[n] <= RecipientOf[m]}

\* A run that has mailed a notice and not yet recorded it, and one that may
\* still mail it.
Mailed(x, n) == n \in TurnOf(x) /\ x.pc = "save"
ToMail(x, n) == n \in x.listed /\ ~Mailed(x, n)

MailedRuns(n) == {r \in Digesters : Mailed(digester[r], n)}
ToMailRuns(n) == {r \in Digesters : ToMail(digester[r], n)}

\* Until a notice is recorded its emails are those of the runs that hold it and
\* of failed ones; once it is, no run lists it again.
NoticeCounted(n) ==
  IF n \in recorded
  THEN mailed[n] + Cardinality(ToMailRuns(n)) <= Cardinality(Digesters) + failures
  ELSE mailed[n] <= Cardinality(MailedRuns(n)) + failures

DigestInv ==
  /\ DigestTypeOK
  /\ \A r \in Digesters : digester[r].pc = "save" =>
       \A n \in TurnOf(digester[r]) : mailed[n] >= 1
  /\ \A n \in recorded : mailed[n] >= 1
  /\ \A n \in Notices : NoticeCounted(n)

LEMMA DigesterTypes ==
  ASSUME NEW x \in DigestersInFlight
  PROVE  /\ x.pc \in {"idle", "send", "save"} /\ x.listed \subseteq Notices
         /\ TurnOf(x) \subseteq x.listed
         /\ LET y == [x EXCEPT !.pc = "save"]
            IN  y \in DigestersInFlight /\ y.pc = "save" /\ y.listed = x.listed
BY DEF DigestersInFlight, TurnOf

LEMMA MailedAndToMail ==
  ASSUME NEW n \in Notices
  PROVE  /\ Cardinality(MailedRuns(n)) \in Nat /\ Cardinality(ToMailRuns(n)) \in Nat
         /\ Cardinality(Digesters) \in Nat
         /\ Cardinality(MailedRuns(n)) + Cardinality(ToMailRuns(n)) <= Cardinality(Digesters)
<1>1. MailedRuns(n) \subseteq Digesters /\ ToMailRuns(n) \subseteq Digesters
      /\ MailedRuns(n) \cap ToMailRuns(n) = {}
  BY DEF MailedRuns, ToMailRuns, ToMail
<1>. QED
  BY <1>1, DisjointCount, DigestAssumption

\* How a step of the run r, which is y after it, may change what there is to
\* count for one notice.
LEMMA NoticeCountedKeeps ==
  ASSUME DigestTypeOK, NEW r \in Digesters, NEW y,
         \A q \in Digesters : digester'[q] = IF q = r THEN y ELSE digester[q],
         NEW n \in Notices,
         NoticeCounted(n),
         mailed'[n] \in Nat,
         failures' = failures \/ failures' = failures + 1,
         mailed'[n] = mailed[n] \/ mailed'[n] = mailed[n] + 1,
         mailed'[n] = mailed[n] + 1 =>
           /\ ToMail(digester[r], n)
           /\ recorded' = recorded
           /\ failures' = failures + 1 \/ Mailed(y, n),
         n \notin recorded' /\ Mailed(digester[r], n) => Mailed(y, n) \/ failures' = failures + 1,
         recorded \subseteq recorded',
         n \in recorded' /\ ToMail(y, n) => ToMail(digester[r], n)
  PROVE  NoticeCounted(n)'
<1>. DEFINE P == Cardinality(MailedRuns(n))
            A == Cardinality(ToMailRuns(n))
            C == Cardinality(Digesters)
<1>1. mailed[n] \in Nat /\ failures \in Nat
  BY DigestAssumption DEF DigestTypeOK
<1>2. P \in Nat /\ A \in Nat /\ C \in Nat /\ P + A <= C
  BY MailedAndToMail
<1>3. /\ P' \in Nat /\ A' \in Nat
      /\ Mailed(y, n) /\ ~Mailed(digester[r], n) => P' = P + 1
      /\ Mailed(y, n) /\ Mailed(digester[r], n) => P' = P
      /\ ~Mailed(y, n) /\ Mailed(digester[r], n) => P' = P - 1
      /\ ~Mailed(y, n) /\ ~Mailed(digester[r], n) => P' = P
      /\ ToMail(y, n) /\ ToMail(digester[r], n) => A' = A
      /\ ~ToMail(y, n) /\ ToMail(digester[r], n) => A' = A - 1
      /\ ~ToMail(y, n) /\ ~ToMail(digester[r], n) => A' = A
  <2>1. MailedRuns(n) \in SUBSET Digesters /\ ToMailRuns(n) \in SUBSET Digesters
    BY DEF MailedRuns, ToMailRuns
  <2>2. /\ MailedRuns(n)' = IF Mailed(y, n) THEN MailedRuns(n) \cup {r} ELSE MailedRuns(n) \ {r}
        /\ ToMailRuns(n)' = IF ToMail(y, n) THEN ToMailRuns(n) \cup {r} ELSE ToMailRuns(n) \ {r}
        /\ r \in MailedRuns(n) <=> Mailed(digester[r], n)
        /\ r \in ToMailRuns(n) <=> ToMail(digester[r], n)
    <3>1. MailedRuns(n)' = {q \in Digesters : Mailed(digester'[q], n)}
      BY DEF MailedRuns, Mailed, TurnOf
    <3>2. ToMailRuns(n)' = {q \in Digesters : ToMail(digester'[q], n)}
      BY DEF ToMailRuns, ToMail, Mailed, TurnOf
    <3>3. digester'[r] = y /\ \A q \in Digesters : q # r => digester'[q] = digester[q]
      OBVIOUS
    <3>. QED
      BY <3>1, <3>2, <3>3 DEF MailedRuns, ToMailRuns
  <2>3. P' = IF Mailed(y, n) THEN Cardinality(MailedRuns(n) \cup {r})
                             ELSE Cardinality(MailedRuns(n) \ {r})
    BY <2>2
  <2>4. A' = IF ToMail(y, n) THEN Cardinality(ToMailRuns(n) \cup {r})
                             ELSE Cardinality(ToMailRuns(n) \ {r})
    BY <2>2
  <2>5. IsFiniteSet(MailedRuns(n)) /\ IsFiniteSet(ToMailRuns(n))
    BY <2>1, DigestAssumption, FS_Subset
  <2>6. /\ Cardinality(MailedRuns(n) \cup {r}) \in Nat /\ Cardinality(MailedRuns(n) \ {r}) \in Nat
        /\ Cardinality(MailedRuns(n) \ {r}) = IF r \in MailedRuns(n) THEN P - 1 ELSE P
        /\ Cardinality(MailedRuns(n) \cup {r}) = IF r \in MailedRuns(n) THEN P ELSE P + 1
    BY ONLY <2>5, RunCount
  <2>7. /\ Cardinality(ToMailRuns(n) \cup {r}) \in Nat /\ Cardinality(ToMailRuns(n) \ {r}) \in Nat
        /\ Cardinality(ToMailRuns(n) \ {r}) = IF r \in ToMailRuns(n) THEN A - 1 ELSE A
        /\ Cardinality(ToMailRuns(n) \cup {r}) = IF r \in ToMailRuns(n) THEN A ELSE A + 1
    BY ONLY <2>5, RunCount
  <2>. HIDE DEF P, A
  <2>. QED
    BY ONLY <2>2, <2>3, <2>4, <2>6, <2>7
<1>4. ToMail(digester[r], n) => ~Mailed(digester[r], n)
  BY DEF ToMail
<1>5. Mailed(y, n) => ~ToMail(y, n)
  BY DEF ToMail
<1>6. NoticeCounted(n) <=>
        IF n \in recorded THEN mailed[n] + A <= C + failures ELSE mailed[n] <= P + failures
  BY DEF NoticeCounted
<1>7. NoticeCounted(n)' <=>
        IF n \in recorded' THEN mailed'[n] + A' <= C + failures' ELSE mailed'[n] <= P' + failures'
  BY DEF NoticeCounted
<1>. HIDE DEF P, A, C
<1>9. CASE n \notin recorded'
  BY <1>1, <1>2, <1>3, <1>4, <1>5, <1>6, <1>7, <1>9
<1>10. CASE n \in recorded
  BY <1>1, <1>2, <1>3, <1>4, <1>5, <1>6, <1>7, <1>10
<1>11. CASE n \in recorded' /\ n \notin recorded
  BY <1>1, <1>2, <1>3, <1>4, <1>5, <1>6, <1>7, <1>11
<1>. QED
  BY <1>9, <1>10, <1>11

\* A step of one run, which is y after it.
LEMMA DigesterKeeps ==
  ASSUME DigestInv, NEW r \in Digesters, NEW y \in DigestersInFlight,
         digester' = [digester EXCEPT ![r] = y],
         UNCHANGED <<created, wanted>>,
         recorded \subseteq recorded', recorded' \subseteq Notices,
         mailed' \in [Notices -> Nat],
         failures' \in 0..MaxFailures,
         failures' = failures \/ failures' = failures + 1,
         \A n \in Notices :
           \/ mailed'[n] = mailed[n]
           \/ /\ mailed'[n] = mailed[n] + 1
              /\ ToMail(digester[r], n)
              /\ recorded' = recorded
              /\ failures' = failures + 1 \/ Mailed(y, n),
         \A n \in Notices \ recorded' :
           Mailed(digester[r], n) => Mailed(y, n) \/ failures' = failures + 1,
         \A n \in recorded' : ToMail(y, n) => ToMail(digester[r], n),
         y.pc = "save" => \A n \in TurnOf(y) : mailed'[n] >= 1,
         \A n \in recorded' \ recorded : mailed[n] >= 1
  PROVE  DigestInv'
<1>1. \A q \in Digesters : digester'[q] = IF q = r THEN y ELSE digester[q]
  BY DEF DigestInv, DigestTypeOK
<1>2. DigestTypeOK'
  BY DEF DigestInv, DigestTypeOK
<1>3. \A n \in Notices : mailed[n] \in Nat /\ mailed'[n] \in Nat /\ mailed'[n] >= mailed[n]
  BY DEF DigestInv, DigestTypeOK
<1>4. ASSUME NEW q \in Digesters, digester'[q].pc = "save", NEW n \in TurnOf(digester'[q])
      PROVE  mailed'[n] >= 1
  <2>1. CASE q = r
    BY <1>1, <1>4, <2>1
  <2>2. CASE q # r
    <3>1. digester'[q] = digester[q] /\ digester[q] \in DigestersInFlight
      BY <1>1, <2>2 DEF DigestInv, DigestTypeOK
    <3>2. mailed[n] >= 1
      BY <1>4, <3>1 DEF DigestInv
    <3>3. n \in Notices
      BY <1>4, <3>1, DigesterTypes
    <3>. QED
      BY <1>3, <3>2, <3>3
  <2>. QED
    BY <2>1, <2>2
<1>5. \A n \in recorded' : mailed'[n] >= 1
  <2>. SUFFICES ASSUME NEW n \in recorded' PROVE mailed'[n] >= 1
    OBVIOUS
  <2>1. mailed[n] >= 1
    BY DEF DigestInv
  <2>. QED
    BY <1>3, <2>1
<1>6. ASSUME NEW n \in Notices PROVE NoticeCounted(n)'
  <2>1. mailed'[n] \in Nat /\ mailed[n] \in Nat
    BY <1>3
  <2>2. mailed'[n] = mailed[n] \/ mailed'[n] = mailed[n] + 1
    OBVIOUS
  <2>3. mailed'[n] = mailed[n] + 1 =>
           /\ ToMail(digester[r], n)
           /\ recorded' = recorded
           /\ failures' = failures + 1 \/ Mailed(y, n)
    BY <2>1
  <2>4. DigestTypeOK /\ NoticeCounted(n)
    BY DEF DigestInv
  <2>5. n \notin recorded' /\ Mailed(digester[r], n) => Mailed(y, n) \/ failures' = failures + 1
    OBVIOUS
  <2>6. n \in recorded' /\ ToMail(y, n) => ToMail(digester[r], n)
    OBVIOUS
  <2>. QED
    BY <1>1, <2>1, <2>2, <2>3, <2>4, <2>5, <2>6, NoticeCountedKeeps
<1>7. \A q \in Digesters : digester'[q].pc = "save" =>
        \A n \in TurnOf(digester'[q]) : mailed'[n] >= 1
  BY <1>4
<1>8. \A x : TurnOf(x)' = TurnOf(x)
  BY DEF TurnOf
<1>. QED
  BY <1>2, <1>5, <1>6, <1>7 DEF DigestInv, TurnOf

\* The run after its present recipient.
LEMMA NextTypes ==
  ASSUME DigestTypeOK, NEW r \in Digesters, NextRecipient(r)
  PROVE  \E y \in DigestersInFlight :
           /\ digester' = [digester EXCEPT ![r] = y]
           /\ y.pc # "save" /\ y.listed = digester[r].listed \ TurnOf(digester[r])
           /\ \A n : ~Mailed(y, n) /\ (ToMail(y, n) => ToMail(digester[r], n))
<1>. DEFINE y == IF digester[r].listed = Digest(r) THEN NoDigest
                 ELSE [pc |-> "send", listed |-> digester[r].listed \ Digest(r)]
<1>1. Digest(r) = TurnOf(digester[r]) /\ TurnOf(digester[r]) \subseteq digester[r].listed
      /\ digester[r].listed \subseteq Notices
  BY DigesterTypes DEF Digest, TurnOf, DigestTypeOK
<1>2. /\ y \in DigestersInFlight /\ y.pc # "save"
      /\ y.listed = digester[r].listed \ TurnOf(digester[r])
  BY <1>1 DEF DigestersInFlight, NoDigest
<1>3. digester' = [digester EXCEPT ![r] = y]
  BY DEF NextRecipient
<1>. HIDE DEF y
<1>4. \A n : ~Mailed(y, n) /\ (ToMail(y, n) => ToMail(digester[r], n))
  BY <1>1, <1>2 DEF Mailed, ToMail
<1>. QED
  BY <1>2, <1>3, <1>4

LEMMA BeginDigestKeeps ==
  ASSUME DigestInv, NEW r \in Digesters, BeginDigest(r)
  PROVE  DigestInv'
<1>1. PICK listed \in SUBSET PendingNotices :
        digester' = [digester EXCEPT ![r] = [pc |-> "send", listed |-> listed]]
  BY DEF BeginDigest
<1>. DEFINE y == [pc |-> "send", listed |-> listed]
<1>2. listed \subseteq Notices /\ listed \cap recorded = {}
  BY DEF PendingNotices, IsPending
<1>3. y \in DigestersInFlight /\ y.pc = "send" /\ y.listed = listed
  BY <1>2 DEF DigestersInFlight
<1>4. digester' = [digester EXCEPT ![r] = y] /\ digester[r].pc = "idle"
      /\ UNCHANGED <<created, wanted, recorded, mailed, failures>>
  BY <1>1 DEF BeginDigest
<1>. HIDE DEF y
<1>5. \A n \in Notices : ~Mailed(digester[r], n) /\ (ToMail(y, n) => n \notin recorded)
  BY <1>2, <1>3, <1>4 DEF Mailed, ToMail
<1>6. /\ mailed' \in [Notices -> Nat] /\ failures' \in 0..MaxFailures
      /\ recorded' \subseteq Notices /\ recorded' = recorded /\ failures' = failures
      /\ \A n \in Notices : mailed'[n] = mailed[n]
  BY <1>4 DEF DigestInv, DigestTypeOK
<1>. QED
  BY <1>3, <1>4, <1>5, <1>6, DigesterKeeps

\* The email of one recipient's notices.
LEMMA MailingTypes ==
  ASSUME DigestTypeOK, NEW r \in Digesters, digester[r].pc = "send",
         mailed' = [n \in Notices |-> IF n \in Digest(r) THEN mailed[n] + 1 ELSE mailed[n]]
  PROVE  /\ mailed' \in [Notices -> Nat]
         /\ \A n \in Notices : mailed[n] \in Nat
         /\ \A n \in Notices :
              \/ n \notin TurnOf(digester[r]) /\ mailed'[n] = mailed[n]
              \/ /\ n \in TurnOf(digester[r]) /\ mailed'[n] = mailed[n] + 1
                 /\ ToMail(digester[r], n)
<1>1. Digest(r) = TurnOf(digester[r]) /\ TurnOf(digester[r]) \subseteq digester[r].listed
  BY DigesterTypes DEF Digest, TurnOf, DigestTypeOK
<1>2. \A n \in TurnOf(digester[r]) : ToMail(digester[r], n)
  BY <1>1 DEF ToMail, Mailed
<1>. QED
  BY <1>1, <1>2 DEF DigestTypeOK

LEMMA SendDigestKeeps ==
  ASSUME DigestInv, NEW r \in Digesters, SendDigest(r)
  PROVE  DigestInv'
<1>. DEFINE y == [digester[r] EXCEPT !.pc = "save"]
<1>1. /\ y \in DigestersInFlight /\ y.pc = "save" /\ y.listed = digester[r].listed
      /\ digester[r].listed \subseteq Notices
  BY DigesterTypes DEF DigestInv, DigestTypeOK
<1>2. /\ digester' = [digester EXCEPT ![r] = y] /\ digester[r].pc = "send"
      /\ mailed' = [n \in Notices |-> IF n \in Digest(r) THEN mailed[n] + 1 ELSE mailed[n]]
      /\ UNCHANGED <<created, wanted, recorded, failures>>
  BY DEF SendDigest
<1>. HIDE DEF y
<1>3. /\ mailed' \in [Notices -> Nat]
      /\ \A n \in Notices : mailed[n] \in Nat
      /\ \A n \in Notices :
           \/ n \notin TurnOf(digester[r]) /\ mailed'[n] = mailed[n]
           \/ /\ n \in TurnOf(digester[r]) /\ mailed'[n] = mailed[n] + 1
              /\ ToMail(digester[r], n)
  BY <1>2, MailingTypes DEF DigestInv
<1>4. TurnOf(y) = TurnOf(digester[r]) /\ TurnOf(y) \subseteq Notices
  BY <1>1 DEF TurnOf
<1>5. \A n : Mailed(y, n) <=> n \in TurnOf(digester[r])
  BY <1>1, <1>4 DEF Mailed
<1>6. \A n : ToMail(y, n) => ToMail(digester[r], n)
  BY <1>1, <1>2, <1>5 DEF ToMail, Mailed
<1>7. \A n : ~Mailed(digester[r], n)
  BY <1>2 DEF Mailed
<1>8. \A n \in TurnOf(y) : mailed'[n] >= 1
  BY <1>3, <1>4
<1>9. failures' \in 0..MaxFailures /\ recorded' \subseteq Notices
  BY <1>2 DEF DigestInv, DigestTypeOK
<1>. QED
  BY <1>1, <1>2, <1>3, <1>5, <1>6, <1>7, <1>8, <1>9, DigesterKeeps

LEMMA SaveDigestKeeps ==
  ASSUME DigestInv, NEW r \in Digesters, SaveDigest(r)
  PROVE  DigestInv'
<1>1. PICK y \in DigestersInFlight :
        /\ digester' = [digester EXCEPT ![r] = y]
        /\ y.pc # "save" /\ y.listed = digester[r].listed \ TurnOf(digester[r])
        /\ \A n : ~Mailed(y, n) /\ (ToMail(y, n) => ToMail(digester[r], n))
  BY NextTypes DEF SaveDigest, DigestInv
<1>2. Digest(r) = TurnOf(digester[r]) /\ TurnOf(digester[r]) \subseteq Notices
  BY DigesterTypes DEF Digest, TurnOf, DigestInv, DigestTypeOK
<1>3. /\ digester[r].pc = "save" /\ recorded' = recorded \cup TurnOf(digester[r])
      /\ UNCHANGED <<created, wanted, mailed, failures>>
  BY <1>2 DEF SaveDigest
<1>4. \A n \in TurnOf(digester[r]) : mailed[n] >= 1
  BY <1>3 DEF DigestInv
<1>5. /\ mailed' \in [Notices -> Nat] /\ failures' \in 0..MaxFailures
      /\ recorded \subseteq recorded' /\ recorded' \subseteq Notices
      /\ \A n \in Notices : mailed'[n] = mailed[n]
  BY <1>2, <1>3 DEF DigestInv, DigestTypeOK
<1>6. \A n \in Notices \ recorded' : ~Mailed(digester[r], n)
  BY <1>3 DEF Mailed
<1>. QED
  BY <1>1, <1>3, <1>4, <1>5, <1>6, DigesterKeeps

LEMMA FailDigestKeeps ==
  ASSUME DigestInv, NEW r \in Digesters, FailDigest(r)
  PROVE  DigestInv'
<1>1. PICK y \in DigestersInFlight :
        /\ digester' = [digester EXCEPT ![r] = y]
        /\ y.pc # "save" /\ y.listed = digester[r].listed \ TurnOf(digester[r])
        /\ \A n : ~Mailed(y, n) /\ (ToMail(y, n) => ToMail(digester[r], n))
  BY NextTypes DEF FailDigest, DigestInv
<1>2. failures' = failures + 1 /\ failures' \in 0..MaxFailures
      /\ UNCHANGED <<created, wanted, recorded>>
  BY DigestAssumption DEF FailDigest, DigestInv, DigestTypeOK
<1>3. /\ mailed' \in [Notices -> Nat]
      /\ \A n \in Notices :
           \/ mailed'[n] = mailed[n]
           \/ mailed'[n] = mailed[n] + 1 /\ ToMail(digester[r], n)
  <2>1. CASE mailed' = mailed
    BY <2>1 DEF DigestInv, DigestTypeOK
  <2>2. CASE mailed' # mailed
    BY <2>2, MailingTypes DEF FailDigest, DigestInv
  <2>. QED
    BY <2>1, <2>2
<1>4. recorded' \subseteq Notices
  BY <1>2 DEF DigestInv, DigestTypeOK
<1>. QED
  BY <1>1, <1>2, <1>3, <1>4, DigesterKeeps

LEMMA DigesterDiesKeeps ==
  ASSUME DigestInv, NEW r \in Digesters, DigesterDies(r)
  PROVE  DigestInv'
<1>1. NoDigest \in DigestersInFlight /\ NoDigest.pc = "idle" /\ NoDigest.listed = {}
  BY DEF NoDigest, DigestersInFlight
<1>2. failures' = failures + 1 /\ failures' \in 0..MaxFailures
      /\ digester' = [digester EXCEPT ![r] = NoDigest]
      /\ UNCHANGED <<created, wanted, recorded, mailed>>
  BY DigestAssumption DEF DigesterDies, DigestInv, DigestTypeOK
<1>. HIDE DEF NoDigest
<1>3. \A n : ~ToMail(NoDigest, n)
  BY <1>1 DEF ToMail
<1>4. /\ recorded' \subseteq Notices /\ mailed' \in [Notices -> Nat]
      /\ \A n \in Notices : mailed'[n] = mailed[n]
  BY <1>2 DEF DigestInv, DigestTypeOK
<1>. QED
  BY <1>1, <1>2, <1>3, <1>4, DigesterKeeps

LEMMA DigestStepKeeps == DigestInv /\ [DigestNext]_digestVars => DigestInv'
<1>. SUFFICES ASSUME DigestInv, [DigestNext]_digestVars PROVE DigestInv'
  OBVIOUS
<1>1. ASSUME UNCHANGED <<recorded, digester, mailed, failures>>,
             created' \subseteq Notices, wanted' \subseteq Recipients
      PROVE  DigestInv'
  BY <1>1 DEF DigestInv, DigestTypeOK, NoticeCounted, MailedRuns, ToMailRuns, Mailed, ToMail,
     TurnOf
<1>2. ASSUME NEW n \in Notices, CreateNotice(n) PROVE DigestInv'
  <2>1. created' \subseteq Notices /\ wanted' \subseteq Recipients
        /\ UNCHANGED <<recorded, digester, mailed, failures>>
    BY <1>2 DEF CreateNotice, DigestInv, DigestTypeOK
  <2>. QED
    BY <1>1, <2>1
<1>3. ASSUME NEW u \in Recipients, ChangePreference(u) PROVE DigestInv'
  <2>1. created' \subseteq Notices /\ wanted' \subseteq Recipients
        /\ UNCHANGED <<recorded, digester, mailed, failures>>
    BY <1>3 DEF ChangePreference, DigestInv, DigestTypeOK
  <2>. QED
    BY <1>1, <2>1
<1>4. CASE UNCHANGED digestVars
  <2>1. created' \subseteq Notices /\ wanted' \subseteq Recipients
        /\ UNCHANGED <<recorded, digester, mailed, failures>>
    BY <1>4 DEF digestVars, DigestInv, DigestTypeOK
  <2>. QED
    BY <1>1, <2>1
<1>. QED
  BY <1>2, <1>3, <1>4, BeginDigestKeeps, SendDigestKeeps, SaveDigestKeeps, FailDigestKeeps,
     DigesterDiesKeeps DEF DigestNext

LEMMA DigestInitial == DigestInit => DigestInv
<1>. SUFFICES ASSUME DigestInit PROVE DigestInv
  OBVIOUS
<1>1. NoDigest \in DigestersInFlight /\ NoDigest.pc = "idle" /\ NoDigest.listed = {}
  BY DEF NoDigest, DigestersInFlight
<1>. HIDE DEF NoDigest
<1>2. DigestTypeOK
  BY <1>1, DigestAssumption DEF DigestInit, DigestTypeOK
<1>3. ASSUME NEW n \in Notices PROVE NoticeCounted(n)
  <2>1. MailedRuns(n) = {}
    BY <1>1 DEF DigestInit, MailedRuns, Mailed
  <2>2. mailed[n] = 0 /\ failures = 0 /\ n \notin recorded
    BY DEF DigestInit
  <2>. QED
    BY <2>1, <2>2, FS_EmptySet DEF NoticeCounted
<1>. QED
  BY <1>1, <1>2, <1>3 DEF DigestInit, DigestInv

LEMMA DigestImplies == DigestInv => DigestTypeOK /\ DigestedOnce
<1>. SUFFICES ASSUME DigestInv PROVE DigestTypeOK /\ DigestedOnce
  OBVIOUS
<1>1. ASSUME NEW n \in Notices PROVE mailed[n] <= Cardinality(Digesters) + failures
  <2>. DEFINE P == Cardinality(MailedRuns(n))
              A == Cardinality(ToMailRuns(n))
              C == Cardinality(Digesters)
  <2>1. P \in Nat /\ A \in Nat /\ C \in Nat /\ P + A <= C
    BY MailedAndToMail
  <2>2. mailed[n] \in Nat /\ failures \in Nat
    BY DigestAssumption DEF DigestInv, DigestTypeOK
  <2>3. mailed[n] + A <= C + failures \/ mailed[n] <= P + failures
    BY DEF DigestInv, NoticeCounted
  <2>. HIDE DEF P, A, C
  <2>4. mailed[n] <= C + failures
    BY <2>1, <2>2, <2>3
  <2>. QED
    BY <2>4 DEF C
<1>. QED
  BY <1>1 DEF DigestedOnce, DigestInv

\* The rows and runs of EmailDigests have their types.
THEOREM DigestTypeCorrect == DigestSpec => []DigestTypeOK
<1>. QED
  BY DigestInitial, DigestStepKeeps, DigestImplies, PTL DEF DigestSpec

\* A notice is mailed no more often than there are runs and failures, and
\* none is recorded that was not (listPendingEmailDigestNotifications,
\* saveNotificationDigestDeliveries).
THEOREM DigestsCorrect == DigestSpec => []DigestedOnce
<1>. QED
  BY DigestInitial, DigestStepKeeps, DigestImplies, PTL DEF DigestSpec
=============================================================================
