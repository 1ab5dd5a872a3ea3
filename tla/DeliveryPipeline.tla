-------------------------- MODULE DeliveryPipeline --------------------------
(***************************************************************************)
(* From the calendar to the members: CalendarReminders and                 *)
(* NotificationDelivery composed.  The transaction that notifies the       *)
(* members of a reminder saves the requests to deliver it by email and     *)
(* push, which the runs of the other dispatcher carry out; the two share   *)
(* nothing else, and each may break off while the other goes on.           *)
(***************************************************************************)
EXTENDS CalendarReminders, NotificationDelivery

CONSTANT PerReminder   \* bound: requests of one notification of the members

ASSUME PipelineAssumption == PerReminder \in Nat

pipeVars == <<remindVars, deliverVars>>

PipeInit == RemindInit /\ DeliverInit

\* saveProducedNotifications for every active member.  How many requests that
\* gives, if any, depends on who is a member and on what each of them prefers
\* (buildProducedNotification).
ProduceRequests(r) ==
  /\ ProduceReminder(r)
  /\ \E n \in 0..PerReminder :
       RequestDeliveries({Cardinality(requested) + i : i \in 1..n})

RemindStep ==
  /\ \/ \E state \in {"hidden", "published"}, start \in Starts : SaveEvent(state, start)
     \/ DeleteEvent
     \/ Tick
     \/ \E r \in Rounds : BeginRound(r) \/ MarkReminder(r) \/ BreakRound(r)
  /\ UNCHANGED deliverVars

DeliverStep ==
  /\ \/ \E c \in Couriers : Deliver(c) \/ Miss(c) \/ CourierDies(c)
     \/ \E d \in Fickle : RegisterToken(d) \/ RevokeToken(d)
  /\ UNCHANGED remindVars

PipeNext ==
  \/ \E r \in Rounds : ProduceRequests(r)
  \/ RemindStep
  \/ DeliverStep

\* Each run of either dispatcher goes on, and is started again.
PipeFairness ==
  /\ \A r \in Rounds :
       WF_pipeVars(ProduceRequests(r)
                     \/ ((BeginRound(r) \/ MarkReminder(r)) /\ UNCHANGED deliverVars))
  /\ \A c \in Couriers : WF_pipeVars(Deliver(c) /\ UNCHANGED remindVars)

PipeSpec == PipeInit /\ [][PipeNext]_pipeVars /\ PipeFairness

-----------------------------------------------------------------------------
(* Properties.                                                             *)

\* The device d got every push there is for it.
Reached(d) == \A e \in HolderOf[d] \cap requested : sent[e][d] >= 1

\* From one end to the other: when a reminder of a published event is due,
\* the members are notified and every device that stays registered gets the
\* pushes that go with it some day, if its holder wants any, unless the event
\* is saved again or goes before a run comes to it.  This takes that the requests nobody accepts, which stay pending
\* for ever and are listed first, do not fill a batch.
ReminderReachesDevices ==
  Cardinality(Hopeless) < BatchSize =>
    \A k \in ReminderIds, d \in Devices :
      (k \in PendingReminders /\ IsDue(k) /\ d \in steady)
        ~> \/ told[k] >= 1 /\ Reached(d)
           \/ d \notin steady
           \/ reminder[k].state = "none"
=============================================================================
