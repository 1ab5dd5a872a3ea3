------------------------ MODULE NotificationDelivery ------------------------
(***************************************************************************)
(* The requests to deliver a notification by email or push, kept in the    *)
(* outbox, and the runs that carry them out (packages/core/src/            *)
(* notifications/delivery.ts, packages/api/src/notification-delivery.ts).  *)
(*                                                                         *)
(* A run lists the oldest pending requests and takes them one by one.  An  *)
(* email is one call to an endpoint, a push one call for every device that *)
(* the recipient has registered when the request is taken up, and only     *)
(* after the last of them is the request marked.  An error, the address of *)
(* somebody who has left the tenant for one, ends the request for this run *)
(* and leaves it pending.  Runs overlap and die.                           *)
(***************************************************************************)
EXTENDS Naturals, FiniteSets

CONSTANTS
  Deliveries,   \* requests, in the order they occurred
  Mail,         \* those by email; the others are by push
  Hopeless,     \* those whose recipient the endpoint or the tenant refuses
  Devices,      \* push tokens
  Fickle,       \* bound: those that are registered and revoked
  HolderOf,     \* the requests, of one user, that a device is sent
  Mailbox,      \* what an email is sent to
  Couriers,     \* runs of the dispatcher
  BatchSize,    \* requests of a run
  MaxMisses     \* bound: calls that fail and runs that die

ASSUME DeliveryAssumption ==
  /\ Deliveries \subseteq Nat /\ IsFiniteSet(Deliveries)
  /\ Mail \subseteq Deliveries /\ Hopeless \subseteq Deliveries
  /\ HolderOf \in [Devices -> SUBSET (Deliveries \ Mail)]
  /\ Fickle \subseteq Devices
  /\ Mailbox \notin Devices
  /\ IsFiniteSet(Couriers)
  /\ BatchSize \in Nat \ {0}
  /\ MaxMisses \in Nat

VARIABLES
  requested,  \* the requests in the outbox
  processed,  \* the requests that are marked
  tokens,     \* the user_push_token rows
  courier,    \* the runs in flight
  sent,       \* history: calls that reached each device or mailbox
  misses,     \* history: failures and deaths
  steady      \* history: devices registered all along

deliverVars == <<requested, processed, tokens, courier, sent, misses, steady>>

-----------------------------------------------------------------------------
Targets == Devices \cup {Mailbox}
CouriersInFlight ==
  [pc : {"idle", "take", "send", "mark"}, batch : SUBSET Deliveries, left : SUBSET Targets]
NoBatch == [pc |-> "idle", batch |-> {}, left |-> {}]

DeliverInit ==
  /\ requested = {} /\ processed = {}
  /\ tokens \in {Devices \ D : D \in SUBSET Fickle}
  /\ steady = tokens
  /\ courier = [c \in Couriers |-> NoBatch]
  /\ sent = [e \in Deliveries |-> [t \in Targets |-> 0]]
  /\ misses = 0

\* Slip: the query forgets processedAt.
AllRequested == requested

Undelivered == requested \ processed

\* saveProducedNotifications: the requests of a notification are saved in one
\* transaction with it, each newer than those before.
RequestDeliveries(E) ==
  /\ E \subseteq Deliveries
  /\ \A e \in E, f \in requested : f < e
  /\ requested' = requested \cup E
  /\ UNCHANGED <<processed, tokens, courier, sent, misses, steady>>

\* listPendingNotificationDeliveryEvents: the oldest, BatchSize at most.
BeginBatch(c) ==
  /\ courier[c].pc = "idle"
  /\ \E batch \in SUBSET Undelivered :
       /\ batch # {}
       /\ \A e \in batch, f \in Undelivered \ batch : e < f
       /\ Cardinality(batch) =
            IF Cardinality(Undelivered) < BatchSize THEN Cardinality(Undelivered) ELSE BatchSize
       /\ courier' = [courier EXCEPT ![c] = [pc |-> "take", batch |-> batch, left |-> {}]]
  /\ UNCHANGED <<requested, processed, tokens, sent, misses, steady>>

IsFirst(c, e) == e \in courier[c].batch /\ \A f \in courier[c].batch : e <= f

\* The run goes on with the next request.
NextDelivery(c, e) ==
  courier' = [courier EXCEPT ![c] =
    IF courier[c].batch = {e} THEN NoBatch
    ELSE [pc |-> "take", batch |-> courier[c].batch \ {e}, left |-> {}]]

\* dispatchPush lists the devices; dispatchEmail has one recipient.
TakeUp(c) == \E e \in courier[c].batch :
  /\ courier[c].pc = "take"
  /\ IsFirst(c, e)
  /\ LET left == IF e \in Mail THEN {Mailbox} ELSE {d \in tokens : e \in HolderOf[d]}
     IN courier' = [courier EXCEPT ![c] =
          [pc |-> IF left = {} THEN "mark" ELSE "send", batch |-> @.batch, left |-> left]]
  /\ UNCHANGED <<requested, processed, tokens, sent, misses, steady>>

\* One call that succeeds; the devices' order is that of their last use.
Send(c) == \E e \in courier[c].batch, t \in courier[c].left :
  /\ courier[c].pc = "send"
  /\ IsFirst(c, e)
  /\ e \notin Hopeless
  /\ sent' = [sent EXCEPT ![e] = [@ EXCEPT ![t] = sent[e][t] + 1]]
  /\ courier' = [courier EXCEPT ![c] =
       [pc |-> IF courier[c].left = {t} THEN "mark" ELSE "send",
        batch |-> courier[c].batch, left |-> courier[c].left \ {t}]]
  /\ UNCHANGED <<requested, processed, tokens, misses, steady>>

\* Slip: a device that fails is passed over.
PassOver(c) == \E t \in courier[c].left :
  /\ courier[c].pc = "send"
  /\ misses < MaxMisses
  /\ misses' = misses + 1
  /\ courier' = [courier EXCEPT ![c] =
       [pc |-> IF courier[c].left = {t} THEN "mark" ELSE "send",
        batch |-> courier[c].batch, left |-> courier[c].left \ {t}]]
  /\ UNCHANGED <<requested, processed, tokens, sent, steady>>

\* A call or a mark that fails: the catch block counts it and the loop goes
\* on with the next request.  The endpoint may have got the message.
Miss(c) == \E e \in courier[c].batch :
  /\ courier[c].pc # "idle"
  /\ IsFirst(c, e)
  /\ misses < MaxMisses
  /\ misses' = misses + 1
  /\ \/ sent' = sent
     \/ \E t \in courier[c].left :
          courier[c].pc = "send" /\ sent' = [sent EXCEPT ![e] = [@ EXCEPT ![t] = sent[e][t] + 1]]
  /\ NextDelivery(c, e)
  /\ UNCHANGED <<requested, processed, tokens, steady>>

\* Slip: a failure ends the run.
RefuseAll(c) == \E e \in courier[c].batch :
  /\ courier[c].pc = "send"
  /\ IsFirst(c, e)
  /\ e \in Hopeless
  /\ courier' = [courier EXCEPT ![c] = NoBatch]
  /\ UNCHANGED <<requested, processed, tokens, sent, misses, steady>>

\* A request that nobody accepts fails on every run, without a bound.
Refuse(c) == \E e \in courier[c].batch :
  /\ courier[c].pc = "send"
  /\ IsFirst(c, e)
  /\ e \in Hopeless
  /\ NextDelivery(c, e)
  /\ UNCHANGED <<requested, processed, tokens, sent, misses, steady>>

\* markOutboxEventProcessed does not ask whether it was processed before.
MarkDelivered(c) == \E e \in courier[c].batch :
  /\ courier[c].pc = "mark"
  /\ IsFirst(c, e)
  /\ processed' = processed \cup {e}
  /\ NextDelivery(c, e)
  /\ UNCHANGED <<requested, tokens, sent, misses, steady>>

CourierDies(c) ==
  /\ courier[c].pc # "idle"
  /\ misses < MaxMisses
  /\ misses' = misses + 1
  /\ courier' = [courier EXCEPT ![c] = NoBatch]
  /\ UNCHANGED <<requested, processed, tokens, sent, steady>>

\* registerUserPushToken.
RegisterToken(d) ==
  /\ d \notin tokens
  /\ tokens' = tokens \cup {d}
  /\ UNCHANGED <<requested, processed, courier, sent, misses, steady>>

\* revokeUserPushToken.
RevokeToken(d) ==
  /\ d \in tokens
  /\ tokens' = tokens \ {d}
  /\ steady' = steady \ {d}
  /\ UNCHANGED <<requested, processed, courier, sent, misses>>

Deliver(c) ==
  BeginBatch(c) \/ TakeUp(c) \/ Send(c) \/ Refuse(c) \/ MarkDelivered(c)

DeliverNext ==
  \/ \E e \in Deliveries : RequestDeliveries({e})
  \/ \E c \in Couriers : Deliver(c) \/ Miss(c) \/ CourierDies(c)
  \/ \E d \in Fickle : RegisterToken(d) \/ RevokeToken(d)

\* Runs are started again and again, and one that is started goes on.
DeliverFairness == \A c \in Couriers : WF_deliverVars(Deliver(c))

DeliverSpec == DeliverInit /\ [][DeliverNext]_deliverVars /\ DeliverFairness

-----------------------------------------------------------------------------
(* Properties.                                                             *)

\* Every row and every run has its type.
DeliverTypeOK ==
  /\ requested \subseteq Deliveries /\ processed \subseteq requested
  /\ tokens \subseteq Devices /\ steady \subseteq Devices
  /\ courier \in [Couriers -> CouriersInFlight]
  /\ sent \in [Deliveries -> [Targets -> Nat]]
  /\ misses \in 0..MaxMisses

\* A request is marked only after every device of its recipient got it,
\* every one at least that was registered all the time; an email only after
\* it was sent.  A failure half way through the devices leaves the request
\* pending.
ProcessedIsSent ==
  \A e \in processed :
    IF e \in Mail THEN sent[e][Mailbox] >= 1
    ELSE \A d \in steady : e \in HolderOf[d] => sent[e][d] >= 1

\* Nobody gets one request more often than by each of the runs that overlap
\* and once more for every failure: a marked request stays marked.
SentBounded ==
  \A e \in Deliveries, t \in Targets : sent[e][t] <= Cardinality(Couriers) + misses
=============================================================================
