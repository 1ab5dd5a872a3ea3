----------------------------- MODULE EmailDigests -----------------------------
(***************************************************************************)
(* The email digests of one frequency and window: packages/core/src/       *)
(* notifications (delivery.ts, repository.ts), packages/api/src/           *)
(* notification-digest.ts.                                                 *)
(*                                                                         *)
(* A run lists the notifications of the window that no digest has          *)
(* delivered, in the order of their recipients and no more than a limit,   *)
(* and for each recipient sends one email and records the notifications in *)
(* it, which does nothing for those already recorded.  A failure leaves    *)
(* the recipient's for the next run over the window; runs overlap and die. *)
(***************************************************************************)
EXTENDS Naturals, FiniteSets

CONSTANTS
  Notices,      \* notifications, in the order of recipient and time
  RecipientOf,  \* natural numbers; the notices are sorted by them
  Digesters,    \* runs
  DigestLimit,  \* notifications of a run
  MaxFailures   \* bound: calls that fail and runs that die

ASSUME DigestAssumption ==
  /\ Notices \subseteq Nat /\ IsFiniteSet(Notices)
  /\ RecipientOf \in [Notices -> Nat]
  /\ \A m, n \in Notices : m <= n => RecipientOf[m] <= RecipientOf[n]
  /\ IsFiniteSet(Digesters)
  /\ DigestLimit \in Nat \ {0}
  /\ MaxFailures \in Nat

VARIABLES
  created,    \* the notification rows of the window
  wanted,     \* recipients who prefer a digest of this frequency
  recorded,   \* the notification_digest_delivery rows
  digester,   \* the runs in flight
  mailed,     \* history: how often a notice has been mailed
  failures    \* history: failures and deaths

digestVars == <<created, wanted, recorded, digester, mailed, failures>>

-----------------------------------------------------------------------------
Recipients == {RecipientOf[n] : n \in Notices}
DigestersInFlight == [pc : {"idle", "send", "save"}, listed : SUBSET Notices]
NoDigest == [pc |-> "idle", listed |-> {}]

DigestInit ==
  /\ created = {} /\ recorded = {}
  /\ wanted = Recipients
  /\ digester = [r \in Digesters |-> NoDigest]
  /\ mailed = [n \in Notices |-> 0]
  /\ failures = 0

\* A notification is saved, the window being open.
CreateNotice(n) ==
  /\ n \notin created
  /\ created' = created \cup {n}
  /\ UNCHANGED <<wanted, recorded, digester, mailed, failures>>

\* A recipient chooses another frequency, or this one again.
ChangePreference(u) ==
  /\ wanted' = IF u \in wanted THEN wanted \ {u} ELSE wanted \cup {u}
  /\ UNCHANGED <<created, recorded, digester, mailed, failures>>

\* The join with the preferences and the digests there have been.
IsPending(n) == n \in created \ recorded /\ RecipientOf[n] \in wanted

PendingNotices == {n \in Notices : IsPending(n)}

\* listPendingEmailDigestNotifications.
BeginDigest(r) ==
  /\ digester[r].pc = "idle"
  /\ \E listed \in SUBSET PendingNotices :
       /\ listed # {}
       /\ \A m \in listed, n \in PendingNotices \ listed : m < n
       /\ Cardinality(listed) =
            IF Cardinality(PendingNotices) < DigestLimit
            THEN Cardinality(PendingNotices) ELSE DigestLimit
       /\ digester' = [digester EXCEPT ![r] = [pc |-> "send", listed |-> listed]]
  /\ UNCHANGED <<created, wanted, recorded, mailed, failures>>

\* The notices of the recipient whose turn it is.
Digest(r) ==
  {n \in digester[r].listed : \A m \in digester[r].listed : RecipientOf[n] <= RecipientOf[m]}

NextRecipient(r) ==
  digester' = [digester EXCEPT ![r] =
    IF digester[r].listed = Digest(r) THEN NoDigest
    ELSE [pc |-> "send", listed |-> digester[r].listed \ Digest(r)]]

SendDigest(r) ==
  /\ digester[r].pc = "send"
  /\ mailed' = [n \in Notices |-> IF n \in Digest(r) THEN mailed[n] + 1 ELSE mailed[n]]
  /\ digester' = [digester EXCEPT ![r] = [@ EXCEPT !.pc = "save"]]
  /\ UNCHANGED <<created, wanted, recorded, failures>>

\* Slip: only the first notice of a digest is recorded.
SaveFirst(r) ==
  /\ digester[r].pc = "save"
  /\ recorded' = recorded \cup {n \in Digest(r) : \A m \in Digest(r) : n <= m}
  /\ NextRecipient(r)
  /\ UNCHANGED <<created, wanted, mailed, failures>>

\* saveNotificationDigestDeliveries, one transaction.
SaveDigest(r) ==
  /\ digester[r].pc = "save"
  /\ recorded' = recorded \cup Digest(r)
  /\ NextRecipient(r)
  /\ UNCHANGED <<created, wanted, mailed, failures>>

\* The email, which may have gone out, or the transaction fails: the run goes
\* on with the next recipient.
FailDigest(r) ==
  /\ digester[r].pc # "idle"
  /\ failures < MaxFailures
  /\ failures' = failures + 1
  /\ \/ mailed' = mailed
     \/ /\ digester[r].pc = "send"
        /\ mailed' = [n \in Notices |-> IF n \in Digest(r) THEN mailed[n] + 1 ELSE mailed[n]]
  /\ NextRecipient(r)
  /\ UNCHANGED <<created, wanted, recorded>>

DigesterDies(r) ==
  /\ digester[r].pc # "idle"
  /\ failures < MaxFailures
  /\ failures' = failures + 1
  /\ digester' = [digester EXCEPT ![r] = NoDigest]
  /\ UNCHANGED <<created, wanted, recorded, mailed>>

DigestNext ==
  \/ \E n \in Notices : CreateNotice(n)
  \/ \E u \in Recipients : ChangePreference(u)
  \/ \E r \in Digesters :
       BeginDigest(r) \/ SendDigest(r) \/ SaveDigest(r) \/ FailDigest(r) \/ DigesterDies(r)

DigestSpec == DigestInit /\ [][DigestNext]_digestVars

-----------------------------------------------------------------------------
(* Properties.                                                             *)

\* Every row and every run has its type.
DigestTypeOK ==
  /\ created \subseteq Notices /\ recorded \subseteq Notices
  /\ wanted \subseteq Recipients
  /\ digester \in [Digesters -> DigestersInFlight]
  /\ mailed \in [Notices -> Nat]
  /\ failures \in 0..MaxFailures

\* A notice is in one digest, unless runs overlap or one fails after its
\* email went out; and a notice that is recorded was in one.  A limit that
\* cuts the notices of one recipient in two does not change it.
DigestedOnce ==
  \A n \in Notices :
    /\ mailed[n] <= Cardinality(Digesters) + failures
    /\ n \in recorded => mailed[n] >= 1
=============================================================================
