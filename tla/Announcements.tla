--------------------------- MODULE Announcements ---------------------------
(***************************************************************************)
(* One announcement of a course, its publication and the outbox event that *)
(* tells the members of it (packages/api/src/dependencies.ts).             *)
(*                                                                         *)
(* Creating an announcement, and updating one, is a transaction that also  *)
(* saves the event when it publishes.  An update reads the announcement    *)
(* first, without a lock, and updates it, which locks the row to the end   *)
(* of the transaction: what it publishes is decided by a status that       *)
(* another transaction may have changed in between.                        *)
(***************************************************************************)
EXTENDS Naturals, FiniteSets

CONSTANTS
  Authors,     \* requests that update the announcement
  MaxNews      \* bound: number of events, and of publications

ASSUME NewsAssumption ==
  /\ IsFiniteSet(Authors)
  /\ Authors # {}
  /\ MaxNews \in Nat

VARIABLES
  announcement,  \* its status
  news,          \* events saved in the outbox
  author,        \* the updates in flight
  published      \* history: how often its status has turned to published

newsVars == <<announcement, news, author, published>>

-----------------------------------------------------------------------------
NewsStatuses == {"draft", "published"}
Updating == [pc : {"idle", "update", "commit"}, read : NewsStatuses, write : NewsStatuses]
NoUpdate == [pc |-> "idle", read |-> "draft", write |-> "draft"]

Held == \E a \in Authors : author[a].pc = "commit"

NewsInit ==
  /\ announcement = "unborn"
  /\ news = 0
  /\ author = [a \in Authors |-> NoUpdate]
  /\ published = 0

CreateAnnouncement(status) ==
  /\ announcement = "unborn"
  /\ announcement' = status
  /\ news' = IF status = "published" THEN 1 ELSE 0
  /\ published' = IF status = "published" THEN 1 ELSE 0
  /\ UNCHANGED author

ReadAnnouncement(a, status) ==
  /\ author[a].pc = "idle"
  /\ announcement \in NewsStatuses
  /\ author' = [author EXCEPT ![a] =
       [pc |-> "update", read |-> announcement, write |-> status]]
  /\ UNCHANGED <<announcement, news, published>>

UpdateAnnouncement(a) ==
  /\ author[a].pc = "update"
  /\ ~Held
  /\ announcement \in NewsStatuses
  /\ author' = [author EXCEPT ![a] = [@ EXCEPT !.pc = "commit"]]
  /\ UNCHANGED <<announcement, news, published>>

\* Slip: an announcement is announced when it is created, not when a draft
\* is published.
NeverPublishes(a) == FALSE

Publishes(a) == author[a].read # "published" /\ author[a].write = "published"

TurnsPublished(a) == announcement = "draft" /\ author[a].write = "published"

\* The event is saved in the transaction of the update.
CommitAnnouncement(a) ==
  /\ author[a].pc = "commit"
  /\ Publishes(a) => news < MaxNews
  /\ TurnsPublished(a) => published < MaxNews
  /\ announcement' = author[a].write
  /\ news' = IF Publishes(a) THEN news + 1 ELSE news
  /\ published' = IF TurnsPublished(a) THEN published + 1 ELSE published
  /\ author' = [author EXCEPT ![a] = NoUpdate]

AbandonUpdate(a) ==
  /\ author[a].pc # "idle"
  /\ author' = [author EXCEPT ![a] = NoUpdate]
  /\ UNCHANGED <<announcement, news, published>>

DeleteAnnouncement ==
  /\ announcement \in NewsStatuses
  /\ ~Held
  /\ announcement' = "gone"
  /\ UNCHANGED <<news, author, published>>

NewsNext ==
  \/ \E s \in NewsStatuses : CreateAnnouncement(s)
  \/ \E a \in Authors :
       \/ \E s \in NewsStatuses : ReadAnnouncement(a, s)
       \/ UpdateAnnouncement(a) \/ CommitAnnouncement(a) \/ AbandonUpdate(a)
  \/ DeleteAnnouncement

NewsSpec == NewsInit /\ [][NewsNext]_newsVars

-----------------------------------------------------------------------------
(* Properties.                                                             *)

\* Every row and every transaction has its type.
NewsTypeOK ==
  /\ announcement \in NewsStatuses \cup {"unborn", "gone"}
  /\ news \in Nat /\ published \in Nat
  /\ author \in [Authors -> Updating]

\* Members are told of an announcement that they can read: however updates
\* overlap, one that is published has an event in the outbox.
PublishedIsAnnounced == announcement = "published" => news >= 1

\* Editing a published announcement is no news: more than one event for one
\* publication takes updates that overlap it, each of which saves one.
NewsBounded == news <= published * Cardinality(Authors)

\* The events of an announcement follow its publication.
NewsFollowsPublication == PublishedIsAnnounced /\ NewsBounded
=============================================================================
