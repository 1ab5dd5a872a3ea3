----------------------------- MODULE WikiPages -----------------------------
(***************************************************************************)
(* One wiki page and its revisions: packages/core/src/wiki/repository.ts.  *)
(*                                                                         *)
(* An edit and a restore are transactions at READ COMMITTED.  Each reads   *)
(* the highest revision number, updates the page, which locks its row to   *)
(* the end of the transaction, and inserts the next revision, whose number *)
(* is unique for the page.  The number is read before the lock is taken,   *)
(* so two transactions may hold the same one.  What an unfinished          *)
(* transaction wrote is not seen by any other, so it is written here by    *)
(* the step that commits it.                                               *)
(*                                                                         *)
(* A text stands for title, content and learning objectives; creating a    *)
(* page writes no revision, and a restore leaves the status alone.         *)
(***************************************************************************)
EXTENDS Naturals

CONSTANTS
  Editors,      \* requests that edit or restore the page
  Texts,
  NoText,       \* no revision of a number
  MaxRevision   \* bound: highest revision number

ASSUME WikiAssumption ==
  /\ NoText \notin Texts
  /\ MaxRevision \in Nat

VARIABLES
  page,       \* the wiki_page row
  revisions,  \* the wiki_page_revision rows: the text of each number
  editors     \* the transactions in flight

wikiVars == <<page, revisions, editors>>

-----------------------------------------------------------------------------
Numbers == 1..MaxRevision
PageRow == [state : {"unborn", "live", "gone"}, text : Texts \cup {NoText}]
Edit == [pc : {"idle", "source", "number", "update", "insert"},
         text : Texts \cup {NoText}, next : 1..(MaxRevision + 1)]

NoEdit == [pc |-> "idle", text |-> NoText, next |-> 1]

Written == {n \in Numbers : revisions[n] # NoText}

\* max(revision) of the page, 0 without a revision.
IsLatest(n) ==
  /\ n = 0 \/ n \in Written
  /\ \A m \in Written : m <= n

\* The row of the page is locked by a transaction that has updated it.
Locked == \E e \in Editors : editors[e].pc = "insert"

WikiInit ==
  /\ page = [state |-> "unborn", text |-> NoText]
  /\ revisions = [n \in Numbers |-> NoText]
  /\ editors = [e \in Editors |-> NoEdit]

CreateWikiPage(t) ==
  /\ page.state = "unborn"
  /\ page' = [state |-> "live", text |-> t]
  /\ UNCHANGED <<revisions, editors>>

\* updateWikiPage begins with the text the request carries; it does not look
\* whether the page is still there.
BeginUpdate(e, t) ==
  /\ page.state # "unborn"
  /\ editors[e].pc = "idle"
  /\ editors' = [editors EXCEPT ![e] = [pc |-> "number", text |-> t, next |-> 1]]
  /\ UNCHANGED <<page, revisions>>

\* restoreWikiPageRevision finds the page.
BeginRestore(e) ==
  /\ page.state = "live"
  /\ editors[e].pc = "idle"
  /\ editors' = [editors EXCEPT ![e] = [pc |-> "source", text |-> NoText, next |-> 1]]
  /\ UNCHANGED <<page, revisions>>

\* It finds the revision to restore.
ReadSource(e, n) ==
  /\ editors[e].pc = "source"
  /\ n \in Written
  /\ editors' = [editors EXCEPT ![e] = [pc |-> "number", text |-> revisions[n], next |-> 1]]
  /\ UNCHANGED <<page, revisions>>

ReadNumber(e) ==
  /\ editors[e].pc = "number"
  /\ \E n \in 0..MaxRevision :
       /\ IsLatest(n)
       /\ editors' = [editors EXCEPT ![e] = [@ EXCEPT !.pc = "update", !.next = n + 1]]
  /\ UNCHANGED <<page, revisions>>

\* The update waits for the lock of any other transaction.
UpdatePage(e) ==
  /\ editors[e].pc = "update"
  /\ ~Locked
  /\ page.state = "live"
  /\ editors' = [editors EXCEPT ![e] = [@ EXCEPT !.pc = "insert"]]
  /\ UNCHANGED <<page, revisions>>

\* Slip: the update of the page is outside the transaction of the insert.
UpdateThenInsert(e) ==
  /\ editors[e].pc = "insert"
  /\ page' = [page EXCEPT !.text = editors[e].text]
  /\ IF editors[e].next \in Numbers \ Written
     THEN revisions' = [revisions EXCEPT ![editors[e].next] = editors[e].text]
     ELSE revisions' = revisions
  /\ editors' = [editors EXCEPT ![e] = NoEdit]

\* The revision is new: both rows are committed.
CommitRevision(e) ==
  /\ editors[e].pc = "insert"
  /\ editors[e].next \in Numbers \ Written
  /\ page' = [page EXCEPT !.text = editors[e].text]
  /\ revisions' = [revisions EXCEPT ![editors[e].next] = editors[e].text]
  /\ editors' = [editors EXCEPT ![e] = NoEdit]

\* A page or a revision that is not there, a number somebody else has taken,
\* an error or a death: the transaction is rolled back, the text with it.
Abandon(e) ==
  /\ editors[e].pc # "idle"
  /\ editors' = [editors EXCEPT ![e] = NoEdit]
  /\ UNCHANGED <<page, revisions>>

\* The revisions go with the page.
DeleteWikiPage ==
  /\ page.state = "live"
  /\ ~Locked
  /\ page' = [state |-> "gone", text |-> NoText]
  /\ revisions' = [n \in Numbers |-> NoText]
  /\ UNCHANGED editors

WikiNext ==
  \/ \E t \in Texts : CreateWikiPage(t)
  \/ \E e \in Editors, t \in Texts : BeginUpdate(e, t)
  \/ \E e \in Editors, n \in Numbers : ReadSource(e, n)
  \/ \E e \in Editors :
       \/ BeginRestore(e) \/ ReadNumber(e) \/ UpdatePage(e)
       \/ CommitRevision(e) \/ Abandon(e)
  \/ DeleteWikiPage

WikiSpec == WikiInit /\ [][WikiNext]_wikiVars

-----------------------------------------------------------------------------
(* Properties.                                                             *)

\* Every row and every transaction has its type.
WikiTypeOK ==
  /\ page \in PageRow
  /\ revisions \in [Numbers -> Texts \cup {NoText}]
  /\ editors \in [Editors -> Edit]

\* Revisions are numbered 1, 2, 3, ... without a gap, and the text of a page is
\* that of its highest one, whatever edits, restores and failures overlap: of
\* two edits that read the same number the one that loses the insert leaves
\* nothing on the page.
RevisionsContiguous == \A n \in Written : \A m \in 1..n : m \in Written
PageIsLatest ==
  \A n \in Numbers : page.state = "live" /\ IsLatest(n) => page.text = revisions[n]

HistoryEndsWithPage == RevisionsContiguous /\ PageIsLatest
=============================================================================
