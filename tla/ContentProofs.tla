---------------------------- MODULE ContentProofs ----------------------------
(***************************************************************************)
(* Proofs about what is written for a course: the revisions of a wiki      *)
(* page, the files and the quotas of a tenant, the AI feedback drafts of a *)
(* submission, the order of the items of a scope, the reports of a SCORM   *)
(* package, the final grade with the lowest grades dropped.                *)
(***************************************************************************)
EXTENDS WikiPages, FileStorage, AiFeedback, CourseOrder, ScormRuntime, FinalGrades,
        FiniteSetTheorems, TLAPS

-----------------------------------------------------------------------------
(* Wiki pages.                                                             *)

\* One transaction at a time has updated the page, and the page is there.
LockInv ==
  /\ \A e, f \in Editors :
       editors[e].pc = "insert" /\ editors[f].pc = "insert" => e = f
  /\ \A e \in Editors : editors[e].pc = "insert" => page.state = "live"

\* Before the page is written nobody edits it and there is no revision.
UnbornInv ==
  page.state = "unborn" =>
    Written = {} /\ \A e \in Editors : editors[e].pc = "idle"

\* A transaction has a text from its request or from a revision, and the
\* number it asks for follows one that is there as long as the page is.
EditorInv ==
  \A e \in Editors :
    /\ editors[e].pc \in {"number", "update", "insert"} => editors[e].text \in Texts
    /\ editors[e].pc \in {"update", "insert"} /\ page.state = "live" =>
         editors[e].next = 1 \/ editors[e].next - 1 \in Written

WikiInv ==
  /\ WikiTypeOK
  /\ RevisionsContiguous
  /\ PageIsLatest
  /\ LockInv
  /\ UnbornInv
  /\ EditorInv

\* What an update of some fields of a transaction, or of the page, leaves.
LEMMA EditTypes ==
  ASSUME NEW x \in Edit
  PROVE  /\ x.text \in Texts \cup {NoText}
         /\ x.next \in 1..(MaxRevision + 1)
         /\ LET y == [x EXCEPT !.pc = "insert"]
            IN  y \in Edit /\ y.pc = "insert" /\ y.next = x.next /\ y.text = x.text
         /\ \A n \in 1..(MaxRevision + 1) :
              LET y == [x EXCEPT !.pc = "update", !.next = n]
              IN  y \in Edit /\ y.pc = "update" /\ y.next = n /\ y.text = x.text
BY DEF Edit

LEMMA PageTypes ==
  ASSUME NEW p \in PageRow, NEW t \in Texts \cup {NoText}
  PROVE  LET q == [p EXCEPT !.text = t]
         IN  q \in PageRow /\ q.state = p.state /\ q.text = t
BY DEF PageRow

LEMMA WikiInitial == WikiInit => WikiInv
BY WikiAssumption DEF WikiInit, WikiInv, WikiTypeOK, RevisionsContiguous, PageIsLatest,
   LockInv, UnbornInv, EditorInv, Written, IsLatest, Numbers, PageRow, Edit, NoEdit

LEMMA CreateKeeps ==
  ASSUME WikiInv, NEW t \in Texts, CreateWikiPage(t)
  PROVE  WikiInv'
BY WikiAssumption DEF CreateWikiPage, WikiInv, WikiTypeOK, RevisionsContiguous, PageIsLatest,
   LockInv, UnbornInv, EditorInv, Written, IsLatest, Numbers, PageRow

\* A step of one transaction that writes no row.
LEMMA EditorStepKeeps ==
  ASSUME WikiInv, NEW e \in Editors, NEW y \in Edit,
         editors' = [editors EXCEPT ![e] = y], UNCHANGED <<page, revisions>>,
         page.state = "unborn" => y.pc = "idle",
         y.pc = "insert" => ~Locked /\ page.state = "live",
         y.pc \in {"number", "update", "insert"} => y.text \in Texts,
         y.pc \in {"update", "insert"} /\ page.state = "live" =>
           y.next = 1 \/ y.next - 1 \in Written
  PROVE  WikiInv'
<1>0. \A f \in Editors : editors'[f] = IF f = e THEN y ELSE editors[f]
  BY DEF WikiInv, WikiTypeOK
<1>1. Written' = Written /\ \A n \in Numbers : IsLatest(n)' <=> IsLatest(n)
  BY DEF Written, IsLatest
<1>2. WikiTypeOK' /\ RevisionsContiguous' /\ PageIsLatest'
  BY <1>0, <1>1 DEF WikiInv, WikiTypeOK, RevisionsContiguous, PageIsLatest
<1>3. LockInv'
  BY <1>0 DEF WikiInv, LockInv, Locked
<1>4. UnbornInv'
  BY <1>0, <1>1 DEF WikiInv, UnbornInv
<1>5. EditorInv'
  BY <1>0, <1>1 DEF WikiInv, EditorInv
<1> QED BY <1>2, <1>3, <1>4, <1>5 DEF WikiInv

\* The number of a new revision follows the latest one, because every number
\* before it is taken and it is not.
LEMMA CommitKeeps ==
  ASSUME WikiInv, NEW e \in Editors, CommitRevision(e)
  PROVE  WikiInv'
<1> DEFINE n == editors[e].next
           t == editors[e].text
<1>0. /\ n \in Numbers /\ n \notin Written /\ t \in Texts /\ page.state = "live"
      /\ n = 1 \/ n - 1 \in Written
      /\ editors[e] \in Edit /\ editors[e].pc = "insert"
  BY DEF CommitRevision, WikiInv, WikiTypeOK, LockInv, EditorInv
<1>1. /\ page' \in PageRow /\ page'.state = "live" /\ page'.text = t
  BY <1>0, PageTypes DEF CommitRevision, WikiInv, WikiTypeOK
<1>2. revisions' = [revisions EXCEPT ![n] = t]
  BY DEF CommitRevision
<1>3. Written' = Written \cup {n}
  BY <1>0, <1>2, WikiAssumption DEF Written, WikiInv, WikiTypeOK
<1>4. \A f \in Editors : editors'[f] = IF f = e THEN NoEdit ELSE editors[f]
  BY DEF CommitRevision, WikiInv, WikiTypeOK
<1>5. NoEdit \in Edit /\ NoEdit.pc = "idle"
  BY WikiAssumption DEF NoEdit, Edit
<1>6. WikiTypeOK'
  BY <1>0, <1>1, <1>2, <1>5 DEF WikiInv, WikiTypeOK, CommitRevision
<1>7. RevisionsContiguous'
  <2> SUFFICES ASSUME NEW k \in Written \cup {n}, NEW m \in 1..k
               PROVE  m \in Written \cup {n}
    BY <1>3 DEF RevisionsContiguous
  <2>1. CASE k \in Written
    BY <2>1 DEF WikiInv, RevisionsContiguous
  <2>2. CASE k = n /\ m = n
    BY <2>2
  <2>3. CASE k = n /\ m # n
    <3>1. n - 1 \in Written /\ m \in 1..(n - 1)
      BY <1>0, <2>3 DEF Numbers
    <3> QED BY <3>1 DEF WikiInv, RevisionsContiguous
  <2> QED BY <2>1, <2>2, <2>3
<1>8. PageIsLatest'
  <2> SUFFICES ASSUME NEW k \in Numbers, IsLatest(k)'
               PROVE  t = revisions'[k]
    BY <1>1 DEF PageIsLatest
  <2>1. k \in Written \cup {n} /\ n <= k
    BY <1>3 DEF IsLatest, Numbers
  <2>2. k \notin Written
    <3> SUFFICES ASSUME k \in Written PROVE FALSE
      OBVIOUS
    <3>1. n \in 1..k
      BY <1>0, <2>1 DEF Numbers
    <3> QED BY <1>0, <3>1 DEF WikiInv, RevisionsContiguous
  <2> QED BY <1>0, <1>2, <2>1, <2>2 DEF WikiInv, WikiTypeOK
<1>9. LockInv'
  BY <1>1, <1>4, <1>5 DEF WikiInv, LockInv
<1>10. UnbornInv' /\ EditorInv'
  BY <1>0, <1>1, <1>3, <1>4, <1>5 DEF WikiInv, UnbornInv, EditorInv
<1> QED BY <1>6, <1>7, <1>8, <1>9, <1>10 DEF WikiInv

LEMMA DeleteWikiKeeps ==
  ASSUME WikiInv, DeleteWikiPage
  PROVE  WikiInv'
<1>1. page' = [state |-> "gone", text |-> NoText] /\ Written' = {} /\ editors' = editors
  BY DEF DeleteWikiPage, Written
<1>2. \A e \in Editors : editors[e].pc # "insert"
  BY DEF DeleteWikiPage, Locked
<1>3. WikiTypeOK'
  BY DEF DeleteWikiPage, WikiInv, WikiTypeOK, PageRow
<1>4. RevisionsContiguous' /\ PageIsLatest' /\ UnbornInv'
  BY <1>1 DEF RevisionsContiguous, PageIsLatest, UnbornInv
<1>5. LockInv' /\ EditorInv'
  BY <1>1, <1>2 DEF WikiInv, LockInv, EditorInv
<1> QED BY <1>3, <1>4, <1>5 DEF WikiInv

LEMMA WikiStep == WikiInv /\ [WikiNext]_wikiVars => WikiInv'
<1> SUFFICES ASSUME WikiInv, [WikiNext]_wikiVars PROVE WikiInv'
  OBVIOUS
<1>0. \A e \in Editors : editors[e] \in Edit
  BY DEF WikiInv, WikiTypeOK
<1>1. CASE \E t \in Texts : CreateWikiPage(t)
  BY <1>1, CreateKeeps
<1>2. ASSUME NEW e \in Editors, NEW t \in Texts, BeginUpdate(e, t) PROVE WikiInv'
  <2> DEFINE y == [pc |-> "number", text |-> t, next |-> 1]
  <2>1. y \in Edit
    BY WikiAssumption DEF Edit
  <2> QED BY <1>2, <2>1, EditorStepKeeps DEF BeginUpdate
<1>3. ASSUME NEW e \in Editors, BeginRestore(e) PROVE WikiInv'
  <2> DEFINE y == [pc |-> "source", text |-> NoText, next |-> 1]
  <2>1. y \in Edit
    BY WikiAssumption DEF Edit
  <2> QED BY <1>3, <2>1, EditorStepKeeps DEF BeginRestore
<1>4. ASSUME NEW e \in Editors, NEW n \in Numbers, ReadSource(e, n) PROVE WikiInv'
  <2> DEFINE y == [pc |-> "number", text |-> revisions[n], next |-> 1]
  <2>1. revisions[n] \in Texts /\ page.state # "unborn"
    BY <1>4 DEF ReadSource, Written, WikiInv, WikiTypeOK, UnbornInv
  <2>2. y \in Edit
    BY <2>1, WikiAssumption DEF Edit
  <2> QED BY <1>4, <2>1, <2>2, EditorStepKeeps DEF ReadSource
<1>5. ASSUME NEW e \in Editors, ReadNumber(e) PROVE WikiInv'
  <2>1. PICK n \in 0..MaxRevision :
          /\ IsLatest(n)
          /\ editors' = [editors EXCEPT ![e] = [@ EXCEPT !.pc = "update", !.next = n + 1]]
    BY <1>5 DEF ReadNumber
  <2> DEFINE y == [editors[e] EXCEPT !.pc = "update", !.next = n + 1]
  <2>2. n + 1 \in 1..(MaxRevision + 1) /\ (n + 1 = 1 \/ (n + 1) - 1 \in Written)
    BY <2>1, WikiAssumption DEF IsLatest, Numbers, Written
  <2>3. y \in Edit /\ y.pc = "update" /\ y.next = n + 1 /\ y.text = editors[e].text
    <3> HIDE DEF y
    <3> QED BY <1>0, <2>2, EditTypes DEF y
  <2>4. editors' = [editors EXCEPT ![e] = y]
    BY <2>1
  <2>5. editors[e].pc = "number" /\ UNCHANGED <<page, revisions>>
    BY <1>5 DEF ReadNumber
  <2>6. editors[e].text \in Texts /\ page.state # "unborn"
    BY <2>5 DEF WikiInv, EditorInv, UnbornInv
  <2> HIDE DEF y
  <2> QED BY <2>2, <2>3, <2>4, <2>5, <2>6, EditorStepKeeps
<1>6. ASSUME NEW e \in Editors, UpdatePage(e) PROVE WikiInv'
  <2> DEFINE y == [editors[e] EXCEPT !.pc = "insert"]
  <2>1. /\ y \in Edit /\ y.pc = "insert"
        /\ y.next = editors[e].next /\ y.text = editors[e].text
    <3> HIDE DEF y
    <3> QED BY <1>0, EditTypes DEF y
  <2>2. editors' = [editors EXCEPT ![e] = y] /\ UNCHANGED <<page, revisions>>
    BY <1>6 DEF UpdatePage
  <2>3. editors[e].pc = "update" /\ ~Locked /\ page.state = "live"
    BY <1>6 DEF UpdatePage
  <2>4. editors[e].text \in Texts /\ (editors[e].next = 1 \/ editors[e].next - 1 \in Written)
    BY <2>3 DEF WikiInv, EditorInv
  <2> HIDE DEF y
  <2> QED BY <2>1, <2>2, <2>3, <2>4, EditorStepKeeps
<1>7. ASSUME NEW e \in Editors, CommitRevision(e) PROVE WikiInv'
  BY <1>7, CommitKeeps
<1>8. ASSUME NEW e \in Editors, Abandon(e) PROVE WikiInv'
  <2>1. NoEdit \in Edit /\ NoEdit.pc = "idle"
    BY WikiAssumption DEF NoEdit, Edit
  <2> QED BY <1>8, <2>1, EditorStepKeeps DEF Abandon
<1>9. CASE DeleteWikiPage
  BY <1>9, DeleteWikiKeeps
<1>10. CASE UNCHANGED wikiVars
  BY <1>10 DEF wikiVars, WikiInv, WikiTypeOK, RevisionsContiguous, PageIsLatest, LockInv,
     UnbornInv, EditorInv, Written, IsLatest
<1> QED BY <1>1, <1>2, <1>3, <1>4, <1>5, <1>6, <1>7, <1>8, <1>9, <1>10 DEF WikiNext

\* Every row and every transaction on a page has its type.
THEOREM WikiTypeCorrect == WikiSpec => []WikiTypeOK
<1>1. WikiInv => WikiTypeOK
  BY DEF WikiInv
<1> QED BY <1>1, WikiInitial, WikiStep, PTL DEF WikiSpec

\* However many edits and restores of a page overlap and fail, its revisions
\* are numbered without a gap and its text is that of the highest one.
THEOREM HistoryCorrect == WikiSpec => []HistoryEndsWithPage
<1>1. WikiInv => HistoryEndsWithPage
  BY DEF WikiInv, HistoryEndsWithPage
<1> QED BY <1>1, WikiInitial, WikiStep, PTL DEF WikiSpec

-----------------------------------------------------------------------------
(* Files.                                                                  *)

\* An upload that has not inserted its row yet.
Before(r) == upload[r].pc \in {"tenant", "user", "store", "insert"}

\* Nobody else has the file of an upload, which has no row yet, and whose
\* bytes are in the store once they have been stored.
UploadOK(r) ==
  /\ Before(r) => upload[r].file \cap rows = {}
  /\ upload[r].pc = "insert" => upload[r].file \subseteq blobs
  /\ upload[r].pc = "cleanup" => upload[r].file \cap rows \subseteq doubted
  /\ upload[r].file \cap fresh = {}

\* A deletion has one file that had a row, and has none when its blob goes.
RemovalOK(d) ==
  /\ removal[d].pc # "idle" => \E f \in Files : removal[d].file = {f}
  /\ removal[d].pc = "blob" => removal[d].file \cap rows = {}
  /\ removal[d].file \cap fresh = {}
  /\ \A r \in Uploads : Before(r) => removal[d].file \cap upload[r].file = {}

Apart == \A r, q \in Uploads : r = q \/ upload[r].file \cap upload[q].file = {}

FilesInv ==
  /\ FilesTypeOK
  /\ \A r \in Uploads : UploadOK(r)
  /\ \A d \in Removals : RemovalOK(d)
  /\ Apart
  /\ fresh \cap rows = {}
  /\ StoreAgrees

\* A file is pending when an upload or a deletion in flight has its blob.
Awaited(f) ==
  \/ \E r \in Uploads : upload[r].pc \in {"insert", "cleanup"} /\ f \in upload[r].file
  \/ \E d \in Removals : removal[d].pc = "blob" /\ f \in removal[d].file

PendingIsAwaited == \A f : f \in Pending <=> Awaited(f)

LEMMA PendingIs == PendingIsAwaited
<1> SUFFICES ASSUME NEW f
             PROVE  f \in Pending <=>
                      \/ \E r \in Uploads :
                           upload[r].pc \in {"insert", "cleanup"} /\ f \in upload[r].file
                      \/ \E d \in Removals : removal[d].pc = "blob" /\ f \in removal[d].file
  BY DEF PendingIsAwaited, Awaited
<1> DEFINE U == {upload[r].file : r \in {q \in Uploads : upload[q].pc \in {"insert", "cleanup"}}}
           D == {removal[d].file : d \in {e \in Removals : removal[e].pc = "blob"}}
<1>1. f \in UNION U <=>
        \E r \in Uploads : upload[r].pc \in {"insert", "cleanup"} /\ f \in upload[r].file
  BY Zenon
<1>2. f \in UNION D <=> \E d \in Removals : removal[d].pc = "blob" /\ f \in removal[d].file
  BY Zenon
<1>3. Pending = (UNION U) \cup (UNION D)
  BY DEF Pending
<1> HIDE DEF U, D
<1>4. f \in Pending <=> f \in UNION U \/ f \in UNION D
  BY <1>3
<1> QED BY <1>1, <1>2, <1>4, Zenon

LEMMA UploadTypes ==
  ASSUME NEW x \in UploadsInFlight,
         NEW pc \in {"idle", "tenant", "user", "store", "insert", "cleanup"}
  PROVE  LET y == [x EXCEPT !.pc = pc]
         IN  y \in UploadsInFlight /\ y.pc = pc /\ y.file = x.file
BY DEF UploadsInFlight

LEMMA RemovalTypes ==
  ASSUME NEW x \in RemovalsInFlight
  PROVE  LET y == [x EXCEPT !.pc = "blob"]
         IN  y \in RemovalsInFlight /\ y.pc = "blob" /\ y.file = x.file
BY DEF RemovalsInFlight

LEMMA NothingInFlight ==
  /\ NoUpload \in UploadsInFlight /\ NoUpload.pc = "idle" /\ NoUpload.file = {}
  /\ NoRemoval \in RemovalsInFlight /\ NoRemoval.pc = "idle" /\ NoRemoval.file = {}
BY DEF NoUpload, NoRemoval, UploadsInFlight, RemovalsInFlight

LEMMA FilesInitial == FilesInit => FilesInv
<1> SUFFICES ASSUME FilesInit PROVE FilesInv
  OBVIOUS
<1>1. /\ rows = {} /\ blobs = {} /\ abandoned = {} /\ doubted = {} /\ fresh = Files
      /\ limits \in Quotas /\ everLimits = {limits}
      /\ upload = [r \in Uploads |-> NoUpload]
      /\ removal = [d \in Removals |-> NoRemoval]
  BY DEF FilesInit
<1>2. FilesTypeOK
  BY <1>1, NothingInFlight DEF FilesTypeOK
<1>3. \A r \in Uploads : UploadOK(r)
  BY <1>1, NothingInFlight DEF UploadOK, Before
<1>4. \A d \in Removals : RemovalOK(d)
  BY <1>1, NothingInFlight DEF RemovalOK, Before
<1>5. Apart /\ fresh \cap rows = {} /\ StoreAgrees
  BY <1>1, NothingInFlight DEF Apart, StoreAgrees, RowsHaveBlobs, OrphansExplained
<1> QED BY <1>2, <1>3, <1>4, <1>5 DEF FilesInv

LEMMA PendingNextIs == PendingIsAwaited'
BY PendingIs, PTL

\* A step of an upload that touches no bytes and no rows but its own.
LEMMA UploadStepKeeps ==
  ASSUME FilesInv, NEW r \in Uploads, NEW y \in UploadsInFlight,
         upload' = [upload EXCEPT ![r] = y],
         UNCHANGED <<removal, fresh, limits, everLimits>>,
         rows \subseteq rows', rows' \subseteq rows \cup upload[r].file,
         blobs \ upload[r].file \subseteq blobs', blobs' \subseteq blobs \cup upload[r].file,
         abandoned' \subseteq Files, doubted \subseteq doubted', doubted' \subseteq Files,
         y.file \subseteq upload[r].file,
         rows' # rows => Before(r),
         y.pc \in {"tenant", "user", "store", "insert"} => Before(r) /\ rows' = rows,
         y.pc = "insert" => y.file \subseteq blobs',
         y.pc = "cleanup" => y.file \cap rows' \subseteq doubted',
         StoreAgrees'
  PROVE  FilesInv'
<1>0. \A q \in Uploads : upload'[q] = IF q = r THEN y ELSE upload[q]
  BY DEF FilesInv, FilesTypeOK
<1>1. upload[r] \in UploadsInFlight /\ upload[r].file \subseteq Files
  BY DEF FilesInv, FilesTypeOK, UploadsInFlight
<1>2. FilesTypeOK'
  BY <1>1 DEF FilesInv, FilesTypeOK
<1>3. \A q \in Uploads : q # r => upload[q].file \cap upload[r].file = {}
  BY DEF FilesInv, Apart
<1>4. ASSUME NEW q \in Uploads PROVE UploadOK(q)'
  <2>1. CASE q = r
    BY <1>0, <2>1 DEF FilesInv, UploadOK, Before
  <2>2. CASE q # r
    BY <1>0, <1>3, <2>2 DEF FilesInv, UploadOK, Before
  <2> QED BY <2>1, <2>2
<1>5. ASSUME NEW d \in Removals PROVE RemovalOK(d)'
  <2>1. RemovalOK(d)
    BY DEF FilesInv
  <2>2. \A q \in Uploads : Before(q)' => Before(q) /\ upload'[q].file \subseteq upload[q].file
    BY <1>0 DEF Before
  <2>3. removal[d].pc = "blob" => removal[d].file \cap rows' = {}
    BY <2>1 DEF RemovalOK
  <2> QED BY <2>1, <2>2, <2>3 DEF RemovalOK
<1>6. Apart'
  BY <1>0, <1>3 DEF FilesInv, Apart
<1>7. fresh' \cap rows' = {}
  BY DEF FilesInv, UploadOK
<1> QED BY <1>2, <1>4, <1>5, <1>6, <1>7 DEF FilesInv

\* A step of a deletion, which takes the row of its file and then the bytes.
LEMMA RemovalStepKeeps ==
  ASSUME FilesInv, NEW d \in Removals, NEW y \in RemovalsInFlight,
         removal' = [removal EXCEPT ![d] = y],
         UNCHANGED <<upload, fresh, limits, everLimits, doubted>>,
         rows' \subseteq rows,
         blobs' \subseteq blobs, blobs \ removal[d].file \subseteq blobs',
         abandoned' \subseteq Files,
         y.pc # "idle" => \E f \in Files : y.file = {f},
         y.pc = "blob" => y.file \cap rows' = {},
         y.file \cap fresh = {},
         \A q \in Uploads : Before(q) => y.file \cap upload[q].file = {},
         StoreAgrees'
  PROVE  FilesInv'
<1>0. \A e \in Removals : removal'[e] = IF e = d THEN y ELSE removal[e]
  BY DEF FilesInv, FilesTypeOK
<1>1. FilesTypeOK'
  BY DEF FilesInv, FilesTypeOK
<1>2. ASSUME NEW q \in Uploads PROVE UploadOK(q)'
  <2>1. Before(q) => removal[d].file \cap upload[q].file = {}
    BY DEF FilesInv, RemovalOK
  <2>2. UploadOK(q)
    BY DEF FilesInv
  <2> QED BY <2>1, <2>2 DEF UploadOK, Before
<1>3. ASSUME NEW e \in Removals PROVE RemovalOK(e)'
  BY <1>0 DEF FilesInv, RemovalOK, Before
<1>4. Apart' /\ fresh' \cap rows' = {}
  BY DEF FilesInv, Apart
<1> QED BY <1>1, <1>2, <1>3, <1>4 DEF FilesInv

\* Rows and bytes still agree when those of the file of one upload do.
LEMMA UploadAgrees ==
  ASSUME FilesInv, NEW r \in Uploads, NEW y \in UploadsInFlight,
         upload' = [upload EXCEPT ![r] = y], UNCHANGED removal,
         rows \subseteq rows', rows' \subseteq rows \cup upload[r].file,
         blobs \ upload[r].file \subseteq blobs', blobs' \subseteq blobs \cup upload[r].file,
         abandoned \subseteq abandoned', doubted \subseteq doubted',
         \A f \in upload[r].file \cap rows' : f \in blobs' \cup doubted',
         \A f \in upload[r].file \cap blobs' :
           \/ f \in rows' \cup abandoned'
           \/ y.pc \in {"insert", "cleanup"} /\ f \in y.file
           \/ f \in blobs /\ upload[r].pc \notin {"insert", "cleanup"}
  PROVE  StoreAgrees'
<1>0. \A q \in Uploads : upload'[q] = IF q = r THEN y ELSE upload[q]
  BY DEF FilesInv, FilesTypeOK
<1>1. RowsHaveBlobs'
  BY DEF FilesInv, StoreAgrees, RowsHaveBlobs
<1>2. ASSUME NEW f \in blobs', f \notin rows', f \notin abandoned' PROVE Awaited(f)'
  <2>1. CASE y.pc \in {"insert", "cleanup"} /\ f \in y.file
    BY <1>0, <2>1 DEF Awaited
  <2>2. CASE f \in blobs /\ ~(upload[r].pc \in {"insert", "cleanup"} /\ f \in upload[r].file)
    <3>1. Awaited(f)
      BY <1>2, <2>2, PendingIs
         DEF FilesInv, StoreAgrees, OrphansExplained, PendingIsAwaited
    <3> QED BY <1>0, <2>2, <3>1 DEF Awaited
  <2> QED BY <1>2, <2>1, <2>2
<1>3. OrphansExplained'
  BY <1>2, PendingNextIs DEF OrphansExplained, PendingIsAwaited
<1> QED BY <1>1, <1>3 DEF StoreAgrees

LEMMA RemovalAgrees ==
  ASSUME FilesInv, NEW d \in Removals, NEW y \in RemovalsInFlight,
         removal' = [removal EXCEPT ![d] = y], UNCHANGED upload,
         rows' \subseteq rows, rows \ removal[d].file \subseteq rows',
         blobs \ removal[d].file \subseteq blobs', blobs' \subseteq blobs,
         abandoned \subseteq abandoned', UNCHANGED doubted,
         \A f \in removal[d].file \cap rows' : f \in blobs' \cup doubted,
         \A f \in removal[d].file \cap blobs' :
           \/ f \in rows' \cup abandoned'
           \/ y.pc = "blob" /\ f \in y.file
           \/ f \notin rows /\ removal[d].pc # "blob"
  PROVE  StoreAgrees'
<1>0. \A e \in Removals : removal'[e] = IF e = d THEN y ELSE removal[e]
  BY DEF FilesInv, FilesTypeOK
<1>1. RowsHaveBlobs'
  BY DEF FilesInv, StoreAgrees, RowsHaveBlobs
<1>2. ASSUME NEW f \in blobs', f \notin rows', f \notin abandoned' PROVE Awaited(f)'
  <2>1. CASE y.pc = "blob" /\ f \in y.file
    BY <1>0, <2>1 DEF Awaited
  <2>2. CASE f \notin rows /\ ~(removal[d].pc = "blob" /\ f \in removal[d].file)
    <3>1. Awaited(f)
      BY <1>2, <2>2, PendingIs
         DEF FilesInv, StoreAgrees, OrphansExplained, PendingIsAwaited
    <3> QED BY <1>0, <2>2, <3>1 DEF Awaited
  <2> QED BY <1>2, <2>1, <2>2
<1>3. OrphansExplained'
  BY <1>2, PendingNextIs DEF OrphansExplained, PendingIsAwaited
<1> QED BY <1>1, <1>3 DEF StoreAgrees

LEMMA BeginUploadKeeps ==
  ASSUME FilesInv, NEW r \in Uploads, NEW f \in Files, BeginUpload(r, f)
  PROVE  FilesInv'
<1> DEFINE y == [pc |-> "tenant", file |-> {f}, quotas |-> {limits}]
<1>1. /\ f \in fresh /\ fresh' = fresh \ {f} /\ upload[r].pc = "idle"
      /\ upload' = [upload EXCEPT ![r] = y]
      /\ UNCHANGED <<rows, blobs, limits, removal, everLimits, abandoned, doubted>>
  BY DEF BeginUpload
<1>2. y \in UploadsInFlight /\ y.pc = "tenant" /\ y.file = {f}
  BY DEF UploadsInFlight, FilesInv, FilesTypeOK
<1> HIDE DEF y
<1>3. \A q \in Uploads : upload'[q] = IF q = r THEN y ELSE upload[q]
  BY <1>1 DEF FilesInv, FilesTypeOK
<1>4. FilesTypeOK'
  BY <1>1, <1>2 DEF FilesInv, FilesTypeOK
<1>5. \A q \in Uploads : UploadOK(q)'
  BY <1>1, <1>2, <1>3 DEF FilesInv, UploadOK, Before
<1>6. \A d \in Removals : RemovalOK(d)'
  BY <1>1, <1>2, <1>3 DEF FilesInv, RemovalOK, Before
<1>7. Apart' /\ fresh' \cap rows' = {}
  BY <1>1, <1>2, <1>3 DEF FilesInv, Apart, UploadOK
<1>8. StoreAgrees'
  <2>1. \A g : Awaited(g) => Awaited(g)'
    BY <1>1, <1>3 DEF Awaited
  <2> QED BY <1>1, <2>1, PendingIs, PendingNextIs
          DEF FilesInv, StoreAgrees, RowsHaveBlobs, OrphansExplained, PendingIsAwaited
<1> QED BY <1>4, <1>5, <1>6, <1>7, <1>8 DEF FilesInv

LEMMA FilesStep == FilesInv /\ [FilesNext]_filesVars => FilesInv'
<1> SUFFICES ASSUME FilesInv, [FilesNext]_filesVars PROVE FilesInv'
  OBVIOUS
<1>0. /\ FilesTypeOK
      /\ \A r \in Uploads : UploadOK(r) /\ upload[r] \in UploadsInFlight
                              /\ upload[r].file \subseteq Files
      /\ \A d \in Removals : RemovalOK(d) /\ removal[d] \in RemovalsInFlight
                              /\ removal[d].file \subseteq Files
      /\ rows \subseteq blobs \cup doubted
  BY DEF FilesInv, FilesTypeOK, StoreAgrees, RowsHaveBlobs, UploadsInFlight, RemovalsInFlight
<1>1. CASE \E q \in Quotas : ChangeQuotas(q)
  <2>1. PICK q \in Quotas : ChangeQuotas(q)
    BY <1>1
  <2>2. FilesTypeOK'
    BY <2>1, <1>0 DEF ChangeQuotas, FilesTypeOK
  <2>3. StoreAgrees'
    BY <2>1 DEF ChangeQuotas, FilesInv, StoreAgrees, RowsHaveBlobs, OrphansExplained, Pending
  <2>4. /\ UNCHANGED <<rows, blobs, upload, removal, fresh, doubted>>
    BY <2>1 DEF ChangeQuotas
  <2>5. /\ \A r \in Uploads : UploadOK(r)'
        /\ \A d \in Removals : RemovalOK(d)'
    BY <2>4 DEF FilesInv, UploadOK, RemovalOK, Before
  <2>6. Apart' /\ fresh' \cap rows' = {}
    BY <2>4 DEF FilesInv, Apart
  <2> QED BY <2>2, <2>3, <2>5, <2>6 DEF FilesInv
<1>2. ASSUME NEW r \in Uploads, NEW f \in Files, BeginUpload(r, f) PROVE FilesInv'
  BY <1>2, BeginUploadKeeps
<1>3. ASSUME NEW r \in Uploads, NEW pc \in {"user", "store", "cleanup"}, Reach(r, pc),
             upload[r].pc = IF pc = "user" THEN "tenant"
                            ELSE IF pc = "store" THEN "user" ELSE "insert",
             UNCHANGED <<rows, blobs, limits, removal, fresh, everLimits, abandoned, doubted>>
      PROVE  FilesInv'
  <2> DEFINE y == [upload[r] EXCEPT !.pc = pc]
  <2>1. upload' = [upload EXCEPT ![r] = y]
    BY <1>3 DEF Reach
  <2>2. y \in UploadsInFlight /\ y.pc = pc /\ y.file = upload[r].file
    <3>1. upload[r] \in UploadsInFlight
      BY <1>0
    <3>2. pc \in {"idle", "tenant", "user", "store", "insert", "cleanup"}
      BY <1>3
    <3> QED BY ONLY <3>1, <3>2, UploadTypes
  <2> HIDE DEF y
  <2>3. StoreAgrees'
    BY <1>0, <1>3, <2>1, <2>2, UploadAgrees DEF UploadOK, Before
  <2> QED BY <1>0, <1>3, <2>1, <2>2, <2>3, UploadStepKeeps DEF UploadOK, Before, FilesTypeOK
<1>4. ASSUME NEW r \in Uploads, CheckTenantQuota(r) \/ CheckUserQuota(r) \/ InsertFails(r)
      PROVE  FilesInv'
  BY <1>3, <1>4 DEF CheckTenantQuota, CheckUserQuota, InsertFails
<1>5. ASSUME NEW r \in Uploads, StoreBlob(r) PROVE FilesInv'
  <2> DEFINE y == [upload[r] EXCEPT !.pc = "insert"]
  <2>1. /\ upload' = [upload EXCEPT ![r] = y] /\ upload[r].pc = "store"
        /\ blobs' = blobs \cup upload[r].file
        /\ UNCHANGED <<rows, limits, removal, fresh, everLimits, abandoned, doubted>>
    BY <1>5 DEF StoreBlob, Reach
  <2>2. y \in UploadsInFlight /\ y.pc = "insert" /\ y.file = upload[r].file
    <3> HIDE DEF y
    <3> QED BY <1>0, UploadTypes DEF y
  <2> HIDE DEF y
  <2>3. StoreAgrees'
    BY <1>0, <2>1, <2>2, UploadAgrees DEF UploadOK, Before
  <2> QED BY <1>0, <2>1, <2>2, <2>3, UploadStepKeeps DEF UploadOK, Before, FilesTypeOK
<1>6. ASSUME NEW r \in Uploads, InsertInDoubt(r) PROVE FilesInv'
  <2> DEFINE y == [upload[r] EXCEPT !.pc = "cleanup"]
  <2>1. /\ upload' = [upload EXCEPT ![r] = y] /\ upload[r].pc = "insert"
        /\ rows' = rows \cup upload[r].file /\ doubted' = doubted \cup upload[r].file
        /\ UNCHANGED <<blobs, limits, removal, fresh, everLimits, abandoned>>
    BY <1>6 DEF InsertInDoubt, Reach
  <2>2. y \in UploadsInFlight /\ y.pc = "cleanup" /\ y.file = upload[r].file
    <3> HIDE DEF y
    <3> QED BY <1>0, UploadTypes DEF y
  <2> HIDE DEF y
  <2>3. StoreAgrees'
    BY <1>0, <2>1, <2>2, UploadAgrees DEF UploadOK, Before
  <2> QED BY <1>0, <2>1, <2>2, <2>3, UploadStepKeeps DEF UploadOK, Before, FilesTypeOK
<1>7. ASSUME NEW r \in Uploads,
             StoreFails(r) \/ InsertRow(r) \/ CleanUp(r) \/ AbandonUpload(r)
      PROVE  FilesInv'
  <2>1. /\ upload' = [upload EXCEPT ![r] = NoUpload]
        /\ UNCHANGED <<limits, removal, fresh, everLimits, doubted>>
    BY <1>7 DEF StoreFails, InsertRow, CleanUp, AbandonUpload
  <2>2. StoreAgrees'
    <3>1. CASE StoreFails(r)
      BY <1>0, <2>1, <3>1, NothingInFlight, UploadAgrees DEF StoreFails, UploadOK, Before
    <3>2. CASE InsertRow(r)
      BY <1>0, <2>1, <3>2, NothingInFlight, UploadAgrees DEF InsertRow, UploadOK, Before
    <3>3. CASE CleanUp(r)
      BY <1>0, <2>1, <3>3, NothingInFlight, UploadAgrees DEF CleanUp, UploadOK, Before
    <3>4. CASE AbandonUpload(r)
      <4>1. /\ UNCHANGED <<rows, blobs>> /\ abandoned \subseteq abandoned'
            /\ upload[r].pc \in {"insert", "cleanup"} => upload[r].file \subseteq abandoned'
        BY <3>4 DEF AbandonUpload
      <4> QED BY <1>0, <2>1, <4>1, NothingInFlight, UploadAgrees DEF UploadOK, Before
    <3> QED BY <1>7, <3>1, <3>2, <3>3, <3>4
  <2>3. CASE StoreFails(r)
    BY <1>0, <2>1, <2>2, <2>3, NothingInFlight, UploadStepKeeps
       DEF StoreFails, UploadOK, Before, FilesTypeOK
  <2>4. CASE InsertRow(r)
    BY <1>0, <2>1, <2>2, <2>4, NothingInFlight, UploadStepKeeps
       DEF InsertRow, UploadOK, Before, FilesTypeOK
  <2>5. CASE CleanUp(r)
    BY <1>0, <2>1, <2>2, <2>5, NothingInFlight, UploadStepKeeps
       DEF CleanUp, UploadOK, Before, FilesTypeOK
  <2>6. CASE AbandonUpload(r)
    BY <1>0, <2>1, <2>2, <2>6, NothingInFlight, UploadStepKeeps
       DEF AbandonUpload, UploadOK, Before, FilesTypeOK
  <2> QED BY <1>7, <2>3, <2>4, <2>5, <2>6
<1>8. ASSUME NEW d \in Removals, NEW f \in Files, FindFile(d, f) PROVE FilesInv'
  <2> DEFINE y == [pc |-> "row", file |-> {f}]
  <2>1. /\ f \in rows /\ removal[d].pc = "idle"
        /\ removal' = [removal EXCEPT ![d] = y]
        /\ UNCHANGED <<rows, blobs, limits, upload, fresh, everLimits, abandoned, doubted>>
    BY <1>8 DEF FindFile
  <2>2. y \in RemovalsInFlight /\ y.pc = "row" /\ y.file = {f}
    BY DEF RemovalsInFlight
  <2> HIDE DEF y
  <2>3. f \notin fresh /\ \A q \in Uploads : Before(q) => f \notin upload[q].file
    BY <1>0, <2>1 DEF FilesInv, UploadOK
  <2>4. StoreAgrees'
    <3>1. \A g : Awaited(g) => Awaited(g)'
      BY <2>1 DEF Awaited, FilesTypeOK
    <3> QED BY <2>1, <3>1, PendingIs, PendingNextIs
            DEF FilesInv, StoreAgrees, RowsHaveBlobs, OrphansExplained, PendingIsAwaited
  <2> QED BY <1>0, <2>1, <2>2, <2>3, <2>4, RemovalStepKeeps DEF FilesTypeOK
<1>9. ASSUME NEW d \in Removals, DeleteRow(d) PROVE FilesInv'
  <2> DEFINE y == IF removal[d].file \subseteq rows
                  THEN [removal[d] EXCEPT !.pc = "blob"] ELSE NoRemoval
  <2>1. /\ removal' = [removal EXCEPT ![d] = y] /\ removal[d].pc = "row"
        /\ rows' = rows \ removal[d].file
        /\ UNCHANGED <<blobs, limits, upload, fresh, everLimits, abandoned, doubted>>
    BY <1>9 DEF DeleteRow
  <2>2. /\ y \in RemovalsInFlight
        /\ removal[d].file \subseteq rows => y.pc = "blob" /\ y.file = removal[d].file
        /\ ~(removal[d].file \subseteq rows) => y = NoRemoval
    BY <1>0, RemovalTypes, NothingInFlight
  <2> HIDE DEF y
  <2>3. PICK f \in Files : removal[d].file = {f}
    BY <1>0, <2>1 DEF RemovalOK
  <2>4. StoreAgrees'
    BY <1>0, <2>1, <2>2, <2>3, NothingInFlight, RemovalAgrees
  <2>5. /\ y.file \subseteq removal[d].file
        /\ y.pc # "idle" => y.file = {f}
        /\ y.file \cap rows' = {}
    BY <2>1, <2>2, <2>3, NothingInFlight
  <2>6. /\ y.file \cap fresh = {}
        /\ \A q \in Uploads : Before(q) => y.file \cap upload[q].file = {}
    BY <1>0, <2>5 DEF RemovalOK
  <2>7. /\ rows' \subseteq rows /\ blobs' \subseteq blobs
        /\ blobs \ removal[d].file \subseteq blobs' /\ abandoned' \subseteq Files
    BY <1>0, <2>1 DEF FilesTypeOK
  <2> QED BY <2>1, <2>2, <2>4, <2>5, <2>6, <2>7, RemovalStepKeeps
<1>10. ASSUME NEW d \in Removals, DeleteBlob(d) \/ AbandonRemoval(d) PROVE FilesInv'
  <2>1. /\ removal' = [removal EXCEPT ![d] = NoRemoval]
        /\ UNCHANGED <<rows, limits, upload, fresh, everLimits, doubted>>
        /\ blobs' \subseteq blobs /\ blobs \ removal[d].file \subseteq blobs'
        /\ blobs' # blobs => removal[d].pc = "blob" /\ removal[d].file \cap blobs' = {}
        /\ abandoned \subseteq abandoned' /\ abandoned' \subseteq abandoned \cup removal[d].file
        /\ removal[d].pc = "blob" =>
             removal[d].file \cap blobs' = {} \/ removal[d].file \subseteq abandoned'
    BY <1>10 DEF DeleteBlob, AbandonRemoval
  <2>2. removal[d].pc = "blob" => removal[d].file \cap rows = {}
    BY <1>0 DEF RemovalOK
  <2>3. StoreAgrees'
    <3>1. \A f \in removal[d].file \cap rows' : f \in blobs' \cup doubted
      <4>1. CASE blobs' = blobs
        BY <1>0, <2>1, <4>1
      <4>2. CASE blobs' # blobs
        BY <2>1, <2>2, <4>2
      <4> QED BY <4>1, <4>2
    <3>2. \A f \in removal[d].file \cap blobs' :
            f \in rows' \cup abandoned' \/ (f \notin rows /\ removal[d].pc # "blob")
      BY <2>1
    <3> QED BY <2>1, <3>1, <3>2, NothingInFlight, RemovalAgrees
  <2> QED BY <1>0, <2>1, <2>3, NothingInFlight, RemovalStepKeeps DEF FilesTypeOK
<1>11. CASE UNCHANGED filesVars
  BY <1>11 DEF filesVars, FilesInv, FilesTypeOK, UploadOK, RemovalOK, Before, Apart,
     StoreAgrees, RowsHaveBlobs, OrphansExplained, Pending
<1> QED BY <1>1, <1>2, <1>4, <1>5, <1>6, <1>7, <1>8, <1>9, <1>10, <1>11 DEF FilesNext

\* Every table and every request about files has its type.
THEOREM FilesTypeCorrect == FilesSpec => []FilesTypeOK
<1>1. FilesInv => FilesTypeOK
  BY DEF FilesInv
<1> QED BY <1>1, FilesInitial, FilesStep, PTL DEF FilesSpec

\* For any number of uploads and deletions that fail or die anywhere: a row
\* has its bytes unless its insert was in doubt, and bytes without a row are
\* under way or were left by a failure.
THEOREM StoreCorrect == FilesSpec => []StoreAgrees
<1>1. FilesInv => StoreAgrees
  BY DEF FilesInv
<1> QED BY <1>1, FilesInitial, FilesStep, PTL DEF FilesSpec

-----------------------------------------------------------------------------
(* AI feedback drafts.                                                     *)

\* Requests that one process has in flight.
Peers(r, q) == InFlight(r) /\ InFlight(q) /\ ServerOf[r] = ServerOf[q]

\* f orders the requests in flight of each process by their arrival: the map
\* has the last of them, each waits for the one just before it, and the one
\* whose turn it is is the first.
Ordered(f) ==
  /\ f \in [Requests -> Nat]
  /\ \A r \in Requests : InFlight(r) => last[ServerOf[r]] # Nobody
  /\ \A s \in Servers : last[s] # Nobody => InFlight(last[s]) /\ ServerOf[last[s]] = s
  /\ \A r \in Requests : InFlight(r) => f[r] <= f[last[ServerOf[r]]]
  /\ \A r, q \in Requests : Peers(r, q) /\ f[r] = f[q] => r = q
  /\ \A r \in Requests :
       InFlight(r) /\ before[r] # Nobody /\ InFlight(before[r]) =>
         /\ ServerOf[before[r]] = ServerOf[r]
         /\ f[before[r]] < f[r]
         /\ \A q \in Requests : Peers(r, q) /\ f[q] < f[r] => f[q] <= f[before[r]]
  /\ \A r, q \in Requests : Peers(r, q) /\ HasTurn(r) => f[r] <= f[q]

\* Whoever waits, waits for one that has entered; whoever works has its turn.
QueueInv ==
  /\ \E f : Ordered(f)
  /\ \A r \in Requests : InFlight(r) /\ before[r] # Nobody => stage[before[r]] # "new"
  /\ \A r \in Requests : stage[r] \in {"generate", "save", "announce"} => HasTurn(r)

\* A generation that was not lost is about to be saved or there is a draft, and
\* nobody of its process is about to generate another.
DraftInv ==
  /\ \A r \in generated : stage[r] \in {"save", "announce", "done", "failed"}
  /\ \A r \in Requests : stage[r] = "save" => r \in generated
  /\ \A r \in generated \ unsaved : stage[r] = "save" \/ draft # Nobody
  /\ \A r \in Requests, q \in generated \ unsaved :
       stage[r] = "generate" => ServerOf[r] # ServerOf[q]

FeedbackInv == FeedbackTypeOK /\ QueueInv /\ DraftInv /\ GeneratedOnce

LEMMA FeedbackInitial == FeedbackInit => FeedbackInv
<1> SUFFICES ASSUME FeedbackInit PROVE FeedbackInv
  OBVIOUS
<1>1. FeedbackTypeOK
  BY FeedbackAssumption DEF FeedbackInit, FeedbackTypeOK, Stages
<1>2. \A r \in Requests : ~InFlight(r) /\ stage[r] = "new"
  BY DEF FeedbackInit, InFlight
<1>3. Ordered([r \in Requests |-> 0])
  BY <1>2, FeedbackAssumption DEF Ordered, Peers, FeedbackInit
<1>4. QueueInv /\ DraftInv /\ GeneratedOnce
  BY <1>2, <1>3, Zenon DEF QueueInv, DraftInv, GeneratedOnce, FeedbackInit
<1> QED BY <1>1, <1>4 DEF FeedbackInv

\* The turn is one request's of a process.
LEMMA OneTurn ==
  ASSUME FeedbackTypeOK, QueueInv, NEW r \in Requests, NEW q \in Requests,
         Peers(r, q), HasTurn(r), HasTurn(q)
  PROVE  r = q
<1>1. PICK f : Ordered(f)
  BY DEF QueueInv
<1>2. f[r] \in Nat /\ f[q] \in Nat /\ f[r] <= f[q] /\ f[q] <= f[r]
  BY <1>1 DEF Ordered, Peers
<1> QED BY <1>1, <1>2 DEF Ordered

Flying == {"wait", "generate", "save", "announce"}

LEMMA Trichotomy ==
  ASSUME FeedbackTypeOK, NEW r \in Requests
  PROVE  /\ stage[r] = "new" \/ InFlight(r) \/ Over(r)
         /\ ~(stage[r] = "new" /\ (InFlight(r) \/ Over(r)))
         /\ ~(InFlight(r) /\ Over(r))
BY DEF FeedbackTypeOK, Stages, InFlight, Over

\* A request enters behind the last one.
LEMMA EnterQueue ==
  ASSUME FeedbackTypeOK, QueueInv, NEW r \in Requests, Enter(r)
  PROVE  QueueInv'
<1> DEFINE s == ServerOf[r]
           b == last[s]
<1>1. /\ stage[r] = "new" /\ stage' = [stage EXCEPT ![r] = "wait"]
      /\ before' = [before EXCEPT ![r] = b] /\ last' = [last EXCEPT ![s] = r]
      /\ s \in Servers /\ b \in Requests \cup {Nobody} /\ r # Nobody
  BY FeedbackAssumption DEF Enter, FeedbackTypeOK
<1>2. PICK f : Ordered(f)
  BY DEF QueueInv
<1>3. /\ \A q \in Requests : stage'[q] \in Flying <=> (q = r \/ InFlight(q))
      /\ \A q \in Requests : Over(q)' <=> Over(q)
      /\ ~InFlight(r) /\ ~Over(r)
  BY <1>1 DEF FeedbackTypeOK, InFlight, Over, Flying
<1>4. /\ \A q \in Requests : before'[q] = IF q = r THEN b ELSE before[q]
      /\ \A t \in Servers : last'[t] = IF t = s THEN r ELSE last[t]
      /\ \A q \in Requests : ServerOf[q] \in Servers
      /\ \A q \in Requests : before[q] \in Requests \cup {Nobody}
  BY <1>1, FeedbackAssumption DEF FeedbackTypeOK
<1>5. b # Nobody => b \in Requests /\ InFlight(b) /\ ServerOf[b] = s
  BY <1>1, <1>2 DEF Ordered
<1>6. \A q \in Requests : InFlight(q) /\ ServerOf[q] = s => b # Nobody /\ f[q] <= f[b]
  BY <1>2 DEF Ordered
<1>7. PICK g \in [Requests -> Nat] :
        /\ \A q \in Requests : q # r => g[q] = f[q]
        /\ g[r] = IF b = Nobody THEN 0 ELSE f[b] + 1
        /\ \A q \in Requests : f[q] \in Nat
  <2> DEFINE k == IF b = Nobody THEN 0 ELSE f[b] + 1
  <2>1. k \in Nat /\ f \in [Requests -> Nat]
    BY <1>2, <1>5 DEF Ordered
  <2> HIDE DEF k
  <2> DEFINE h == [f EXCEPT ![r] = k]
  <2>2. /\ h \in [Requests -> Nat] /\ h[r] = k
        /\ \A q \in Requests : (q # r => h[q] = f[q]) /\ f[q] \in Nat
    BY <2>1
  <2> HIDE DEF h
  <2> QED BY <2>2 DEF k
<1>8. \A q \in Requests : InFlight(q) /\ ServerOf[q] = s => g[q] < g[r] /\ g[q] <= f[b]
  BY <1>3, <1>5, <1>6, <1>7
<1>9. \A q \in Requests : stage'[q] \in Flying /\ before'[q] # Nobody => stage'[before'[q]] # "new"
  <2> SUFFICES ASSUME NEW q \in Requests, stage'[q] \in Flying, before'[q] # Nobody
               PROVE  stage'[before'[q]] # "new"
    OBVIOUS
  <2>1. CASE q = r
    BY <1>1, <1>3, <1>4, <1>5, <2>1 DEF FeedbackTypeOK, InFlight
  <2>2. CASE q # r
    BY <1>1, <1>3, <1>4, <2>2 DEF FeedbackTypeOK, QueueInv
  <2> QED BY <2>1, <2>2
<1>10. \A q \in Requests : stage'[q] \in {"generate", "save", "announce"} => HasTurn(q)'
  BY <1>1, <1>3, <1>4 DEF FeedbackTypeOK, QueueInv, HasTurn
<1>11. \A q, p \in Requests : Peers(q, p)' =>
         \/ Peers(q, p)
         \/ q = r /\ p = r
         \/ q = r /\ InFlight(p) /\ ServerOf[p] = s
         \/ p = r /\ InFlight(q) /\ ServerOf[q] = s
  BY <1>3 DEF Peers, InFlight, Flying
<1>12. \A q \in Requests : stage'[q] \in Flying =>
         last'[ServerOf[q]] # Nobody /\ g[q] <= g[last'[ServerOf[q]]]
  <2> SUFFICES ASSUME NEW q \in Requests, stage'[q] \in Flying
               PROVE  last'[ServerOf[q]] # Nobody /\ g[q] <= g[last'[ServerOf[q]]]
    OBVIOUS
  <2>1. CASE q = r
    BY <1>1, <1>4, <1>7, <2>1
  <2>2. CASE q # r /\ ServerOf[q] = s
    BY <1>1, <1>3, <1>4, <1>7, <1>8, <2>2
  <2>3. CASE ServerOf[q] # s
    <3>1. InFlight(q) /\ last'[ServerOf[q]] = last[ServerOf[q]]
      BY <1>3, <1>4, <2>3
    <3>2. last[ServerOf[q]] # Nobody /\ f[q] <= f[last[ServerOf[q]]]
          /\ InFlight(last[ServerOf[q]]) /\ last[ServerOf[q]] \in Requests
      BY <1>2, <1>4, <3>1 DEF Ordered, FeedbackTypeOK
    <3> QED BY <1>3, <1>7, <2>3, <3>1, <3>2
  <2> QED BY <2>1, <2>2, <2>3
<1>13. \A t \in Servers : last'[t] # Nobody => stage'[last'[t]] \in Flying /\ ServerOf[last'[t]] = t
  <2> SUFFICES ASSUME NEW t \in Servers, last'[t] # Nobody
               PROVE  stage'[last'[t]] \in Flying /\ ServerOf[last'[t]] = t
    OBVIOUS
  <2>1. CASE t = s
    BY <1>1, <1>3, <1>4, <2>1
  <2>2. CASE t # s
    <3>1. last'[t] = last[t] /\ last[t] \in Requests
      BY <1>4, <2>2 DEF FeedbackTypeOK
    <3>2. InFlight(last[t]) /\ ServerOf[last[t]] = t
      BY <1>2, <3>1 DEF Ordered
    <3> QED BY <1>3, <3>1, <3>2
  <2> QED BY <2>1, <2>2
<1>14. \A q, p \in Requests : Peers(q, p)' /\ g[q] = g[p] => q = p
  <2> SUFFICES ASSUME NEW q \in Requests, NEW p \in Requests, Peers(q, p)', g[q] = g[p]
               PROVE  q = p
    OBVIOUS
  <2>1. CASE Peers(q, p)
    BY <1>2, <1>3, <1>7, <2>1 DEF Ordered, Peers
  <2>2. CASE ~Peers(q, p)
    BY <1>7, <1>8, <1>11, <2>2
  <2> QED BY <2>1, <2>2
<1>15. \A q \in Requests :
         stage'[q] \in Flying /\ before'[q] # Nobody /\ stage'[before'[q]] \in Flying =>
           /\ ServerOf[before'[q]] = ServerOf[q]
           /\ g[before'[q]] < g[q]
           /\ \A p \in Requests : Peers(q, p)' /\ g[p] < g[q] => g[p] <= g[before'[q]]
  <2> SUFFICES ASSUME NEW q \in Requests,
                      stage'[q] \in Flying, before'[q] # Nobody, stage'[before'[q]] \in Flying
               PROVE  /\ ServerOf[before'[q]] = ServerOf[q]
                      /\ g[before'[q]] < g[q]
                      /\ \A p \in Requests : Peers(q, p)' /\ g[p] < g[q] => g[p] <= g[before'[q]]
    OBVIOUS
  <2>1. CASE q = r
    <3>1. before'[q] = b /\ b \in Requests /\ InFlight(b) /\ ServerOf[b] = s /\ b # r
      BY <1>3, <1>4, <1>5, <2>1
    <3>2. g[b] = f[b] /\ g[r] = f[b] + 1 /\ f[b] \in Nat
      BY <1>5, <1>7, <2>1, <3>1
    <3>3. ASSUME NEW p \in Requests, Peers(q, p)', g[p] < g[q] PROVE g[p] <= g[b]
      <4>1. p # r /\ InFlight(p) /\ ServerOf[p] = s
        BY <1>3, <1>7, <1>11, <2>1, <3>3 DEF Peers
      <4> QED BY <1>8, <3>2, <4>1
    <3> QED BY <2>1, <3>1, <3>2, <3>3
  <2>2. CASE q # r
    <3>1. before'[q] = before[q] /\ InFlight(q) /\ before[q] \in Requests
      BY <1>3, <1>4, <2>2
    <3>2. before[q] # r
      BY <1>1, <3>1 DEF QueueInv
    <3>3. InFlight(before[q]) /\ ServerOf[before[q]] = ServerOf[q] /\ f[before[q]] < f[q]
      BY <1>2, <1>3, <3>1, <3>2 DEF Ordered
    <3>4. g[before[q]] = f[before[q]] /\ g[q] = f[q]
      BY <1>7, <2>2, <3>1, <3>2
    <3>5. ASSUME NEW p \in Requests, Peers(q, p)', g[p] < g[q] PROVE g[p] <= g[before[q]]
      <4>1. p # r
        BY <1>7, <1>8, <3>1, <3>5 DEF Peers
      <4>2. Peers(q, p) /\ g[p] = f[p]
        BY <1>7, <1>11, <2>2, <3>5, <4>1
      <4> QED BY <1>2, <3>1, <3>3, <3>4, <3>5, <4>2 DEF Ordered
    <3> QED BY <3>1, <3>3, <3>4, <3>5
  <2> QED BY <2>1, <2>2
<1>16. \A q, p \in Requests : Peers(q, p)' /\ HasTurn(q)' => g[q] <= g[p]
  <2> SUFFICES ASSUME NEW q \in Requests, NEW p \in Requests, Peers(q, p)', HasTurn(q)'
               PROVE  g[q] <= g[p]
    OBVIOUS
  <2>1. CASE q = r
    <3>1. b = Nobody
      BY <1>3, <1>4, <1>5, <2>1, Trichotomy DEF HasTurn
    <3>2. p = r
      BY <1>6, <1>11, <2>1, <3>1 DEF Peers
    <3> QED BY <1>7, <2>1, <3>2
  <2>2. CASE q # r /\ p = r
    BY <1>7, <1>8, <1>11, <2>2 DEF Peers
  <2>3. CASE q # r /\ p # r
    <3>1. Peers(q, p)
      BY <1>11, <2>3
    <3>2. HasTurn(q)
      BY <1>3, <1>4, <2>3 DEF HasTurn, Over
    <3> QED BY <1>2, <1>7, <2>3, <3>1, <3>2 DEF Ordered
  <2> QED BY <2>1, <2>2, <2>3
<1>17. Ordered(g)'
  <2>1. /\ \A q \in Requests : InFlight(q)' => last'[ServerOf[q]] # Nobody
        /\ \A q \in Requests : InFlight(q)' => g[q] <= g[last'[ServerOf[q]]]
    BY <1>12 DEF InFlight, Flying
  <2>2. (\A t \in Servers : last[t] # Nobody => InFlight(last[t]) /\ ServerOf[last[t]] = t)'
    BY <1>13 DEF InFlight, Flying
  <2>3. (\A q \in Requests :
           InFlight(q) /\ before[q] # Nobody /\ InFlight(before[q]) =>
             /\ ServerOf[before[q]] = ServerOf[q]
             /\ g[before[q]] < g[q]
             /\ \A p \in Requests : Peers(q, p) /\ g[p] < g[q] => g[p] <= g[before[q]])'
    BY <1>15 DEF InFlight, Flying
  <2> QED BY <1>7, <1>14, <1>16, <2>1, <2>2, <2>3 DEF Ordered
<1>18. (\A q \in Requests : InFlight(q) /\ before[q] # Nobody => stage[before[q]] # "new")'
  BY <1>9 DEF InFlight, Flying
<1>19. (\E h : Ordered(h))'
  BY <1>17
<1> QED BY <1>10, <1>18, <1>19 DEF QueueInv

\* Some requests that are not waited for by anybody with a turn of its own
\* are over: those of a set S, all of one process, which are either all of its
\* requests or the one whose turn it is.
LEMMA LeaveQueue ==
  ASSUME FeedbackTypeOK, QueueInv, NEW s \in Servers, NEW S \in SUBSET Requests,
         \A r \in S : InFlight(r) /\ ServerOf[r] = s /\ Over(r)',
         \A r \in Requests \ S : stage'[r] = stage[r],
         before' = before,
         \A t \in Servers : t # s => last'[t] = last[t],
         \/ \A r \in Requests : InFlight(r) /\ ServerOf[r] = s => r \in S
         \/ \E r \in S : S = {r} /\ HasTurn(r),
         last'[s] = IF last[s] = Nobody \/ last[s] \in S THEN Nobody ELSE last[s]
  PROVE  QueueInv'
<1>1. PICK f : Ordered(f)
  BY DEF QueueInv
<1>2. /\ \A q \in Requests : stage'[q] \in Flying <=> InFlight(q) /\ q \notin S
      /\ \A q \in Requests : Over(q) \/ q \in S <=> stage'[q] \in {"done", "failed"}
      /\ \A q \in Requests : ServerOf[q] \in Servers
      /\ \A q \in Requests : before[q] \in Requests \cup {Nobody}
      /\ \A t \in Servers : last[t] \in Requests \cup {Nobody}
      /\ \A q \in Requests : f[q] \in Nat
  BY <1>1, FeedbackAssumption DEF FeedbackTypeOK, InFlight, Over, Flying, Ordered
<1>3. \A q, p \in Requests : Peers(q, p)' <=> Peers(q, p) /\ q \notin S /\ p \notin S
  BY <1>2 DEF Peers, InFlight, Flying
<1>4. \A r, q \in Requests : Peers(r, q) /\ r \in S /\ q \notin S =>
        S = {r} /\ HasTurn(r) /\ f[r] < f[q]
  <2> SUFFICES ASSUME NEW r \in Requests, NEW q \in Requests, Peers(r, q), r \in S, q \notin S
               PROVE  S = {r} /\ HasTurn(r) /\ f[r] < f[q]
    OBVIOUS
  <2>1. S = {r} /\ HasTurn(r)
    BY DEF Peers
  <2>2. f[r] <= f[q] /\ f[r] # f[q]
    BY <1>1, <2>1 DEF Ordered
  <2> QED BY <1>2, <2>1, <2>2
<1>5. \A q \in Requests : stage'[q] \in Flying =>
        last'[ServerOf[q]] = last[ServerOf[q]] /\ last[ServerOf[q]] # Nobody
  <2> SUFFICES ASSUME NEW q \in Requests, InFlight(q), q \notin S
               PROVE  last'[ServerOf[q]] = last[ServerOf[q]] /\ last[ServerOf[q]] # Nobody
    BY <1>2
  <2> DEFINE l == last[ServerOf[q]]
  <2>1. l # Nobody /\ l \in Requests /\ InFlight(l) /\ ServerOf[l] = ServerOf[q] /\ f[q] <= f[l]
    BY <1>1, <1>2 DEF Ordered
  <2>2. l \notin S
    <3> SUFFICES ASSUME l \in S PROVE FALSE
      OBVIOUS
    <3>1. Peers(l, q)
      BY <2>1 DEF Peers
    <3>2. f[l] < f[q]
      BY <1>4, <2>1, <3>1
    <3> QED BY <1>2, <2>1, <3>2
  <2> QED BY <1>2, <2>1, <2>2
<1>6. (\A q \in Requests : InFlight(q) => last[ServerOf[q]] # Nobody)'
  BY <1>5 DEF InFlight, Flying
<1>7. (\A t \in Servers : last[t] # Nobody => InFlight(last[t]) /\ ServerOf[last[t]] = t)'
  <2> SUFFICES ASSUME NEW t \in Servers, last'[t] # Nobody
               PROVE  stage'[last'[t]] \in Flying /\ ServerOf[last'[t]] = t
    BY DEF InFlight, Flying
  <2>1. last'[t] = last[t] /\ last[t] # Nobody /\ last[t] \in Requests
    BY <1>2
  <2>2. InFlight(last[t]) /\ ServerOf[last[t]] = t
    BY <1>1, <2>1 DEF Ordered
  <2>3. last[t] \notin S
    BY <2>1, <2>2
  <2> QED BY <1>2, <2>1, <2>2, <2>3
<1>8. (\A q \in Requests : InFlight(q) => f[q] <= f[last[ServerOf[q]]])'
  <2> SUFFICES ASSUME NEW q \in Requests, stage'[q] \in Flying
               PROVE  f[q] <= f[last'[ServerOf[q]]]
    BY DEF InFlight, Flying
  <2> QED BY <1>1, <1>2, <1>5 DEF Ordered
<1>9. (\A r, q \in Requests : Peers(r, q) /\ f[r] = f[q] => r = q)'
  BY <1>1, <1>3 DEF Ordered
<1>10. (\A r \in Requests :
          InFlight(r) /\ before[r] # Nobody /\ InFlight(before[r]) =>
            /\ ServerOf[before[r]] = ServerOf[r]
            /\ f[before[r]] < f[r]
            /\ \A q \in Requests : Peers(r, q) /\ f[q] < f[r] => f[q] <= f[before[r]])'
  <2> SUFFICES ASSUME NEW r \in Requests, stage'[r] \in Flying, before[r] # Nobody,
                      stage'[before[r]] \in Flying
               PROVE  /\ ServerOf[before[r]] = ServerOf[r]
                      /\ f[before[r]] < f[r]
                      /\ \A q \in Requests : Peers(r, q)' /\ f[q] < f[r] => f[q] <= f[before[r]]
    BY DEF InFlight, Flying
  <2>1. InFlight(r) /\ InFlight(before[r])
    BY <1>2
  <2> QED BY <1>1, <1>3, <2>1 DEF Ordered
<1>11. (\A r, q \in Requests : Peers(r, q) /\ HasTurn(r) => f[r] <= f[q])'
  <2> SUFFICES ASSUME NEW r \in Requests, NEW q \in Requests, Peers(r, q)', HasTurn(r)'
               PROVE  f[r] <= f[q]
    OBVIOUS
  <2>1. Peers(r, q) /\ r \notin S /\ q \notin S
    BY <1>3
  <2>2. before[r] = Nobody \/ Over(before[r]) \/ before[r] \in S
    BY <1>2 DEF HasTurn, Over
  <2>3. CASE HasTurn(r)
    BY <1>1, <2>1, <2>3 DEF Ordered
  <2>4. CASE ~HasTurn(r)
    <3> DEFINE b == before[r]
    <3>1. b \in S /\ b # Nobody
      BY <2>2, <2>4 DEF HasTurn
    <3>2. InFlight(b) /\ ServerOf[b] = ServerOf[r] /\ InFlight(r)
      BY <1>1, <2>1, <3>1 DEF Ordered, Peers
    <3>3. SUFFICES ASSUME f[q] < f[r] PROVE FALSE
      BY <1>2
    <3>4. f[q] <= f[b]
      BY <1>1, <2>1, <3>1, <3>2, <3>3 DEF Ordered
    <3>5. Peers(b, q)
      BY <2>1, <3>2 DEF Peers
    <3> QED BY <1>2, <1>4, <2>1, <3>1, <3>4, <3>5
  <2> QED BY <2>3, <2>4
<1>12. Ordered(f)'
  BY <1>1, <1>6, <1>7, <1>8, <1>9, <1>10, <1>11 DEF Ordered
<1>13. (\A q \in Requests : InFlight(q) /\ before[q] # Nobody => stage[before[q]] # "new")'
  <2> SUFFICES ASSUME NEW q \in Requests, stage'[q] \in Flying, before[q] # Nobody
               PROVE  stage'[before[q]] # "new"
    BY DEF InFlight, Flying
  <2>1. stage[before[q]] # "new" /\ before[q] \in Requests
    BY <1>2 DEF QueueInv
  <2>2. CASE before[q] \in S
    BY <1>2, <2>2
  <2>3. CASE before[q] \notin S
    BY <2>1, <2>3
  <2> QED BY <2>2, <2>3
<1>14. (\A q \in Requests : stage[q] \in {"generate", "save", "announce"} => HasTurn(q))'
  <2> SUFFICES ASSUME NEW q \in Requests, stage'[q] \in {"generate", "save", "announce"}
               PROVE  before[q] # Nobody => stage'[before[q]] \in {"done", "failed"}
    BY DEF HasTurn, Over
  <2>1. HasTurn(q)
    BY <1>2 DEF QueueInv
  <2> QED BY <1>2, <2>1 DEF HasTurn
<1> QED BY <1>12, <1>13, <1>14 DEF QueueInv

\* A request whose turn it is goes on, and the queue stays.
LEMMA ProgressQueue ==
  ASSUME FeedbackTypeOK, QueueInv, NEW r \in Requests, NEW x \in Flying,
         InFlight(r), HasTurn(r), stage' = [stage EXCEPT ![r] = x],
         before' = before, last' = last
  PROVE  QueueInv'
<1>1. PICK f : Ordered(f)
  BY DEF QueueInv
<1>2. /\ \A q \in Requests : stage'[q] = IF q = r THEN x ELSE stage[q]
      /\ \A q \in Requests : stage'[q] \in Flying <=> stage[q] \in Flying
      /\ \A q \in Requests : stage'[q] \in {"done", "failed"} <=> stage[q] \in {"done", "failed"}
      /\ \A q \in Requests : before[q] # Nobody => before[q] \in Requests
      /\ \A s \in Servers : last[s] # Nobody => last[s] \in Requests
      /\ \A q \in Requests : ServerOf[q] \in Servers
      /\ x # "new"
  BY FeedbackAssumption DEF FeedbackTypeOK, InFlight, Flying
<1>3. /\ \A q \in Requests : InFlight(q)' <=> InFlight(q)
      /\ \A q \in Requests : Over(q)' <=> Over(q)
  BY <1>2 DEF InFlight, Over, Flying
<1>4. /\ \A q \in Requests : HasTurn(q)' <=> HasTurn(q)
      /\ \A q, p \in Requests : Peers(q, p)' <=> Peers(q, p)
  <2>1. \A q \in Requests : HasTurn(q)' <=> (before[q] # Nobody => stage'[before[q]] \in {"done", "failed"})
    BY DEF HasTurn, Over
  <2> QED BY <1>2, <1>3, <2>1 DEF HasTurn, Over, Peers
<1>5. Ordered(f)'
  <2>1. /\ \A q \in Requests : InFlight(q)' => last[ServerOf[q]] # Nobody
        /\ \A q \in Requests : InFlight(q)' => f[q] <= f[last[ServerOf[q]]]
    BY <1>1, <1>3 DEF Ordered
  <2>2. (\A s \in Servers : last[s] # Nobody => InFlight(last[s]) /\ ServerOf[last[s]] = s)'
    <3> SUFFICES ASSUME NEW s \in Servers, last[s] # Nobody
                 PROVE  stage'[last[s]] \in Flying /\ ServerOf[last[s]] = s
      BY DEF InFlight, Flying
    <3> QED BY <1>1, <1>2 DEF Ordered, InFlight, Flying
  <2>3. (\A q \in Requests :
           InFlight(q) /\ before[q] # Nobody /\ InFlight(before[q]) =>
             /\ ServerOf[before[q]] = ServerOf[q]
             /\ f[before[q]] < f[q]
             /\ \A p \in Requests : Peers(q, p) /\ f[p] < f[q] => f[p] <= f[before[q]])'
    <3> SUFFICES ASSUME NEW q \in Requests, stage'[q] \in Flying, before[q] # Nobody,
                        stage'[before[q]] \in Flying
                 PROVE  /\ ServerOf[before[q]] = ServerOf[q]
                        /\ f[before[q]] < f[q]
                        /\ \A p \in Requests : Peers(q, p)' /\ f[p] < f[q] => f[p] <= f[before[q]]
      BY DEF InFlight, Flying
    <3>1. InFlight(q) /\ InFlight(before[q])
      BY <1>2 DEF InFlight, Flying
    <3> QED BY <1>1, <1>4, <3>1 DEF Ordered
  <2>4. /\ \A q, p \in Requests : Peers(q, p)' /\ f[q] = f[p] => q = p
        /\ \A q, p \in Requests : Peers(q, p)' /\ HasTurn(q)' => f[q] <= f[p]
    BY <1>1, <1>4 DEF Ordered
  <2> QED BY <1>1, <2>1, <2>2, <2>3, <2>4 DEF Ordered
<1>6. (\A q \in Requests : InFlight(q) /\ before[q] # Nobody => stage[before[q]] # "new")'
  <2> SUFFICES ASSUME NEW q \in Requests, stage'[q] \in Flying, before[q] # Nobody
               PROVE  stage'[before[q]] # "new"
    BY DEF InFlight, Flying
  <2> QED BY <1>2 DEF QueueInv, InFlight, Flying
<1>7. \A q \in Requests : stage'[q] \in {"generate", "save", "announce"} => HasTurn(q)'
  BY <1>2, <1>4 DEF QueueInv
<1> QED BY <1>5, <1>6, <1>7 DEF QueueInv

\* The request r alone leaves: LeaveQueue as the actions state it.
LEMMA ReleaseQueue ==
  ASSUME FeedbackTypeOK, QueueInv, NEW r \in Requests, NEW x \in {"done", "failed"},
         InFlight(r), HasTurn(r), stage' = [stage EXCEPT ![r] = x],
         before' = before, Release(r)
  PROVE  QueueInv'
<1> DEFINE s == ServerOf[r]
<1>1. s \in Servers /\ {r} \in SUBSET Requests /\ r # Nobody
  BY FeedbackAssumption
<1>2. /\ \A q \in {r} : InFlight(q) /\ ServerOf[q] = s /\ Over(q)'
      /\ \A q \in Requests \ {r} : stage'[q] = stage[q]
  BY DEF FeedbackTypeOK, Over
<1>3. /\ \A t \in Servers : t # s => last'[t] = last[t]
      /\ last'[s] = IF last[s] = Nobody \/ last[s] \in {r} THEN Nobody ELSE last[s]
  BY <1>1 DEF FeedbackTypeOK, Release
<1>4. \E q \in {r} : {r} = {q} /\ HasTurn(q)
  OBVIOUS
<1> HIDE DEF s
<1> QED BY <1>1, <1>2, <1>3, <1>4, LeaveQueue

\* Every step keeps the queue, and with it the generations.
LEMMA FeedbackStep == FeedbackInv /\ [FeedbackNext]_feedbackVars => FeedbackInv'
<1> SUFFICES ASSUME FeedbackInv, [FeedbackNext]_feedbackVars PROVE FeedbackInv'
  OBVIOUS
<1>0. FeedbackTypeOK /\ QueueInv /\ DraftInv /\ GeneratedOnce
  BY DEF FeedbackInv
<1>1. ASSUME NEW r \in Requests, Enter(r) PROVE FeedbackInv'
  <2>1. FeedbackTypeOK'
    BY <1>0, <1>1, FeedbackAssumption DEF Enter, FeedbackTypeOK, Stages
  <2>2. QueueInv'
    BY <1>0, <1>1, EnterQueue
  <2>3. DraftInv' /\ GeneratedOnce'
    BY <1>0, <1>1 DEF Enter, FeedbackTypeOK, DraftInv, GeneratedOnce
  <2> QED BY <2>1, <2>2, <2>3 DEF FeedbackInv
<1>2. ASSUME NEW r \in Requests, FindExisting(r) PROVE FeedbackInv'
  <2>0. /\ stage[r] = "wait" /\ HasTurn(r) /\ InFlight(r)
        /\ before' = before /\ draft' = draft /\ generated' = generated /\ unsaved' = unsaved
    BY <1>2 DEF FindExisting, InFlight
  <2>1. CASE draft # Nobody
    <3>1. /\ stage' = [stage EXCEPT ![r] = "done"] /\ Release(r)
          /\ answer' = [answer EXCEPT ![r] = draft]
      BY <1>2, <2>1 DEF FindExisting
    <3>2. FeedbackTypeOK'
      BY <1>0, <1>2, <3>1, FeedbackAssumption DEF FindExisting, Release, FeedbackTypeOK, Stages
    <3>3. QueueInv'
      BY <1>0, <2>0, <3>1, ReleaseQueue
    <3>4. DraftInv' /\ GeneratedOnce'
      BY <1>0, <2>0, <2>1, <3>1 DEF FeedbackTypeOK, DraftInv, GeneratedOnce
    <3> QED BY <3>2, <3>3, <3>4 DEF FeedbackInv
  <2>2. CASE draft = Nobody
    <3>1. /\ stage' = [stage EXCEPT ![r] = "generate"]
          /\ answer' = answer /\ last' = last
      BY <1>2, <2>2 DEF FindExisting
    <3>2. FeedbackTypeOK'
      BY <1>0, <1>2, <3>1 DEF FindExisting, FeedbackTypeOK, Stages
    <3>3. QueueInv'
      BY <1>0, <2>0, <3>1, ProgressQueue DEF Flying
    <3>4. \A q \in generated \ unsaved : ServerOf[r] # ServerOf[q]
      <4> SUFFICES ASSUME NEW q \in generated \ unsaved, ServerOf[r] = ServerOf[q] PROVE FALSE
        OBVIOUS
      <4>1. stage[q] = "save" /\ q \in Requests /\ HasTurn(q)
        BY <1>0, <2>2 DEF FeedbackTypeOK, DraftInv, QueueInv
      <4>2. Peers(r, q)
        BY <2>0, <4>1 DEF Peers, InFlight
      <4> QED BY <1>0, <2>0, <4>1, <4>2, OneTurn
    <3>5. DraftInv' /\ GeneratedOnce'
      BY <1>0, <2>0, <3>1, <3>4 DEF FeedbackTypeOK, DraftInv, GeneratedOnce
    <3> QED BY <3>2, <3>3, <3>5 DEF FeedbackInv
  <2> QED BY <2>1, <2>2
<1>3. ASSUME NEW r \in Requests, Generate(r) PROVE FeedbackInv'
  <2>1. /\ stage[r] = "generate" /\ stage' = [stage EXCEPT ![r] = "save"]
        /\ generated' = generated \cup {r}
        /\ before' = before /\ last' = last /\ draft' = draft /\ answer' = answer
        /\ unsaved' = unsaved
    BY <1>3 DEF Generate
  <2>2. InFlight(r) /\ HasTurn(r)
    BY <1>0, <2>1 DEF InFlight, QueueInv
  <2>3. FeedbackTypeOK'
    BY <1>0, <1>3 DEF Generate, FeedbackTypeOK, Stages
  <2>4. QueueInv'
    BY <1>0, <2>1, <2>2, ProgressQueue DEF Flying
  <2>5. \A q \in Requests : stage[q] = "generate" /\ ServerOf[q] = ServerOf[r] => q = r
    <3> SUFFICES ASSUME NEW q \in Requests, stage[q] = "generate", ServerOf[q] = ServerOf[r]
                 PROVE  q = r
      OBVIOUS
    <3>1. HasTurn(q) /\ Peers(q, r)
      BY <1>0, <2>2 DEF QueueInv, Peers, InFlight
    <3> QED BY <1>0, <2>2, <3>1, OneTurn
  <2>6. DraftInv' /\ GeneratedOnce'
    BY <1>0, <2>1, <2>5 DEF FeedbackTypeOK, DraftInv, GeneratedOnce
  <2> QED BY <2>3, <2>4, <2>6 DEF FeedbackInv
<1>4. ASSUME NEW r \in Requests, SaveDraft(r) PROVE FeedbackInv'
  <2>1. /\ stage[r] = "save" /\ stage' = [stage EXCEPT ![r] = "announce"]
        /\ draft' = (IF draft = Nobody THEN r ELSE draft)
        /\ answer' = [answer EXCEPT ![r] = draft']
        /\ before' = before /\ last' = last /\ generated' = generated
        /\ unsaved' = unsaved /\ announced' = announced /\ restarts' = restarts
    BY <1>4 DEF SaveDraft
  <2>2. InFlight(r) /\ HasTurn(r)
    BY <1>0, <2>1 DEF InFlight, QueueInv
  <2>3. draft' \in Requests /\ draft' # Nobody
    BY <1>0, <2>1, FeedbackAssumption DEF FeedbackTypeOK
  <2>4. FeedbackTypeOK'
    BY <1>0, <2>1, <2>3 DEF FeedbackTypeOK, Stages
  <2>5. QueueInv'
    BY <1>0, <2>1, <2>2, ProgressQueue DEF Flying
  <2>6. DraftInv' /\ GeneratedOnce'
    BY <1>0, <2>1, <2>3 DEF FeedbackTypeOK, DraftInv, GeneratedOnce
  <2> QED BY <2>4, <2>5, <2>6 DEF FeedbackInv
<1>5. ASSUME NEW r \in Requests, Announce(r) PROVE FeedbackInv'
  <2>1. /\ stage[r] = "announce" /\ stage' = [stage EXCEPT ![r] = "done"] /\ Release(r)
        /\ before' = before /\ draft' = draft /\ answer' = answer /\ generated' = generated
        /\ unsaved' = unsaved
    BY <1>5 DEF Announce
  <2>2. InFlight(r) /\ HasTurn(r)
    BY <1>0, <2>1 DEF InFlight, QueueInv
  <2>3. FeedbackTypeOK'
    BY <1>0, <1>5, FeedbackAssumption DEF Announce, Release, FeedbackTypeOK, Stages
  <2>4. QueueInv'
    BY <1>0, <2>1, <2>2, ReleaseQueue
  <2>5. DraftInv' /\ GeneratedOnce'
    BY <1>0, <2>1 DEF FeedbackTypeOK, DraftInv, GeneratedOnce
  <2> QED BY <2>3, <2>4, <2>5 DEF FeedbackInv
<1>6. ASSUME NEW r \in Requests, Throw(r) PROVE FeedbackInv'
  <2>1. /\ InFlight(r) /\ HasTurn(r) /\ stage' = [stage EXCEPT ![r] = "failed"] /\ Release(r)
        /\ answer' = [answer EXCEPT ![r] = Nobody]
        /\ before' = before /\ draft' = draft /\ generated' = generated
        /\ unsaved' = unsaved \cup {q \in {r} : stage[q] = "save"}
    BY <1>6 DEF Throw, Lost
  <2>2. stage[r] = "save" => r \in generated
    BY <1>0 DEF DraftInv
  <2>3. FeedbackTypeOK'
    <3>1. unsaved' \subseteq generated' /\ generated' \subseteq Requests
      BY <1>0, <2>1, <2>2 DEF FeedbackTypeOK
    <3>2. /\ last' \in [Servers -> Requests \cup {Nobody}]
          /\ answer' \in [Requests -> Requests \cup {Nobody}]
          /\ stage' \in [Requests -> Stages]
      BY <1>0, <2>1, FeedbackAssumption DEF Release, FeedbackTypeOK, Stages
    <3> QED BY <1>0, <1>6, <3>1, <3>2 DEF Throw, FeedbackTypeOK
  <2>4. QueueInv'
    BY <1>0, <2>1, ReleaseQueue
  <2>5. DraftInv' /\ GeneratedOnce'
    BY <1>0, <2>1 DEF FeedbackTypeOK, DraftInv, GeneratedOnce, InFlight
  <2> QED BY <2>3, <2>4, <2>5 DEF FeedbackInv
<1>7. ASSUME NEW s \in Servers, Restart(s) PROVE FeedbackInv'
  <2> DEFINE here == {r \in Requests : ServerOf[r] = s /\ InFlight(r)}
  <2>1. PICK S \in SUBSET Requests : S = here
    OBVIOUS
  <2>2. /\ stage' = [r \in Requests |-> IF r \in S THEN "failed" ELSE stage[r]]
        /\ answer' = [r \in Requests |-> IF r \in S THEN Nobody ELSE answer[r]]
        /\ last' = [last EXCEPT ![s] = Nobody]
        /\ unsaved' = unsaved \cup {q \in S : stage[q] = "save"}
        /\ before' = before /\ draft' = draft /\ announced' = announced /\ generated' = generated
        /\ restarts < MaxRestarts /\ restarts' = restarts + 1
    BY <1>7, <2>1 DEF Restart, Lost
  <2>3. \A r \in Requests : r \in S <=> ServerOf[r] = s /\ InFlight(r)
    BY <2>1
  <2> HIDE DEF here
  <2>4. FeedbackTypeOK'
    BY <1>0, <2>2, FeedbackAssumption DEF FeedbackTypeOK, Stages, DraftInv
  <2>5. QueueInv'
    <3>1. /\ \A r \in S : InFlight(r) /\ ServerOf[r] = s /\ Over(r)'
          /\ \A r \in Requests \ S : stage'[r] = stage[r]
          /\ \A r \in Requests : InFlight(r) /\ ServerOf[r] = s => r \in S
      BY <2>2, <2>3 DEF Over
    <3>2. /\ \A t \in Servers : t # s => last'[t] = last[t]
          /\ last'[s] = Nobody
      BY <1>0, <2>2 DEF FeedbackTypeOK
    <3>3. last[s] = Nobody \/ last[s] \in S
      BY <1>0, <2>3 DEF FeedbackTypeOK, QueueInv, Ordered
    <3> QED BY <1>0, <2>2, <3>1, <3>2, <3>3, LeaveQueue
  <2>6. DraftInv' /\ GeneratedOnce'
    BY <1>0, <2>2, <2>3 DEF FeedbackTypeOK, DraftInv, GeneratedOnce, InFlight
  <2> QED BY <2>4, <2>5, <2>6 DEF FeedbackInv
<1>8. CASE UNCHANGED feedbackVars
  <2>1. /\ FeedbackTypeOK' /\ DraftInv' /\ GeneratedOnce'
    BY <1>0, <1>8 DEF feedbackVars, FeedbackTypeOK, DraftInv, GeneratedOnce
  <2>2. QueueInv'
    BY <1>0, <1>8 DEF feedbackVars, QueueInv, Ordered, Peers, InFlight, HasTurn, Over
  <2> QED BY <2>1, <2>2 DEF FeedbackInv
<1> QED BY <1>1, <1>2, <1>3, <1>4, <1>5, <1>6, <1>7, <1>8 DEF FeedbackNext

\* Every request for a draft and every entry of a map has its type.
THEOREM FeedbackTypeCorrect == FeedbackSpec => []FeedbackTypeOK
<1>1. FeedbackInv => FeedbackTypeOK
  BY DEF FeedbackInv
<1> QED BY <1>1, FeedbackInitial, FeedbackStep, PTL DEF FeedbackSpec

\* For any number of requests and processes, failures and deaths: a process
\* generates another draft only for one that was lost, and every answer is the
\* draft in the table.
THEOREM GeneratedOnceCorrect == FeedbackSpec => []GeneratedOnce
<1>1. FeedbackInv => GeneratedOnce
  BY DEF FeedbackInv
<1> QED BY <1>1, FeedbackInitial, FeedbackStep, PTL DEF FeedbackSpec

-----------------------------------------------------------------------------
(* The order of a course.                                                  *)

\* What a request does is to move on one reorder.
LEMMA ReorderTypes ==
  ASSUME NEW x \in Reordering, NEW i \in Nat,
         NEW pc \in {"idle", "list", "stage", "final", "refused"}
  PROVE  /\ x.order \in Orders \cup {<<>>} /\ x.done \in Nat /\ NoReorder \in Reordering
         /\ [x EXCEPT !.pc = pc] \in Reordering
         /\ [pc |-> pc, order |-> <<>>, done |-> 0] \in Reordering
         /\ [pc |-> pc, order |-> x.order, done |-> i] \in Reordering
  BY DEF Reordering, NoReorder

\* Every order is a sequence of different items.
LEMMA OrderTypes ==
  ASSUME NEW o \in Orders \cup {<<>>}
  PROVE  /\ DOMAIN o \in SUBSET Nat /\ DOMAIN o = 1..Len(o) /\ Len(o) \in Nat
         /\ \A i \in DOMAIN o : o[i] \in Items /\ i >= 1
         /\ \A i, j \in DOMAIN o : o[i] = o[j] => i = j
<1>1. o \in Seq(Items)
  <2>1. o \in Orders => o \in Seq(Items)
    BY OrderAssumption
  <2>2. <<>> \in Seq(Items)
    OBVIOUS
  <2>. QED
    BY <2>1, <2>2
<1>2. \A i, j \in DOMAIN o : o[i] = o[j] => i = j
  <2>1. CASE o \in Orders
    <3>1. \A i, j \in DOMAIN o : i # j => o[i] # o[j]
      BY <2>1, OrderAssumption
    <3>. QED
      BY <3>1
  <2>2. CASE o = <<>>
    BY <2>2
  <2>. QED
    BY <2>1, <2>2
<1>3. DOMAIN o = 1..Len(o) /\ Len(o) \in Nat /\ \A i \in 1..Len(o) : o[i] \in Items
  BY <1>1
<1>. QED
  BY <1>2, <1>3

\* The position a commit gives an item is its index, from zero.
LEMMA PlaceGiven ==
  ASSUME NEW o \in Orders \cup {<<>>}, NEW i \in DOMAIN o
  PROVE  (CHOOSE k \in DOMAIN o : o[k] = o[i]) = i
  BY OrderTypes

\* The types after a step.
LEMMA OrderTypeKeeps == OrderTypeOK /\ [OrderNext]_orderVars => OrderTypeOK'
<1>. SUFFICES ASSUME OrderTypeOK, [OrderNext]_orderVars PROVE OrderTypeOK'
  OBVIOUS
<1>. USE DEF OrderTypeOK
<1>1. ASSUME NEW x \in Items, NEW p \in Places, CreateItem(x, p) \/ UpdateItem(x, p)
      PROVE  OrderTypeOK'
  <2>1. p \in Int
    BY OrderAssumption
  <2>. QED
    BY <1>1, <2>1 DEF CreateItem, UpdateItem
<1>2. ASSUME NEW x \in Items, DeleteItem(x) PROVE OrderTypeOK'
  BY <1>2 DEF DeleteItem
<1>3. ASSUME NEW r \in Reorders, NEW order \in Orders, BeginReorder(r, order)
      PROVE  OrderTypeOK'
  <2>1. [pc |-> "list", order |-> order, done |-> 0] \in Reordering
    BY DEF Reordering
  <2>. QED
    BY <1>3, <2>1 DEF BeginReorder
<1>4. ASSUME NEW r \in Reorders, ListIds(r) PROVE OrderTypeOK'
  <2>1. [reorder[r] EXCEPT !.pc = "stage"] \in Reordering
    BY ReorderTypes, 0 \in Nat
  <2>. QED
    BY <1>4, <2>1 DEF ListIds
<1>5. ASSUME NEW r \in Reorders, StageItem(r) PROVE OrderTypeOK'
  <2>. DEFINE i == reorder[r].done + 1
  <2>1. i \in Nat /\ reorder[r] \in Reordering
    BY DEF Reordering
  <2>. HIDE DEF i
  <2>2. /\ [pc |-> "refused", order |-> <<>>, done |-> 0] \in Reordering
        /\ [pc |-> "final", order |-> reorder[r].order, done |-> 0] \in Reordering
        /\ [pc |-> "stage", order |-> reorder[r].order, done |-> i] \in Reordering
    BY <2>1, ReorderTypes, 0 \in Nat
  <2>3. \E y \in Reordering : reorder' = [reorder EXCEPT ![r] = y]
    BY <1>5, <2>2 DEF StageItem, i
  <2>. QED
    BY <1>5, <2>3 DEF StageItem
<1>6. ASSUME NEW r \in Reorders, CommitReorder(r) PROVE OrderTypeOK'
  <2>. DEFINE o == reorder[r].order
              Place(x) == IF x \in present /\ \E i \in DOMAIN o : o[i] = x
                          THEN (CHOOSE i \in DOMAIN o : o[i] = x) - 1 ELSE position[x]
  <2>1. o \in Orders \cup {<<>>} /\ NoReorder \in Reordering
    BY ReorderTypes, 0 \in Nat DEF NoReorder, Reordering
  <2>. HIDE DEF o
  <2>2. \A x \in Items : Place(x) \in Int
    BY <2>1, PlaceGiven, OrderTypes
  <2>3. position' = [x \in Items |-> Place(x)]
    BY <1>6 DEF CommitReorder, o
  <2>. HIDE DEF Place
  <2>4. position' \in [Items -> Int]
    BY <2>2, <2>3
  <2>. QED
    BY <1>6, <2>1, <2>4 DEF CommitReorder, o
<1>7. ASSUME NEW r \in Reorders, AbortReorder(r) PROVE OrderTypeOK'
  <2>1. NoReorder \in Reordering
    BY DEF NoReorder, Reordering
  <2>. QED
    BY <1>7, <2>1 DEF AbortReorder
<1>8. CASE UNCHANGED orderVars
  BY <1>8 DEF orderVars
<1>. QED
  BY <1>1, <1>2, <1>3, <1>4, <1>5, <1>6, <1>7, <1>8 DEF OrderNext

\* A reorder that commits gives every item it asked for its place; whoever
\* gives an item another place is remembered.
LEMMA OrderKeeps == OrderTypeOK /\ OrderAsAsked /\ [OrderNext]_orderVars => OrderAsAsked'
<1>. SUFFICES ASSUME OrderTypeOK, OrderAsAsked, [OrderNext]_orderVars PROVE OrderAsAsked'
  OBVIOUS
<1>0. /\ asked \in Orders \cup {<<>>} /\ position \in [Items -> Int]
      /\ present \subseteq Items /\ \A i \in DOMAIN asked : asked[i] \in Items
  BY OrderTypes DEF OrderTypeOK
<1>1. ASSUME NEW x \in Items, NEW p \in Places, CreateItem(x, p) \/ UpdateItem(x, p)
      PROVE  OrderAsAsked'
  <2>1. /\ present' = present \cup {x} /\ touched' = touched \cup {x} /\ asked' = asked
        /\ position' = [position EXCEPT ![x] = p]
    BY <1>1 DEF CreateItem, UpdateItem
  <2>2. p >= 0
    BY OrderAssumption
  <2>. QED
    BY <1>0, <2>1, <2>2 DEF OrderAsAsked
<1>2. ASSUME NEW x \in Items, DeleteItem(x) PROVE OrderAsAsked'
  BY <1>2 DEF DeleteItem, OrderAsAsked
<1>3. ASSUME UNCHANGED <<present, position, asked, touched>> PROVE OrderAsAsked'
  BY <1>3 DEF OrderAsAsked
<1>4. ASSUME NEW r \in Reorders, CommitReorder(r) PROVE OrderAsAsked'
  <2>. DEFINE o == reorder[r].order
  <2>1. o \in Orders \cup {<<>>}
    BY DEF OrderTypeOK, Reordering
  <2>2. /\ present' = present /\ touched' = {} /\ asked' = o
        /\ position' = [x \in Items |->
             IF x \in present /\ \E i \in DOMAIN o : o[i] = x
             THEN (CHOOSE i \in DOMAIN o : o[i] = x) - 1 ELSE position[x]]
    BY <1>4 DEF CommitReorder
  <2>. HIDE DEF o
  <2>3. \A i \in DOMAIN o : o[i] \in present => position'[o[i]] = i - 1
    BY <2>1, <2>2, OrderTypes, PlaceGiven
  <2>4. \A x \in present : position'[x] >= 0
    <3>1. ASSUME NEW x \in present, NEW i \in DOMAIN o, o[i] = x PROVE position'[x] >= 0
      BY <2>1, <2>3, <3>1, OrderTypes
    <3>2. ASSUME NEW x \in present, \A i \in DOMAIN o : o[i] # x PROVE position'[x] >= 0
      BY <1>0, <2>2, <3>2 DEF OrderAsAsked
    <3>. QED
      BY <3>1, <3>2
  <2>5. ASSUME NEW i \in DOMAIN o, NEW j \in DOMAIN o, i < j, o[i] \in present, o[j] \in present
        PROVE  position'[o[i]] < position'[o[j]]
    BY <2>1, <2>3, <2>5, OrderTypes
  <2>. QED
    BY <2>2, <2>4, <2>5 DEF OrderAsAsked
<1>. QED
  BY <1>1, <1>2, <1>3, <1>4
  DEF OrderNext, BeginReorder, ListIds, StageItem, AbortReorder, orderVars

\* Every row and every request keeps its type.
THEOREM OrderTypeCorrect == OrderSpec => []OrderTypeOK
<1>1. OrderInit => OrderTypeOK
  BY DEF OrderInit, OrderTypeOK, NoReorder, Reordering
<1>. QED
  BY <1>1, OrderTypeKeeps, PTL DEF OrderSpec

\* However reorders, moves and deletions overlap, the items stand in the order
\* that the last reorder asked for, and no position of a first pass is seen.
THEOREM OrderCorrect == OrderSpec => []OrderAsAsked
<1>1. OrderInit => OrderTypeOK /\ OrderAsAsked
  BY DEF OrderInit, OrderTypeOK, OrderAsAsked, NoReorder, Reordering
<1>2. OrderTypeOK /\ OrderAsAsked /\ [OrderNext]_orderVars => (OrderTypeOK /\ OrderAsAsked)'
  BY OrderTypeKeeps, OrderKeeps
<1>. QED
  BY <1>1, <1>2, PTL DEF OrderSpec

-----------------------------------------------------------------------------
(* SCORM packages.                                                         *)

\* The windows that have a session time no commit has saved, and the requests
\* given up that still carry one: what the attempt may yet be given.
Owed == {w \in Windows : /\ bridge[w].time = 1
                         /\ \A x \in requests : x.window = w => x.stage # "saved"}
Stray == {x \in requests : x.awaited = FALSE /\ x.time = 1}

Room == (times + givenUp) - (Cardinality(Owed) + Cardinality(Stray))

\* Whatever is the base of the next save, there is room for what may be added.
RoomOK ==
  /\ IsFiniteSet(Owed) /\ IsFiniteSet(Stray)
  /\ attempt.total <= Room
  /\ \A x \in requests : x.stage = "read" => x.found.total <= Room

WindowOK == \A w \in Windows : bridge[w].stage # "initialized" => bridge[w].time = 0

\* A request is of the page that waits for it, and carries what is dirty there.
CarriedOK(x) ==
  /\ x.awaited = TRUE => bridge[x.window].calling = TRUE /\ x.time = bridge[x.window].time
  /\ x.stage \in {"saved", "refused"} => x.awaited = TRUE
  /\ x.kind = "initialize" => x.value = 0 /\ x.time = 0
  /\ bridge[x.window].stage = "new" => x.kind = "initialize"

RequestsOK ==
  /\ \A x \in requests : CarriedOK(x)
  /\ \A x, y \in requests :
       x.awaited = TRUE /\ y.awaited = TRUE /\ x.window = y.window => x = y

\* Until two requests have met, what a request has read is still so.
AloneOK ==
  crossed = FALSE =>
    /\ \A x, y \in requests : x = y
    /\ \A x \in requests :
         /\ x.stage = "read" => x.found = attempt
         /\ x.stage = "saved" => attempt = Applied(x)
         /\ x.value # 0 => bridge[x.window].dirty = TRUE

\* No other window has been initialized.
First(w) == \A v \in Windows \ {w} : bridge[v].stage = "new"

OneOK ==
  crossed = FALSE => \A w \in Windows : First(w) =>
    /\ attempt.total + bridge[w].time >= times
    /\ bridge[w].stage = "initialized" =>
         bridge[w].dirty = TRUE \/ attempt.value = bridge[w].value
    /\ \A x \in requests : x.window = w /\ x.stage = "saved" => attempt.total >= times

ScormInv ==
  /\ ScormTypeOK
  /\ sets + times <= MaxReports
  /\ WindowOK
  /\ RequestsOK
  /\ RoomOK
  /\ AloneOK
  /\ OneOK

\* The sizes of a set and of another that lacks, or has, one more.
LEMMA SmallerSet ==
  ASSUME NEW S, IsFiniteSet(S), NEW T, \A t \in T : t \in S
  PROVE  IsFiniteSet(T) /\ Cardinality(T) \in Nat /\ Cardinality(S) \in Nat
           /\ Cardinality(T) <= Cardinality(S)
<1>1. T \in SUBSET S
  OBVIOUS
<1>. QED
  BY <1>1, FS_Subset, FS_CardinalityType

LEMMA OneMore ==
  ASSUME NEW S, IsFiniteSet(S), NEW e, NEW T, \A t \in T : t \in S \/ t = e
  PROVE  IsFiniteSet(T) /\ Cardinality(T) \in Nat /\ Cardinality(S) \in Nat
           /\ Cardinality(T) <= Cardinality(S) + 1
<1>1. /\ IsFiniteSet(S \cup {e}) /\ Cardinality(S) \in Nat
      /\ Cardinality(S \cup {e}) <= Cardinality(S) + 1
  BY FS_AddElement, FS_CardinalityType
<1>2. /\ IsFiniteSet(T) /\ Cardinality(T) \in Nat /\ Cardinality(S \cup {e}) \in Nat
      /\ Cardinality(T) <= Cardinality(S \cup {e})
  BY <1>1, SmallerSet
<1>. QED
  BY <1>1, <1>2

LEMMA OneLess ==
  ASSUME NEW S, IsFiniteSet(S), NEW e \in S, NEW T, \A t \in T : t \in S /\ t # e
  PROVE  IsFiniteSet(T) /\ Cardinality(T) \in Nat /\ Cardinality(S) \in Nat
           /\ Cardinality(T) + 1 <= Cardinality(S)
<1>1. /\ IsFiniteSet(S \ {e}) /\ Cardinality(S) \in Nat
      /\ Cardinality(S \ {e}) = Cardinality(S) - 1
  BY FS_RemoveElement, FS_CardinalityType
<1>2. /\ IsFiniteSet(T) /\ Cardinality(T) \in Nat
      /\ Cardinality(T) <= Cardinality(S \ {e})
  BY <1>1, SmallerSet
<1>. QED
  BY <1>1, <1>2

LEMMA OneMoved ==
  ASSUME NEW S, IsFiniteSet(S), NEW e \in S, NEW f, NEW T,
         \A t \in T : t = f \/ (t \in S /\ t # e)
  PROVE  IsFiniteSet(T) /\ Cardinality(T) \in Nat /\ Cardinality(S) \in Nat
           /\ Cardinality(T) <= Cardinality(S)
<1>1. /\ IsFiniteSet(S \ {e}) /\ Cardinality(S) \in Nat /\ Cardinality(S \ {e}) \in Nat
      /\ Cardinality(S \ {e}) + 1 <= Cardinality(S)
  BY OneLess
<1>2. /\ IsFiniteSet(T) /\ Cardinality(T) \in Nat
      /\ Cardinality(T) <= Cardinality(S \ {e}) + 1
  BY <1>1, OneMore
<1>. QED
  BY <1>1, <1>2

\* The fields of a bridge, a request and an attempt.
LEMMA BridgeFields ==
  ASSUME NEW b \in Bridges
  PROVE  /\ b.stage \in {"new", "initialized", "finished"} /\ b.value \in 0..MaxReports
         /\ b.dirty \in BOOLEAN /\ b.time \in 0..1 /\ b.odd \in BOOLEAN /\ b.calling \in BOOLEAN
  BY DEF Bridges

LEMMA RequestFields ==
  ASSUME NEW x \in ScormRequests
  PROVE  /\ x.window \in Windows /\ x.kind \in {"initialize", "commit", "finish"}
         /\ x.value \in 0..MaxReports /\ x.time \in 0..1 /\ x.odd \in BOOLEAN
         /\ x.awaited \in BOOLEAN /\ x.stage \in {"sent", "read", "saved", "refused"}
         /\ x.found \in Attempts
  BY DEF ScormRequests

LEMMA AttemptFields ==
  ASSUME NEW a \in Attempts
  PROVE  a.value \in 0..MaxReports /\ a.total \in Nat /\ a.total <= MaxReports + MaxLost
  BY ScormAssumption DEF Attempts

\* What a call, and a set of an unsupported element, leave of a bridge.
SameValues(b, c) ==
  c.stage = b.stage /\ c.value = b.value /\ c.dirty = b.dirty /\ c.time = b.time

LEMMA BridgeCalls ==
  ASSUME NEW b \in Bridges, NEW calling \in BOOLEAN
  PROVE  LET c == [b EXCEPT !.calling = calling]
         IN  c \in Bridges /\ c.calling = calling /\ SameValues(b, c)
  BY DEF Bridges, SameValues

LEMMA BridgeSets ==
  ASSUME NEW b \in Bridges, NEW value \in 0..MaxReports
  PROVE  LET c == [b EXCEPT !.value = value, !.dirty = TRUE]
             d == [b EXCEPT !.time = 1]
             e == [b EXCEPT !.odd = TRUE]
         IN  /\ c \in Bridges /\ c.calling = b.calling
             /\ c.stage = b.stage /\ c.dirty = TRUE /\ c.time = b.time
             /\ d \in Bridges /\ d.calling = b.calling /\ d.time = 1
             /\ d.stage = b.stage /\ d.value = b.value /\ d.dirty = b.dirty
             /\ e \in Bridges /\ e.calling = b.calling /\ SameValues(b, e)
<1>1. LET c == [b EXCEPT !.value = value, !.dirty = TRUE]
      IN  /\ c \in Bridges /\ c.calling = b.calling
          /\ c.stage = b.stage /\ c.dirty = TRUE /\ c.time = b.time
  BY DEF Bridges
<1>2. LET d == [b EXCEPT !.time = 1]
      IN  /\ d \in Bridges /\ d.calling = b.calling /\ d.time = 1
          /\ d.stage = b.stage /\ d.value = b.value /\ d.dirty = b.dirty
  BY DEF Bridges
<1>3. LET e == [b EXCEPT !.odd = TRUE]
      IN  e \in Bridges /\ e.calling = b.calling /\ SameValues(b, e)
  BY DEF Bridges, SameValues
<1>. QED
  BY <1>1, <1>2, <1>3

\* Two of the fields at a time.
LEMMA BridgeResets ==
  ASSUME NEW b \in Bridges, NEW st \in {"new", "initialized", "finished"},
         NEW value \in 0..MaxReports
  PROVE  [b EXCEPT !.stage = st, !.value = value, !.calling = FALSE,
                   !.dirty = FALSE, !.time = 0, !.odd = FALSE] \in Bridges
<1>1. [b EXCEPT !.stage = st, !.value = value] \in Bridges
  BY DEF Bridges
<1>2. ASSUME NEW c \in Bridges PROVE [c EXCEPT !.calling = FALSE, !.dirty = FALSE] \in Bridges
  BY DEF Bridges
<1>3. ASSUME NEW c \in Bridges PROVE [c EXCEPT !.time = 0] \in Bridges
  BY DEF Bridges
<1>4. ASSUME NEW c \in Bridges PROVE [c EXCEPT !.odd = FALSE] \in Bridges
  BY DEF Bridges
<1>. QED
  BY <1>1, <1>2, <1>3, <1>4

\* What a save makes of the attempt.
LEMMA AppliedFields ==
  ASSUME NEW x \in ScormRequests
  PROVE  /\ Applied(x).value = IF x.value # 0 THEN x.value ELSE x.found.value
         /\ Applied(x).total = x.found.total + x.time
         /\ Applied(x).value \in 0..MaxReports /\ Applied(x).total \in Nat
         /\ Applied(x).total <= MaxReports + MaxLost => Applied(x) \in Attempts
<1>. DEFINE value == IF x.value # 0 THEN x.value ELSE x.found.value
            total == x.found.total + x.time
<1>1. value \in 0..MaxReports /\ total \in Nat
  BY RequestFields, AttemptFields
<1>. HIDE DEF value, total
<1>2. Applied(x) = [value |-> value, total |-> total]
  BY DEF Applied, value, total
<1>3. total <= MaxReports + MaxLost => total \in 0..(MaxReports + MaxLost)
  BY <1>1, ScormAssumption
<1>. QED
  BY <1>1, <1>2, <1>3 DEF Attempts, value, total

LEMMA BridgeSyncs ==
  ASSUME NEW b \in Bridges, NEW x \in ScormRequests
  PROVE  LET c == Synced(b, x)
         IN  /\ c \in Bridges /\ c.stage \in {"initialized", "finished"}
             /\ c.value = Applied(x).value /\ c.time = 0 /\ c.calling = FALSE
<1>1. Applied(x).value \in 0..MaxReports
  BY AppliedFields
<1>2. Synced(b, x) \in Bridges
  BY <1>1, BridgeResets DEF Synced
<1>3. /\ Synced(b, x).stage \in {"initialized", "finished"}
      /\ Synced(b, x).value = Applied(x).value /\ Synced(b, x).time = 0
      /\ Synced(b, x).calling = FALSE
  BY DEF Synced, Bridges
<1>. QED
  BY <1>2, <1>3

\* What a server's statement leaves of a request.
SameReport(x, y) ==
  y.window = x.window /\ y.kind = x.kind /\ y.value = x.value /\ y.time = x.time

LEMMA RequestMoves ==
  ASSUME NEW x \in ScormRequests, NEW st \in {"sent", "read", "saved", "refused"}
  PROVE  LET y == [x EXCEPT !.stage = st]
         IN  /\ y \in ScormRequests /\ y.stage = st /\ SameReport(x, y)
             /\ y.awaited = x.awaited /\ y.found = x.found
  BY DEF ScormRequests, SameReport

LEMMA RequestReads ==
  ASSUME NEW x \in ScormRequests, NEW found \in Attempts
  PROVE  LET y == [x EXCEPT !.stage = "read", !.found = found]
         IN  /\ y \in ScormRequests /\ y.stage = "read" /\ SameReport(x, y)
             /\ y.awaited = x.awaited /\ y.found = found
  BY DEF ScormRequests, SameReport

LEMMA RequestGivenUp ==
  ASSUME NEW x \in ScormRequests
  PROVE  LET y == [x EXCEPT !.awaited = FALSE]
         IN  /\ y \in ScormRequests /\ y.awaited = FALSE /\ SameReport(x, y)
             /\ y.stage = x.stage /\ y.found = x.found
  BY DEF ScormRequests, SameReport

\* Room is a number, and its parts are.
LEMMA RoomType ==
  ASSUME ScormInv
  PROVE  /\ times \in Nat /\ givenUp \in Nat /\ Room \in Int
         /\ Cardinality(Owed) \in Nat /\ Cardinality(Stray) \in Nat
  BY FS_CardinalityType, ScormAssumption DEF ScormInv, ScormTypeOK, RoomOK, Room

\* There is room for as much as before when not less of it is left.
LEMMA RoomKeeps ==
  ASSUME ScormInv, IsFiniteSet(Owed'), IsFiniteSet(Stray'), UNCHANGED attempt,
         times' \in Nat, givenUp' \in Nat,
         Cardinality(Owed') + Cardinality(Stray') - (times' + givenUp')
           <= Cardinality(Owed) + Cardinality(Stray) - (times + givenUp),
         \A x \in requests' : x.stage = "read" =>
           \/ x.found = attempt
           \/ \E y \in requests : y.stage = "read" /\ y.found = x.found
  PROVE  RoomOK'
<1>1. Cardinality(Owed') \in Nat /\ Cardinality(Stray') \in Nat
  BY FS_CardinalityType
<1>2. Room' \in Int /\ Room \in Int /\ Room <= Room'
  BY <1>1, RoomType DEF Room
<1>3. attempt.total \in Nat /\ attempt.total <= Room
  BY AttemptFields DEF ScormInv, ScormTypeOK, RoomOK
<1>4. ASSUME NEW y \in requests, y.stage = "read" PROVE y.found.total \in Nat /\ y.found.total <= Room
  BY <1>4, RequestFields, AttemptFields DEF ScormInv, ScormTypeOK, RoomOK
<1>5. attempt'.total <= Room'
  BY <1>2, <1>3
<1>6. ASSUME NEW x \in requests', x.stage = "read" PROVE x.found.total <= Room'
  <2>1. CASE x.found = attempt
    BY <1>2, <1>3, <2>1
  <2>2. CASE x.found # attempt
    <3>1. PICK y \in requests : y.stage = "read" /\ y.found = x.found
      BY <1>6, <2>2
    <3>2. x.found.total \in Nat /\ x.found.total <= Room
      BY <1>4, <3>1
    <3>. QED
      BY <1>2, <3>2
  <2>. QED
    BY <2>1, <2>2
<1>. QED
  BY <1>5, <1>6 DEF RoomOK

\* A call of the package: it makes its page wait.
LEMMA CallKeeps ==
  ASSUME ScormInv, NEW w \in Windows, NEW call \in {"initialize", "commit", "finish"},
         call = "initialize" <=> bridge[w].stage # "initialized", Call(w, call)
  PROVE  ScormInv'
<1>0. /\ bridge \in [Windows -> Bridges] /\ bridge[w] \in Bridges
      /\ requests \subseteq ScormRequests /\ attempt \in Attempts /\ crossed \in BOOLEAN
  BY DEF ScormInv, ScormTypeOK
<1>1. PICK x, b :
        /\ b = [bridge[w] EXCEPT !.calling = TRUE]
        /\ x = [window |-> w, kind |-> call, awaited |-> TRUE, stage |-> "sent",
                found |-> NewAttempt,
                value |-> IF bridge[w].dirty /\ call # "initialize" THEN bridge[w].value ELSE 0,
                time |-> IF call # "initialize" THEN bridge[w].time ELSE 0,
                odd |-> call # "initialize" /\ bridge[w].odd]
        /\ bridge' = [bridge EXCEPT ![w] = b] /\ requests' = requests \cup {x}
        /\ ~bridge[w].calling /\ UNCHANGED <<attempt, sets, times, givenUp>>
        /\ crossed' = (crossed \/ requests # {})
  BY DEF Call
<1>2. /\ b \in Bridges /\ b.calling = TRUE /\ SameValues(bridge[w], b)
  BY <1>0, <1>1, BridgeCalls
<1>3. /\ x.window = w /\ x.kind = call /\ x.awaited = TRUE /\ x.stage = "sent"
      /\ x.time = bridge[w].time /\ (x.value # 0 => bridge[w].dirty = TRUE)
      /\ call = "initialize" => x.value = 0 /\ x.time = 0
      /\ x \in ScormRequests
  <2>. DEFINE odd == call # "initialize" /\ bridge[w].odd
  <2>1. odd \in BOOLEAN
    OBVIOUS
  <2>. HIDE DEF odd
  <2>2. /\ bridge[w].value \in 0..MaxReports /\ bridge[w].time \in 0..1
        /\ bridge[w].dirty \in BOOLEAN /\ 0 \in 0..MaxReports
    BY <1>0, BridgeFields, ScormAssumption
  <2>3. NewAttempt \in Attempts
    BY ScormAssumption DEF NewAttempt, Attempts
  <2>4. call = "initialize" => bridge[w].time = 0
    BY DEF ScormInv, WindowOK
  <2>5. x = [window |-> w, kind |-> call, awaited |-> TRUE, stage |-> "sent",
             found |-> NewAttempt,
             value |-> IF bridge[w].dirty /\ call # "initialize" THEN bridge[w].value ELSE 0,
             time |-> IF call # "initialize" THEN bridge[w].time ELSE 0,
             odd |-> odd]
    BY <1>1 DEF odd
  <2>. QED
    BY <2>1, <2>2, <2>3, <2>4, <2>5 DEF ScormRequests
<1>4. /\ bridge' \in [Windows -> Bridges]
      /\ \A v \in Windows : bridge'[v] = IF v = w THEN b ELSE bridge[v]
  BY <1>0, <1>1, <1>2
<1>5. \A v \in Windows : SameValues(bridge[v], bridge'[v])
  BY <1>2, <1>4 DEF SameValues
<1>6. ASSUME NEW y \in requests PROVE y.window \in Windows /\ (y.awaited = TRUE => y.window # w)
  BY <1>0, <1>1, RequestFields DEF ScormInv, RequestsOK, CarriedOK
<1>7. (ScormTypeOK /\ sets + times <= MaxReports)'
  <2>1. crossed' \in BOOLEAN
    BY <1>1
  <2>. QED
    BY <1>0, <1>1, <1>3, <1>4, <2>1 DEF ScormInv, ScormTypeOK
<1>8. WindowOK'
  BY <1>5 DEF ScormInv, WindowOK, SameValues
<1>9. RequestsOK'
  <2>1. ASSUME NEW y \in requests PROVE CarriedOK(y)'
    <3>1. /\ CarriedOK(y) /\ y.window \in Windows /\ (y.awaited = TRUE => y.window # w)
          /\ SameValues(bridge[y.window], bridge'[y.window])
      BY <1>5, <1>6 DEF ScormInv, RequestsOK
    <3>2. y.window # w => bridge'[y.window] = bridge[y.window]
      BY <1>4, <3>1
    <3>. QED
      BY <3>1, <3>2 DEF CarriedOK, SameValues
  <2>2. CarriedOK(x)'
    <3>1. bridge'[w] = b
      BY <1>4
    <3>. QED
      BY <1>2, <1>3, <3>1 DEF CarriedOK, SameValues
  <2>3. \A y, z \in requests :
          y.awaited = TRUE /\ z.awaited = TRUE /\ y.window = z.window => y = z
    BY DEF ScormInv, RequestsOK
  <2>4. \A y \in requests' : y \in requests \/ y = x
    BY <1>1
  <2>5. \A y \in requests : y.awaited = TRUE => y.window # x.window
    BY <1>3, <1>6
  <2>6. \A y \in requests' : CarriedOK(y)'
    BY <2>1, <2>2, <2>4
  <2>7. ASSUME NEW y \in requests', NEW z \in requests',
               y.awaited = TRUE, z.awaited = TRUE, y.window = z.window
        PROVE  y = z
    BY <2>3, <2>4, <2>5, <2>7
  <2>. QED
    BY <2>6, <2>7 DEF RequestsOK
<1>10. RoomOK'
  <2>1. Owed' = Owed /\ Stray' = Stray
    <3>1. \A v \in Windows : bridge'[v].time = bridge[v].time
      BY <1>5 DEF SameValues
    <3>2. \A y \in requests' : y \in requests \/ (y.awaited = TRUE /\ y.stage = "sent")
      BY <1>1, <1>3
    <3>3. requests \subseteq requests'
      BY <1>1
    <3>4. Owed' = Owed
      BY <3>1, <3>2, <3>3 DEF Owed
    <3>5. Stray' = Stray
      BY <3>2, <3>3 DEF Stray
    <3>. QED
      BY <3>4, <3>5
  <2>2. IsFiniteSet(Owed) /\ IsFiniteSet(Stray) /\ times \in Nat /\ givenUp \in Nat
        /\ Cardinality(Owed) \in Nat /\ Cardinality(Stray) \in Nat
    BY RoomType DEF ScormInv, RoomOK
  <2>3. /\ UNCHANGED <<attempt, times, givenUp>>
        /\ \A y \in requests' : y.stage = "read" => y \in requests
    BY <1>1, <1>3
  <2>. QED
    BY <2>1, <2>2, <2>3, RoomKeeps
<1>11. AloneOK'
  <2>. SUFFICES ASSUME crossed' = FALSE PROVE AloneOK'
    BY DEF AloneOK
  <2>1. requests' = {x}
    BY <1>0, <1>1
  <2>2. x.value # 0 => bridge'[x.window].dirty = TRUE
    BY <1>3, <1>5 DEF SameValues
  <2>. QED
    BY <1>3, <2>1, <2>2 DEF AloneOK
<1>12. OneOK'
  <2>. SUFFICES ASSUME crossed' = FALSE, NEW v \in Windows, First(v)'
                PROVE  /\ attempt'.total + bridge'[v].time >= times'
                       /\ bridge'[v].stage = "initialized" =>
                            bridge'[v].dirty = TRUE \/ attempt'.value = bridge'[v].value
                       /\ \A y \in requests' : y.window = v /\ y.stage = "saved" =>
                            attempt'.total >= times'
    BY DEF OneOK
  <2>1. crossed = FALSE /\ First(v)
    BY <1>0, <1>1, <1>5 DEF First, SameValues
  <2>2. /\ attempt.total + bridge[v].time >= times
        /\ bridge[v].stage = "initialized" =>
             bridge[v].dirty = TRUE \/ attempt.value = bridge[v].value
    BY <2>1 DEF ScormInv, OneOK
  <2>3. requests' = {x} /\ SameValues(bridge[v], bridge'[v])
    BY <1>0, <1>1, <1>5
  <2>. QED
    BY <1>1, <1>3, <2>2, <2>3 DEF SameValues
<1>. QED
  BY <1>7, <1>8, <1>9, <1>10, <1>11, <1>12 DEF ScormInv

\* What is set stays within the bound on both.
LEMMA ReportsBounded ==
  \A m, n \in Nat : m + n <= MaxReports => m \in 0..MaxReports /\ n \in 0..MaxReports
  BY ScormAssumption

\* A set of the package, on a page that waits for nothing.
LEMMA SetKeeps ==
  ASSUME ScormInv, NEW w \in Windows, NEW b \in Bridges, Running(w),
         bridge' = [bridge EXCEPT ![w] = b], b.stage = bridge[w].stage,
         b.calling = bridge[w].calling,
         b.dirty = TRUE \/ (b.value = bridge[w].value /\ b.dirty = bridge[w].dirty),
         \/ b.time = bridge[w].time /\ times' = times
         \/ b.time = 1 /\ bridge[w].time = 0 /\ times' = times + 1,
         sets' \in Nat, times' \in Nat, sets' + times' <= MaxReports,
         UNCHANGED <<attempt, requests, givenUp, crossed>>
  PROVE  ScormInv'
<1>0. /\ bridge \in [Windows -> Bridges] /\ bridge[w] \in Bridges
      /\ bridge[w].stage = "initialized" /\ bridge[w].calling = FALSE
      /\ requests \subseteq ScormRequests
  BY BridgeFields DEF ScormInv, ScormTypeOK, Running
<1>1. /\ bridge' \in [Windows -> Bridges]
      /\ \A v \in Windows : bridge'[v] = IF v = w THEN b ELSE bridge[v]
  BY <1>0
<1>2. \A y \in requests : /\ y.window \in Windows /\ y.stage \in {"sent", "read", "saved", "refused"}
                          /\ y.window = w => y.awaited # TRUE /\ y.stage \notin {"saved", "refused"}
  BY <1>0, RequestFields DEF ScormInv, RequestsOK, CarriedOK
<1>3. (ScormTypeOK /\ sets + times <= MaxReports)'
  <2>1. sets' \in 0..MaxReports /\ times' \in 0..MaxReports
    BY ONLY ReportsBounded, sets' \in Nat, times' \in Nat, sets' + times' <= MaxReports
  <2>. QED
    BY <1>1, <2>1 DEF ScormInv, ScormTypeOK
<1>4. WindowOK'
  BY <1>0, <1>1 DEF ScormInv, WindowOK
<1>5. RequestsOK'
  <2>1. ASSUME NEW y \in requests PROVE CarriedOK(y)'
    BY <1>0, <1>1, <1>2 DEF ScormInv, RequestsOK, CarriedOK
  <2>2. \A y, z \in requests :
          y.awaited = TRUE /\ z.awaited = TRUE /\ y.window = z.window => y = z
    BY DEF ScormInv, RequestsOK
  <2>. QED
    BY <2>1, <2>2 DEF RequestsOK
<1>6. RoomOK'
  <2>1. IsFiniteSet(Owed) /\ IsFiniteSet(Stray) /\ times \in Nat /\ givenUp \in Nat
        /\ Cardinality(Owed) \in Nat /\ Cardinality(Stray) \in Nat
    BY RoomType DEF ScormInv, RoomOK
  <2>2. Stray' = Stray
    BY DEF Stray
  <2>3. \A y \in requests' : y.stage = "read" => y \in requests
    OBVIOUS
  <2>4. CASE times' = times
    <3>1. \A v \in Windows : bridge'[v].time = bridge[v].time
      BY <1>0, <1>1, <2>1, <2>4
    <3>2. Owed' = Owed
      BY <3>1 DEF Owed
    <3>. QED
      BY <2>1, <2>2, <2>3, <2>4, <3>2, RoomKeeps
  <2>5. CASE times' = times + 1
    <3>1. \A v \in Windows : v # w => bridge'[v].time = bridge[v].time
      BY <1>1
    <3>2. \A v \in Owed' : v \in Owed \/ v = w
      BY <3>1 DEF Owed
    <3>3. /\ IsFiniteSet(Owed') /\ Cardinality(Owed') \in Nat
          /\ Cardinality(Owed') <= Cardinality(Owed) + 1
      BY <2>1, <3>2, OneMore
    <3>4. Cardinality(Owed') + Cardinality(Stray') - (times' + givenUp')
            <= Cardinality(Owed) + Cardinality(Stray) - (times + givenUp)
      BY <2>1, <2>2, <2>5, <3>3
    <3>. QED
      BY <2>1, <2>2, <2>3, <3>3, <3>4, RoomKeeps
  <2>. QED
    BY <2>4, <2>5
<1>7. AloneOK'
  <2>1. \A y \in requests : bridge[y.window].dirty = TRUE => bridge'[y.window].dirty = TRUE
    BY <1>1, <1>2
  <2>2. \A y \in requests : Applied(y)' = Applied(y)
    BY DEF Applied
  <2>. QED
    BY <2>1, <2>2 DEF ScormInv, AloneOK
<1>8. OneOK'
  <2>. SUFFICES ASSUME crossed' = FALSE, NEW v \in Windows, First(v)'
                PROVE  /\ attempt'.total + bridge'[v].time >= times'
                       /\ bridge'[v].stage = "initialized" =>
                            bridge'[v].dirty = TRUE \/ attempt'.value = bridge'[v].value
                       /\ \A y \in requests' : y.window = v /\ y.stage = "saved" =>
                            attempt'.total >= times'
    BY DEF OneOK
  <2>1. v = w /\ crossed = FALSE
    BY <1>0, <1>1 DEF First
  <2>2. First(w)
    BY <1>1, <2>1 DEF First
  <2>3. /\ attempt.total + bridge[w].time >= times
        /\ bridge[w].dirty = TRUE \/ attempt.value = bridge[w].value
    BY <1>0, <2>1, <2>2 DEF ScormInv, OneOK
  <2>4. attempt.total \in Nat /\ bridge[w].time \in 0..1 /\ times \in Nat
    BY <1>0, AttemptFields, BridgeFields, RoomType DEF ScormInv, ScormTypeOK
  <2>5. attempt'.total + bridge'[v].time >= times'
    BY <1>1, <2>1, <2>3, <2>4
  <2>6. bridge'[v].dirty = TRUE \/ attempt'.value = bridge'[v].value
    BY <1>1, <2>1, <2>3
  <2>7. \A y \in requests' : ~ (y.window = v /\ y.stage = "saved")
    BY <1>2, <2>1
  <2>. QED
    BY <2>5, <2>6, <2>7
<1>. QED
  BY <1>3, <1>4, <1>5, <1>6, <1>7, <1>8 DEF ScormInv

\* The three sets.
LEMMA SetsKeep ==
  ASSUME ScormInv, NEW w \in Windows, SetValue(w) \/ SetSessionTime(w) \/ SetUnsupported(w)
  PROVE  ScormInv'
<1>0. /\ bridge[w] \in Bridges /\ Running(w) /\ sets \in Nat /\ times \in Nat
      /\ sets + times <= MaxReports /\ bridge[w].calling = bridge[w].calling
  BY ScormAssumption DEF ScormInv, ScormTypeOK, SetValue, SetSessionTime, SetUnsupported
<1>1. CASE SetValue(w)
  <2>1. PICK b : b = [bridge[w] EXCEPT !.value = sets + 1, !.dirty = TRUE]
    OBVIOUS
  <2>2. sets + 1 \in 0..MaxReports
    BY <1>0, <1>1, ScormAssumption DEF SetValue
  <2>3. /\ b \in Bridges /\ b.calling = bridge[w].calling
        /\ b.stage = bridge[w].stage /\ b.dirty = TRUE /\ b.time = bridge[w].time
    BY <1>0, <2>1, <2>2, BridgeSets
  <2>4. /\ bridge' = [bridge EXCEPT ![w] = b] /\ sets' = sets + 1 /\ times' = times
        /\ sets + times < MaxReports /\ UNCHANGED <<attempt, requests, givenUp, crossed>>
    BY <1>1, <2>1 DEF SetValue
  <2>5. sets' \in Nat /\ times' \in Nat /\ sets' + times' <= MaxReports
    BY <1>0, <2>4, ScormAssumption
  <2>. QED
    BY <1>0, <2>3, <2>4, <2>5, SetKeeps
<1>2. CASE SetSessionTime(w)
  <2>1. PICK b : b = [bridge[w] EXCEPT !.time = 1]
    OBVIOUS
  <2>2. 0 \in 0..MaxReports
    BY ScormAssumption
  <2>3. /\ b \in Bridges /\ b.calling = bridge[w].calling
        /\ b.stage = bridge[w].stage /\ b.value = bridge[w].value
        /\ b.dirty = bridge[w].dirty /\ b.time = 1
    BY <1>0, <2>1, <2>2, BridgeSets
  <2>4. bridge[w].time = 0 \/ bridge[w].time = 1
    BY <1>0 DEF Bridges
  <2>5. /\ bridge' = [bridge EXCEPT ![w] = b] /\ sets' = sets
        /\ times' = IF bridge[w].time = 0 THEN times + 1 ELSE times
        /\ sets + times < MaxReports /\ UNCHANGED <<attempt, requests, givenUp, crossed>>
    BY <1>2, <2>1 DEF SetSessionTime
  <2>6. /\ bridge' = [bridge EXCEPT ![w] = b] /\ sets' = sets
        /\ \/ bridge[w].time = 0 /\ times' = times + 1
           \/ bridge[w].time = 1 /\ times' = times
        /\ sets + times < MaxReports /\ UNCHANGED <<attempt, requests, givenUp, crossed>>
    BY <2>4, <2>5
  <2>7. sets' \in Nat /\ times' \in Nat /\ sets' + times' <= MaxReports
    BY <1>0, <2>6, ScormAssumption
  <2>. QED
    BY <1>0, <2>3, <2>6, <2>7, SetKeeps
<1>3. CASE SetUnsupported(w)
  <2>1. PICK b : b = [bridge[w] EXCEPT !.odd = TRUE]
    OBVIOUS
  <2>2. 0 \in 0..MaxReports
    BY ScormAssumption
  <2>3. b \in Bridges /\ b.calling = bridge[w].calling /\ SameValues(bridge[w], b)
    BY <1>0, <2>1, <2>2, BridgeSets
  <2>4. /\ b.stage = bridge[w].stage /\ b.value = bridge[w].value
        /\ b.dirty = bridge[w].dirty /\ b.time = bridge[w].time
    BY <2>3 DEF SameValues
  <2>5. /\ bridge' = [bridge EXCEPT ![w] = b] /\ sets' = sets /\ times' = times
        /\ UNCHANGED <<attempt, requests, givenUp, crossed>>
    BY <1>3, <2>1 DEF SetUnsupported
  <2>. QED
    BY <1>0, <2>3, <2>4, <2>5, SetKeeps
<1>. QED
  BY <1>1, <1>2, <1>3

\* Where a statement of the server, or a lost answer, moves a request or takes
\* it away, those that are left are as before, and still one for each page.
LEMMA MovedRequests ==
  ASSUME ScormInv, NEW x \in requests, NEW y \in ScormRequests, SameReport(x, y),
         y.awaited = TRUE => x.awaited = TRUE,
         y.stage \in {"saved", "refused"} => y.awaited = TRUE,
         \A z \in requests' : z = y \/ (z \in requests /\ z # x), UNCHANGED bridge
  PROVE  RequestsOK' /\ requests' \subseteq ScormRequests
<1>0. /\ \A z \in requests : CarriedOK(z)
      /\ requests \subseteq ScormRequests
      /\ \A z, u \in requests :
           z.awaited = TRUE /\ u.awaited = TRUE /\ z.window = u.window => z = u
  BY DEF ScormInv, RequestsOK, ScormTypeOK
<1>1. CarriedOK(y)'
  BY <1>0 DEF CarriedOK, SameReport
<1>2. ASSUME NEW z \in requests PROVE CarriedOK(z)'
  BY <1>0 DEF CarriedOK
<1>3. ASSUME NEW z \in requests', NEW u \in requests',
             z.awaited = TRUE, u.awaited = TRUE, z.window = u.window
      PROVE  z = u
  BY <1>0, <1>3 DEF SameReport
<1>. QED
  BY <1>0, <1>1, <1>2, <1>3 DEF RequestsOK

\* The server reads the attempt, or refuses.
LEMMA ReadKeeps ==
  ASSUME ScormInv, NEW x \in requests, x.stage = "sent",
         NEW y \in ScormRequests, SameReport(x, y), y.awaited = x.awaited,
         \/ y.stage = "read" /\ y.found = attempt
         \/ y.stage = "refused",
         requests' = (requests \ {x}) \cup {y}
           \/ (y.stage = "refused" /\ requests' = requests \ {x}),
         y.stage = "refused" /\ x.awaited # TRUE => requests' = requests \ {x},
         UNCHANGED <<attempt, bridge, sets, times, givenUp, crossed>>
  PROVE  ScormInv'
<1>0. /\ requests \subseteq ScormRequests
      /\ \A z \in requests' : z = y \/ (z \in requests /\ z # x)
      /\ y.window = x.window /\ y.time = x.time /\ y.value = x.value
  BY DEF ScormInv, ScormTypeOK, SameReport
<1>1. RequestsOK' /\ requests' \subseteq ScormRequests
  <2>1. CASE y.stage = "refused" /\ x.awaited # TRUE
    <3>1. requests' \subseteq requests
      BY <2>1
    <3>. QED
      BY <1>0, <3>1 DEF ScormInv, RequestsOK, CarriedOK
  <2>2. CASE ~ (y.stage = "refused" /\ x.awaited # TRUE)
    BY <1>0, <2>2, MovedRequests
  <2>. QED
    BY <2>1, <2>2
<1>2. ScormTypeOK' /\ (sets + times <= MaxReports)' /\ WindowOK'
  BY <1>1 DEF ScormInv, ScormTypeOK, WindowOK
<1>3. RoomOK'
  <2>1. IsFiniteSet(Owed) /\ IsFiniteSet(Stray) /\ times \in Nat /\ givenUp \in Nat
        /\ Cardinality(Owed) \in Nat /\ Cardinality(Stray) \in Nat
    BY RoomType DEF ScormInv, RoomOK
  <2>2. Owed' = Owed
    <3>1. \A w \in Windows :
            (\E z \in requests : z.window = w /\ z.stage = "saved")
              <=> (\E z \in requests' : z.window = w /\ z.stage = "saved")
      BY <1>0
    <3>. QED
      BY <3>1 DEF Owed
  <2>3. IsFiniteSet(Stray') /\ Cardinality(Stray') \in Nat /\ Cardinality(Stray') <= Cardinality(Stray)
    <3>1. CASE x \in Stray
      <4>1. \A z \in Stray' : z = y \/ (z \in Stray /\ z # x)
        BY <1>0 DEF Stray
      <4>. QED
        BY <2>1, <3>1, <4>1, OneMoved
    <3>2. CASE x \notin Stray
      <4>1. \A z \in Stray' : z \in Stray
        BY <1>0, <3>2 DEF Stray
      <4>. QED
        BY <2>1, <4>1, SmallerSet
    <3>. QED
      BY <3>1, <3>2
  <2>4. Cardinality(Owed') + Cardinality(Stray') - (times' + givenUp')
          <= Cardinality(Owed) + Cardinality(Stray) - (times + givenUp)
    BY <2>1, <2>2, <2>3
  <2>5. \A z \in requests' : z.stage = "read" => z.found = attempt \/ z \in requests
    BY <1>0
  <2>. QED
    BY <2>1, <2>2, <2>3, <2>4, <2>5, RoomKeeps
<1>4. AloneOK'
  <2>. SUFFICES ASSUME crossed' = FALSE PROVE AloneOK'
    BY DEF AloneOK
  <2>1. /\ \A z \in requests : z = x
        /\ x.value # 0 => bridge[x.window].dirty = TRUE
    BY DEF ScormInv, AloneOK
  <2>2. \A z \in requests' : z = y
    BY <1>0, <2>1
  <2>. QED
    BY <1>0, <2>1, <2>2 DEF AloneOK
<1>5. OneOK'
  <2>. SUFFICES ASSUME crossed' = FALSE, NEW v \in Windows, First(v)'
                PROVE  /\ attempt'.total + bridge'[v].time >= times'
                       /\ bridge'[v].stage = "initialized" =>
                            bridge'[v].dirty = TRUE \/ attempt'.value = bridge'[v].value
                       /\ \A z \in requests' : z.window = v /\ z.stage = "saved" =>
                            attempt'.total >= times'
    BY DEF OneOK
  <2>1. First(v) /\ crossed = FALSE
    BY DEF First
  <2>2. \A z \in requests' : z.stage = "saved" => z \in requests
    BY <1>0
  <2>. QED
    BY <2>1, <2>2 DEF ScormInv, OneOK
<1>. QED
  BY <1>1, <1>2, <1>3, <1>4, <1>5 DEF ScormInv

LEMMA RoomArithmetic ==
  ASSUME NEW a \in Nat, NEW b \in Nat, NEW c \in Nat, NEW d \in Nat, NEW n \in Nat, NEW time,
         c <= a, d <= b, time = 0 \/ time = 1, time = 1 => c + 1 <= a \/ d + 1 <= b
  PROVE  n - (c + d) \in Int /\ n - (c + d) <= n /\ (n - (a + b)) + time <= n - (c + d)
  OBVIOUS

\* A save gives the attempt the time it carries, which was still owed.
LEMMA SaveRoom ==
  ASSUME ScormInv, NEW x \in requests, x.stage = "read",
         NEW y \in ScormRequests, SameReport(x, y), y.awaited = x.awaited, y.stage = "saved",
         requests' = (requests \ {x}) \cup (IF x.awaited THEN {y} ELSE {}),
         UNCHANGED <<bridge, times, givenUp>>
  PROVE  /\ IsFiniteSet(Owed') /\ IsFiniteSet(Stray')
         /\ Room' \in Int /\ Room' <= times + givenUp /\ Room + x.time <= Room'
<1>0. /\ requests \subseteq ScormRequests /\ x.awaited \in BOOLEAN /\ x.time \in 0..1
      /\ \A z \in requests : CarriedOK(z)
      /\ \A z, u \in requests :
           z.awaited = TRUE /\ u.awaited = TRUE /\ z.window = u.window => z = u
      /\ x.window \in Windows
  BY RequestFields DEF ScormInv, ScormTypeOK, RequestsOK
<1>1. IsFiniteSet(Owed) /\ IsFiniteSet(Stray) /\ times \in Nat /\ givenUp \in Nat
      /\ Cardinality(Owed) \in Nat /\ Cardinality(Stray) \in Nat
  BY RoomType DEF ScormInv, RoomOK
<1>2. /\ x.awaited = TRUE => requests' = (requests \ {x}) \cup {y}
      /\ x.awaited = FALSE => requests' = requests \ {x}
  OBVIOUS
<1>3. \A v \in Owed' : v \in Owed /\ (x.awaited = TRUE => v # x.window)
  <2>1. ASSUME NEW v \in Windows, NEW z \in requests, z.window = v, z.stage = "saved"
        PROVE  z \in requests'
    BY <1>0, <1>2, <2>1
  <2>2. x.awaited = TRUE => y \in requests' /\ y.window = x.window
    BY <1>2 DEF SameReport
  <2>. QED
    BY <2>1, <2>2 DEF Owed
<1>4. \A z \in Stray' : z \in Stray /\ z # x
  BY <1>0, <1>2 DEF Stray
<1>5. /\ IsFiniteSet(Owed') /\ IsFiniteSet(Stray')
      /\ Cardinality(Owed') \in Nat /\ Cardinality(Stray') \in Nat
      /\ Cardinality(Owed') <= Cardinality(Owed) /\ Cardinality(Stray') <= Cardinality(Stray)
  BY <1>1, <1>3, <1>4, SmallerSet
<1>6. x.time = 1 => Cardinality(Owed') + 1 <= Cardinality(Owed)
                      \/ Cardinality(Stray') + 1 <= Cardinality(Stray)
  <2>1. CASE x.time = 1 /\ x.awaited = TRUE
    <3>1. x.window \in Owed
      BY <1>0, <2>1 DEF Owed, CarriedOK
    <3>. QED
      BY <1>1, <1>3, <2>1, <3>1, OneLess
  <2>2. CASE x.time = 1 /\ x.awaited = FALSE
    <3>1. x \in Stray
      BY <2>2 DEF Stray
    <3>. QED
      BY <1>1, <1>4, <3>1, OneLess
  <2>. QED
    BY <1>0, <2>1, <2>2
<1>7. x.time = 0 \/ x.time = 1
  BY <1>0
<1>8. times + givenUp \in Nat
  BY <1>1
<1>9. LET n == times + givenUp
      IN  /\ n - (Cardinality(Owed') + Cardinality(Stray')) \in Int
          /\ n - (Cardinality(Owed') + Cardinality(Stray')) <= n
          /\ (n - (Cardinality(Owed) + Cardinality(Stray))) + x.time
               <= n - (Cardinality(Owed') + Cardinality(Stray'))
  BY <1>1, <1>5, <1>6, <1>7, <1>8, RoomArithmetic
<1>. QED
  BY <1>5, <1>9 DEF Room

\* The server saves the attempt.
LEMMA UpsertKeeps ==
  ASSUME ScormInv, NEW x \in requests, x.stage = "read",
         NEW y \in ScormRequests, SameReport(x, y), y.awaited = x.awaited, y.stage = "saved",
         y.found = x.found, attempt' = Applied(x),
         requests' = (requests \ {x}) \cup (IF x.awaited THEN {y} ELSE {}),
         UNCHANGED <<bridge, sets, times, givenUp, crossed>>
  PROVE  ScormInv'
<1>0. /\ requests \subseteq ScormRequests /\ x \in ScormRequests /\ x.awaited \in BOOLEAN
      /\ y.window = x.window /\ y.time = x.time /\ y.value = x.value
      /\ x.time \in 0..1 /\ x.found \in Attempts
  BY RequestFields DEF ScormInv, ScormTypeOK, SameReport
<1>1. \A z \in requests' : \/ z = y /\ x.awaited = TRUE
                           \/ z \in requests /\ z # x
  BY <1>0
<1>2. /\ IsFiniteSet(Owed') /\ IsFiniteSet(Stray')
      /\ Room' \in Int /\ Room' <= times + givenUp /\ Room + x.time <= Room'
  BY SaveRoom
<1>3. /\ x.found.total <= Room /\ x.found.total \in Nat /\ Room \in Int
      /\ times \in 0..MaxReports /\ givenUp \in 0..MaxLost
  BY <1>0, AttemptFields, RoomType DEF ScormInv, RoomOK, ScormTypeOK
<1>4. /\ attempt'.total = x.found.total + x.time /\ attempt'.total \in Nat
      /\ attempt'.value = IF x.value # 0 THEN x.value ELSE x.found.value
  BY <1>0, AppliedFields
<1>5. attempt'.total <= Room'
  BY <1>0, <1>2, <1>3, <1>4
<1>6. attempt' \in Attempts
  <2>1. attempt'.total <= MaxReports + MaxLost
    BY <1>2, <1>3, <1>4, <1>5, ScormAssumption
  <2>. QED
    BY <1>0, <2>1, AppliedFields
<1>7. RequestsOK' /\ requests' \subseteq ScormRequests
  <2>1. CASE x.awaited = TRUE
    BY <1>0, <1>1, <2>1, MovedRequests
  <2>2. CASE x.awaited = FALSE
    <3>1. requests' \subseteq requests
      BY <1>1, <2>2
    <3>. QED
      BY <1>0, <3>1 DEF ScormInv, RequestsOK, CarriedOK
  <2>. QED
    BY <1>0, <2>1, <2>2
<1>8. ScormTypeOK' /\ (sets + times <= MaxReports)' /\ WindowOK'
  BY <1>6, <1>7 DEF ScormInv, ScormTypeOK, WindowOK
<1>9. RoomOK'
  <2>1. ASSUME NEW z \in requests', z.stage = "read" PROVE z.found.total <= Room'
    <3>1. z \in requests /\ z \in ScormRequests
      BY <1>0, <1>1, <2>1
    <3>2. z.found.total \in Nat /\ z.found.total <= Room
      BY <2>1, <3>1, RequestFields, AttemptFields DEF ScormInv, RoomOK
    <3>. QED
      BY <1>0, <1>2, <1>3, <3>2
  <2>. QED
    BY <1>2, <1>5, <2>1 DEF RoomOK
<1>10. crossed = FALSE =>
         /\ \A z \in requests : z = x
         /\ x.found = attempt /\ (x.value # 0 => bridge[x.window].dirty = TRUE)
  BY DEF ScormInv, AloneOK
<1>11. AloneOK'
  <2>1. Applied(y)' = Applied(x)
    BY <1>0 DEF Applied
  <2>. QED
    BY <1>0, <1>1, <1>10, <2>1 DEF AloneOK
<1>12. OneOK'
  <2>. SUFFICES ASSUME crossed' = FALSE, NEW v \in Windows, First(v)'
                PROVE  /\ attempt'.total + bridge'[v].time >= times'
                       /\ bridge'[v].stage = "initialized" =>
                            bridge'[v].dirty = TRUE \/ attempt'.value = bridge'[v].value
                       /\ \A z \in requests' : z.window = v /\ z.stage = "saved" =>
                            attempt'.total >= times'
    BY DEF OneOK
  <2>1. First(v) /\ crossed = FALSE
    BY DEF First
  <2>2. /\ attempt.total + bridge[v].time >= times
        /\ bridge[v].stage = "initialized" =>
             bridge[v].dirty = TRUE \/ attempt.value = bridge[v].value
    BY <2>1 DEF ScormInv, OneOK
  <2>3. attempt'.total = attempt.total + x.time /\ attempt.total \in Nat
    BY <1>3, <1>4, <1>10, <2>1
  <2>4. bridge[v].time \in 0..1
    BY BridgeFields DEF ScormInv, ScormTypeOK
  <2>5. attempt'.total + bridge'[v].time >= times'
    BY <1>0, <1>3, <2>2, <2>3, <2>4
  <2>6. x.value # 0 => x.window = v
    <3>1. CarriedOK(x) /\ x.window \in Windows
      BY <1>0, RequestFields DEF ScormInv, RequestsOK
    <3>. QED
      BY <2>1, <3>1 DEF First, CarriedOK
  <2>7. bridge'[v].stage = "initialized" =>
          bridge'[v].dirty = TRUE \/ attempt'.value = bridge'[v].value
    BY <1>4, <1>10, <2>1, <2>2, <2>6
  <2>8. ASSUME NEW z \in requests', z.window = v, z.stage = "saved"
        PROVE  attempt'.total >= times'
    <3>1. x.awaited = TRUE /\ x.window = v
      BY <1>0, <1>1, <1>10, <2>1, <2>8
    <3>2. x.time = bridge[v].time
      BY <3>1 DEF ScormInv, RequestsOK, CarriedOK
    <3>. QED
      BY <2>2, <2>3, <3>2
  <2>. QED
    BY <2>5, <2>7, <2>8
<1>. QED
  BY <1>7, <1>8, <1>9, <1>11, <1>12 DEF ScormInv

\* The bridge has the answer of a request that was served.
LEMMA SyncKeeps ==
  ASSUME ScormInv, NEW x \in requests, x.stage = "saved", NEW b \in Bridges,
         b.stage \in {"initialized", "finished"}, b.value = Applied(x).value, b.time = 0,
         b.calling = FALSE,
         requests' = requests \ {x}, bridge' = [bridge EXCEPT ![x.window] = b],
         UNCHANGED <<attempt, sets, times, givenUp, crossed>>
  PROVE  ScormInv'
<1>. DEFINE w == x.window
<1>0. /\ requests \subseteq ScormRequests /\ w \in Windows /\ x.awaited = TRUE
      /\ bridge \in [Windows -> Bridges]
      /\ \A z \in requests : CarriedOK(z) /\ z.window \in Windows
      /\ \A z, u \in requests :
           z.awaited = TRUE /\ u.awaited = TRUE /\ z.window = u.window => z = u
  BY RequestFields DEF ScormInv, ScormTypeOK, RequestsOK, CarriedOK
<1>1. /\ bridge' \in [Windows -> Bridges]
      /\ \A v \in Windows : bridge'[v] = IF v = w THEN b ELSE bridge[v]
  BY <1>0
<1>2. ScormTypeOK' /\ (sets + times <= MaxReports)' /\ WindowOK'
  <2>1. ScormTypeOK' /\ (sets + times <= MaxReports)'
    BY <1>1 DEF ScormInv, ScormTypeOK
  <2>2. WindowOK'
    BY <1>1 DEF ScormInv, WindowOK
  <2>. QED
    BY <2>1, <2>2
<1>. HIDE DEF w
<1>3. RequestsOK'
  <2>1. ASSUME NEW z \in requests' PROVE CarriedOK(z)'
    <3>1. CarriedOK(z) /\ z.window \in Windows /\ (z.awaited = TRUE => z.window # w)
      BY <1>0 DEF w
    <3>2. CASE z.window = w
      BY <1>0, <1>1, <3>1, <3>2 DEF CarriedOK
    <3>3. CASE z.window # w
      BY <1>1, <3>1, <3>3 DEF CarriedOK
    <3>. QED
      BY <3>2, <3>3
  <2>. QED
    BY <1>0, <2>1 DEF RequestsOK
<1>4. RoomOK'
  <2>1. IsFiniteSet(Owed) /\ IsFiniteSet(Stray) /\ times \in Nat /\ givenUp \in Nat
        /\ Cardinality(Owed) \in Nat /\ Cardinality(Stray) \in Nat
    BY RoomType DEF ScormInv, RoomOK
  <2>2. \A v \in Owed' : v \in Owed
    <3>1. \A v \in Windows : v # w => bridge'[v].time = bridge[v].time
      BY <1>1
    <3>2. bridge'[w].time = 0
      BY <1>0, <1>1
    <3>3. \A z \in requests : z.window # w => z \in requests'
      BY DEF w
    <3>. QED
      BY <3>1, <3>2, <3>3 DEF Owed
  <2>3. \A z \in Stray' : z \in Stray
    BY DEF Stray
  <2>4. /\ IsFiniteSet(Owed') /\ IsFiniteSet(Stray')
        /\ Cardinality(Owed') \in Nat /\ Cardinality(Stray') \in Nat
        /\ Cardinality(Owed') <= Cardinality(Owed) /\ Cardinality(Stray') <= Cardinality(Stray)
    BY <2>1, <2>2, <2>3, SmallerSet
  <2>5. Cardinality(Owed') + Cardinality(Stray') - (times' + givenUp')
          <= Cardinality(Owed) + Cardinality(Stray) - (times + givenUp)
    BY <2>1, <2>4
  <2>. QED
    BY <2>1, <2>4, <2>5, RoomKeeps
<1>5. crossed = FALSE => requests' = {} /\ attempt = Applied(x)
  BY DEF ScormInv, AloneOK
<1>6. AloneOK'
  BY <1>5 DEF AloneOK
<1>7. OneOK'
  <2>. SUFFICES ASSUME crossed' = FALSE, NEW v \in Windows, First(v)'
                PROVE  /\ attempt'.total + bridge'[v].time >= times'
                       /\ bridge'[v].stage = "initialized" =>
                            bridge'[v].dirty = TRUE \/ attempt'.value = bridge'[v].value
                       /\ \A z \in requests' : z.window = v /\ z.stage = "saved" =>
                            attempt'.total >= times'
    BY DEF OneOK
  <2>1. v = w
    BY <1>0, <1>1 DEF First
  <2>2. First(w) /\ crossed = FALSE
    BY <1>1, <2>1 DEF First
  <2>3. attempt.total >= times
    BY <1>0, <2>2 DEF ScormInv, OneOK, w
  <2>4. attempt.total \in Nat /\ times \in Nat
    BY AttemptFields, RoomType DEF ScormInv, ScormTypeOK
  <2>5. bridge'[v].time = 0 /\ bridge'[v].value = attempt'.value /\ requests' = {}
    BY <1>1, <1>5, <2>1, <2>2
  <2>. QED
    BY <2>3, <2>4, <2>5
<1>. QED
  BY <1>2, <1>3, <1>4, <1>6, <1>7 DEF ScormInv

\* The bridge hears of no success: what was dirty stays.
LEMMA FailKeeps ==
  ASSUME ScormInv, NEW x \in requests, x.awaited = TRUE, NEW b \in Bridges,
         SameValues(bridge[x.window], b), b.calling = FALSE,
         bridge' = [bridge EXCEPT ![x.window] = b],
         NEW y \in ScormRequests, SameReport(x, y), y.awaited = FALSE, y.stage = x.stage,
         y.found = x.found,
         \/ requests' = requests \ {x}
         \/ x.stage \in {"sent", "read"} /\ requests' = (requests \ {x}) \cup {y},
         \/ givenUp' = givenUp + 1 /\ givenUp' <= MaxLost
         \/ x.stage = "refused" /\ givenUp' = givenUp,
         UNCHANGED <<attempt, sets, times, crossed>>
  PROVE  ScormInv'
<1>. DEFINE w == x.window
<1>0. /\ requests \subseteq ScormRequests /\ w \in Windows
      /\ bridge \in [Windows -> Bridges]
      /\ \A z \in requests : CarriedOK(z) /\ z.window \in Windows
      /\ \A z, u \in requests :
           z.awaited = TRUE /\ u.awaited = TRUE /\ z.window = u.window => z = u
      /\ y.window = w /\ y.value = x.value /\ y.kind = x.kind /\ y.time = x.time
  BY RequestFields DEF ScormInv, ScormTypeOK, RequestsOK, SameReport
<1>1. /\ bridge' \in [Windows -> Bridges]
      /\ \A v \in Windows : bridge'[v] = IF v = w THEN b ELSE bridge[v]
  BY <1>0
<1>2. \A v \in Windows : SameValues(bridge[v], bridge'[v])
  BY <1>1 DEF SameValues
<1>3. \A z \in requests' :
        (z \in requests /\ z # x) \/ (z = y /\ x.stage \in {"sent", "read"})
  OBVIOUS
<1>. HIDE DEF w
<1>4. requests' \subseteq ScormRequests
  BY <1>0, <1>3
<1>5. ScormTypeOK' /\ (sets + times <= MaxReports)'
  <2>1. givenUp' \in 0..MaxLost
    BY ScormAssumption DEF ScormInv, ScormTypeOK
  <2>. QED
    BY <1>1, <1>4, <2>1 DEF ScormInv, ScormTypeOK
<1>6. WindowOK'
  BY <1>2 DEF ScormInv, WindowOK, SameValues
<1>7. RequestsOK'
  <2>1. ASSUME NEW z \in requests, z # x PROVE CarriedOK(z)'
    <3>1. CarriedOK(z) /\ z.window \in Windows /\ (z.awaited = TRUE => z.window # w)
      BY <1>0, <2>1 DEF w
    <3>2. SameValues(bridge[z.window], bridge'[z.window])
      BY <1>2, <3>1
    <3>3. z.window # w => bridge'[z.window] = bridge[z.window]
      BY <1>1, <3>1
    <3>. QED
      BY <3>1, <3>2, <3>3 DEF CarriedOK, SameValues
  <2>2. ASSUME x.stage \in {"sent", "read"} PROVE CarriedOK(y)'
    <3>1. CarriedOK(x) /\ SameValues(bridge[w], bridge'[w])
      BY <1>0, <1>2
    <3>. QED
      BY <1>0, <2>2, <3>1 DEF CarriedOK, SameValues, w
  <2>3. ASSUME NEW z \in requests', NEW u \in requests',
               z.awaited = TRUE, u.awaited = TRUE, z.window = u.window
        PROVE  z = u
    BY <1>0, <1>3, <2>3
  <2>4. \A z \in requests' : CarriedOK(z)'
    BY <1>3, <2>1, <2>2
  <2>. QED
    BY <2>3, <2>4 DEF RequestsOK
<1>8. RoomOK'
  <2>1. IsFiniteSet(Owed) /\ IsFiniteSet(Stray) /\ times \in Nat /\ givenUp \in Nat
        /\ Cardinality(Owed) \in Nat /\ Cardinality(Stray) \in Nat
    BY RoomType DEF ScormInv, RoomOK
  <2>2. \A v \in Windows : bridge'[v].time = bridge[v].time
    BY <1>2 DEF SameValues
  <2>3. \A z \in requests' : z.stage = "read" =>
          \/ z.found = attempt
          \/ \E u \in requests : u.stage = "read" /\ u.found = z.found
    BY <1>3
  <2>4. CASE x.stage = "saved"
    <3>1. givenUp' = givenUp + 1 /\ requests' = requests \ {x}
      BY <2>4
    <3>2. \A v \in Owed' : v \in Owed \/ v = w
      BY <2>2, <3>1 DEF Owed, w
    <3>3. \A z \in Stray' : z \in Stray
      BY <3>1 DEF Stray
    <3>4. /\ IsFiniteSet(Owed') /\ Cardinality(Owed') \in Nat
          /\ Cardinality(Owed') <= Cardinality(Owed) + 1
      BY <2>1, <3>2, OneMore
    <3>5. /\ IsFiniteSet(Stray') /\ Cardinality(Stray') \in Nat
          /\ Cardinality(Stray') <= Cardinality(Stray)
      BY <2>1, <3>3, SmallerSet
    <3>6. Cardinality(Owed') + Cardinality(Stray') - (times' + givenUp')
            <= Cardinality(Owed) + Cardinality(Stray) - (times + givenUp)
      BY <2>1, <3>1, <3>4, <3>5
    <3>7. times' \in Nat /\ givenUp' \in Nat
      BY <2>1, <3>1
    <3>. QED
      BY <2>3, <3>4, <3>5, <3>6, <3>7, RoomKeeps
  <2>5. CASE x.stage # "saved"
    <3>1. \A z \in requests : z.stage = "saved" => z \in requests'
      BY <2>5
    <3>2. \A v \in Owed' : v \in Owed
      BY <2>2, <3>1 DEF Owed
    <3>3. \A z \in Stray' : z \in Stray \/ z = y
      BY <1>3 DEF Stray
    <3>4. x.stage = "refused" => \A z \in Stray' : z \in Stray
      BY <1>3 DEF Stray
    <3>5. /\ IsFiniteSet(Owed') /\ Cardinality(Owed') \in Nat
          /\ Cardinality(Owed') <= Cardinality(Owed)
      BY <2>1, <3>2, SmallerSet
    <3>6. /\ IsFiniteSet(Stray') /\ Cardinality(Stray') \in Nat
          /\ Cardinality(Stray') <= Cardinality(Stray) + 1
      BY <2>1, <3>3, OneMore
    <3>7. x.stage = "refused" => Cardinality(Stray') <= Cardinality(Stray)
      BY <2>1, <3>4, SmallerSet
    <3>8. Cardinality(Owed') + Cardinality(Stray') - (times' + givenUp')
            <= Cardinality(Owed) + Cardinality(Stray) - (times + givenUp)
      BY <2>1, <3>5, <3>6, <3>7
    <3>9. times' \in Nat /\ givenUp' \in Nat
      BY <2>1
    <3>. QED
      BY <2>3, <3>5, <3>6, <3>8, <3>9, RoomKeeps
  <2>. QED
    BY <2>4, <2>5
<1>9. AloneOK'
  <2>. SUFFICES ASSUME crossed' = FALSE PROVE AloneOK'
    BY DEF AloneOK
  <2>1. /\ \A z \in requests : z = x
        /\ x.stage = "read" => x.found = attempt
        /\ x.value # 0 => bridge[w].dirty = TRUE
    BY DEF ScormInv, AloneOK, w
  <2>2. \A z \in requests' : z = y /\ x.stage \in {"sent", "read"}
    BY <1>3, <2>1
  <2>3. bridge'[w].dirty = bridge[w].dirty
    BY <1>0, <1>2 DEF SameValues
  <2>. QED
    BY <1>0, <2>1, <2>2, <2>3 DEF AloneOK
<1>10. OneOK'
  <2>. SUFFICES ASSUME crossed' = FALSE, NEW v \in Windows, First(v)'
                PROVE  /\ attempt'.total + bridge'[v].time >= times'
                       /\ bridge'[v].stage = "initialized" =>
                            bridge'[v].dirty = TRUE \/ attempt'.value = bridge'[v].value
                       /\ \A z \in requests' : z.window = v /\ z.stage = "saved" =>
                            attempt'.total >= times'
    BY DEF OneOK
  <2>1. First(v) /\ crossed = FALSE
    BY <1>2 DEF First, SameValues
  <2>2. \A z \in requests' : z.stage = "saved" => z \in requests
    BY <1>3
  <2>3. SameValues(bridge[v], bridge'[v])
    BY <1>2
  <2>. QED
    BY <2>1, <2>2, <2>3 DEF ScormInv, OneOK, SameValues
<1>. QED
  BY <1>5, <1>6, <1>7, <1>8, <1>9, <1>10 DEF ScormInv

\* A statement of the server.
LEMMA ServerKeepsScorm ==
  ASSUME ScormInv, NEW x \in requests, ReadAttempt(x) \/ UpsertAttempt(x)
  PROVE  ScormInv'
<1>0. /\ x \in ScormRequests /\ x.awaited \in BOOLEAN /\ x.odd \in BOOLEAN /\ attempt \in Attempts
  BY RequestFields DEF ScormInv, ScormTypeOK
<1>1. CASE ReadAttempt(x) /\ x.odd
  <2>1. PICK y : y = [x EXCEPT !.stage = "refused"]
    OBVIOUS
  <2>2. /\ y \in ScormRequests /\ y.stage = "refused" /\ SameReport(x, y)
        /\ y.awaited = x.awaited
    BY <1>0, <2>1, RequestMoves
  <2>3. /\ x.stage = "sent" /\ requests' = (requests \ {x}) \cup (IF x.awaited THEN {y} ELSE {})
        /\ UNCHANGED <<attempt, bridge, sets, times, givenUp, crossed>>
    BY <1>1, <2>1 DEF ReadAttempt, Done
  <2>4. /\ \/ requests' = (requests \ {x}) \cup {y}
           \/ y.stage = "refused" /\ requests' = requests \ {x}
        /\ y.stage = "refused" /\ x.awaited # TRUE => requests' = requests \ {x}
    BY <1>0, <2>2, <2>3
  <2>. QED
    BY <2>2, <2>3, <2>4, ReadKeeps
<1>2. CASE ReadAttempt(x) /\ ~ x.odd
  <2>1. PICK y : y = [x EXCEPT !.stage = "read", !.found = attempt]
    OBVIOUS
  <2>2. /\ y \in ScormRequests /\ y.stage = "read" /\ SameReport(x, y)
        /\ y.awaited = x.awaited /\ y.found = attempt
    BY <1>0, <2>1, RequestReads
  <2>3. /\ x.stage = "sent" /\ requests' = (requests \ {x}) \cup {y}
        /\ UNCHANGED <<attempt, bridge, sets, times, givenUp, crossed>>
    BY <1>2, <2>1 DEF ReadAttempt, Move
  <2>. QED
    BY <2>2, <2>3, ReadKeeps
<1>3. CASE UpsertAttempt(x)
  <2>1. PICK y : y = [x EXCEPT !.stage = "saved"]
    OBVIOUS
  <2>2. /\ y \in ScormRequests /\ y.stage = "saved" /\ SameReport(x, y)
        /\ y.awaited = x.awaited /\ y.found = x.found
    BY <1>0, <2>1, RequestMoves
  <2>3. /\ x.stage = "read" /\ requests' = (requests \ {x}) \cup (IF x.awaited THEN {y} ELSE {})
        /\ attempt' = Applied(x) /\ UNCHANGED <<bridge, sets, times, givenUp, crossed>>
    BY <1>3, <2>1 DEF UpsertAttempt, Done
  <2>. QED
    BY <2>2, <2>3, UpsertKeeps
<1>. QED
  BY <1>0, <1>1, <1>2, <1>3

\* What the bridge hears of its request.
LEMMA AnswersKeepScorm ==
  ASSUME ScormInv, NEW x \in requests, ScormAnswer(x) \/ CallFails(x)
  PROVE  ScormInv'
<1>0. /\ x \in ScormRequests /\ x.window \in Windows /\ bridge[x.window] \in Bridges
      /\ x.awaited \in BOOLEAN /\ (x.stage \in {"saved", "refused"} => x.awaited = TRUE)
      /\ bridge \in [Windows -> Bridges]
  BY RequestFields DEF ScormInv, ScormTypeOK, RequestsOK, CarriedOK
<1>1. CASE ScormAnswer(x) /\ x.stage = "saved"
  <2>1. PICK b : b = Synced(bridge[x.window], x)
    OBVIOUS
  <2>2. /\ b \in Bridges /\ b.stage \in {"initialized", "finished"}
        /\ b.value = Applied(x).value /\ b.time = 0 /\ b.calling = FALSE
    BY <1>0, <2>1, BridgeSyncs
  <2>3. /\ requests' = requests \ {x} /\ bridge' = [bridge EXCEPT ![x.window] = b]
        /\ UNCHANGED <<attempt, sets, times, givenUp, crossed>>
    BY <1>1, <2>1 DEF ScormAnswer
  <2>. QED
    BY <1>1, <2>2, <2>3, SyncKeeps
<1>2. PICK b, y : b = Failed(bridge[x.window]) /\ y = [x EXCEPT !.awaited = FALSE]
  OBVIOUS
<1>3. b \in Bridges /\ b.calling = FALSE /\ SameValues(bridge[x.window], b)
  BY <1>0, <1>2, BridgeCalls DEF Failed
<1>4. /\ y \in ScormRequests /\ y.awaited = FALSE /\ SameReport(x, y)
      /\ y.stage = x.stage /\ y.found = x.found
  BY <1>0, <1>2, RequestGivenUp
<1>5. CASE ScormAnswer(x) /\ x.stage = "refused"
  <2>1. /\ requests' = requests \ {x} /\ bridge' = [bridge EXCEPT ![x.window] = b]
        /\ UNCHANGED <<attempt, sets, times, givenUp, crossed>>
    BY <1>2, <1>5 DEF ScormAnswer
  <2>. QED
    BY <1>0, <1>3, <1>4, <1>5, <2>1, FailKeeps
<1>6. CASE CallFails(x)
  <2>1. /\ \/ requests' = requests \ {x}
           \/ x.stage \in {"sent", "read"} /\ requests' = (requests \ {x}) \cup {y}
        /\ bridge' = [bridge EXCEPT ![x.window] = b] /\ x.awaited = TRUE
        /\ givenUp' = givenUp + 1 /\ givenUp < MaxLost
        /\ UNCHANGED <<attempt, sets, times, crossed>>
    BY <1>0, <1>2, <1>6 DEF CallFails, Move
  <2>2. givenUp' <= MaxLost
    BY <2>1, ScormAssumption DEF ScormInv, ScormTypeOK
  <2>. QED
    BY <1>3, <1>4, <2>1, <2>2, FailKeeps
<1>. QED
  BY <1>1, <1>5, <1>6 DEF ScormAnswer

\* The strengthened invariant is kept by every step.
LEMMA ScormStepKeeps == ScormInv /\ [ScormNext]_scormVars => ScormInv'
<1>. SUFFICES ASSUME ScormInv, [ScormNext]_scormVars PROVE ScormInv'
  OBVIOUS
<1>1. ASSUME NEW w \in Windows, LMSInitialize(w) \/ LMSCommit(w) \/ LMSFinish(w) PROVE ScormInv'
  BY <1>1, CallKeeps DEF LMSInitialize, LMSCommit, LMSFinish
<1>2. CASE UNCHANGED scormVars
  BY <1>2 DEF scormVars, ScormInv, ScormTypeOK, WindowOK, RequestsOK, CarriedOK, RoomOK, Room,
              Owed, Stray, AloneOK, OneOK, First, Applied
<1>. QED
  BY <1>1, <1>2, SetsKeep, ServerKeepsScorm, AnswersKeepScorm DEF ScormNext

\* And holds at first.
LEMMA ScormInitial == ScormInit => ScormInv
<1>. SUFFICES ASSUME ScormInit PROVE ScormInv
  OBVIOUS
<1>. USE DEF ScormInit
<1>1. NewBridge \in Bridges /\ NewAttempt \in Attempts
  BY ScormAssumption DEF NewBridge, NewAttempt, Bridges, Attempts
<1>2. \A w \in Windows : bridge[w].time = 0 /\ bridge[w].stage = "new"
  BY DEF NewBridge
<1>3. ScormTypeOK /\ sets + times <= MaxReports
  <2>1. 0 \in 0..MaxReports /\ 0 \in 0..MaxLost /\ 0 + 0 <= MaxReports
    BY ScormAssumption
  <2>2. bridge \in [Windows -> Bridges]
    BY <1>1
  <2>. QED
    BY <1>1, <2>1, <2>2 DEF ScormTypeOK
<1>4. Owed = {} /\ Stray = {}
  <2>1. \A w \in Owed : FALSE
    BY <1>2 DEF Owed
  <2>2. \A x \in Stray : FALSE
    BY DEF Stray
  <2>. QED
    BY <2>1, <2>2
<1>5. RoomOK
  BY <1>4, FS_EmptySet DEF RoomOK, Room, NewAttempt
<1>6. WindowOK /\ RequestsOK /\ AloneOK
  BY <1>2 DEF WindowOK, RequestsOK, AloneOK, CarriedOK
<1>7. OneOK
  BY <1>2 DEF OneOK, NewAttempt
<1>. QED
  BY <1>3, <1>5, <1>6, <1>7 DEF ScormInv

\* The attempt, every page and every request keep their types, whatever is
\* given up and however windows overlap; the total stays within its bound.
THEOREM ScormTypeCorrect == ScormSpec => []ScormTypeOK
<1>1. ScormInv => ScormTypeOK
  BY DEF ScormInv
<1>. QED
  BY <1>1, ScormInitial, ScormStepKeeps, PTL DEF ScormSpec

\* No session time is counted twice but for an answer that was lost, however
\* many windows overlap; and with one window and no two requests meeting, none
\* is forgotten and the attempt has the bridge's value.
THEOREM ReportsCorrect == ScormSpec => []ReportsCounted
<1>1. ASSUME ScormInv PROVE ReportsCounted
  <2>1. attempt.total <= times + givenUp
    <3>1. attempt.total <= Room /\ attempt.total \in Nat
      BY <1>1, AttemptFields DEF ScormInv, RoomOK, ScormTypeOK
    <3>. QED
      BY <1>1, <3>1, RoomType DEF Room
  <2>2. ASSUME NEW w \in Windows, ~crossed, Running(w),
               \A v \in Windows \ {w} : bridge[v] = NewBridge
        PROVE  /\ bridge[w].dirty \/ attempt.value = bridge[w].value
               /\ attempt.total + bridge[w].time >= times
    <3>1. First(w)
      BY <2>2 DEF First, NewBridge
    <3>2. crossed = FALSE
      BY <1>1, <2>2 DEF ScormInv, ScormTypeOK
    <3>3. bridge[w].stage = "initialized"
      BY <2>2 DEF Running
    <3>. QED
      BY <1>1, <3>1, <3>2, <3>3 DEF ScormInv, OneOK
  <2>. QED
    BY <2>1, <2>2 DEF ReportsCounted
<1>. QED
  BY <1>1, ScormInitial, ScormStepKeeps, PTL DEF ScormSpec

-----------------------------------------------------------------------------
(* Sums over finite sets, which MapThenSumSet adds up in an order of its   *)
(* own: what the sum of a set is, and that the order does not matter.      *)

\* The element that the sum of a set begins with.
FirstOf(s) == CHOOSE y \in s : TRUE

\* The sum of a set of what a function gives for its elements.
Total(f, S) == MapThenSumSet(LAMBDA x : f[x], S)

\* What the sums of the sets with no more than n elements are.
AddsUp(f, Q, t) ==
  t = [s \in Q |-> IF s = {} THEN 0 ELSE f[FirstOf(s)] + t[s \ {FirstOf(s)}]]

SumsOf(f, S, t) == AddsUp(f, SUBSET S, t)

UpTo(D, n) == {s \in SUBSET D : IsFiniteSet(s) /\ Cardinality(s) <= n}

LEMMA LeastNumber ==
  ASSUME NEW T \in SUBSET Nat, T # {}
  PROVE  \E n \in T : \A m \in T : n <= m
<1>. DEFINE R == {ss \in Nat \X Nat : ss[1] < ss[2]}
<1>1. IsWellFoundedOn(R, Nat)
  BY NatLessThanWellFounded, Zenon DEF OpToRel
<1>2. \E n \in T : \A m \in T : ~ (<<m, n>> \in R)
  <2>. HIDE DEF R
  <2>. QED
    BY <1>1, WFMin, Zenon
<1>3. \A k, l \in Nat : k < l => <<k, l>> \in R
  OBVIOUS
<1>4. PICK n \in T : \A m \in T : ~ (<<m, n>> \in R)
  BY <1>2
<1>5. \A m \in T : n <= m
  <2>1. \A m \in T : m \in Nat /\ n \in Nat /\ ~ (m < n)
    BY <1>3, <1>4
  <2>. QED
    BY ONLY <2>1
<1>. QED
  BY <1>5

LEMMA FirstIsIn ==
  ASSUME NEW s, s # {}
  PROVE  FirstOf(s) \in s
BY DEF FirstOf

\* Without its first element a finite set is a smaller one.
LEMMA WithoutOne ==
  ASSUME NEW s, IsFiniteSet(s), NEW x \in s
  PROVE  /\ IsFiniteSet(s \ {x}) /\ Cardinality(s \ {x}) = Cardinality(s) - 1
         /\ Cardinality(s) \in Nat /\ Cardinality(s) # 0 /\ Cardinality(s \ {x}) \in Nat
<1>1. /\ IsFiniteSet(s \ {x}) /\ Cardinality(s \ {x}) = Cardinality(s) - 1
  BY FS_RemoveElement
<1>2. Cardinality(s) \in Nat /\ Cardinality(s \ {x}) \in Nat
  BY <1>1, FS_CardinalityType
<1>. QED
  BY <1>1, <1>2

LEMMA AddsUpThere ==
  ASSUME NEW f, NEW D, NEW n \in Nat
  PROVE  \E t : AddsUp(f, UpTo(D, n), t)
<1>. DEFINE Bad == {k \in Nat : ~ \E t : AddsUp(f, UpTo(D, k), t)}
<1>. SUFFICES ASSUME Bad # {} PROVE FALSE
  OBVIOUS
<1>1. PICK k \in Bad : \A m \in Bad : k <= m
  BY LeastNumber
<1>2. CASE k = 0
  <2>. DEFINE t == [s \in UpTo(D, 0) |-> 0]
  <2>1. \A s \in UpTo(D, 0) : s = {}
    BY FS_EmptySet, FS_CardinalityType DEF UpTo
  <2>2. t = [s \in UpTo(D, 0) |-> IF s = {} THEN 0 ELSE f[FirstOf(s)] + t[s \ {FirstOf(s)}]]
    BY <2>1
  <2>. QED
    BY <1>1, <1>2, <2>2 DEF AddsUp
<1>3. CASE k # 0
  <2>1. k - 1 \in Nat /\ k - 1 \notin Bad
    BY <1>1, <1>3
  <2>2. PICK t : AddsUp(f, UpTo(D, k - 1), t)
    BY <2>1
  <2>3. t = [s \in UpTo(D, k - 1) |-> IF s = {} THEN 0 ELSE f[FirstOf(s)] + t[s \ {FirstOf(s)}]]
    BY <2>2 DEF AddsUp
  <2>. DEFINE u == [s \in UpTo(D, k) |-> IF s = {} THEN 0 ELSE f[FirstOf(s)] + t[s \ {FirstOf(s)}]]
  <2>4. ASSUME NEW s \in UpTo(D, k), s # {}
        PROVE  s \ {FirstOf(s)} \in UpTo(D, k - 1) /\ s \ {FirstOf(s)} \in UpTo(D, k)
    <3>1. FirstOf(s) \in s
      BY <2>4, FirstIsIn
    <3>. QED
      BY <1>1, <3>1, WithoutOne DEF UpTo
  <2>5. \A s \in UpTo(D, k - 1) : s \in UpTo(D, k)
    BY <1>1, FS_CardinalityType DEF UpTo
  <2>6. \A s \in UpTo(D, k - 1) : u[s] = t[s]
    BY <2>3, <2>5
  <2>7. u = [s \in UpTo(D, k) |-> IF s = {} THEN 0 ELSE f[FirstOf(s)] + u[s \ {FirstOf(s)}]]
    BY <2>4, <2>6
  <2>8. \E v : AddsUp(f, UpTo(D, k), v)
    BY <2>7 DEF AddsUp
  <2>. QED
    BY <1>1, <2>8
<1>. QED
  BY <1>2, <1>3

\* The sum of a set is what it adds up to, over the subsets of any set it is in.
LEMMA TotalAddsUp ==
  ASSUME NEW f, NEW S, IsFiniteSet(S)
  PROVE  \E t : SumsOf(f, S, t) /\ Total(f, S) = t[S]
<1>1. Cardinality(S) \in Nat
  BY FS_CardinalityType
<1>2. UpTo(S, Cardinality(S)) = SUBSET S
  <2>1. \A s \in SUBSET S : IsFiniteSet(s) /\ Cardinality(s) <= Cardinality(S)
    BY FS_Subset
  <2>2. \A s : s \in UpTo(S, Cardinality(S)) <=> s \in SUBSET S
    BY ONLY <2>1, Zenon DEF UpTo
  <2>. QED
    BY ONLY <2>2, Zenon
<1>3. \E t : SumsOf(f, S, t)
  <2>1. \E t : AddsUp(f, UpTo(S, Cardinality(S)), t)
    BY <1>1, AddsUpThere, Zenon
  <2>. QED
    BY ONLY <1>2, <2>1, Zenon DEF SumsOf
<1>4. PICK u : u = CHOOSE v : SumsOf(f, S, v)
  OBVIOUS
<1>5. SumsOf(f, S, u)
  BY ONLY <1>3, <1>4, Zenon
<1>6. Total(f, S) = u[S]
  BY <1>4 DEF Total, MapThenSumSet, MapThenFoldSet, SumsOf, AddsUp, FirstOf
<1>. QED
  BY ONLY <1>5, <1>6, Zenon

\* Of some finite sets one is the smallest.
LEMMA SmallestOf ==
  ASSUME NEW Q, Q # {}, \A s \in Q : IsFiniteSet(s)
  PROVE  \E s \in Q : \A r \in Q : Cardinality(s) <= Cardinality(r)
<1>. DEFINE T == {Cardinality(s) : s \in Q}
<1>1. T \in SUBSET Nat /\ T # {}
  BY FS_CardinalityType
<1>2. \E n \in T : \A m \in T : n <= m
  <2>. HIDE DEF T
  <2>. QED
    BY <1>1, LeastNumber
<1>. QED
  BY <1>2

\* A set has the same sum as a subset of whatever other set.
LEMMA SameSum ==
  ASSUME NEW f, NEW S, NEW T, IsFiniteSet(S), IsFiniteSet(T), NEW t, NEW u,
         SumsOf(f, S, t), SumsOf(f, T, u)
  PROVE  \A s \in SUBSET (S \cap T) : t[s] = u[s]
<1>. DEFINE Q == {s \in SUBSET (S \cap T) : t[s] # u[s]}
<1>. SUFFICES ASSUME Q # {} PROVE FALSE
  OBVIOUS
<1>1. \A s \in Q : IsFiniteSet(s)
  BY FS_Subset
<1>2. PICK s \in Q : \A r \in Q : Cardinality(s) <= Cardinality(r)
  <2>. HIDE DEF Q
  <2>. QED
    BY <1>1, SmallestOf
<1>3. /\ t[s] = IF s = {} THEN 0 ELSE f[FirstOf(s)] + t[s \ {FirstOf(s)}]
      /\ u[s] = IF s = {} THEN 0 ELSE f[FirstOf(s)] + u[s \ {FirstOf(s)}]
  BY <1>2 DEF SumsOf, AddsUp
<1>4. CASE s # {}
  <2>1. FirstOf(s) \in s /\ IsFiniteSet(s)
    BY <1>1, <1>2, <1>4, FirstIsIn
  <2>2. /\ Cardinality(s \ {FirstOf(s)}) = Cardinality(s) - 1
        /\ Cardinality(s \ {FirstOf(s)}) \in Nat /\ Cardinality(s) \in Nat
    BY <2>1, WithoutOne
  <2>3. ~ (Cardinality(s) <= Cardinality(s \ {FirstOf(s)}))
    BY ONLY <2>2
  <2>4. s \ {FirstOf(s)} \notin Q
    BY <1>2, <2>2, <2>3
  <2>5. t[s \ {FirstOf(s)}] = u[s \ {FirstOf(s)}]
    BY <1>2, <2>4
  <2>. QED
    BY <1>2, <1>3, <1>4, <2>5
<1>. QED
  BY <1>2, <1>3, <1>4

\* A sum begins with the first element of the set, and goes on with the rest.
LEMMA TotalStep ==
  ASSUME NEW f, NEW S, IsFiniteSet(S)
  PROVE  Total(f, S) = IF S = {} THEN 0 ELSE f[FirstOf(S)] + Total(f, S \ {FirstOf(S)})
<1>1. PICK t : SumsOf(f, S, t) /\ Total(f, S) = t[S]
  BY TotalAddsUp
<1>2. t[S] = IF S = {} THEN 0 ELSE f[FirstOf(S)] + t[S \ {FirstOf(S)}]
  BY <1>1 DEF SumsOf, AddsUp
<1>3. CASE S # {}
  <2>1. PICK R : R = S \ {FirstOf(S)}
    OBVIOUS
  <2>2. IsFiniteSet(R) /\ R \in SUBSET (S \cap R)
    BY <2>1, FS_Subset
  <2>3. PICK u : SumsOf(f, R, u) /\ Total(f, R) = u[R]
    BY <2>2, TotalAddsUp
  <2>4. t[R] = u[R]
    <3>1. \A s \in SUBSET (S \cap R) : t[s] = u[s]
      BY ONLY <1>1, <2>2, <2>3, IsFiniteSet(S), SameSum
    <3>. QED
      BY ONLY <2>2, <3>1, Zenon
  <2>. QED
    BY <1>1, <1>2, <1>3, <2>1, <2>3, <2>4
<1>. QED
  BY <1>1, <1>2, <1>3

LEMMA TotalType ==
  ASSUME NEW f, NEW S, IsFiniteSet(S), \A x \in S : f[x] \in Nat
  PROVE  Total(f, S) \in Nat
<1>. DEFINE Q == {s \in SUBSET S : Total(f, s) \notin Nat}
<1>. SUFFICES ASSUME Q # {} PROVE FALSE
  OBVIOUS
<1>1. \A s \in Q : IsFiniteSet(s)
  BY FS_Subset
<1>2. PICK s \in Q : \A r \in Q : Cardinality(s) <= Cardinality(r)
  <2>. HIDE DEF Q
  <2>. QED
    BY <1>1, SmallestOf
<1>3. IsFiniteSet(s)
  BY <1>1, <1>2
<1>4. Total(f, s) = IF s = {} THEN 0 ELSE f[FirstOf(s)] + Total(f, s \ {FirstOf(s)})
  BY <1>3, TotalStep
<1>5. CASE s # {}
  <2>1. FirstOf(s) \in s
    BY <1>5, FirstIsIn
  <2>2. Cardinality(s \ {FirstOf(s)}) < Cardinality(s)
        /\ Cardinality(s \ {FirstOf(s)}) \in Nat /\ Cardinality(s) \in Nat
    BY <1>3, <2>1, WithoutOne
  <2>3. s \ {FirstOf(s)} \notin Q
    BY <1>2, <2>2
  <2>4. Total(f, s \ {FirstOf(s)}) \in Nat /\ f[FirstOf(s)] \in Nat
    BY <1>2, <2>1, <2>3
  <2>. QED
    BY <1>2, <1>4, <1>5, <2>4
<1>. QED
  BY <1>2, <1>4, <1>5

\* A sum may begin with any element.
LEMMA TotalWithout ==
  ASSUME NEW f, NEW S, IsFiniteSet(S), \A x \in S : f[x] \in Nat
  PROVE  \A x \in S : Total(f, S) = f[x] + Total(f, S \ {x})
<1>. DEFINE Q == {s \in SUBSET S : \E x \in s : Total(f, s) # f[x] + Total(f, s \ {x})}
<1>. SUFFICES ASSUME Q # {} PROVE FALSE
  OBVIOUS
<1>1. \A s \in Q : IsFiniteSet(s)
  BY FS_Subset
<1>2. PICK s \in Q : \A r \in Q : Cardinality(s) <= Cardinality(r)
  <2>. HIDE DEF Q
  <2>. QED
    BY <1>1, SmallestOf
<1>3. IsFiniteSet(s) /\ s \in SUBSET S
  BY <1>1, <1>2
<1>4. PICK x \in s : Total(f, s) # f[x] + Total(f, s \ {x})
  BY <1>2
<1>5. PICK p : p = FirstOf(s)
  OBVIOUS
<1>6. p \in s
  BY <1>4, <1>5, FirstIsIn
<1>7. Total(f, s) = f[p] + Total(f, s \ {p})
  BY <1>3, <1>4, <1>5, TotalStep
<1>8. ASSUME NEW y \in s, NEW z \in s, y # z
      PROVE  /\ Total(f, s \ {y}) = f[z] + Total(f, (s \ {y}) \ {z})
             /\ Total(f, (s \ {y}) \ {z}) \in Nat
  <2>1. /\ IsFiniteSet(s \ {y}) /\ Cardinality(s \ {y}) < Cardinality(s)
        /\ Cardinality(s \ {y}) \in Nat /\ Cardinality(s) \in Nat
    BY <1>3, WithoutOne
  <2>2. s \ {y} \notin Q
    BY <1>2, <2>1
  <2>3. z \in s \ {y} /\ s \ {y} \in SUBSET S
    BY <1>3, <1>8
  <2>4. IsFiniteSet((s \ {y}) \ {z})
    BY <2>1, FS_Subset
  <2>5. \A w \in (s \ {y}) \ {z} : f[w] \in Nat
    BY <1>3
  <2>6. Total(f, (s \ {y}) \ {z}) \in Nat
    BY <2>4, <2>5, TotalType
  <2>. QED
    BY <2>2, <2>3, <2>6
<1>9. CASE p # x
  <2>1. (s \ {p}) \ {x} = (s \ {x}) \ {p}
    OBVIOUS
  <2>2. /\ Total(f, s \ {p}) = f[x] + Total(f, (s \ {p}) \ {x})
        /\ Total(f, s \ {x}) = f[p] + Total(f, (s \ {p}) \ {x})
        /\ Total(f, (s \ {p}) \ {x}) \in Nat
    BY <1>6, <1>8, <1>9, <2>1
  <2>3. f[p] \in Nat /\ f[x] \in Nat
    BY <1>3, <1>6
  <2>. QED
    BY ONLY <1>4, <1>7, <2>2, <2>3
<1>. QED
  BY <1>4, <1>7, <1>9

\* What one element, and what several add.
LEMMA TotalWith ==
  ASSUME NEW f, NEW S, IsFiniteSet(S), NEW x, x \notin S, \A y \in S \cup {x} : f[y] \in Nat
  PROVE  Total(f, S \cup {x}) = f[x] + Total(f, S)
<1>1. IsFiniteSet(S \cup {x})
  BY FS_AddElement
<1>2. (S \cup {x}) \ {x} = S /\ x \in S \cup {x}
  OBVIOUS
<1>3. Total(f, S \cup {x}) = f[x] + Total(f, (S \cup {x}) \ {x})
  BY <1>1, <1>2, TotalWithout
<1>. QED
  BY <1>2, <1>3

\* Other elements add to a sum what they are bounded by, each at most once.
LEMMA TotalUnion ==
  ASSUME NEW f, NEW S, NEW T, IsFiniteSet(S), IsFiniteSet(T), NEW c \in Nat,
         \A x \in S \cup T : f[x] \in Nat, \A x \in T : f[x] <= c
  PROVE  /\ Total(f, S) \in Nat /\ Total(f, S \cup T) \in Nat /\ Cardinality(T) * c \in Nat
         /\ Total(f, S) <= Total(f, S \cup T)
         /\ Total(f, S \cup T) <= Total(f, S) + Cardinality(T) * c
<1>. DEFINE Q == {t \in SUBSET T : ~ (/\ Total(f, S) <= Total(f, S \cup t)
                                     /\ Total(f, S \cup t) <= Total(f, S) + Cardinality(t) * c)}
<1>1. Total(f, S) \in Nat
  BY TotalType
<1>2. ASSUME NEW t \in SUBSET T
      PROVE  /\ IsFiniteSet(t) /\ Cardinality(t) \in Nat /\ Cardinality(t) * c \in Nat
             /\ IsFiniteSet(S \cup t) /\ Total(f, S \cup t) \in Nat
  <2>1. IsFiniteSet(t)
    BY FS_Subset
  <2>2. Cardinality(t) \in Nat
    BY <2>1, FS_CardinalityType
  <2>3. IsFiniteSet(S \cup t)
    BY <2>1, FS_Union
  <2>4. \A x \in S \cup t : f[x] \in Nat
    OBVIOUS
  <2>5. Total(f, S \cup t) \in Nat
    BY <2>3, <2>4, TotalType
  <2>6. Cardinality(t) * c \in Nat
    BY ONLY <2>2, c \in Nat
  <2>. QED
    BY <2>1, <2>2, <2>3, <2>5, <2>6
<1>3. ASSUME Q # {} PROVE FALSE
  <2>1. \A t \in Q : IsFiniteSet(t)
    BY <1>2
  <2>2. PICK t \in Q : \A r \in Q : Cardinality(t) <= Cardinality(r)
    <3>. HIDE DEF Q
    <3>. QED
      BY <1>3, <2>1, SmallestOf
  <2>3. CASE t = {}
    <3>1. S \cup t = S /\ Cardinality(t) * c = 0
      <4>1. Cardinality(t) = 0 /\ S \cup t = S
        BY <2>3, FS_EmptySet
      <4>. QED
        BY <4>1
    <3>. QED
      BY <1>1, <2>2, <3>1
  <2>4. CASE t # {}
    <3>1. PICK x \in t : TRUE
      BY <2>4
    <3>2. PICK r : r = t \ {x}
      OBVIOUS
    <3>3. /\ r \in SUBSET T /\ Cardinality(r) = Cardinality(t) - 1
          /\ Cardinality(r) \in Nat /\ Cardinality(t) \in Nat
      BY <2>1, <2>2, <3>2, WithoutOne
    <3>4. ~ (Cardinality(t) <= Cardinality(r))
      BY ONLY <3>3
    <3>5. r \notin Q
      BY <2>2, <3>4
    <3>6. /\ Total(f, S) <= Total(f, S \cup r)
          /\ Total(f, S \cup r) <= Total(f, S) + Cardinality(r) * c
      BY <3>3, <3>5
    <3>7. Cardinality(t) * c = Cardinality(r) * c + c
      BY ONLY <3>3, c \in Nat
    <3>8. CASE x \in S
      <4>1. S \cup t = S \cup r
        BY <3>1, <3>2, <3>8
      <4>2. Cardinality(r) * c \in Nat /\ Total(f, S \cup r) \in Nat
        BY <1>2, <3>3
      <4>. QED
        <5>1. Total(f, S \cup t) = Total(f, S \cup r)
          BY ONLY <4>1
        <5>2. /\ Total(f, S) <= Total(f, S \cup t)
              /\ Total(f, S \cup t) <= Total(f, S) + Cardinality(t) * c
          BY ONLY <1>1, <3>6, <3>7, <4>2, <5>1, c \in Nat
        <5>. QED
          BY <2>2, <5>2
    <3>9. CASE x \notin S
      <4>1. S \cup t = (S \cup r) \cup {x} /\ x \notin S \cup r /\ f[x] \in Nat /\ f[x] <= c
        BY <2>2, <3>1, <3>2, <3>9
      <4>2. Total(f, (S \cup r) \cup {x}) = f[x] + Total(f, S \cup r)
        <5>1. IsFiniteSet(S \cup r) /\ \A y \in (S \cup r) \cup {x} : f[y] \in Nat
          BY <1>2, <3>3, <4>1
        <5>. QED
          BY <4>1, <5>1, TotalWith
      <4>3. Cardinality(r) * c \in Nat /\ Total(f, S \cup r) \in Nat
        BY <1>2, <3>3
      <4>4. /\ Total(f, S) <= Total(f, S \cup t)
            /\ Total(f, S \cup t) <= Total(f, S) + Cardinality(t) * c
        <5>1. Total(f, S \cup t) = Total(f, (S \cup r) \cup {x})
          BY ONLY <4>1
        <5>2. f[x] \in Nat /\ f[x] <= c
          BY <4>1
        <5>. QED
          BY ONLY <1>1, <3>6, <3>7, <4>2, <4>3, <5>1, <5>2, c \in Nat
      <4>. QED
        BY <2>2, <4>4
    <3>. QED
      BY <3>8, <3>9
  <2>. QED
    BY <2>3, <2>4
<1>. QED
  BY <1>1, <1>2, <1>3

-----------------------------------------------------------------------------
(* Quotas.                                                                 *)

\* The uploads that have passed the check of the tenant's quota, and those
\* that have passed the check of the owner's too, and have no row yet.
Passed == {"user", "store", "insert"}
PassedBoth == {"store", "insert"}

\* The rows there are and those that uploads at these points may still add.
Admitted(pcs) == {f \in Files : f \in rows \/ \E r \in Uploads : upload[r].pc \in pcs /\ f \in upload[r].file}

\* What the requests at these points may still add counts as added.
WithinQuotas ==
  /\ \E q \in everLimits : WithinUpTo(Usage(Admitted(Passed)), q.tenant)
  /\ \A f \in Admitted(PassedBoth) :
       \E q \in everLimits :
         WithinUpTo(Usage(OwnedBy(Admitted(PassedBoth), OwnerOf[f])), q.user)

\* An upload has one file and was given quotas that were in force.
UploadReadQuotas(r) ==
  /\ \A f, g \in upload[r].file : f = g
  /\ upload[r].quotas \subseteq everLimits

QuotaInv ==
  /\ limits \in everLimits
  /\ IsFiniteSet(rows)
  /\ \A r \in Uploads : UploadReadQuotas(r)
  /\ WithinQuotas

LEMMA LargestIs == LargestFile \in Nat /\ \A f \in Files : SizeOf[f] \in Nat /\ SizeOf[f] <= LargestFile
<1>. DEFINE S == {SizeOf[f] : f \in Files}
<1>1. S \subseteq Nat /\ \E x \in S : \A y \in S : x >= y
  <2>1. \A f \in Files : SizeOf[f] \in Nat
    BY FilesAssumption
  <2>2. PICK f \in Files : \A g \in Files : SizeOf[g] <= SizeOf[f]
    BY FilesAssumption
  <2>3. \A y \in S : SizeOf[f] >= y
    BY <2>1, <2>2
  <2>. QED
    BY <2>1, <2>3
<1>2. PICK m : m = CHOOSE x \in S : \A y \in S : x >= y
  OBVIOUS
<1>3. m \in S /\ \A y \in S : m >= y
  <2>. HIDE DEF S
  <2>. QED
    BY ONLY <1>1, <1>2, Zenon
<1>4. LargestFile = m
  BY ONLY <1>2, Zenon DEF LargestFile, Max
<1>. QED
  BY <1>1, <1>3, <1>4

LEMMA UsageIs == \A S : Usage(S) = Total(SizeOf, S)
BY DEF Usage, Total

\* A larger set of files uses more, and a file adds at most its bytes.
LEMMA UsageGrows ==
  ASSUME NEW S \in SUBSET Files, NEW T \in SUBSET S, IsFiniteSet(S)
  PROVE  Usage(T) \in Nat /\ Usage(S) \in Nat /\ Usage(T) <= Usage(S)
<1>1. IsFiniteSet(T) /\ T \cup S = S
  BY FS_Subset
<1>2. \A x \in T \cup S : SizeOf[x] \in Nat
  BY LargestIs
<1>3. \A x \in S : SizeOf[x] <= LargestFile
  BY LargestIs
<1>4. LargestFile \in Nat
  BY LargestIs
<1>5. /\ Total(SizeOf, T) \in Nat /\ Total(SizeOf, T \cup S) \in Nat
      /\ Total(SizeOf, T) <= Total(SizeOf, T \cup S)
  BY ONLY <1>1, <1>2, <1>3, <1>4, IsFiniteSet(S), TotalUnion
<1>. QED
  BY <1>1, <1>5, UsageIs

\* Some uploads have no more files than they are.
LEMMA FilesOf ==
  ASSUME NEW U \in SUBSET Uploads, \A q \in Uploads : \A f, g \in upload[q].file : f = g,
         NEW X, \A f \in X : \E q \in U : f \in upload[q].file
  PROVE  /\ IsFiniteSet(X) /\ Cardinality(X) \in Nat /\ Cardinality(U) \in Nat
         /\ Cardinality(X) <= Cardinality(U)
<1>. DEFINE F == [f \in X |-> CHOOSE q \in U : f \in upload[q].file]
<1>1. IsFiniteSet(U) /\ Cardinality(U) \in Nat
  <2>1. IsFiniteSet(U)
    BY FilesAssumption, FS_Subset
  <2>. QED
    BY <2>1, FS_CardinalityType
<1>2. \A f \in X : F[f] \in U /\ f \in upload[F[f]].file
  <2>. SUFFICES ASSUME NEW f \in X PROVE F[f] \in U /\ f \in upload[F[f]].file
    OBVIOUS
  <2>1. PICK g : g = CHOOSE q \in U : f \in upload[q].file
    OBVIOUS
  <2>2. \E q \in U : f \in upload[q].file
    OBVIOUS
  <2>3. g \in U /\ f \in upload[g].file
    BY ONLY <2>1, <2>2, Zenon
  <2>. QED
    BY <2>1, <2>3
<1>3. F \in Injection(X, U)
  <2>1. F \in [X -> U]
    <3>1. F = [f \in X |-> F[f]]
      OBVIOUS
    <3>. HIDE DEF F
    <3>. QED
      BY <1>2, <3>1
  <2>. HIDE DEF F
  <2>2. \A f, g \in X : F[f] = F[g] => f = g
    BY <1>2
  <2>. QED
    BY <2>1, <2>2 DEF Injection, IsInjective
<1>4. IsFiniteSet(X) /\ Cardinality(X) <= Cardinality(U)
  <2>. HIDE DEF F
  <2>. QED
    BY ONLY <1>1, <1>3, FS_Injection
<1>5. Cardinality(X) \in Nat
  BY <1>4, FS_CardinalityType
<1>. QED
  BY ONLY <1>1, <1>4, <1>5

LEMMA OtherFiles ==
  ASSUME NEW r \in Uploads, \A q \in Uploads : \A f, g \in upload[q].file : f = g,
         NEW X, \A f \in X : \E q \in Uploads \ {r} : f \in upload[q].file
  PROVE  /\ IsFiniteSet(X) /\ Cardinality(X) \in Nat /\ Cardinality(Uploads) \in Nat
         /\ Cardinality(X) <= Cardinality(Uploads) - 1
<1>1. PICK U : U = Uploads \ {r}
  OBVIOUS
<1>2. Cardinality(U) = Cardinality(Uploads) - 1 /\ Cardinality(Uploads) \in Nat
  BY <1>1, FilesAssumption, WithoutOne
<1>3. /\ IsFiniteSet(X) /\ Cardinality(X) \in Nat
      /\ Cardinality(X) <= Cardinality(U)
  BY <1>1, FilesOf
<1>. QED
  BY ONLY <1>2, <1>3

LEMMA Arithmetic ==
  ASSUME NEW k \in Nat, NEW n \in Nat, k <= n - 1, NEW l \in Nat
  PROVE  k * l <= (n - 1) * l
<1>1. PICK d \in Nat : n - 1 = k + d
  <2>1. (n - 1) - k \in Nat /\ n - 1 = k + ((n - 1) - k)
    OBVIOUS
  <2>. QED
    BY <2>1
<1>2. (k + d) * l = k * l + d * l /\ d * l \in Nat /\ k * l \in Nat
  OBVIOUS
<1>. QED
  BY ONLY <1>1, <1>2

OneFileEach == \A q \in Uploads : \A g, h \in upload[q].file : g = h

BroughtByOthers(X, r) == \A g \in X : \E q \in Uploads \ {r} : g \in upload[q].file

\* A file that fitted in goes over the quota by no more than what the other
\* uploads bring.
LEMMA FileFits ==
  ASSUME NEW R \in SUBSET Files, IsFiniteSet(R), NEW f \in Files, NEW l \in Nat \cup {Unlimited},
         ~ WouldExceed(Usage(R), SizeOf[f], l),
         NEW r \in Uploads, OneFileEach, NEW X \in SUBSET Files, BroughtByOthers(X, r)
  PROVE  WithinUpTo(Usage((R \cup {f}) \cup X), l)
<1>. SUFFICES ASSUME l # Unlimited
              PROVE  Usage((R \cup {f}) \cup X) <= l + (Cardinality(Uploads) - 1) * LargestFile
  BY DEF WithinUpTo
<1>1. /\ IsFiniteSet(X) /\ Cardinality(X) \in Nat /\ Cardinality(Uploads) \in Nat
      /\ Cardinality(X) <= Cardinality(Uploads) - 1
  BY OtherFiles DEF OneFileEach, BroughtByOthers
<1>2. /\ LargestFile \in Nat /\ \A x \in Files : SizeOf[x] \in Nat /\ SizeOf[x] <= LargestFile
  BY LargestIs
<1>3. l \in Nat /\ Usage(R) + SizeOf[f] <= l
  <2>1. l \in Nat /\ Usage(R) \in Nat /\ SizeOf[f] \in Nat
    BY <1>2, UsageGrows
  <2>. QED
    BY <2>1 DEF WouldExceed
<1>4. IsFiniteSet(R \cup {f})
  BY FS_AddElement
<1>5. Usage(R \cup {f}) <= Usage(R) + SizeOf[f] /\ Usage(R \cup {f}) \in Nat /\ Usage(R) \in Nat
  <2>1. Usage(R) \in Nat /\ Usage(R \cup {f}) \in Nat /\ SizeOf[f] \in Nat
    BY <1>2, <1>4, UsageGrows
  <2>2. CASE f \in R
    <3>1. Usage(R \cup {f}) = Usage(R)
      <4>1. R \cup {f} = R
        BY <2>2
      <4>. QED
        BY ONLY <4>1
    <3>. QED
      BY ONLY <2>1, <3>1
  <2>3. CASE f \notin R
    <3>1. \A y \in R \cup {f} : SizeOf[y] \in Nat
      BY <1>2
    <3>2. Total(SizeOf, R \cup {f}) = SizeOf[f] + Total(SizeOf, R)
      BY ONLY <2>3, <3>1, IsFiniteSet(R), TotalWith
    <3>. QED
      BY <2>1, <3>2, UsageIs
  <2>. QED
    BY <2>2, <2>3
<1>6. Usage((R \cup {f}) \cup X) <= Usage(R \cup {f}) + Cardinality(X) * LargestFile
      /\ Usage((R \cup {f}) \cup X) \in Nat
  <2>1. \A x \in (R \cup {f}) \cup X : SizeOf[x] \in Nat
    BY <1>2
  <2>2. \A x \in X : SizeOf[x] <= LargestFile
    BY <1>2
  <2>3. LargestFile \in Nat
    BY <1>2
  <2>4. /\ Total(SizeOf, (R \cup {f}) \cup X) <= Total(SizeOf, R \cup {f}) + Cardinality(X) * LargestFile
        /\ Total(SizeOf, (R \cup {f}) \cup X) \in Nat
    BY ONLY <1>1, <1>4, <2>1, <2>2, <2>3, TotalUnion
  <2>. QED
    BY <2>4, UsageIs
<1>7. Cardinality(X) * LargestFile <= (Cardinality(Uploads) - 1) * LargestFile
  BY ONLY <1>1, <1>2, Arithmetic
<1>8. Cardinality(X) * LargestFile \in Nat /\ (Cardinality(Uploads) - 1) * LargestFile \in Int
  BY ONLY <1>1, <1>2
<1>. QED
  <2>1. SizeOf[f] \in Nat
    BY <1>2
  <2>. QED
    BY ONLY <1>3, <1>5, <1>6, <1>7, <1>8, <2>1

LEMMA AdmittedTypes ==
  ASSUME NEW pcs, IsFiniteSet(rows), rows \subseteq Files,
         \A q \in Uploads : \A f, g \in upload[q].file : f = g
  PROVE  Admitted(pcs) \subseteq Files /\ IsFiniteSet(Admitted(pcs))
<1>1. PICK X : X = {f \in Files : \E r \in Uploads : upload[r].pc \in pcs /\ f \in upload[r].file}
  OBVIOUS
<1>2. Uploads \in SUBSET Uploads /\ \A f \in X : \E q \in Uploads : f \in upload[q].file
  BY <1>1
<1>3. IsFiniteSet(X)
  BY <1>2, FilesOf
<1>4. Admitted(pcs) \subseteq rows \cup X /\ Admitted(pcs) \subseteq Files
  BY <1>1 DEF Admitted
<1>5. IsFiniteSet(rows \cup X)
  BY <1>3, FS_Union
<1>. QED
  BY <1>4, <1>5, FS_Subset

\* Fewer files stay within what more of them stay within.
LEMMA FewerStayWithin ==
  ASSUME NEW A \in SUBSET Files, IsFiniteSet(A), NEW B \in SUBSET A,
         NEW l \in Nat \cup {Unlimited}, WithinUpTo(Usage(A), l)
  PROVE  WithinUpTo(Usage(B), l)
<1>. SUFFICES ASSUME l # Unlimited
              PROVE  Usage(B) <= l + (Cardinality(Uploads) - 1) * LargestFile
  BY DEF WithinUpTo
<1>1. Usage(B) \in Nat /\ Usage(A) \in Nat /\ Usage(B) <= Usage(A)
  BY UsageGrows
<1>2. Usage(A) <= l + (Cardinality(Uploads) - 1) * LargestFile
  BY DEF WithinUpTo
<1>3. Cardinality(Uploads) \in Nat /\ LargestFile \in Nat
  BY FilesAssumption, FS_CardinalityType, LargestIs
<1>4. l \in Nat /\ (Cardinality(Uploads) - 1) * LargestFile \in Int
  BY ONLY <1>3, l # Unlimited, l \in Nat \cup {Unlimited}
<1>. QED
  BY ONLY <1>1, <1>2, <1>4

LEMMA QuotaTypes ==
  ASSUME NEW q \in Quotas
  PROVE  q.tenant \in Nat \cup {Unlimited} /\ q.user \in Nat \cup {Unlimited}
BY FilesAssumption DEF Quotas

LEMMA TenantStays ==
  ASSUME FilesTypeOK, QuotaInv, everLimits \subseteq everLimits',
         Admitted(Passed)' \subseteq Admitted(Passed)
  PROVE  (\E q \in everLimits : WithinUpTo(Usage(Admitted(Passed)), q.tenant))'
<1>1. PICK A : A = Admitted(Passed)
  OBVIOUS
<1>2. PICK B : B = Admitted(Passed)'
  OBVIOUS
<1>3. A \in SUBSET Files /\ IsFiniteSet(A) /\ B \in SUBSET A
  <2>1. /\ rows \subseteq Files /\ IsFiniteSet(rows)
        /\ \A q \in Uploads : \A f, g \in upload[q].file : f = g
    BY DEF FilesTypeOK, QuotaInv, UploadReadQuotas
  <2>. QED
    BY <1>1, <1>2, <2>1, AdmittedTypes
<1>4. PICK q \in everLimits : WithinUpTo(Usage(A), q.tenant)
  BY <1>1 DEF QuotaInv, WithinQuotas
<1>5. q.tenant \in Nat \cup {Unlimited}
  BY QuotaTypes DEF FilesTypeOK
<1>6. WithinUpTo(Usage(B), q.tenant)
  BY ONLY <1>3, <1>4, <1>5, FewerStayWithin
<1>. QED
  BY <1>2, <1>4, <1>6

\* For the owners of these files, who have no others than before.
LEMMA OwnersStay ==
  ASSUME FilesTypeOK, QuotaInv, everLimits \subseteq everLimits', NEW C,
         \A f \in C : f \in Admitted(PassedBoth)',
         \A f \in C : \A g \in Admitted(PassedBoth)' :
           OwnerOf[g] = OwnerOf[f] => g \in Admitted(PassedBoth)
  PROVE  \A f \in C :
           \E q \in everLimits' :
             WithinUpTo(Usage(OwnedBy(Admitted(PassedBoth)', OwnerOf[f])), q.user)
<1>. SUFFICES ASSUME NEW f \in C
              PROVE  \E q \in everLimits' :
                       WithinUpTo(Usage(OwnedBy(Admitted(PassedBoth)', OwnerOf[f])), q.user)
  OBVIOUS
<1>1. PICK A : A = OwnedBy(Admitted(PassedBoth), OwnerOf[f])
  OBVIOUS
<1>2. PICK B : B = OwnedBy(Admitted(PassedBoth)', OwnerOf[f])
  OBVIOUS
<1>3. A \in SUBSET Files /\ IsFiniteSet(A) /\ B \in SUBSET A
  <2>1. /\ rows \subseteq Files /\ IsFiniteSet(rows)
        /\ \A q \in Uploads : \A h, g \in upload[q].file : h = g
    BY DEF FilesTypeOK, QuotaInv, UploadReadQuotas
  <2>2. Admitted(PassedBoth) \subseteq Files /\ IsFiniteSet(Admitted(PassedBoth))
    BY <2>1, AdmittedTypes
  <2>3. A \subseteq Admitted(PassedBoth)
    BY <1>1 DEF OwnedBy
  <2>4. B \subseteq A
    BY <1>1, <1>2 DEF OwnedBy
  <2>. QED
    BY <2>2, <2>3, <2>4, FS_Subset
<1>4. PICK q \in everLimits : WithinUpTo(Usage(A), q.user)
  <2>1. f \in Admitted(PassedBoth)
    OBVIOUS
  <2>. QED
    BY <1>1, <2>1 DEF QuotaInv, WithinQuotas
<1>5. q.user \in Nat \cup {Unlimited}
  BY QuotaTypes DEF FilesTypeOK
<1>6. WithinUpTo(Usage(B), q.user)
  BY ONLY <1>3, <1>4, <1>5, FewerStayWithin
<1>. QED
  BY <1>2, <1>4, <1>6

\* A step after which no other files are admitted than before.
LEMMA QuotaStays ==
  ASSUME FilesTypeOK, QuotaInv, everLimits \subseteq everLimits', limits' \in everLimits',
         \A r \in Uploads : UploadReadQuotas(r)', rows' \subseteq Admitted(Passed),
         Admitted(Passed)' \subseteq Admitted(Passed),
         Admitted(PassedBoth)' \subseteq Admitted(PassedBoth)
  PROVE  QuotaInv'
<1>1. IsFiniteSet(rows')
  <2>1. /\ rows \subseteq Files /\ IsFiniteSet(rows)
        /\ \A q \in Uploads : \A h, g \in upload[q].file : h = g
    BY DEF FilesTypeOK, QuotaInv, UploadReadQuotas
  <2>2. IsFiniteSet(Admitted(Passed))
    BY <2>1, AdmittedTypes
  <2>. QED
    BY <2>2, FS_Subset
<1>2. (\E q \in everLimits : WithinUpTo(Usage(Admitted(Passed)), q.tenant))'
  BY TenantStays
<1>3. PICK C : C = Admitted(PassedBoth)'
  OBVIOUS
<1>4. \A f \in C :
        \E q \in everLimits' :
          WithinUpTo(Usage(OwnedBy(Admitted(PassedBoth)', OwnerOf[f])), q.user)
  BY <1>3, OwnersStay
<1>5. WithinQuotas'
  BY <1>2, <1>3, <1>4 DEF WithinQuotas
<1>. QED
  BY <1>1, <1>5 DEF QuotaInv

\* A step of an upload that does not pass a check.
LEMMA UploadStays ==
  ASSUME FilesTypeOK, QuotaInv, NEW r \in Uploads, NEW y \in UploadsInFlight,
         upload' = [upload EXCEPT ![r] = y],
         y.file \subseteq upload[r].file, y.quotas \subseteq upload[r].quotas,
         UNCHANGED <<limits, everLimits>>,
         rows' = rows \/ (upload[r].pc = "insert" /\ rows' = rows \cup upload[r].file),
         y.pc \in Passed => upload[r].pc \in Passed,
         y.pc \in PassedBoth => upload[r].pc \in PassedBoth
  PROVE  QuotaInv'
<1>1. \A q \in Uploads : upload'[q] = IF q = r THEN y ELSE upload[q]
  BY DEF FilesTypeOK
<1>2. \A q \in Uploads : UploadReadQuotas(q)'
  BY <1>1 DEF QuotaInv, UploadReadQuotas
<1>3. upload[r].file \subseteq Files /\ rows \subseteq Files
  BY DEF FilesTypeOK, UploadsInFlight
<1>4. rows' \subseteq Admitted(Passed) /\ rows' \subseteq Admitted(PassedBoth)
  BY <1>3 DEF Admitted, Passed, PassedBoth
<1>5. \A q \in Uploads : /\ upload'[q].file \subseteq upload[q].file
                         /\ upload'[q].pc \in Passed => upload[q].pc \in Passed
                         /\ upload'[q].pc \in PassedBoth => upload[q].pc \in PassedBoth
  BY <1>1
<1>6. Admitted(Passed)' \subseteq Admitted(Passed)
  <2>1. \A f \in Admitted(Passed)' : f \in Files /\ (f \in rows' \/ f \in Admitted(Passed))
    BY <1>5 DEF Admitted
  <2>. QED
    BY <1>4, <2>1
<1>7. Admitted(PassedBoth)' \subseteq Admitted(PassedBoth)
  <2>1. \A f \in Admitted(PassedBoth)' : f \in Files /\ (f \in rows' \/ f \in Admitted(PassedBoth))
    BY <1>5 DEF Admitted
  <2>. QED
    BY <1>4, <2>1
<1>8. everLimits \subseteq everLimits' /\ limits' \in everLimits'
  BY DEF QuotaInv
<1>. QED
  BY <1>2, <1>4, <1>6, <1>7, <1>8, QuotaStays

\* What is admitted after an upload has gone past a check: the rows, its file,
\* and what the other uploads bring.
LEMMA AdmittedNext ==
  ASSUME FilesTypeOK, NEW r \in Uploads, NEW f, upload[r].file = {f}, NEW pcs, NEW pc \in pcs,
         Reach(r, pc), rows' = rows
  PROVE  LET X == {g \in Files : \E q \in Uploads \ {r} :
                                   upload[q].pc \in pcs /\ g \in upload[q].file}
         IN  Admitted(pcs)' = (rows \cup {f}) \cup X
<1>1. upload[r] \in UploadsInFlight /\ f \in Files /\ rows \subseteq Files
  BY DEF FilesTypeOK, UploadsInFlight
<1>2. upload' = [upload EXCEPT ![r] = [upload[r] EXCEPT !.pc = pc]]
  BY DEF Reach
<1>3. PICK y : y = [upload[r] EXCEPT !.pc = pc]
  OBVIOUS
<1>4. y.pc = pc /\ y.file = {f}
  BY <1>1, <1>3 DEF UploadsInFlight
<1>5. \A q \in Uploads : upload'[q] = IF q = r THEN y ELSE upload[q]
  BY <1>2, <1>3 DEF FilesTypeOK
<1>. QED
  BY <1>1, <1>4, <1>5 DEF Admitted

LEMMA PassesCheck ==
  ASSUME FilesTypeOK, QuotaInv, NEW r \in Uploads, CheckTenantQuota(r) \/ CheckUserQuota(r)
  PROVE  /\ rows' = rows /\ UNCHANGED <<limits, everLimits>>
         /\ \A q \in Uploads : /\ UploadReadQuotas(q)'
                               /\ \A f, g \in upload[q].file : f = g
         /\ IsFiniteSet(rows) /\ rows \subseteq Files
<1>1. /\ rows' = rows /\ UNCHANGED <<limits, everLimits>>
      /\ \E pc \in {"user", "store"} : Reach(r, pc)
  BY DEF CheckTenantQuota, CheckUserQuota
<1>2. PICK pc \in {"user", "store"} : Reach(r, pc)
  BY <1>1
<1>3. PICK y : y = [upload[r] EXCEPT !.pc = pc]
  OBVIOUS
<1>4. upload[r] \in UploadsInFlight
  BY DEF FilesTypeOK
<1>5. y.file = upload[r].file /\ y.quotas = upload[r].quotas
  BY <1>3, <1>4 DEF UploadsInFlight
<1>6. \A q \in Uploads : upload'[q] = IF q = r THEN y ELSE upload[q]
  BY <1>2, <1>3 DEF FilesTypeOK, Reach
<1>7. \A q \in Uploads : UploadReadQuotas(q)'
  BY <1>1, <1>5, <1>6 DEF QuotaInv, UploadReadQuotas
<1>. QED
  BY <1>1, <1>7 DEF QuotaInv, UploadReadQuotas, FilesTypeOK

LEMMA TenantCheckKeeps ==
  ASSUME FilesTypeOK, QuotaInv, NEW r \in Uploads, CheckTenantQuota(r)
  PROVE  QuotaInv'
<1>1. PICK f \in upload[r].file, q \in upload[r].quotas :
        /\ upload[r].pc = "tenant" /\ Reach(r, "user")
        /\ ~ WouldExceed(Usage(rows), SizeOf[f], q.tenant)
  BY DEF CheckTenantQuota
<1>2. /\ rows' = rows /\ UNCHANGED <<limits, everLimits>>
      /\ \A p \in Uploads : UploadReadQuotas(p)' /\ \A g, h \in upload[p].file : g = h
      /\ IsFiniteSet(rows) /\ rows \subseteq Files
  BY PassesCheck
<1>3. upload[r].file = {f} /\ f \in Files /\ q \in everLimits /\ q \in Quotas
  BY <1>1, <1>2 DEF FilesTypeOK, UploadsInFlight, QuotaInv, UploadReadQuotas
<1>4. PICK X : X = {g \in Files : \E p \in Uploads \ {r} :
                                    upload[p].pc \in Passed /\ g \in upload[p].file}
  OBVIOUS
<1>5. Admitted(Passed)' = (rows \cup {f}) \cup X
  <2>1. "user" \in Passed
    BY DEF Passed
  <2>. QED
    BY <1>1, <1>2, <1>3, <1>4, <2>1, AdmittedNext
<1>6. q.tenant \in Nat \cup {Unlimited}
  BY <1>3, QuotaTypes
<1>7. WithinUpTo(Usage((rows \cup {f}) \cup X), q.tenant)
  <2>1. X \in SUBSET Files /\ BroughtByOthers(X, r)
    BY <1>4 DEF BroughtByOthers
  <2>2. rows \in SUBSET Files /\ OneFileEach
    BY <1>2 DEF OneFileEach
  <2>3. IsFiniteSet(rows) /\ ~ WouldExceed(Usage(rows), SizeOf[f], q.tenant) /\ f \in Files
    BY <1>1, <1>2, <1>3
  <2>. QED
    BY ONLY <1>6, <2>1, <2>2, <2>3, r \in Uploads, FileFits
<1>8. (\E p \in everLimits : WithinUpTo(Usage(Admitted(Passed)), p.tenant))'
  BY <1>2, <1>3, <1>5, <1>7
<1>9. Admitted(PassedBoth)' = Admitted(PassedBoth)
  <2>1. \A p \in Uploads : /\ upload'[p].file = upload[p].file
                           /\ upload'[p].pc \in PassedBoth <=> upload[p].pc \in PassedBoth
    <3>1. PICK y : y = [upload[r] EXCEPT !.pc = "user"]
      OBVIOUS
    <3>2. y.file = upload[r].file /\ y.pc = "user"
      BY <3>1 DEF FilesTypeOK, UploadsInFlight
    <3>3. \A p \in Uploads : upload'[p] = IF p = r THEN y ELSE upload[p]
      BY <1>1, <3>1 DEF FilesTypeOK, Reach
    <3>. QED
      BY <1>1, <3>2, <3>3 DEF PassedBoth
  <2>. QED
    BY <1>2, <2>1 DEF Admitted
<1>10. PICK C : C = Admitted(PassedBoth)'
  OBVIOUS
<1>11. \A g \in C :
         \E p \in everLimits' :
           WithinUpTo(Usage(OwnedBy(Admitted(PassedBoth)', OwnerOf[g])), p.user)
  BY <1>2, <1>9, <1>10, OwnersStay
<1>12. WithinQuotas'
  BY <1>8, <1>10, <1>11 DEF WithinQuotas
<1>. QED
  BY <1>2, <1>12 DEF QuotaInv

LEMMA UserCheckKeeps ==
  ASSUME FilesTypeOK, QuotaInv, NEW r \in Uploads, CheckUserQuota(r)
  PROVE  QuotaInv'
<1>1. PICK f \in upload[r].file, q \in upload[r].quotas :
        /\ upload[r].pc = "user" /\ Reach(r, "store")
        /\ ~ WouldExceed(Usage(OwnedBy(rows, OwnerOf[f])), SizeOf[f], q.user)
  BY DEF CheckUserQuota
<1>2. /\ rows' = rows /\ UNCHANGED <<limits, everLimits>>
      /\ \A p \in Uploads : UploadReadQuotas(p)' /\ \A g, h \in upload[p].file : g = h
      /\ IsFiniteSet(rows) /\ rows \subseteq Files
  BY PassesCheck
<1>3. upload[r].file = {f} /\ f \in Files /\ q \in everLimits /\ q \in Quotas
  BY <1>1, <1>2 DEF FilesTypeOK, UploadsInFlight, QuotaInv, UploadReadQuotas
<1>4. PICK X : X = {g \in Files : \E p \in Uploads \ {r} :
                                    upload[p].pc \in PassedBoth /\ g \in upload[p].file}
  OBVIOUS
<1>5. Admitted(PassedBoth)' = (rows \cup {f}) \cup X
  <2>1. "store" \in PassedBoth
    BY DEF PassedBoth
  <2>. QED
    BY ONLY <1>1, <1>2, <1>3, <1>4, <2>1, FilesTypeOK, r \in Uploads, AdmittedNext
<1>6. PICK o : o = OwnerOf[f]
  OBVIOUS
<1>7. q.user \in Nat \cup {Unlimited}
  BY <1>3, QuotaTypes
<1>8. WithinUpTo(Usage(OwnedBy((rows \cup {f}) \cup X, o)), q.user)
  <2>1. OwnedBy((rows \cup {f}) \cup X, o) = (OwnedBy(rows, o) \cup {f}) \cup OwnedBy(X, o)
    BY <1>6 DEF OwnedBy
  <2>2. PICK R : R = OwnedBy(rows, o)
    OBVIOUS
  <2>3. PICK Y : Y = OwnedBy(X, o)
    OBVIOUS
  <2>4. Y \in SUBSET Files /\ BroughtByOthers(Y, r)
    BY <1>4, <2>3 DEF OwnedBy, BroughtByOthers
  <2>5. R \in SUBSET Files /\ IsFiniteSet(R)
    BY <1>2, <2>2, FS_Subset DEF OwnedBy
  <2>6. ~ WouldExceed(Usage(R), SizeOf[f], q.user)
    BY <1>1, <1>6, <2>2
  <2>7. OneFileEach
    BY <1>2 DEF OneFileEach
  <2>8. f \in Files
    BY <1>3
  <2>9. WithinUpTo(Usage((R \cup {f}) \cup Y), q.user)
    BY ONLY <1>7, <2>4, <2>5, <2>6, <2>7, <2>8, r \in Uploads, FileFits
  <2>. QED
    BY <2>1, <2>2, <2>3, <2>9
<1>9. Admitted(Passed)' = Admitted(Passed)
  /\ \A g \in Admitted(PassedBoth)' : OwnerOf[g] # o => g \in Admitted(PassedBoth)
  <2>1. \A p \in Uploads : /\ upload'[p].file = upload[p].file
                           /\ upload'[p].pc \in Passed <=> upload[p].pc \in Passed
    <3>1. PICK y : y = [upload[r] EXCEPT !.pc = "store"]
      OBVIOUS
    <3>2. y.file = upload[r].file /\ y.pc = "store"
      BY <3>1 DEF FilesTypeOK, UploadsInFlight
    <3>3. \A p \in Uploads : upload'[p] = IF p = r THEN y ELSE upload[p]
      BY <1>1, <3>1 DEF FilesTypeOK, Reach
    <3>. QED
      BY <1>1, <3>2, <3>3 DEF Passed
  <2>2. Admitted(Passed)' = Admitted(Passed)
    BY <1>2, <2>1 DEF Admitted
  <2>3. \A g \in (rows \cup {f}) \cup X : OwnerOf[g] # o => g \in Admitted(PassedBoth)
    BY <1>2, <1>4, <1>6 DEF Admitted
  <2>. QED
    BY <1>5, <2>2, <2>3
<1>10. PICK C : C = {g \in Admitted(PassedBoth)' : OwnerOf[g] # o}
  OBVIOUS
<1>11. \A g \in C :
         \E p \in everLimits' :
           WithinUpTo(Usage(OwnedBy(Admitted(PassedBoth)', OwnerOf[g])), p.user)
  BY <1>2, <1>9, <1>10, OwnersStay
<1>12. \A g \in Admitted(PassedBoth)' :
         \E p \in everLimits' :
           WithinUpTo(Usage(OwnedBy(Admitted(PassedBoth)', OwnerOf[g])), p.user)
  <2>. SUFFICES ASSUME NEW g \in Admitted(PassedBoth)'
                PROVE  \E p \in everLimits' :
                         WithinUpTo(Usage(OwnedBy(Admitted(PassedBoth)', OwnerOf[g])), p.user)
    OBVIOUS
  <2>1. CASE OwnerOf[g] = o
    BY <1>2, <1>3, <1>5, <1>8, <2>1
  <2>2. CASE OwnerOf[g] # o
    BY <1>10, <1>11, <2>2
  <2>. QED
    BY <2>1, <2>2
<1>13. (\E p \in everLimits : WithinUpTo(Usage(Admitted(Passed)), p.tenant))'
  BY <1>2, <1>9, TenantStays
<1>14. WithinQuotas'
  BY <1>12, <1>13 DEF WithinQuotas
<1>. QED
  BY <1>2, <1>14 DEF QuotaInv

LEMMA FieldsKept ==
  ASSUME NEW x \in UploadsInFlight,
         NEW pc \in {"idle", "tenant", "user", "store", "insert", "cleanup"}
  PROVE  LET y == [x EXCEPT !.pc = pc]
         IN  /\ y \in UploadsInFlight /\ y.pc = pc
             /\ y.file = x.file /\ y.quotas = x.quotas
BY DEF UploadsInFlight

LEMMA UploadEnds ==
  /\ NoUpload \in UploadsInFlight /\ NoUpload.pc \notin Passed /\ NoUpload.pc \notin PassedBoth
  /\ NoUpload.file = {} /\ NoUpload.quotas = {}
BY DEF NoUpload, UploadsInFlight, Passed, PassedBoth

LEMMA QuotaStep ==
  FilesTypeOK /\ QuotaInv /\ [FilesNext]_filesVars => QuotaInv'
<1>. SUFFICES ASSUME FilesTypeOK, QuotaInv, [FilesNext]_filesVars PROVE QuotaInv'
  OBVIOUS
<1>1. ASSUME UNCHANGED upload, rows' \subseteq rows, everLimits \subseteq everLimits',
             limits' \in everLimits'
      PROVE  QuotaInv'
  <2>1. /\ Admitted(Passed)' \subseteq Admitted(Passed)
        /\ Admitted(PassedBoth)' \subseteq Admitted(PassedBoth)
    BY <1>1 DEF Admitted
  <2>2. \A r \in Uploads : UploadReadQuotas(r)'
    BY <1>1 DEF QuotaInv, UploadReadQuotas
  <2>3. rows' \subseteq Admitted(Passed)
    BY <1>1 DEF Admitted, FilesTypeOK
  <2>. QED
    BY <1>1, <2>1, <2>2, <2>3, QuotaStays
<1>2. ASSUME NEW r \in Uploads, NEW pc \in {"insert", "cleanup"}, Reach(r, pc),
             UNCHANGED <<limits, everLimits>>, upload[r].pc \in {"store", "insert"},
             rows' = rows \/ (upload[r].pc = "insert" /\ rows' = rows \cup upload[r].file)
      PROVE  QuotaInv'
  <2>1. upload[r] \in UploadsInFlight
    BY DEF FilesTypeOK
  <2>2. PICK y : y = [upload[r] EXCEPT !.pc = pc]
    OBVIOUS
  <2>3. y \in UploadsInFlight /\ y.pc = pc /\ y.file = upload[r].file /\ y.quotas = upload[r].quotas
    <3>1. pc \in {"idle", "tenant", "user", "store", "insert", "cleanup"}
      OBVIOUS
    <3>. QED
      BY ONLY <2>1, <2>2, <3>1, FieldsKept
  <2>4. upload' = [upload EXCEPT ![r] = y]
    BY <1>2, <2>2 DEF Reach
  <2>5. /\ y.pc \in Passed => upload[r].pc \in Passed
        /\ y.pc \in PassedBoth => upload[r].pc \in PassedBoth
    BY <1>2 DEF Passed, PassedBoth
  <2>. QED
    BY <1>2, <2>3, <2>4, <2>5, UploadStays
<1>3. ASSUME NEW r \in Uploads, upload' = [upload EXCEPT ![r] = NoUpload],
             UNCHANGED <<limits, everLimits>>,
             rows' = rows \/ (upload[r].pc = "insert" /\ rows' = rows \cup upload[r].file)
      PROVE  QuotaInv'
  <2>1. PICK y : y = NoUpload
    OBVIOUS
  <2>2. /\ y \in UploadsInFlight /\ y.pc \notin Passed /\ y.pc \notin PassedBoth
        /\ y.file = {} /\ y.quotas = {}
    BY <2>1, UploadEnds
  <2>. QED
    BY <1>3, <2>1, <2>2, UploadStays
<1>4. ASSUME NEW r \in Uploads, NEW f \in Files, BeginUpload(r, f) PROVE QuotaInv'
  <2>1. PICK y : y = [pc |-> "tenant", file |-> {f}, quotas |-> {limits}]
    OBVIOUS
  <2>2. y.pc = "tenant" /\ y.file = {f} /\ y.quotas = {limits}
    BY <2>1
  <2>3. /\ upload' = [upload EXCEPT ![r] = y]
        /\ UNCHANGED <<rows, limits, everLimits>>
    BY <1>4, <2>1 DEF BeginUpload
  <2>4. \A q \in Uploads : upload'[q] = IF q = r THEN y ELSE upload[q]
    BY <2>3 DEF FilesTypeOK
  <2>5. \A q \in Uploads : UploadReadQuotas(q)'
    BY <2>2, <2>3, <2>4 DEF QuotaInv, UploadReadQuotas
  <2>6. \A q \in Uploads : /\ upload'[q].pc \in Passed => upload'[q] = upload[q]
                           /\ upload'[q].pc \in PassedBoth => upload'[q] = upload[q]
    BY <2>2, <2>4 DEF Passed, PassedBoth
  <2>7. /\ Admitted(Passed)' \subseteq Admitted(Passed)
        /\ Admitted(PassedBoth)' \subseteq Admitted(PassedBoth)
    BY <2>3, <2>6 DEF Admitted
  <2>8. rows' \subseteq Admitted(Passed)
    BY <2>3 DEF Admitted, FilesTypeOK
  <2>9. everLimits \subseteq everLimits' /\ limits' \in everLimits'
    BY <2>3 DEF QuotaInv
  <2>. QED
    BY <2>5, <2>7, <2>8, <2>9, QuotaStays
<1>5. ASSUME NEW r \in Uploads,
             \/ StoreBlob(r) \/ StoreFails(r) \/ InsertRow(r) \/ InsertFails(r)
             \/ InsertInDoubt(r) \/ CleanUp(r) \/ AbandonUpload(r)
      PROVE  QuotaInv'
  <2>1. CASE StoreBlob(r)
    BY <1>2, <2>1 DEF StoreBlob
  <2>2. CASE StoreFails(r)
    BY <1>3, <2>2 DEF StoreFails
  <2>3. CASE InsertRow(r)
    BY <1>3, <2>3 DEF InsertRow
  <2>4. CASE InsertFails(r)
    BY <1>2, <2>4 DEF InsertFails
  <2>5. CASE InsertInDoubt(r)
    BY <1>2, <2>5 DEF InsertInDoubt
  <2>6. CASE CleanUp(r)
    BY <1>3, <2>6 DEF CleanUp
  <2>7. CASE AbandonUpload(r)
    BY <1>3, <2>7 DEF AbandonUpload
  <2>. QED
    BY <1>5, <2>1, <2>2, <2>3, <2>4, <2>5, <2>6, <2>7
<1>6. CASE \E q \in Quotas : ChangeQuotas(q)
  BY <1>1, <1>6 DEF ChangeQuotas
<1>7. CASE \E d \in Removals, f \in Files : FindFile(d, f)
  BY <1>1, <1>7 DEF FindFile, QuotaInv
<1>8. CASE \E d \in Removals : DeleteRow(d) \/ DeleteBlob(d) \/ AbandonRemoval(d)
  <2>1. /\ UNCHANGED <<upload, limits, everLimits>> /\ rows' \subseteq rows
    BY <1>8 DEF DeleteRow, DeleteBlob, AbandonRemoval
  <2>. QED
    BY <1>1, <2>1 DEF QuotaInv
<1>9. CASE UNCHANGED filesVars
  BY <1>1, <1>9 DEF filesVars, QuotaInv
<1>. QED
  BY <1>4, <1>5, <1>6, <1>7, <1>8, <1>9, TenantCheckKeeps, UserCheckKeeps DEF FilesNext

LEMMA QuotaInitial == FilesInit => QuotaInv
<1>. SUFFICES ASSUME FilesInit PROVE QuotaInv
  OBVIOUS
<1>1. /\ rows = {} /\ limits \in Quotas /\ everLimits = {limits}
      /\ \A r \in Uploads : upload[r] = NoUpload
  BY DEF FilesInit
<1>2. \A r \in Uploads : UploadReadQuotas(r)
  BY <1>1, UploadEnds DEF UploadReadQuotas
<1>3. IsFiniteSet(rows)
  BY <1>1, FS_EmptySet
<1>4. Admitted(Passed) = {} /\ Admitted(PassedBoth) = {}
  BY <1>1, UploadEnds DEF Admitted
<1>5. WithinUpTo(Usage({}), limits.tenant)
  <2>1. Usage({}) = 0
    <3>1. Total(SizeOf, {}) = 0
      BY FS_EmptySet, TotalStep
    <3>. QED
      BY ONLY <3>1, UsageIs
  <2>2. Cardinality(Uploads) \in Nat /\ Cardinality(Uploads) # 0
    BY FilesAssumption, FS_CardinalityType, FS_EmptySet
  <2>3. LargestFile \in Nat
    BY LargestIs
  <2>4. (Cardinality(Uploads) - 1) * LargestFile \in Nat
    <3>1. Cardinality(Uploads) - 1 \in Nat
      BY ONLY <2>2
    <3>. QED
      BY ONLY <2>3, <3>1
  <2>5. limits.tenant \in Nat \cup {Unlimited}
    BY <1>1, QuotaTypes
  <2>. QED
    BY <2>1, <2>4, <2>5 DEF WithinUpTo
<1>6. WithinQuotas
  BY <1>1, <1>4, <1>5 DEF WithinQuotas
<1>. QED
  BY <1>1, <1>2, <1>3, <1>6 DEF QuotaInv

\* What the quotas promise of the rows, from what they promise of the rows and
\* of all that has passed the checks.
LEMMA QuotaBounds == FilesTypeOK /\ QuotaInv => QuotaOvershootBounded
<1>. SUFFICES ASSUME FilesTypeOK, QuotaInv PROVE QuotaOvershootBounded
  OBVIOUS
<1>1. /\ rows \subseteq Files /\ IsFiniteSet(rows)
      /\ \A q \in Uploads : \A f, g \in upload[q].file : f = g
  BY DEF FilesTypeOK, QuotaInv, UploadReadQuotas
<1>2. \E q \in everLimits : WithinUpTo(Usage(rows), q.tenant)
  <2>1. PICK A : A = Admitted(Passed)
    OBVIOUS
  <2>2. A \in SUBSET Files /\ IsFiniteSet(A) /\ rows \in SUBSET A
    BY <1>1, <2>1, AdmittedTypes DEF Admitted
  <2>3. PICK q \in everLimits : WithinUpTo(Usage(A), q.tenant)
    BY <2>1 DEF QuotaInv, WithinQuotas
  <2>4. q.tenant \in Nat \cup {Unlimited}
    BY QuotaTypes DEF FilesTypeOK
  <2>. QED
    BY <2>2, <2>3, <2>4, FewerStayWithin
<1>3. ASSUME NEW f \in rows
      PROVE  \E q \in everLimits : WithinUpTo(Usage(OwnedBy(rows, OwnerOf[f])), q.user)
  <2>1. PICK A : A = OwnedBy(Admitted(PassedBoth), OwnerOf[f])
    OBVIOUS
  <2>2. PICK B : B = OwnedBy(rows, OwnerOf[f])
    OBVIOUS
  <2>3. rows \subseteq Admitted(PassedBoth) /\ f \in Admitted(PassedBoth)
    BY <1>1 DEF Admitted
  <2>4. Admitted(PassedBoth) \subseteq Files /\ IsFiniteSet(Admitted(PassedBoth))
    BY <1>1, AdmittedTypes
  <2>5. A \in SUBSET Files /\ IsFiniteSet(A) /\ B \in SUBSET A
    <3>1. A \subseteq Admitted(PassedBoth) /\ B \subseteq A
      BY <2>1, <2>2, <2>3 DEF OwnedBy
    <3>. QED
      BY <2>4, <3>1, FS_Subset
  <2>6. PICK q \in everLimits : WithinUpTo(Usage(A), q.user)
    BY <2>1, <2>3 DEF QuotaInv, WithinQuotas
  <2>7. q.user \in Nat \cup {Unlimited}
    BY QuotaTypes DEF FilesTypeOK
  <2>8. WithinUpTo(Usage(B), q.user)
    BY ONLY <2>5, <2>6, <2>7, FewerStayWithin
  <2>. QED
    BY <2>2, <2>8
<1>. QED
  BY <1>2, <1>3 DEF QuotaOvershootBounded

\* Uploads at the same time, whatever the quotas are changed to meanwhile,
\* exceed a quota of the tenant or of a user by no more than what all of them
\* but one bring.
THEOREM QuotaCorrect == FilesSpec => []QuotaOvershootBounded
<1>. QED
  BY FilesTypeCorrect, QuotaInitial, QuotaStep, QuotaBounds, PTL DEF FilesSpec

-----------------------------------------------------------------------------
(* Final grades.                                                           *)

\* The points and the maximum of every grade.
ScoreOf == [i \in GradeIds |-> grades[i].score]
MaxOf == [i \in GradeIds |-> grades[i].max]

LEMMA SumsAlike ==
  ASSUME NEW f, NEW S, IsFiniteSet(S), NEW t,
         t = [s \in SUBSET S |-> IF s = {} THEN 0 ELSE f[FirstOf(s)] + t[s \ {FirstOf(s)}]]
  PROVE  t[S] = Total(f, S)
<1>1. SumsOf(f, S, t)
  BY DEF SumsOf, AddsUp
<1>2. PICK u : SumsOf(f, S, u) /\ Total(f, S) = u[S]
  BY TotalAddsUp
<1>3. \A s \in SUBSET (S \cap S) : t[s] = u[s]
  BY ONLY <1>1, <1>2, IsFiniteSet(S), SameSum
<1>. QED
  BY <1>2, <1>3

LEMMA PointsIs ==
  ASSUME NEW S \in SUBSET GradeIds
  PROVE  Points(S) = Total(ScoreOf, S)
<1>1. IsFiniteSet(S)
  BY GradesAssumption, FS_Subset
<1>2. PICK t : SumsOf(ScoreOf, S, t) /\ Total(ScoreOf, S) = t[S]
  BY <1>1, TotalAddsUp
<1>3. \A s \in SUBSET S : s # {} => ScoreOf[FirstOf(s)] = grades[FirstOf(s)].score
  BY FirstIsIn DEF ScoreOf
<1>4. \A v : v = [s \in SUBSET S |-> IF s = {} THEN 0
                                     ELSE grades[FirstOf(s)].score + v[s \ {FirstOf(s)}]]
             <=> v = [s \in SUBSET S |-> IF s = {} THEN 0
                                     ELSE ScoreOf[FirstOf(s)] + v[s \ {FirstOf(s)}]]
  BY <1>3
<1>5. t = [s \in SUBSET S |-> IF s = {} THEN 0
                              ELSE grades[FirstOf(s)].score + t[s \ {FirstOf(s)}]]
  BY <1>2, <1>4 DEF SumsOf, AddsUp
<1>6. PICK u : u = CHOOSE v : v = [s \in SUBSET S |-> IF s = {} THEN 0
                                     ELSE grades[FirstOf(s)].score + v[s \ {FirstOf(s)}]]
  OBVIOUS
<1>7. u = [s \in SUBSET S |-> IF s = {} THEN 0
                              ELSE grades[FirstOf(s)].score + u[s \ {FirstOf(s)}]]
  BY ONLY <1>5, <1>6, Zenon
<1>8. Points(S) = u[S]
  BY <1>6 DEF Points, MapThenSumSet, MapThenFoldSet, FirstOf
<1>9. u = [s \in SUBSET S |-> IF s = {} THEN 0
                              ELSE ScoreOf[FirstOf(s)] + u[s \ {FirstOf(s)}]]
  BY ONLY <1>4, <1>7
<1>10. u[S] = Total(ScoreOf, S)
  BY ONLY <1>1, <1>9, SumsAlike
<1>. QED
  BY <1>8, <1>10

\* An inequality that holds of every element holds of the sums.
LEMMA TotalScaled ==
  ASSUME NEW f, NEW g, NEW S, IsFiniteSet(S), NEW a \in Nat, NEW b \in Nat,
         \A x \in S : f[x] \in Nat /\ g[x] \in Nat /\ a * f[x] <= b * g[x]
  PROVE  a * Total(f, S) <= b * Total(g, S)
<1>. DEFINE Q == {s \in SUBSET S : ~ (a * Total(f, s) <= b * Total(g, s))}
<1>. SUFFICES ASSUME Q # {} PROVE FALSE
  OBVIOUS
<1>1. \A s \in Q : IsFiniteSet(s)
  BY FS_Subset
<1>2. PICK s \in Q : \A r \in Q : Cardinality(s) <= Cardinality(r)
  <2>. HIDE DEF Q
  <2>. QED
    BY <1>1, SmallestOf
<1>3. IsFiniteSet(s) /\ s \in SUBSET S
  BY <1>1, <1>2
<1>4. CASE s = {}
  <2>1. Total(f, s) = 0 /\ Total(g, s) = 0
    BY <1>3, <1>4, TotalStep
  <2>2. a * Total(f, s) <= b * Total(g, s)
    BY ONLY <2>1, a \in Nat, b \in Nat
  <2>. QED
    BY <1>2, <2>2
<1>5. CASE s # {}
  <2>1. PICK x \in s : TRUE
    BY <1>5
  <2>2. PICK r : r = s \ {x}
    OBVIOUS
  <2>3. /\ IsFiniteSet(r) /\ Cardinality(r) < Cardinality(s)
        /\ Cardinality(r) \in Nat /\ Cardinality(s) \in Nat
    <3>1. /\ IsFiniteSet(r) /\ Cardinality(r) = Cardinality(s) - 1
          /\ Cardinality(r) \in Nat /\ Cardinality(s) \in Nat
      BY <1>3, <2>1, <2>2, WithoutOne
    <3>. QED
      BY ONLY <3>1
  <2>4. ~ (Cardinality(s) <= Cardinality(r))
    BY ONLY <2>3
  <2>5. r \in SUBSET S /\ r \notin Q
    BY <1>2, <1>3, <2>2, <2>4
  <2>6. a * Total(f, r) <= b * Total(g, r)
    BY <2>5
  <2>7. Total(f, s) = f[x] + Total(f, r) /\ Total(g, s) = g[x] + Total(g, r)
    <3>1. \A y \in s : f[y] \in Nat /\ g[y] \in Nat
      BY <1>3
    <3>2. Total(f, s) = f[x] + Total(f, s \ {x})
      BY ONLY <1>3, <2>1, <3>1, x \in s, TotalWithout
    <3>3. Total(g, s) = g[x] + Total(g, s \ {x})
      BY ONLY <1>3, <2>1, <3>1, x \in s, TotalWithout
    <3>. QED
      BY ONLY <2>2, <3>2, <3>3
  <2>8. Total(f, r) \in Nat /\ Total(g, r) \in Nat
    <3>1. \A y \in r : f[y] \in Nat /\ g[y] \in Nat
      BY <2>5
    <3>. QED
      BY ONLY <2>3, <3>1, TotalType
  <2>9. f[x] \in Nat /\ g[x] \in Nat /\ a * f[x] <= b * g[x]
    BY <1>3
  <2>10. /\ a * (f[x] + Total(f, r)) = a * f[x] + a * Total(f, r)
         /\ b * (g[x] + Total(g, r)) = b * g[x] + b * Total(g, r)
         /\ a * f[x] \in Nat /\ a * Total(f, r) \in Nat
         /\ b * g[x] \in Nat /\ b * Total(g, r) \in Nat
    BY ONLY <2>8, <2>9, a \in Nat, b \in Nat
  <2>11. a * Total(f, s) <= b * Total(g, s)
    BY ONLY <2>6, <2>7, <2>9, <2>10
  <2>. QED
    BY <1>2, <2>11
<1>. QED
  BY <1>4, <1>5

\* What is left out of a sum.
LEMMA TotalSplit ==
  ASSUME NEW f, NEW S, NEW T, IsFiniteSet(S), IsFiniteSet(T), S \cap T = {},
         \A x \in S \cup T : f[x] \in Nat
  PROVE  Total(f, S \cup T) = Total(f, S) + Total(f, T)
<1>. DEFINE Q == {t \in SUBSET T : Total(f, S \cup t) # Total(f, S) + Total(f, t)}
<1>. SUFFICES ASSUME Q # {} PROVE FALSE
  OBVIOUS
<1>1. \A t \in Q : IsFiniteSet(t)
  BY FS_Subset
<1>2. PICK t \in Q : \A r \in Q : Cardinality(t) <= Cardinality(r)
  <2>. HIDE DEF Q
  <2>. QED
    BY <1>1, SmallestOf
<1>3. IsFiniteSet(t) /\ t \in SUBSET T
  BY <1>1, <1>2
<1>4. CASE t = {}
  <2>1. Total(f, t) = 0 /\ S \cup t = S
    BY <1>3, <1>4, TotalStep
  <2>2. Total(f, S) \in Nat /\ Total(f, S \cup t) = Total(f, S)
    BY <2>1, TotalType
  <2>3. Total(f, S \cup t) = Total(f, S) + Total(f, t)
    BY ONLY <2>1, <2>2
  <2>. QED
    BY <1>2, <2>3
<1>5. CASE t # {}
  <2>1. PICK x \in t : TRUE
    BY <1>5
  <2>2. PICK r : r = t \ {x}
    OBVIOUS
  <2>3. /\ IsFiniteSet(r) /\ Cardinality(r) = Cardinality(t) - 1
        /\ Cardinality(r) \in Nat /\ Cardinality(t) \in Nat
    BY <1>3, <2>1, <2>2, WithoutOne
  <2>4. ~ (Cardinality(t) <= Cardinality(r))
    BY ONLY <2>3
  <2>5. r \in SUBSET T /\ r \notin Q
    BY <1>2, <1>3, <2>2, <2>4
  <2>6. Total(f, S \cup r) = Total(f, S) + Total(f, r)
    BY <2>5
  <2>7. Total(f, t) = f[x] + Total(f, r)
    <3>1. \A y \in t : f[y] \in Nat
      BY <1>3
    <3>2. Total(f, t) = f[x] + Total(f, t \ {x})
      BY ONLY <1>3, <3>1, x \in t, TotalWithout
    <3>. QED
      BY ONLY <2>2, <3>2
  <2>8. Total(f, S \cup t) = f[x] + Total(f, S \cup r)
    <3>1. IsFiniteSet(S \cup r) /\ x \notin S \cup r /\ S \cup t = (S \cup r) \cup {x}
      BY <1>3, <2>2, <2>3, FS_Union
    <3>2. \A y \in (S \cup r) \cup {x} : f[y] \in Nat
      BY <1>3, <2>5
    <3>3. Total(f, (S \cup r) \cup {x}) = f[x] + Total(f, S \cup r)
      BY ONLY <3>1, <3>2, TotalWith
    <3>. QED
      BY ONLY <3>1, <3>3
  <2>9. Total(f, S) \in Nat /\ Total(f, r) \in Nat /\ f[x] \in Nat
    <3>1. \A y \in r : f[y] \in Nat
      BY <2>5
    <3>2. Total(f, r) \in Nat
      BY ONLY <2>3, <3>1, TotalType
    <3>. QED
      BY <1>3, <3>2, TotalType
  <2>10. Total(f, S \cup t) = Total(f, S) + Total(f, t)
    BY ONLY <2>6, <2>7, <2>8, <2>9
  <2>. QED
    BY <1>2, <2>10
<1>6. Q = {}
  BY <1>4, <1>5
<1>. QED
  BY <1>6

LEMMA MaximumIs ==
  ASSUME NEW S \in SUBSET GradeIds
  PROVE  Maximum(S) = Total(MaxOf, S)
<1>1. IsFiniteSet(S)
  BY GradesAssumption, FS_Subset
<1>2. PICK t : SumsOf(MaxOf, S, t) /\ Total(MaxOf, S) = t[S]
  BY <1>1, TotalAddsUp
<1>3. \A s \in SUBSET S : s # {} => MaxOf[FirstOf(s)] = grades[FirstOf(s)].max
  BY FirstIsIn DEF MaxOf
<1>4. \A v : v = [s \in SUBSET S |-> IF s = {} THEN 0
                                     ELSE grades[FirstOf(s)].max + v[s \ {FirstOf(s)}]]
             <=> v = [s \in SUBSET S |-> IF s = {} THEN 0
                                     ELSE MaxOf[FirstOf(s)] + v[s \ {FirstOf(s)}]]
  BY <1>3
<1>5. t = [s \in SUBSET S |-> IF s = {} THEN 0
                              ELSE grades[FirstOf(s)].max + t[s \ {FirstOf(s)}]]
  BY <1>2, <1>4 DEF SumsOf, AddsUp
<1>6. PICK u : u = CHOOSE v : v = [s \in SUBSET S |-> IF s = {} THEN 0
                                     ELSE grades[FirstOf(s)].max + v[s \ {FirstOf(s)}]]
  OBVIOUS
<1>7. u = [s \in SUBSET S |-> IF s = {} THEN 0
                              ELSE grades[FirstOf(s)].max + u[s \ {FirstOf(s)}]]
  BY ONLY <1>5, <1>6, Zenon
<1>8. Maximum(S) = u[S]
  BY <1>6 DEF Maximum, MapThenSumSet, MapThenFoldSet, FirstOf
<1>9. u = [s \in SUBSET S |-> IF s = {} THEN 0
                              ELSE MaxOf[FirstOf(s)] + u[s \ {FirstOf(s)}]]
  BY ONLY <1>4, <1>7
<1>10. u[S] = Total(MaxOf, S)
  BY ONLY <1>1, <1>9, SumsAlike
<1>. QED
  BY <1>8, <1>10

LEMMA Cancel ==
  ASSUME NEW x \in Nat, NEW y \in Nat, NEW m \in Nat \ {0}
  PROVE  (x * m <= y * m <=> x <= y) /\ (x * m = y * m <=> x = y)
<1>1. CASE x <= y
  <2>1. PICK d \in Nat : y = x + d
    <3>1. y - x \in Nat /\ y = x + (y - x)
      BY <1>1
    <3>. QED
      BY <3>1
  <2>2. /\ (x + d) * m = x * m + d * m /\ x * m \in Nat /\ d * m \in Nat
        /\ d # 0 => d * m # 0
    OBVIOUS
  <2>. QED
    BY ONLY <1>1, <2>1, <2>2, x \in Nat, y \in Nat, d \in Nat
<1>2. CASE y < x
  <2>1. PICK d \in Nat : x = y + d
    <3>1. x - y \in Nat /\ x = y + (x - y)
      BY <1>2
    <3>. QED
      BY <3>1
  <2>2. /\ (y + d) * m = y * m + d * m /\ y * m \in Nat /\ d * m \in Nat
        /\ d # 0 => d * m # 0
    OBVIOUS
  <2>. QED
    BY ONLY <1>2, <2>1, <2>2, x \in Nat, y \in Nat, d \in Nat
<1>. QED
  BY <1>1, <1>2

\* Of three shares of the points, in order.
NoMore(s, m, t, n) == s * n <= t * m
Same(s, m, t, n) == s * n = t * m

LEMMA Shares ==
  ASSUME NEW s1 \in Nat, NEW s2 \in Nat, NEW s3 \in Nat,
         NEW m1 \in Nat \ {0}, NEW m2 \in Nat \ {0}, NEW m3 \in Nat \ {0},
         NoMore(s1, m1, s2, m2), NoMore(s2, m2, s3, m3)
  PROVE  /\ NoMore(s1, m1, s3, m3)
         /\ Same(s1, m1, s3, m3) => Same(s1, m1, s2, m2) /\ Same(s2, m2, s3, m3)
<1>. SUFFICES /\ s1 * m3 <= s3 * m1
              /\ s1 * m3 = s3 * m1 => s1 * m2 = s2 * m1 /\ s2 * m3 = s3 * m2
  BY DEF NoMore, Same
<1>0. s1 * m2 <= s2 * m1 /\ s2 * m3 <= s3 * m2
  BY DEF NoMore
<1>1. /\ s1 * m2 \in Nat /\ s2 * m1 \in Nat /\ s2 * m3 \in Nat /\ s3 * m2 \in Nat
      /\ s1 * m3 \in Nat /\ s3 * m1 \in Nat
  OBVIOUS
<1>2. (s1 * m2) * m3 <= (s2 * m1) * m3 /\ (s2 * m3) * m1 <= (s3 * m2) * m1
  BY ONLY <1>0, <1>1, Cancel,
          m1 \in Nat \ {0}, m3 \in Nat \ {0}
<1>3. /\ (s1 * m2) * m3 = (s1 * m3) * m2 /\ (s2 * m1) * m3 = (s2 * m3) * m1
      /\ (s3 * m2) * m1 = (s3 * m1) * m2
      /\ (s1 * m2) * m3 \in Nat /\ (s2 * m1) * m3 \in Nat /\ (s3 * m2) * m1 \in Nat
  OBVIOUS
<1>4. (s1 * m3) * m2 <= (s3 * m1) * m2
  BY ONLY <1>2, <1>3
<1>5. s1 * m3 <= s3 * m1
  BY ONLY <1>1, <1>4, Cancel, m2 \in Nat \ {0}
<1>6. ASSUME s1 * m3 = s3 * m1 PROVE s1 * m2 = s2 * m1 /\ s2 * m3 = s3 * m2
  <2>1. (s1 * m2) * m3 = (s2 * m1) * m3 /\ (s2 * m3) * m1 = (s3 * m2) * m1
    BY ONLY <1>2, <1>3, <1>6
  <2>. QED
    BY ONLY <1>1, <2>1, Cancel, m1 \in Nat \ {0}, m3 \in Nat \ {0}
<1>. QED
  BY <1>5, <1>6

LEMMA GradeFields ==
  ASSUME GradesTypeOK, NEW i \in GradeIds
  PROVE  grades[i].score \in Nat /\ grades[i].max \in Nat \ {0} /\ i \in Nat
BY GradesAssumption DEF GradesTypeOK

LEMMA LowerTransitive ==
  ASSUME GradesTypeOK, NEW i \in GradeIds, NEW j \in GradeIds, NEW k \in GradeIds,
         Lower(i, j), Lower(j, k)
  PROVE  Lower(i, k)
<1>1. /\ grades[i].score \in Nat /\ grades[i].max \in Nat \ {0} /\ i \in Nat
      /\ grades[j].score \in Nat /\ grades[j].max \in Nat \ {0} /\ j \in Nat
      /\ grades[k].score \in Nat /\ grades[k].max \in Nat \ {0} /\ k \in Nat
  BY GradeFields
<1>2. /\ grades[i].score * grades[j].max \in Nat /\ grades[j].score * grades[i].max \in Nat
      /\ grades[j].score * grades[k].max \in Nat /\ grades[k].score * grades[j].max \in Nat
      /\ grades[i].score * grades[k].max \in Nat /\ grades[k].score * grades[i].max \in Nat
  BY ONLY <1>1
<1>3. /\ NoMore(grades[i].score, grades[i].max, grades[j].score, grades[j].max)
      /\ Same(grades[i].score, grades[i].max, grades[j].score, grades[j].max) => i < j
      /\ NoMore(grades[j].score, grades[j].max, grades[k].score, grades[k].max)
      /\ Same(grades[j].score, grades[j].max, grades[k].score, grades[k].max) => j < k
  BY ONLY <1>1, <1>2, Lower(i, j), Lower(j, k) DEF Lower, NoMore, Same
<1>4. /\ NoMore(grades[i].score, grades[i].max, grades[k].score, grades[k].max)
      /\ Same(grades[i].score, grades[i].max, grades[k].score, grades[k].max) =>
           /\ Same(grades[i].score, grades[i].max, grades[j].score, grades[j].max)
           /\ Same(grades[j].score, grades[j].max, grades[k].score, grades[k].max)
  <2>1. PICK r1, n1 : r1 = grades[i].score /\ n1 = grades[i].max
    OBVIOUS
  <2>2. PICK r2, n2 : r2 = grades[j].score /\ n2 = grades[j].max
    OBVIOUS
  <2>3. PICK r3, n3 : r3 = grades[k].score /\ n3 = grades[k].max
    OBVIOUS
  <2>4. /\ r1 \in Nat /\ r2 \in Nat /\ r3 \in Nat
        /\ n1 \in Nat \ {0} /\ n2 \in Nat \ {0} /\ n3 \in Nat \ {0}
        /\ NoMore(r1, n1, r2, n2) /\ NoMore(r2, n2, r3, n3)
    BY ONLY <1>1, <1>3, <2>1, <2>2, <2>3
  <2>5. NoMore(r1, n1, r3, n3)
    BY ONLY <2>4, Shares, Zenon
  <2>6. Same(r1, n1, r3, n3) => Same(r1, n1, r2, n2) /\ Same(r2, n2, r3, n3)
    BY ONLY <2>4, Shares, Zenon
  <2>. QED
    BY ONLY <2>1, <2>2, <2>3, <2>5, <2>6
<1>5. /\ NoMore(grades[i].score, grades[i].max, grades[k].score, grades[k].max)
      /\ Same(grades[i].score, grades[i].max, grades[k].score, grades[k].max) => i < k
  BY ONLY <1>1, <1>3, <1>4
<1>. QED
  BY ONLY <1>1, <1>2, <1>5 DEF Lower, NoMore, Same

\* A grade that is kept has no smaller a share than one that is dropped.
LEMMA KeptIsHigher ==
  ASSUME GradesTypeOK, NEW c \in Descriptors, NEW d \in DroppedGrades(c), NEW k \in Counted(c)
  PROVE  grades[d].score * grades[k].max <= grades[k].score * grades[d].max
<1>. DEFINE Below(i) == {j \in Regular(c) : Lower(j, i)}
<1>1. /\ Regular(c) \subseteq GradeIds /\ d \in Regular(c) /\ k \in Regular(c)
      /\ Cardinality(Below(d)) < DropCount(c) /\ ~ (Cardinality(Below(k)) < DropCount(c))
  BY DEF Regular, In, Counting, DroppedGrades, Counted
<1>2. IsFiniteSet(Regular(c))
  BY <1>1, GradesAssumption, FS_Subset
<1>3. IsFiniteSet(Below(d)) /\ IsFiniteSet(Below(k))
  BY <1>2, FS_Subset
<1>4. Cardinality(Below(d)) \in Nat /\ Cardinality(Below(k)) \in Nat
  <2>. HIDE DEF Below
  <2>. QED
    BY <1>3, FS_CardinalityType
<1>5. Cardinality(Regular(c)) \in Nat
  BY <1>2, FS_CardinalityType
<1>6. DropCount(c) \in Int
  <2>1. DropLowest(c) \in Nat
    <3>1. c = NoCategory \/ c \in Categories
      BY DEF Descriptors, ActiveCategories
    <3>. QED
      BY <3>1, GradesAssumption DEF DropLowest, GradesTypeOK
  <2>. QED
    BY <1>5, <2>1 DEF DropCount
<1>7. ~ Lower(k, d)
  <2>. SUFFICES ASSUME Lower(k, d) PROVE FALSE
    OBVIOUS
  <2>1. Below(k) \subseteq Below(d)
    BY <1>1, LowerTransitive
  <2>2. Cardinality(Below(k)) <= Cardinality(Below(d))
    <3>. HIDE DEF Below
    <3>. QED
      BY <1>3, <2>1, FS_Subset
  <2>. QED
    BY ONLY <1>1, <1>4, <1>6, <2>2
<1>8. /\ grades[d].score \in Nat /\ grades[d].max \in Nat \ {0}
      /\ grades[k].score \in Nat /\ grades[k].max \in Nat \ {0}
  BY <1>1, GradeFields
<1>9. /\ grades[d].score * grades[k].max \in Nat /\ grades[k].score * grades[d].max \in Nat
  BY ONLY <1>8
<1>. QED
  BY ONLY <1>7, <1>9 DEF Lower

\* The arithmetics of the percentages, of what is kept, dropped and extra.
LEMMA Percentages ==
  ASSUME NEW pk \in Nat, NEW pd \in Nat, NEW pe \in Nat, NEW mk \in Nat, NEW md \in Nat,
         mk * pd <= pk * md
  PROVE  (pk + pe) * (mk + md) >= ((pk + pd) + pe) * mk
<1>1. /\ (pk + pe) * (mk + md) = ((pk * mk + pk * md) + pe * mk) + pe * md
      /\ ((pk + pd) + pe) * mk = (pk * mk + mk * pd) + pe * mk
  OBVIOUS
<1>2. /\ pk * mk \in Nat /\ pk * md \in Nat /\ pe * mk \in Nat /\ pe * md \in Nat
      /\ mk * pd \in Nat
  OBVIOUS
<1>. QED
  BY ONLY <1>1, <1>2, mk * pd <= pk * md

LEMMA DroppingKeeps == GradesTypeOK => DropNeverLowers
<1>. SUFFICES ASSUME GradesTypeOK, NEW c \in Descriptors
              PROVE  RollupScore(c) * Maximum(Regular(c)) >= Points(In(c)) * RollupMax(c)
  BY DEF DropNeverLowers
<1>1. PICK K : K = Counted(c)
  OBVIOUS
<1>2. PICK D : D = DroppedGrades(c)
  OBVIOUS
<1>3. PICK E : E = In(c) \ Regular(c)
  OBVIOUS
<1>4. /\ K \in SUBSET GradeIds /\ D \in SUBSET GradeIds /\ E \in SUBSET GradeIds
      /\ K \cup D \in SUBSET GradeIds /\ (K \cup D) \cup E \in SUBSET GradeIds
      /\ K \cup E \in SUBSET GradeIds
      /\ K \cap D = {} /\ (K \cup D) \cap E = {} /\ K \cap E = {}
      /\ Regular(c) = K \cup D /\ In(c) = (K \cup D) \cup E
  BY <1>1, <1>2, <1>3 DEF Counted, DroppedGrades, Regular, In, Counting
<1>5. /\ IsFiniteSet(K) /\ IsFiniteSet(D) /\ IsFiniteSet(E) /\ IsFiniteSet(K \cup D)
  BY <1>4, GradesAssumption, FS_Subset
<1>6. PICK sc : sc = ScoreOf
  OBVIOUS
<1>7. PICK mx : mx = MaxOf
  OBVIOUS
<1>8. \A i \in GradeIds : /\ sc[i] \in Nat /\ mx[i] \in Nat
                          /\ sc[i] = grades[i].score /\ mx[i] = grades[i].max
  BY <1>6, <1>7, GradeFields DEF ScoreOf, MaxOf
<1>9. /\ Total(sc, K) \in Nat /\ Total(sc, D) \in Nat /\ Total(sc, E) \in Nat
      /\ Total(mx, K) \in Nat /\ Total(mx, D) \in Nat
  BY <1>4, <1>5, <1>8, TotalType
<1>10. /\ Total(sc, K \cup D) = Total(sc, K) + Total(sc, D)
       /\ Total(mx, K \cup D) = Total(mx, K) + Total(mx, D)
       /\ Total(sc, (K \cup D) \cup E) = Total(sc, K \cup D) + Total(sc, E)
       /\ Total(sc, K \cup E) = Total(sc, K) + Total(sc, E)
  <2>1. /\ \A x \in K \cup D : sc[x] \in Nat /\ mx[x] \in Nat
        /\ \A x \in (K \cup D) \cup E : sc[x] \in Nat
        /\ \A x \in K \cup E : sc[x] \in Nat
    BY <1>4, <1>8
  <2>2. /\ Total(sc, K \cup D) = Total(sc, K) + Total(sc, D)
        /\ Total(mx, K \cup D) = Total(mx, K) + Total(mx, D)
    BY ONLY <1>4, <1>5, <2>1, TotalSplit
  <2>3. Total(sc, (K \cup D) \cup E) = Total(sc, K \cup D) + Total(sc, E)
    BY ONLY <1>4, <1>5, <2>1, TotalSplit
  <2>4. Total(sc, K \cup E) = Total(sc, K) + Total(sc, E)
    BY ONLY <1>4, <1>5, <2>1, TotalSplit
  <2>. QED
    BY ONLY <2>2, <2>3, <2>4
<1>11. \A d \in D : Total(mx, K) * sc[d] <= Total(sc, K) * mx[d]
  <2>. SUFFICES ASSUME NEW d \in D PROVE Total(mx, K) * sc[d] <= Total(sc, K) * mx[d]
    OBVIOUS
  <2>1. sc[d] \in Nat /\ mx[d] \in Nat
    BY <1>4, <1>8
  <2>2. \A k \in K : mx[k] \in Nat /\ sc[k] \in Nat /\ sc[d] * mx[k] <= mx[d] * sc[k]
    <3>. SUFFICES ASSUME NEW k \in K
                  PROVE  mx[k] \in Nat /\ sc[k] \in Nat /\ sc[d] * mx[k] <= mx[d] * sc[k]
      OBVIOUS
    <3>1. /\ mx[k] \in Nat /\ sc[k] \in Nat
          /\ sc[k] = grades[k].score /\ mx[k] = grades[k].max
          /\ sc[d] = grades[d].score /\ mx[d] = grades[d].max
      BY <1>4, <1>8
    <3>2. grades[d].score * grades[k].max <= grades[k].score * grades[d].max
      BY <1>1, <1>2, KeptIsHigher
    <3>3. mx[d] * sc[k] = sc[k] * mx[d]
      BY ONLY <2>1, <3>1
    <3>. QED
      BY ONLY <3>1, <3>2, <3>3
  <2>3. sc[d] * Total(mx, K) <= mx[d] * Total(sc, K)
    BY ONLY <1>5, <2>1, <2>2, TotalScaled
  <2>4. /\ sc[d] * Total(mx, K) = Total(mx, K) * sc[d]
        /\ mx[d] * Total(sc, K) = Total(sc, K) * mx[d]
    BY ONLY <1>9, <2>1
  <2>. QED
    BY ONLY <2>3, <2>4
<1>12. Total(mx, K) * Total(sc, D) <= Total(sc, K) * Total(mx, D)
  <2>1. \A d \in D : /\ sc[d] \in Nat /\ mx[d] \in Nat
                     /\ Total(mx, K) * sc[d] <= Total(sc, K) * mx[d]
    BY <1>4, <1>8, <1>11
  <2>. QED
    BY ONLY <1>5, <1>9, <2>1, TotalScaled
<1>13. /\ RollupScore(c) = Total(sc, K \cup E) /\ RollupMax(c) = Total(mx, K)
       /\ Maximum(Regular(c)) = Total(mx, K \cup D)
       /\ Points(In(c)) = Total(sc, (K \cup D) \cup E)
  BY <1>1, <1>3, <1>4, <1>6, <1>7, PointsIs, MaximumIs DEF RollupScore, RollupMax
<1>14. (Total(sc, K) + Total(sc, E)) * (Total(mx, K) + Total(mx, D))
         >= ((Total(sc, K) + Total(sc, D)) + Total(sc, E)) * Total(mx, K)
  BY ONLY <1>9, <1>12, Percentages
<1>. QED
  BY ONLY <1>10, <1>13, <1>14

\* The grades and the categories have their types.
THEOREM GradesTypeCorrect == GradesSpec => []GradesTypeOK
<1>1. GradesInit => GradesTypeOK
  BY DEF GradesInit, GradesTypeOK
<1>2. GradesTypeOK /\ [GradesNext]_gradesVars => GradesTypeOK'
  BY DEF GradesTypeOK, GradesNext, SaveGrade, SaveCategory, gradesVars
<1>. QED
  BY <1>1, <1>2, PTL DEF GradesSpec

\* Whatever the grades, their maxima and the extra credit of a category are, and
\* however many of the lowest it drops, to drop them never lowers its percentage.
THEOREM DropCorrect == GradesSpec => []DropNeverLowers
BY GradesTypeCorrect, DroppingKeeps, PTL
=============================================================================
