--------------------------- MODULE CourseRegisters ---------------------------
(***************************************************************************)
(* What staff enter by hand: the grades of the manual items of a gradebook *)
(* (packages/core/src/feedback, recordGradebookManualGrade) and the        *)
(* attendance of a session (packages/core/src/attendance,                  *)
(* recordAttendanceRecord), while others change the items and the          *)
(* memberships of the course.                                              *)
(*                                                                         *)
(* Both are one transaction that reads its item or session and then the    *)
(* student's membership, each FOR UPDATE, and upserts the row of the two.  *)
(* The rows so read stay locked until the transaction ends.                *)
(***************************************************************************)
EXTENDS Naturals

CONSTANTS
  Items,      \* manual items of the gradebook
  Sessions,   \* attendance sessions, which nothing changes or deletes
  Pupils,     \* users the course may have as students
  Recorders,  \* transactions in flight at once
  Marks,      \* scores, and the places of attendance
  Gone,       \* no such item any more
  NoRecord    \* no such row

ASSUME RegistersAssumption ==
  /\ Items \cap Sessions = {}
  /\ Marks \subseteq Nat

VARIABLES
  register,   \* the gradebook_manual_item and attendance_session rows
  role,       \* of each pupil in course_membership
  records,    \* the gradebook_manual_grade and attendance_record rows
  recorder    \* the transactions in flight

registerVars == <<register, role, records, recorder>>

-----------------------------------------------------------------------------
Registers == Items \cup Sessions

\* usable: an item is active, a session scheduled or completed; max: the
\* maximal score of an item, for a session the last of its places.
RegisterRows == [usable : {"yes", "no"}, max : Marks]
RecordRows   == [mark : Marks, max : Marks]

Roles == {"student", "other", "none"}

\* max is read with the item.
Recordings ==
  [pc : {"register", "membership", "upsert"}, register : Registers, pupil : Pupils,
   mark : Marks, max : Marks] \cup {NoRecord}

InTransaction(x) == recorder[x] # NoRecord

\* Slip: SELECT without FOR UPDATE.
HoldNoRegister(r) == {}

\* The transactions that hold the row of a register, or of a membership.
HoldRegister(r) ==
  {x \in Recorders : InTransaction(x) /\ recorder[x].register = r
                                     /\ recorder[x].pc \in {"membership", "upsert"}}
HoldMembership(p) ==
  {x \in Recorders : InTransaction(x) /\ recorder[x].pupil = p /\ recorder[x].pc = "upsert"}

RegistersInit ==
  /\ register \in [Registers -> RegisterRows]
  /\ role \in [Pupils -> Roles]
  /\ records = [c \in Registers \X Pupils |-> NoRecord]
  /\ recorder = [x \in Recorders |-> NoRecord]

-----------------------------------------------------------------------------
Rollback(x) ==
  /\ recorder' = [recorder EXCEPT ![x] = NoRecord]
  /\ UNCHANGED <<register, role, records>>

BeginRecording(x, r, p, mark) ==
  /\ ~InTransaction(x)
  /\ recorder' = [recorder EXCEPT ![x] =
       [pc |-> "register", register |-> r, pupil |-> p, mark |-> mark, max |-> mark]]
  /\ UNCHANGED <<register, role, records>>

Accepted(r, mark) ==
  register[r] # Gone /\ register[r].usable = "yes" /\ mark <= register[r].max

LockRegister(x) ==
  /\ InTransaction(x) /\ recorder[x].pc = "register"
  /\ HoldRegister(recorder[x].register) = {}
  /\ IF Accepted(recorder[x].register, recorder[x].mark)
       THEN /\ recorder' = [recorder EXCEPT ![x] =
                 [@ EXCEPT !.pc = "membership", !.max = register[recorder[x].register].max]]
            /\ UNCHANGED <<register, role, records>>
       ELSE Rollback(x)

LockMembership(x) ==
  /\ InTransaction(x) /\ recorder[x].pc = "membership"
  /\ HoldMembership(recorder[x].pupil) = {}
  /\ IF role[recorder[x].pupil] = "student"
       THEN /\ recorder' = [recorder EXCEPT ![x] = [@ EXCEPT !.pc = "upsert"]]
            /\ UNCHANGED <<register, role, records>>
       ELSE Rollback(x)

\* The upsert and the commit. A row without its item is refused by its key.
UpsertRecord(x) ==
  /\ InTransaction(x) /\ recorder[x].pc = "upsert"
  /\ register[recorder[x].register] # Gone
  /\ records' = [records EXCEPT ![<<recorder[x].register, recorder[x].pupil>>] =
                   [mark |-> recorder[x].mark, max |-> recorder[x].max]]
  /\ recorder' = [recorder EXCEPT ![x] = NoRecord]
  /\ UNCHANGED <<register, role>>

\* A server that dies, or a statement that fails.
RecordingFails(x) == InTransaction(x) /\ Rollback(x)

-----------------------------------------------------------------------------
(* Others wait for the rows that are held.                                 *)
UpdateManualItem(i) ==
  /\ register[i] # Gone
  /\ HoldRegister(i) = {}
  /\ \E row \in RegisterRows \ {register[i]} : register' = [register EXCEPT ![i] = row]
  /\ UNCHANGED <<role, records, recorder>>

\* The grades of an item are deleted with it.
DeleteManualItem(i) ==
  /\ register[i] # Gone
  /\ HoldRegister(i) = {}
  /\ register' = [register EXCEPT ![i] = Gone]
  /\ records' = [c \in Registers \X Pupils |-> IF c[1] = i THEN NoRecord ELSE records[c]]
  /\ UNCHANGED <<role, recorder>>

ChangeMembership(p) ==
  /\ HoldMembership(p) = {}
  /\ \E new \in Roles \ {role[p]} : role' = [role EXCEPT ![p] = new]
  /\ UNCHANGED <<register, records, recorder>>

RegistersNext ==
  \/ \E x \in Recorders :
       \/ \E r \in Registers, p \in Pupils, mark \in Marks : BeginRecording(x, r, p, mark)
       \/ LockRegister(x) \/ LockMembership(x) \/ UpsertRecord(x) \/ RecordingFails(x)
  \/ \E i \in Items : UpdateManualItem(i) \/ DeleteManualItem(i)
  \/ \E p \in Pupils : ChangeMembership(p)

RegistersSpec == RegistersInit /\ [][RegistersNext]_registerVars

-----------------------------------------------------------------------------
RegistersTypeOK ==
  /\ register \in [Registers -> RegisterRows \cup {Gone}]
  /\ role \in [Pupils -> Roles]
  /\ records \in [Registers \X Pupils -> RecordRows \cup {NoRecord}]
  /\ recorder \in [Recorders -> Recordings]

\* A row is written only for a student of the course and an item or session
\* that takes entries at that moment, within and with the maximum it has at
\* that moment, although each was read by an earlier statement
\* (recordGradebookManualGrade, recordAttendanceRecord).
RecordedAsOfNow ==
  [][\A r \in Registers, p \in Pupils :
       records'[<<r, p>>] \notin {records[<<r, p>>], NoRecord} =>
         /\ Accepted(r, records'[<<r, p>>].mark)
         /\ records'[<<r, p>>].max = register[r].max
         /\ role[p] = "student"]_registerVars
=============================================================================
