-------------------------- MODULE CourseEnrolment --------------------------
(***************************************************************************)
(* The student memberships of one course: self-enrolment with a code, a    *)
(* capacity, a waitlist and approval, next to what staff do to memberships *)
(* one by one, in bulk or from a roster (packages/api/src/dependencies,    *)
(* packages/core/src/memberships).                                         *)
(*                                                                         *)
(* Self-enrolment reads the course, the student's own memberships and, when *)
(* there is a capacity, the number of active students, each in a statement *)
(* of its own, and then inserts.  Only the unique index on tenant, course, *)
(* user and role protects the insert.  Each item of a bulk request or of a *)
(* roster is the same single insert as a membership created alone.         *)
(***************************************************************************)
EXTENDS Naturals, FiniteSets

CONSTANTS
  Learners,    \* users who may be students of the course
  Enrolments,  \* self-enrolment requests
  Boundless,   \* the capacity of a course without one
  \* Enrolment settings that staff may choose.  open: active, with an
  \* enrolment code, within its dates; capacity: maxEnrollments.
  Catalogs,
  MaxSeated    \* bound: how often staff make somebody active

ASSUME EnrolmentAssumption ==
  /\ IsFiniteSet(Learners)
  /\ IsFiniteSet(Enrolments)
  /\ Boundless \notin Nat
  /\ Catalogs \subseteq
       [open : {"yes", "no"}, capacity : (Nat \ {0}) \cup {Boundless},
        waitlist : {"yes", "no"}, approval : {"yes", "no"}]
  /\ MaxSeated \in Nat

VARIABLES
  membership,  \* the status of each student's row, or none
  catalog,     \* the enrolment settings of the course
  enrolment,   \* the self-enrolments in flight
  seated,      \* history: how often staff have made somebody active
  capacities   \* history: capacities that have been in force

enrolVars == <<membership, catalog, enrolment, seated, capacities>>

-----------------------------------------------------------------------------
\* "away" stands for invited, dropped and withdrawn: a row that takes no seat
\* and waits for nothing.
Statuses == {"active", "waitlisted", "pending_approval", "away"}
Enrolling ==
  [pc : {"idle", "existing", "count", "insert"}, learner : SUBSET Learners,
   settings : SUBSET Catalogs, status : Statuses]

NoEnrolment == [pc |-> "idle", learner |-> {}, settings |-> {}, status |-> "active"]

Active == {s \in Learners : membership[s] = "active"}

EnrolInit ==
  /\ membership = [s \in Learners |-> "none"]
  /\ catalog \in Catalogs
  /\ enrolment = [r \in Enrolments |-> NoEnrolment]
  /\ seated = 0
  /\ capacities = {catalog.capacity}

\* getCourseEnrollmentInfo; a closed course refuses.
BeginEnrolment(r, s) ==
  /\ enrolment[r].pc = "idle"
  /\ catalog.open = "yes"
  /\ enrolment' = [enrolment EXCEPT ![r] =
       [pc |-> "existing", learner |-> {s}, settings |-> {catalog}, status |-> "active"]]
  /\ UNCHANGED <<membership, catalog, seated, capacities>>

\* Whoever is a student of the course in whatever status is told so;
\* without a capacity nobody is counted.
FindNoMembership(r) == \E s \in enrolment[r].learner, c \in enrolment[r].settings :
  /\ enrolment[r].pc = "existing"
  /\ membership[s] = "none"
  /\ enrolment' = [enrolment EXCEPT ![r] =
       IF c.capacity = Boundless
       THEN [pc |-> "insert", learner |-> {s}, settings |-> {},
             status |-> IF c.approval = "yes" THEN "pending_approval" ELSE "active"]
       ELSE [@ EXCEPT !.pc = "count"]]
  /\ UNCHANGED <<membership, catalog, seated, capacities>>

\* Slip: full only beyond the capacity.
StatusesOneMore(count, c) ==
  CASE count > c.capacity /\ c.waitlist = "no"  -> {}
    [] count > c.capacity /\ c.waitlist = "yes" -> {"waitlisted"}
    [] count <= c.capacity -> {IF c.approval = "yes" THEN "pending_approval" ELSE "active"}

\* The status that a count of the active students leads to; none, when the
\* course is full and has no waitlist.
StatusesFor(count, c) ==
  CASE count >= c.capacity /\ c.waitlist = "no"  -> {}
    [] count >= c.capacity /\ c.waitlist = "yes" -> {"waitlisted"}
    [] count < c.capacity -> {IF c.approval = "yes" THEN "pending_approval" ELSE "active"}

CountActive(r) == \E c \in enrolment[r].settings :
  /\ enrolment[r].pc = "count"
  /\ \E status \in StatusesFor(Cardinality(Active), c) :
       enrolment' = [enrolment EXCEPT ![r] =
         [@ EXCEPT !.pc = "insert", !.settings = {}, !.status = status]]
  /\ UNCHANGED <<membership, catalog, seated, capacities>>

InsertMembership(r) == \E s \in enrolment[r].learner :
  /\ enrolment[r].pc = "insert"
  /\ membership[s] = "none"
  /\ membership' = [membership EXCEPT ![s] = enrolment[r].status]
  /\ enrolment' = [enrolment EXCEPT ![r] = NoEnrolment]
  /\ UNCHANGED <<catalog, seated, capacities>>

\* An existing membership, a full course, a duplicate row or a death.
EndEnrolment(r) ==
  /\ enrolment[r].pc # "idle"
  /\ enrolment' = [enrolment EXCEPT ![r] = NoEnrolment]
  /\ UNCHANGED <<membership, catalog, seated, capacities>>

\* createCourseMembership (alone, in bulk, from a roster) inserts a row,
\* updateCourseMembership changes its status; neither looks at the capacity.
SetMembership(s, status) ==
  /\ membership[s] # status
  /\ status = "active" => seated < MaxSeated
  /\ membership' = [membership EXCEPT ![s] = status]
  /\ seated' = IF status = "active" THEN seated + 1 ELSE seated
  /\ UNCHANGED <<catalog, enrolment, capacities>>

\* deleteCourseMembership, alone and in bulk.
DeleteMembership(s) ==
  /\ membership[s] # "none"
  /\ membership' = [membership EXCEPT ![s] = "none"]
  /\ UNCHANGED <<catalog, enrolment, seated, capacities>>

\* updateCourseCatalogSettings, and whatever opens or closes the course.
ChangeCatalog(c) ==
  /\ c # catalog
  /\ catalog' = c
  /\ capacities' = capacities \cup {c.capacity}
  /\ UNCHANGED <<membership, enrolment, seated>>

EnrolNext ==
  \/ \E r \in Enrolments, s \in Learners : BeginEnrolment(r, s)
  \/ \E r \in Enrolments :
       \/ FindNoMembership(r) \/ CountActive(r)
       \/ InsertMembership(r) \/ EndEnrolment(r)
  \/ \E s \in Learners :
       \/ \E status \in Statuses : SetMembership(s, status)
       \/ DeleteMembership(s)
  \/ \E c \in Catalogs : ChangeCatalog(c)

EnrolSpec == EnrolInit /\ [][EnrolNext]_enrolVars

-----------------------------------------------------------------------------
(* Properties.                                                             *)

\* Every row and every request has its type.
EnrolTypeOK ==
  /\ membership \in [Learners -> Statuses \cup {"none"}]
  /\ catalog \in Catalogs
  /\ enrolment \in [Enrolments -> Enrolling]
  /\ seated \in Nat
  /\ capacities \subseteq {c.capacity : c \in Catalogs}

\* The last seats can be given more than once, but self-enrolment exceeds
\* the capacity by no more than the requests that overlap, less one, besides
\* those whom staff have made active themselves.
SeatsBounded ==
  \E c \in capacities :
    \/ c = Boundless
    \/ Cardinality(Active) < c + Cardinality(Enrolments) + seated
=============================================================================
