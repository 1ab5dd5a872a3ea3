---------------------------- MODULE PeopleProofs ----------------------------
(***************************************************************************)
(* Proofs about the members of a course, what they are told and what they  *)
(* may ask: seats, legal holds, announcements and the limiter of requests. *)
(***************************************************************************)
EXTENDS CourseEnrolment, LegalHolds, Announcements, HttpRateLimit, FiniteSetTheorems,
        SequenceTheorems, TLAPS

-----------------------------------------------------------------------------
(* Enrolment.                                                              *)

\* Requests that have been given a seat and have not taken it yet.
Inserting == {r \in Enrolments : enrolment[r].pc = "insert" /\ enrolment[r].status = "active"}

\* The seats taken and given away, counted against a capacity that has been
\* in force.
SeatsInv ==
  \E c \in capacities :
    \/ c = Boundless
    \/ Cardinality(Active) + Cardinality(Inserting) < c + Cardinality(Enrolments) + seated

\* The settings of the course, and those a request has read, have been in
\* force, and nobody is counted without a capacity.
SettingsOK(x) ==
  \A c \in x.settings :
    /\ c.capacity \in capacities
    /\ x.pc = "count" => c.capacity # Boundless
    /\ \A k \in x.settings : k = c

SettingsInv ==
  /\ catalog.capacity \in capacities
  /\ \A r \in Enrolments : SettingsOK(enrolment[r])

EnrolInv == EnrolTypeOK /\ SettingsInv /\ SeatsInv

LEMMA Counts ==
  /\ IsFiniteSet(Active) /\ Cardinality(Active) \in Nat
  /\ IsFiniteSet(Inserting) /\ Cardinality(Inserting) \in Nat
  /\ Cardinality(Inserting) <= Cardinality(Enrolments)
  /\ Cardinality(Enrolments) \in Nat
<1>1. Active \subseteq Learners /\ Inserting \subseteq Enrolments
  BY DEF Active, Inserting
<1> QED BY <1>1, EnrolmentAssumption, FS_Subset, FS_CardinalityType

LEMMA CountsNext ==
  /\ IsFiniteSet(Active') /\ Cardinality(Active') \in Nat
  /\ IsFiniteSet(Inserting') /\ Cardinality(Inserting') \in Nat
  /\ Cardinality(Inserting') <= Cardinality(Enrolments)
<1>1. Active' \subseteq Learners /\ Inserting' \subseteq Enrolments
  BY DEF Active, Inserting
<1> QED BY <1>1, EnrolmentAssumption, FS_Subset, FS_CardinalityType

LEMMA CatalogTypes ==
  \A c \in Catalogs : c.capacity \in (Nat \ {0}) \cup {Boundless}
BY EnrolmentAssumption

LEMMA CapacityTypes ==
  ASSUME EnrolTypeOK
  PROVE  \A c \in capacities : c = Boundless \/ c \in Nat
BY CatalogTypes DEF EnrolTypeOK

LEMMA EnrolInitial == EnrolInit => EnrolInv
<1> SUFFICES ASSUME EnrolInit PROVE EnrolInv
  OBVIOUS
<1>1. EnrolTypeOK /\ SettingsInv
  BY DEF EnrolInit, EnrolTypeOK, SettingsInv, SettingsOK, Enrolling, NoEnrolment, Statuses
<1>2. Active = {} /\ Inserting = {}
  BY DEF EnrolInit, Active, Inserting, NoEnrolment
<1>3. catalog.capacity \in capacities /\ seated = 0 /\ catalog \in Catalogs
  BY DEF EnrolInit
<1>4. SeatsInv
  BY <1>2, <1>3, CatalogTypes, Counts, FS_EmptySet DEF SeatsInv
<1> QED BY <1>1, <1>4 DEF EnrolInv

\* What a request's step leaves of the type.
LEMMA EnrollingTypes ==
  ASSUME NEW x \in Enrolling
  PROVE  /\ LET y == [x EXCEPT !.pc = "count"]
            IN  y \in Enrolling /\ y.pc = "count" /\ y.settings = x.settings
         /\ \A s \in Statuses :
              LET y == [x EXCEPT !.pc = "insert", !.settings = {}, !.status = s]
              IN  y \in Enrolling /\ y.pc = "insert" /\ y.settings = {} /\ y.status = s
BY DEF Enrolling

LEMMA NoEnrolmentType ==
  /\ NoEnrolment \in Enrolling /\ NoEnrolment.pc = "idle" /\ NoEnrolment.settings = {}
BY DEF NoEnrolment, Enrolling, Statuses

\* A step of one request that changes no row and gives no seat but below a
\* capacity.
LEMMA RequestKeeps ==
  ASSUME EnrolInv, NEW r \in Enrolments, NEW y \in Enrolling,
         enrolment' = [enrolment EXCEPT ![r] = y],
         UNCHANGED <<membership, catalog, seated, capacities>>,
         SettingsOK(y),
         y.pc = "insert" /\ y.status = "active" =>
           \E c \in capacities : c = Boundless \/ Cardinality(Active) < c
  PROVE  EnrolInv'
<1>0. \A q \in Enrolments : enrolment'[q] = IF q = r THEN y ELSE enrolment[q]
  BY DEF EnrolInv, EnrolTypeOK
<1>1. EnrolTypeOK' /\ SettingsInv'
  BY <1>0 DEF EnrolInv, EnrolTypeOK, SettingsInv, SettingsOK
<1>2. Active' = Active
  BY DEF Active
<1>3. CASE y.pc = "insert" /\ y.status = "active"
  <2>1. PICK c \in capacities : c = Boundless \/ Cardinality(Active) < c
    BY <1>3
  <2>2. c = Boundless \/ c \in Nat
    BY CapacityTypes DEF EnrolInv
  <2>3. seated \in Nat
    BY DEF EnrolInv, EnrolTypeOK
  <2>4. SeatsInv'
    BY <1>2, <2>1, <2>2, <2>3, Counts, CountsNext DEF SeatsInv
  <2> QED BY <1>1, <2>4 DEF EnrolInv
<1>4. CASE ~(y.pc = "insert" /\ y.status = "active")
  <2>1. Inserting' \subseteq Inserting
    BY <1>0, <1>4 DEF Inserting
  <2>2. Cardinality(Inserting') <= Cardinality(Inserting)
    BY <2>1, Counts, FS_Subset
  <2>3. PICK c \in capacities :
          \/ c = Boundless
          \/ Cardinality(Active) + Cardinality(Inserting) < c + Cardinality(Enrolments) + seated
    BY DEF EnrolInv, SeatsInv
  <2>4. (c = Boundless \/ c \in Nat) /\ seated \in Nat
    BY CapacityTypes DEF EnrolInv, EnrolTypeOK
  <2>5. SeatsInv'
    BY <1>2, <2>2, <2>3, <2>4, Counts, CountsNext DEF SeatsInv
  <2> QED BY <1>1, <2>5 DEF EnrolInv
<1> QED BY <1>3, <1>4

\* Steps that change rows: those who are active and those about to be are
\* together no more than before, or staff have made one more active.
LEMMA RowsKeep ==
  ASSUME EnrolInv, EnrolTypeOK', SettingsInv', capacities \subseteq capacities',
         Cardinality(Active') + Cardinality(Inserting') - seated'
           <= Cardinality(Active) + Cardinality(Inserting) - seated
  PROVE  EnrolInv'
<1>1. PICK c \in capacities :
        \/ c = Boundless
        \/ Cardinality(Active) + Cardinality(Inserting) < c + Cardinality(Enrolments) + seated
  BY DEF EnrolInv, SeatsInv
<1>2. (c = Boundless \/ c \in Nat) /\ seated \in Nat /\ seated' \in Nat
  BY CapacityTypes DEF EnrolInv, EnrolTypeOK
<1>3. c \in capacities'
  OBVIOUS
<1>4. SeatsInv'
  BY <1>1, <1>2, <1>3, Counts, CountsNext DEF SeatsInv
<1> QED BY <1>4 DEF EnrolInv

LEMMA InsertKeeps ==
  ASSUME EnrolInv, NEW r \in Enrolments, InsertMembership(r)
  PROVE  EnrolInv'
<1>1. PICK s \in enrolment[r].learner :
        /\ membership[s] = "none"
        /\ membership' = [membership EXCEPT ![s] = enrolment[r].status]
  BY DEF InsertMembership
<1>2. /\ enrolment[r].pc = "insert"
      /\ enrolment' = [enrolment EXCEPT ![r] = NoEnrolment]
      /\ UNCHANGED <<catalog, seated, capacities>>
  BY DEF InsertMembership
<1>3. s \in Learners /\ enrolment[r].status \in Statuses
  BY DEF EnrolInv, EnrolTypeOK, Enrolling
<1>4. \A q \in Enrolments : enrolment'[q] = IF q = r THEN NoEnrolment ELSE enrolment[q]
  BY <1>2 DEF EnrolInv, EnrolTypeOK
<1>5. EnrolTypeOK' /\ SettingsInv'
  BY <1>1, <1>2, <1>3, <1>4, NoEnrolmentType DEF EnrolInv, EnrolTypeOK, SettingsInv, SettingsOK
<1>6. seated \in Nat /\ seated' = seated
  BY <1>2 DEF EnrolInv, EnrolTypeOK
<1>7. CASE enrolment[r].status = "active"
  <2>1. Active' = Active \cup {s} /\ s \notin Active
    BY <1>1, <1>3, <1>7 DEF Active, EnrolInv, EnrolTypeOK
  <2>2. Inserting' = Inserting \ {r} /\ r \in Inserting
    BY <1>2, <1>4, <1>7, NoEnrolmentType DEF Inserting
  <2>3. Cardinality(Active') = Cardinality(Active) + 1
    BY <2>1, Counts, FS_AddElement
  <2>4. Cardinality(Inserting') = Cardinality(Inserting) - 1
    BY <2>2, Counts, FS_RemoveElement
  <2> QED BY <1>2, <1>5, <1>6, <2>3, <2>4, Counts, RowsKeep
<1>8. CASE enrolment[r].status # "active"
  <2>1. Active' = Active
    BY <1>1, <1>3, <1>8 DEF Active, EnrolInv, EnrolTypeOK
  <2>2. Inserting' \subseteq Inserting
    BY <1>4, NoEnrolmentType DEF Inserting
  <2>3. Cardinality(Inserting') <= Cardinality(Inserting)
    BY <2>2, Counts, FS_Subset
  <2> QED BY <1>2, <1>5, <1>6, <2>1, <2>3, Counts, CountsNext, RowsKeep
<1> QED BY <1>7, <1>8

LEMMA SetKeeps ==
  ASSUME EnrolInv, NEW s \in Learners, NEW status \in Statuses, SetMembership(s, status)
  PROVE  EnrolInv'
<1>1. /\ membership[s] # status /\ membership' = [membership EXCEPT ![s] = status]
      /\ seated' = (IF status = "active" THEN seated + 1 ELSE seated)
      /\ UNCHANGED <<catalog, enrolment, capacities>>
  BY DEF SetMembership
<1>2. seated \in Nat
  BY DEF EnrolInv, EnrolTypeOK
<1>3. EnrolTypeOK' /\ SettingsInv'
  BY <1>1, <1>2 DEF EnrolInv, EnrolTypeOK, SettingsInv, SettingsOK
<1>4. Inserting' = Inserting
  BY <1>1 DEF Inserting
<1>5. CASE status = "active"
  <2>1. Active' = Active \cup {s} /\ s \notin Active
    BY <1>1, <1>5 DEF Active, EnrolInv, EnrolTypeOK
  <2>2. Cardinality(Active') = Cardinality(Active) + 1
    BY <2>1, Counts, FS_AddElement
  <2> QED BY <1>1, <1>2, <1>3, <1>4, <1>5, <2>2, Counts, RowsKeep
<1>6. CASE status # "active"
  <2>1. Active' \subseteq Active
    BY <1>1, <1>6 DEF Active, EnrolInv, EnrolTypeOK
  <2>2. Cardinality(Active') <= Cardinality(Active)
    BY <2>1, Counts, FS_Subset
  <2> QED BY <1>1, <1>2, <1>3, <1>4, <1>6, <2>2, Counts, CountsNext, RowsKeep
<1> QED BY <1>5, <1>6

LEMMA DeleteMembershipKeeps ==
  ASSUME EnrolInv, NEW s \in Learners, DeleteMembership(s)
  PROVE  EnrolInv'
<1>1. /\ membership' = [membership EXCEPT ![s] = "none"]
      /\ UNCHANGED <<catalog, enrolment, seated, capacities>>
  BY DEF DeleteMembership
<1>2. EnrolTypeOK' /\ SettingsInv' /\ seated \in Nat
  BY <1>1 DEF EnrolInv, EnrolTypeOK, SettingsInv, SettingsOK
<1>3. Inserting' = Inserting /\ Active' \subseteq Active
  BY <1>1 DEF Inserting, Active, EnrolInv, EnrolTypeOK
<1>4. Cardinality(Active') <= Cardinality(Active)
  BY <1>3, Counts, FS_Subset
<1> QED BY <1>1, <1>2, <1>3, <1>4, Counts, CountsNext, RowsKeep

LEMMA EnrolStep == EnrolInv /\ [EnrolNext]_enrolVars => EnrolInv'
<1> SUFFICES ASSUME EnrolInv, [EnrolNext]_enrolVars PROVE EnrolInv'
  OBVIOUS
<1>0. \A r \in Enrolments : enrolment[r] \in Enrolling
  BY DEF EnrolInv, EnrolTypeOK
<1>1. ASSUME NEW r \in Enrolments, NEW s \in Learners, BeginEnrolment(r, s) PROVE EnrolInv'
  <2> DEFINE y == [pc |-> "existing", learner |-> {s}, settings |-> {catalog}, status |-> "active"]
  <2>1. y \in Enrolling /\ y.pc = "existing" /\ y.settings = {catalog}
    BY DEF EnrolInv, EnrolTypeOK, Enrolling, Statuses
  <2>2. catalog.capacity \in capacities
    BY DEF EnrolInv, SettingsInv
  <2>3. enrolment' = [enrolment EXCEPT ![r] = y]
        /\ UNCHANGED <<membership, catalog, seated, capacities>>
    BY <1>1 DEF BeginEnrolment
  <2> HIDE DEF y
  <2> QED BY <2>1, <2>2, <2>3, RequestKeeps DEF SettingsOK
<1>2. ASSUME NEW r \in Enrolments, FindNoMembership(r) PROVE EnrolInv'
  <2>1. PICK s \in enrolment[r].learner, c \in enrolment[r].settings :
          enrolment' = [enrolment EXCEPT ![r] =
            IF c.capacity = Boundless
            THEN [pc |-> "insert", learner |-> {s}, settings |-> {},
                  status |-> IF c.approval = "yes" THEN "pending_approval" ELSE "active"]
            ELSE [@ EXCEPT !.pc = "count"]]
    BY <1>2 DEF FindNoMembership
  <2>2. UNCHANGED <<membership, catalog, seated, capacities>>
    BY <1>2 DEF FindNoMembership
  <2>3. c.capacity \in capacities /\ s \in Learners
    BY <1>0 DEF EnrolInv, SettingsInv, SettingsOK, Enrolling
  <2>4. CASE c.capacity = Boundless
    <3> DEFINE y == [pc |-> "insert", learner |-> {s}, settings |-> {},
                     status |-> IF c.approval = "yes" THEN "pending_approval" ELSE "active"]
    <3>1. y \in Enrolling /\ y.settings = {}
      BY <2>3 DEF Enrolling, Statuses
    <3>2. enrolment' = [enrolment EXCEPT ![r] = y]
      BY <2>1, <2>4
    <3> HIDE DEF y
    <3> QED BY <2>2, <2>3, <2>4, <3>1, <3>2, RequestKeeps DEF SettingsOK
  <2>5. CASE c.capacity # Boundless
    <3> DEFINE y == [enrolment[r] EXCEPT !.pc = "count"]
    <3>1. y \in Enrolling /\ y.pc = "count" /\ y.settings = enrolment[r].settings
      <4> HIDE DEF y
      <4> QED BY <1>0, EnrollingTypes DEF y
    <3>2. enrolment' = [enrolment EXCEPT ![r] = y]
      BY <2>1, <2>5
    <3>3. SettingsOK(y)
      <4>1. SettingsOK(enrolment[r])
        BY DEF EnrolInv, SettingsInv
      <4> HIDE DEF y
      <4> QED BY <2>1, <2>5, <3>1, <4>1 DEF SettingsOK
    <3> HIDE DEF y
    <3> QED BY <2>2, <3>1, <3>2, <3>3, RequestKeeps
  <2> QED BY <2>4, <2>5
<1>3. ASSUME NEW r \in Enrolments, CountActive(r) PROVE EnrolInv'
  <2>1. PICK c \in enrolment[r].settings :
          \E status \in StatusesFor(Cardinality(Active), c) :
            enrolment' = [enrolment EXCEPT ![r] =
              [@ EXCEPT !.pc = "insert", !.settings = {}, !.status = status]]
    BY <1>3 DEF CountActive
  <2>2. PICK status \in StatusesFor(Cardinality(Active), c) :
          enrolment' = [enrolment EXCEPT ![r] =
            [@ EXCEPT !.pc = "insert", !.settings = {}, !.status = status]]
    BY <2>1
  <2>3. UNCHANGED <<membership, catalog, seated, capacities>>
    BY <1>3 DEF CountActive
  <2>4. c.capacity \in capacities /\ c.capacity # Boundless
    BY <1>3 DEF CountActive, EnrolInv, SettingsInv, SettingsOK
  <2>5. c.capacity \in Nat
    BY <2>4, CapacityTypes DEF EnrolInv
  <2>6. status \in Statuses /\ (status = "active" => Cardinality(Active) < c.capacity)
    <3>1. c.waitlist \in {"yes", "no"}
      BY <1>0, EnrolmentAssumption DEF Enrolling
    <3> DEFINE n == Cardinality(Active)
    <3>2. CASE n >= c.capacity /\ c.waitlist = "no"
      BY <2>2, <2>5, <3>2, Counts DEF StatusesFor
    <3>3. CASE n >= c.capacity /\ c.waitlist = "yes"
      BY <2>2, <2>5, <3>3, Counts DEF StatusesFor, Statuses
    <3>4. CASE n < c.capacity
      BY <2>2, <2>5, <3>4, Counts DEF StatusesFor, Statuses
    <3> QED BY <2>5, <3>1, <3>2, <3>3, <3>4, Counts
  <2> DEFINE y == [enrolment[r] EXCEPT !.pc = "insert", !.settings = {}, !.status = status]
  <2>7. y \in Enrolling /\ y.pc = "insert" /\ y.settings = {} /\ y.status = status
    <3> HIDE DEF y
    <3> QED BY <1>0, <2>6, EnrollingTypes DEF y
  <2>8. enrolment' = [enrolment EXCEPT ![r] = y]
    BY <2>2
  <2> HIDE DEF y
  <2> QED BY <2>3, <2>4, <2>6, <2>7, <2>8, RequestKeeps DEF SettingsOK
<1>4. ASSUME NEW r \in Enrolments, InsertMembership(r) PROVE EnrolInv'
  BY <1>4, InsertKeeps
<1>5. ASSUME NEW r \in Enrolments, EndEnrolment(r) PROVE EnrolInv'
  BY <1>5, NoEnrolmentType, RequestKeeps DEF EndEnrolment, SettingsOK
<1>6. ASSUME NEW s \in Learners, NEW status \in Statuses, SetMembership(s, status)
      PROVE  EnrolInv'
  BY <1>6, SetKeeps
<1>7. ASSUME NEW s \in Learners, DeleteMembership(s) PROVE EnrolInv'
  BY <1>7, DeleteMembershipKeeps
<1>8. ASSUME NEW c \in Catalogs, ChangeCatalog(c) PROVE EnrolInv'
  <2>1. Active' = Active /\ Inserting' = Inserting
    BY <1>8 DEF ChangeCatalog, Active, Inserting
  <2>2. EnrolTypeOK' /\ SettingsInv' /\ seated \in Nat
    BY <1>8 DEF ChangeCatalog, EnrolInv, EnrolTypeOK, SettingsInv, SettingsOK
  <2> QED BY <1>8, <2>1, <2>2, Counts, RowsKeep DEF ChangeCatalog
<1>9. CASE UNCHANGED enrolVars
  BY <1>9 DEF enrolVars, EnrolInv, EnrolTypeOK, SettingsInv, SettingsOK, SeatsInv, Active, Inserting
<1> QED BY <1>1, <1>2, <1>3, <1>4, <1>5, <1>6, <1>7, <1>8, <1>9 DEF EnrolNext

\* Every row and every request of the enrolment has its type.
THEOREM EnrolTypeCorrect == EnrolSpec => []EnrolTypeOK
<1>1. EnrolInv => EnrolTypeOK
  BY DEF EnrolInv
<1> QED BY <1>1, EnrolInitial, EnrolStep, PTL DEF EnrolSpec

\* However many requests overlap, self-enrolment exceeds a capacity by fewer
\* students than there are requests, beside those whom staff make active.
THEOREM SeatsCorrect == EnrolSpec => []SeatsBounded
<1>1. EnrolInv => SeatsBounded
  <2> SUFFICES ASSUME EnrolInv PROVE SeatsBounded
    OBVIOUS
  <2>1. PICK c \in capacities :
          \/ c = Boundless
          \/ Cardinality(Active) + Cardinality(Inserting) < c + Cardinality(Enrolments) + seated
    BY DEF EnrolInv, SeatsInv
  <2>2. (c = Boundless \/ c \in Nat) /\ seated \in Nat
    BY CapacityTypes DEF EnrolInv, EnrolTypeOK
  <2> QED BY <2>1, <2>2, Counts DEF SeatsBounded
<1> QED BY <1>1, EnrolInitial, EnrolStep, PTL DEF EnrolSpec

-----------------------------------------------------------------------------
(* Legal holds.                                                            *)

\* A deletion that found no hold is only threatened by later ones.
HoldInv ==
  /\ HoldTypeOK
  /\ HoldsProtect
  /\ \A u \in Accounts : Unhindered(u) # {} => holds[u] \subseteq late[u]

LEMMA HoldInitial == HoldInit => HoldInv
<1> SUFFICES ASSUME HoldInit PROVE HoldInv
  OBVIOUS
<1>1. HoldTypeOK
  BY DEF HoldInit, HoldTypeOK, Deleting, NoDeletion
<1>2. HoldsProtect /\ \A u \in Accounts : holds[u] \subseteq late[u]
  BY DEF HoldInit, HoldsProtect
<1> QED BY <1>1, <1>2 DEF HoldInv

LEMMA DeletingTypes ==
  ASSUME NEW x \in Deleting, NEW pc \in {"read", "update", "commit"}
  PROVE  LET y == [x EXCEPT !.pc = pc]
         IN  y \in Deleting /\ y.pc = pc /\ y.user = x.user
BY DEF Deleting

\* A step of one deletion that changes no account and no hold, and gets past
\* the holds only when there is none.
LEMMA DeletionKeeps ==
  ASSUME HoldInv, NEW d \in Deletions, NEW y \in Deleting,
         deletion' = [deletion EXCEPT ![d] = y],
         UNCHANGED <<account, holds, late>>,
         y.pc \in {"read", "update", "commit"} =>
           /\ y.user = deletion[d].user
           /\ \/ deletion[d].pc \in {"read", "update", "commit"}
              \/ \A u \in y.user : holds[u] = {}
  PROVE  HoldInv'
<1>0. \A e \in Deletions : deletion'[e] = IF e = d THEN y ELSE deletion[e]
  BY DEF HoldInv, HoldTypeOK
<1>1. HoldTypeOK' /\ HoldsProtect'
  BY DEF HoldInv, HoldTypeOK, HoldsProtect
<1>2. ASSUME NEW u \in Accounts, Unhindered(u)' # {} PROVE holds[u] \subseteq late[u]
  <2>1. PICK e \in Deletions :
          u \in deletion'[e].user /\ deletion'[e].pc \in {"read", "update", "commit"}
    BY <1>2 DEF Unhindered
  <2>2. e \in Unhindered(u) \/ holds[u] = {}
    BY <1>0, <2>1 DEF Unhindered
  <2> QED BY <2>2 DEF HoldInv
<1> QED BY <1>1, <1>2 DEF HoldInv

LEMMA HoldStep == HoldInv /\ [HoldNext]_holdVars => HoldInv'
<1> SUFFICES ASSUME HoldInv, [HoldNext]_holdVars PROVE HoldInv'
  OBVIOUS
<1>0. \A d \in Deletions : deletion[d] \in Deleting
  BY DEF HoldInv, HoldTypeOK
<1>1. ASSUME NEW t \in Tenants, NEW u \in Accounts, PlaceHold(t, u) PROVE HoldInv'
  <2>1. /\ holds' = [holds EXCEPT ![u] = @ \cup {t}]
        /\ late' = [late EXCEPT ![u] =
             IF Unhindered(u) # {} \/ account[u] = "deleted" THEN @ \cup {t} ELSE @]
        /\ UNCHANGED <<account, deletion>>
    BY <1>1 DEF PlaceHold
  <2>2. HoldTypeOK'
    BY <2>1 DEF HoldInv, HoldTypeOK
  <2>3. HoldsProtect'
    BY <2>1 DEF HoldInv, HoldTypeOK, HoldsProtect
  <2>4. \A v \in Accounts : Unhindered(v)' = Unhindered(v)
    BY <2>1 DEF Unhindered
  <2>5. \A v \in Accounts : Unhindered(v) # {} => holds'[v] \subseteq late'[v]
    BY <2>1 DEF HoldInv, HoldTypeOK
  <2> QED BY <2>2, <2>3, <2>4, <2>5 DEF HoldInv
<1>2. ASSUME NEW t \in Tenants, NEW u \in Accounts, ReleaseHold(t, u) PROVE HoldInv'
  <2>1. /\ holds' = [holds EXCEPT ![u] = @ \ {t}]
        /\ late' = [late EXCEPT ![u] = @ \ {t}]
        /\ UNCHANGED <<account, deletion>>
    BY <1>2 DEF ReleaseHold
  <2>2. HoldTypeOK' /\ HoldsProtect'
    BY <2>1 DEF HoldInv, HoldTypeOK, HoldsProtect
  <2>3. \A v \in Accounts : Unhindered(v)' = Unhindered(v)
    BY <2>1 DEF Unhindered
  <2>4. \A v \in Accounts : Unhindered(v) # {} => holds'[v] \subseteq late'[v]
    BY <2>1 DEF HoldInv, HoldTypeOK
  <2> QED BY <2>2, <2>3, <2>4 DEF HoldInv
<1>3. ASSUME NEW d \in Deletions, NEW u \in Accounts, BeginDeletion(d, u) PROVE HoldInv'
  <2>1. [pc |-> "check", user |-> {u}] \in Deleting
    BY DEF Deleting
  <2> QED BY <1>3, <2>1, DeletionKeeps DEF BeginDeletion
<1>4. ASSUME NEW d \in Deletions, CheckHolds(d) \/ ReadUser(d) \/ AnonymiseUser(d)
      PROVE  HoldInv'
  <2>1. PICK pc \in {"read", "update", "commit"} : Proceed(d, pc)
    BY <1>4 DEF CheckHolds, ReadUser, AnonymiseUser
  <2> DEFINE y == [deletion[d] EXCEPT !.pc = pc]
  <2>2. y \in Deleting /\ y.pc = pc /\ y.user = deletion[d].user
    <3>1. deletion[d] \in Deleting
      BY <1>0
    <3> QED BY ONLY <3>1, DeletingTypes
  <2>3. deletion' = [deletion EXCEPT ![d] = y] /\ UNCHANGED <<account, holds, late>>
    BY <1>4, <2>1 DEF Proceed, CheckHolds, ReadUser, AnonymiseUser
  <2>4. \/ deletion[d].pc \in {"read", "update", "commit"}
        \/ \A u \in deletion[d].user : holds[u] = {}
    BY <1>4 DEF CheckHolds, ReadUser, AnonymiseUser
  <2> HIDE DEF y
  <2> QED BY <2>2, <2>3, <2>4, DeletionKeeps
<1>5. ASSUME NEW d \in Deletions, CommitDeletion(d) PROVE HoldInv'
  <2>1. /\ deletion[d].pc = "commit"
        /\ account' = [u \in Accounts |-> IF u \in deletion[d].user THEN "deleted" ELSE account[u]]
        /\ deletion' = [deletion EXCEPT ![d] = NoDeletion]
        /\ UNCHANGED <<holds, late>>
    BY <1>5 DEF CommitDeletion
  <2>2. \A e \in Deletions : deletion'[e] = IF e = d THEN NoDeletion ELSE deletion[e]
    BY <2>1 DEF HoldInv, HoldTypeOK
  <2>3. NoDeletion \in Deleting /\ NoDeletion.pc = "idle"
    BY DEF NoDeletion, Deleting
  <2>4. HoldTypeOK'
    BY <2>1, <2>3 DEF HoldInv, HoldTypeOK
  <2>5. \A u \in Accounts : u \in deletion[d].user => d \in Unhindered(u)
    BY <2>1 DEF Unhindered
  <2>6. HoldsProtect'
    BY <2>1, <2>5 DEF HoldInv, HoldsProtect
  <2>7. \A u \in Accounts : Unhindered(u)' \subseteq Unhindered(u)
    BY <2>2, <2>3 DEF Unhindered
  <2> QED BY <2>1, <2>4, <2>6, <2>7 DEF HoldInv
<1>6. ASSUME NEW d \in Deletions, RollBack(d) PROVE HoldInv'
  <2>1. NoDeletion \in Deleting /\ NoDeletion.pc = "idle"
    BY DEF NoDeletion, Deleting
  <2> QED BY <1>6, <2>1, DeletionKeeps DEF RollBack
<1>7. CASE UNCHANGED holdVars
  BY <1>7 DEF holdVars, HoldInv, HoldTypeOK, HoldsProtect, Unhindered
<1> QED BY <1>1, <1>2, <1>3, <1>4, <1>5, <1>6, <1>7 DEF HoldNext

\* Every account, hold and deletion has its type.
THEOREM HoldTypeCorrect == HoldSpec => []HoldTypeOK
<1>1. HoldInv => HoldTypeOK
  BY DEF HoldInv
<1> QED BY <1>1, HoldInitial, HoldStep, PTL DEF HoldSpec

\* For any number of tenants and deletions, a deleted account has no hold but
\* those placed after the deletion had looked for holds.
THEOREM HoldsCorrect == HoldSpec => []HoldsProtect
<1>1. HoldInv => HoldsProtect
  BY DEF HoldInv
<1> QED BY <1>1, HoldInitial, HoldStep, PTL DEF HoldSpec

-----------------------------------------------------------------------------
(* Announcements.                                                          *)

Editing(a) == author[a].pc # "idle"

\* Updates that have read a draft: each may save an event for what has been
\* published meanwhile.
Stale == {a \in Authors : Editing(a) /\ author[a].read # "published"}

\* What is published, or was when somebody read it, has been announced.
Known ==
  /\ announcement = "published" => news >= 1
  /\ \A a \in Authors : Editing(a) /\ author[a].read = "published" => news >= 1

\* Every publication allows one event of each author.
Allowance ==
  /\ news <= published * Cardinality(Authors)
  /\ announcement = "published" => news + Cardinality(Stale) <= published * Cardinality(Authors)

\* Nobody updates what is not there.
Present ==
  /\ announcement = "unborn" => news = 0 /\ published = 0 /\ \A a \in Authors : ~Editing(a)
  /\ \A a \in Authors : author[a].pc = "commit" => announcement \in NewsStatuses

NewsInv == NewsTypeOK /\ Known /\ Allowance /\ Present

LEMMA Staleness ==
  /\ Cardinality(Authors) \in Nat /\ Cardinality(Authors) >= 1
  /\ IsFiniteSet(Stale) /\ Cardinality(Stale) \in Nat
  /\ Cardinality(Stale) <= Cardinality(Authors)
<1>1. Stale \subseteq Authors
  BY DEF Stale
<1>2. Cardinality(Authors) # 0
  BY NewsAssumption, FS_EmptySet
<1> QED BY <1>1, <1>2, NewsAssumption, FS_Subset, FS_CardinalityType

LEMMA StalenessNext ==
  /\ IsFiniteSet(Stale') /\ Cardinality(Stale') \in Nat
  /\ Cardinality(Stale') <= Cardinality(Authors)
<1>1. Stale' \subseteq Authors
  BY DEF Stale
<1> QED BY <1>1, NewsAssumption, FS_Subset, FS_CardinalityType

LEMMA Products ==
  ASSUME NEW p \in Nat
  PROVE  /\ p * Cardinality(Authors) \in Nat
         /\ (p + 1) * Cardinality(Authors) = p * Cardinality(Authors) + Cardinality(Authors)
         /\ 0 * Cardinality(Authors) = 0
BY Staleness

LEMMA NewsInitial == NewsInit => NewsInv
<1> SUFFICES ASSUME NewsInit PROVE NewsInv
  OBVIOUS
<1>1. NewsTypeOK /\ Known /\ Present
  BY DEF NewsInit, NewsTypeOK, Known, Present, Editing, NoUpdate, Updating, NewsStatuses
<1>2. Allowance
  BY Products DEF NewsInit, Allowance
<1> QED BY <1>1, <1>2 DEF NewsInv

LEMMA UpdateTypes ==
  /\ NoUpdate \in Updating /\ NoUpdate.pc = "idle"
  /\ \A x \in Updating :
       LET y == [x EXCEPT !.pc = "commit"]
       IN  y \in Updating /\ y.pc = "commit" /\ y.read = x.read /\ y.write = x.write
BY DEF NoUpdate, Updating, NewsStatuses

\* A step of one update that changes no row and is not staler than before.
LEMMA AuthorKeeps ==
  ASSUME NewsInv, NEW a \in Authors, NEW y \in Updating,
         author' = [author EXCEPT ![a] = y],
         UNCHANGED <<announcement, news, published>>,
         y.pc # "idle" =>
           /\ announcement # "unborn"
           /\ y.read = "published" => news >= 1
           /\ y.read # "published" => announcement # "published" \/ a \in Stale,
         y.pc = "commit" => announcement \in NewsStatuses
  PROVE  NewsInv'
<1>0. \A b \in Authors : author'[b] = IF b = a THEN y ELSE author[b]
  BY DEF NewsInv, NewsTypeOK
<1>1. NewsTypeOK'
  BY DEF NewsInv, NewsTypeOK
<1>2. Known' /\ Present'
  BY <1>0 DEF NewsInv, Known, Present, Editing
<1>3. ASSUME announcement = "published" PROVE Cardinality(Stale') <= Cardinality(Stale)
  <2>1. Stale' \subseteq Stale
    BY <1>0, <1>3 DEF Stale, Editing
  <2> QED BY <2>1, Staleness, FS_Subset
<1>4. news \in Nat /\ published * Cardinality(Authors) \in Nat
  BY Products DEF NewsInv, NewsTypeOK
<1>5. Allowance'
  BY <1>3, <1>4, Staleness, StalenessNext DEF NewsInv, Allowance
<1> QED BY <1>1, <1>2, <1>5 DEF NewsInv

LEMMA CommitNewsKeeps ==
  ASSUME NewsInv, NEW a \in Authors, CommitAnnouncement(a)
  PROVE  NewsInv'
<1>1. /\ author[a].pc = "commit" /\ announcement' = author[a].write
      /\ news' = (IF Publishes(a) THEN news + 1 ELSE news)
      /\ published' = (IF TurnsPublished(a) THEN published + 1 ELSE published)
      /\ author' = [author EXCEPT ![a] = NoUpdate]
  BY DEF CommitAnnouncement
<1>2. /\ news \in Nat /\ published \in Nat
      /\ author[a].read \in NewsStatuses /\ author[a].write \in NewsStatuses
      /\ announcement \in NewsStatuses
  BY <1>1 DEF NewsInv, NewsTypeOK, Updating, Present
<1>3. \A b \in Authors : author'[b] = IF b = a THEN NoUpdate ELSE author[b]
  BY <1>1 DEF NewsInv, NewsTypeOK
<1>4. NewsTypeOK'
  BY <1>1, <1>2, UpdateTypes DEF NewsInv, NewsTypeOK
<1>5. Known'
  BY <1>1, <1>2, <1>3, UpdateTypes DEF NewsInv, Known, Editing, Publishes, NewsStatuses
<1>6. Present'
  BY <1>1, <1>2, <1>3, UpdateTypes DEF NewsInv, Present, Editing, NewsStatuses
<1>7. Stale' = Stale \ {a} /\ (a \in Stale <=> author[a].read # "published")
  BY <1>1, <1>3, UpdateTypes DEF Stale, Editing
<1>8. Cardinality(Stale') = IF a \in Stale THEN Cardinality(Stale) - 1 ELSE Cardinality(Stale)
  BY <1>7, Staleness, FS_RemoveElement
<1> DEFINE N == Cardinality(Authors)
           K == published * N
<1>9. /\ N \in Nat /\ N >= 1 /\ K \in Nat /\ (published + 1) * N = K + N
      /\ Cardinality(Stale) \in Nat /\ Cardinality(Stale) <= N
      /\ Cardinality(Stale') \in Nat
  BY <1>2, Products, Staleness, StalenessNext
<1>10. news <= K /\ (announcement = "published" => news + Cardinality(Stale) <= K)
  BY DEF NewsInv, Allowance
<1>11. ASSUME NEW n \in {K, K + N}, published' * N = n,
              news' <= n, author[a].write = "published" => news' + Cardinality(Stale') <= n
       PROVE  Allowance'
  BY <1>1, <1>11 DEF Allowance
<1>12. CASE announcement = "published"
  <2>1. published' = published /\ (Publishes(a) => a \in Stale)
    BY <1>1, <1>7, <1>12 DEF TurnsPublished, Publishes
  <2>2. news' + Cardinality(Stale') <= K /\ news' <= K
    <3> HIDE DEF K, N
    <3> QED BY <1>1, <1>2, <1>8, <1>9, <1>10, <1>12, <2>1
  <2> QED BY <1>4, <1>5, <1>6, <1>11, <2>1, <2>2 DEF NewsInv
<1>13. CASE announcement = "draft" /\ author[a].write = "published"
  <2>1. published' = published + 1 /\ (Publishes(a) <=> a \in Stale)
    BY <1>1, <1>7, <1>13 DEF TurnsPublished, Publishes
  <2>2. news' + Cardinality(Stale') <= K + N /\ news' <= K + N
    <3> HIDE DEF K, N
    <3> QED BY <1>1, <1>2, <1>8, <1>9, <1>10, <2>1
  <2> QED BY <1>4, <1>5, <1>6, <1>9, <1>11, <2>1, <2>2 DEF NewsInv
<1>14. CASE announcement = "draft" /\ author[a].write # "published"
  <2>1. published' = published /\ news' = news
    BY <1>1, <1>14 DEF TurnsPublished, Publishes
  <2> QED BY <1>4, <1>5, <1>6, <1>10, <1>11, <1>14, <2>1 DEF NewsInv
<1> QED BY <1>2, <1>12, <1>13, <1>14 DEF NewsStatuses

LEMMA NewsStep == NewsInv /\ [NewsNext]_newsVars => NewsInv'
<1> SUFFICES ASSUME NewsInv, [NewsNext]_newsVars PROVE NewsInv'
  OBVIOUS
<1>1. ASSUME NEW s \in NewsStatuses, CreateAnnouncement(s) PROVE NewsInv'
  <2>1. /\ announcement = "unborn" /\ announcement' = s
        /\ news' = (IF s = "published" THEN 1 ELSE 0) /\ published' = news'
        /\ UNCHANGED author
        /\ \A a \in Authors : ~Editing(a)
    BY <1>1 DEF CreateAnnouncement, NewsInv, Present
  <2>2. Stale' = {}
    BY <2>1 DEF Stale, Editing
  <2>3. 1 * Cardinality(Authors) = Cardinality(Authors) /\ 0 * Cardinality(Authors) = 0
    BY Staleness
  <2>4. Allowance'
    BY <2>1, <2>2, <2>3, Staleness, FS_EmptySet DEF Allowance
  <2>5. NewsTypeOK' /\ Known' /\ Present'
    BY <2>1 DEF NewsInv, NewsTypeOK, Known, Present, Editing, NewsStatuses
  <2> QED BY <2>4, <2>5 DEF NewsInv
<1>2. ASSUME NEW a \in Authors, NEW s \in NewsStatuses, ReadAnnouncement(a, s) PROVE NewsInv'
  <2> DEFINE y == [pc |-> "update", read |-> announcement, write |-> s]
  <2>1. /\ announcement \in NewsStatuses /\ author' = [author EXCEPT ![a] = y]
        /\ UNCHANGED <<announcement, news, published>>
    BY <1>2 DEF ReadAnnouncement
  <2>2. y \in Updating /\ y.pc = "update" /\ y.read = announcement
    BY <2>1 DEF Updating
  <2> HIDE DEF y
  <2> QED BY <2>1, <2>2, AuthorKeeps DEF NewsInv, Known, NewsStatuses
<1>3. ASSUME NEW a \in Authors, UpdateAnnouncement(a) PROVE NewsInv'
  <2> DEFINE y == [author[a] EXCEPT !.pc = "commit"]
  <2>1. /\ author[a].pc = "update" /\ announcement \in NewsStatuses
        /\ author' = [author EXCEPT ![a] = y]
        /\ UNCHANGED <<announcement, news, published>>
    BY <1>3 DEF UpdateAnnouncement
  <2>2. y \in Updating /\ y.pc = "commit" /\ y.read = author[a].read
    <3>1. author[a] \in Updating
      BY DEF NewsInv, NewsTypeOK
    <3> QED BY ONLY <3>1, UpdateTypes
  <2>3. Editing(a) /\ (y.read # "published" => a \in Stale)
    BY <2>1, <2>2 DEF Editing, Stale
  <2> HIDE DEF y
  <2> QED BY <2>1, <2>2, <2>3, AuthorKeeps DEF NewsInv, Known, NewsStatuses
<1>4. ASSUME NEW a \in Authors, CommitAnnouncement(a) PROVE NewsInv'
  BY <1>4, CommitNewsKeeps
<1>5. ASSUME NEW a \in Authors, AbandonUpdate(a) PROVE NewsInv'
  BY <1>5, UpdateTypes, AuthorKeeps DEF AbandonUpdate
<1>6. CASE DeleteAnnouncement
  <2>1. /\ announcement \in NewsStatuses /\ announcement' = "gone"
        /\ \A a \in Authors : author[a].pc # "commit"
        /\ UNCHANGED <<news, author, published>>
    BY <1>6 DEF DeleteAnnouncement, Held
  <2> QED BY <2>1 DEF NewsInv, NewsTypeOK, Known, Allowance, Present, Editing
<1>7. CASE UNCHANGED newsVars
  BY <1>7 DEF newsVars, NewsInv, NewsTypeOK, Known, Allowance, Present, Editing, Stale
<1> QED BY <1>1, <1>2, <1>3, <1>4, <1>5, <1>6, <1>7 DEF NewsNext

\* The announcement and every update of it have their type.
THEOREM NewsTypeCorrect == NewsSpec => []NewsTypeOK
<1>1. NewsInv => NewsTypeOK
  BY DEF NewsInv
<1> QED BY <1>1, NewsInitial, NewsStep, PTL DEF NewsSpec

\* For any number of updates that overlap and fail, what is published has
\* been announced, and at most once per author for each publication.
THEOREM NewsCorrect == NewsSpec => []NewsFollowsPublication
<1>1. NewsInv => NewsFollowsPublication
  BY DEF NewsInv, Known, Allowance, NewsFollowsPublication, PublishedIsAnnounced, NewsBounded
<1> QED BY <1>1, NewsInitial, NewsStep, PTL DEF NewsSpec

-----------------------------------------------------------------------------
(* The limiter of HTTP requests.                                           *)

\* A sequence without its element i.
LEMMA Removed ==
  ASSUME NEW S, NEW s \in Seq(S), NEW i \in 1..Len(s)
  PROVE  /\ RemoveAt(s, i) \in Seq(S) /\ Len(RemoveAt(s, i)) = Len(s) - 1
         /\ \A j \in 1..(Len(s) - 1) : RemoveAt(s, i)[j] = IF j < i THEN s[j] ELSE s[j + 1]
<1>. DEFINE front == SubSeq(s, 1, i - 1)
            rest == SubSeq(s, i + 1, Len(s))
<1>0. /\ Len(s) \in Nat /\ i \in Int /\ i >= 1 /\ i <= Len(s)
      /\ \A j \in 1..Len(s) : s[j] \in S
  OBVIOUS
<1>1. /\ front \in Seq(S) /\ Len(front) = i - 1
      /\ \A j \in 1..(i - 1) : front[j] = s[j]
  <2>1. \A j \in 1..(i - 1) : s[j] \in S
    BY <1>0
  <2>2. /\ front \in Seq(S) /\ Len(front) = IF 1 <= i - 1 THEN (i - 1) - 1 + 1 ELSE 0
        /\ \A j \in 1..((i - 1) - 1 + 1) : front[j] = s[1 + j - 1]
    BY <1>0, <2>1, SubSeqProperties
  <2>. HIDE DEF front
  <2>. QED
    BY <1>0, <2>2
<1>2. /\ rest \in Seq(S) /\ Len(rest) = Len(s) - i
      /\ \A j \in 1..(Len(s) - i) : rest[j] = s[i + j]
  <2>1. \A j \in (i + 1)..Len(s) : s[j] \in S
    BY <1>0
  <2>2. /\ rest \in Seq(S) /\ Len(rest) = IF i + 1 <= Len(s) THEN Len(s) - (i + 1) + 1 ELSE 0
        /\ \A j \in 1..(Len(s) - (i + 1) + 1) : rest[j] = s[(i + 1) + j - 1]
    BY <1>0, <2>1, SubSeqProperties
  <2>. HIDE DEF rest
  <2>3. Len(s) - (i + 1) + 1 = Len(s) - i
    BY <1>0
  <2>4. ASSUME NEW j \in 1..(Len(s) - i) PROVE rest[j] = s[i + j]
    <3>1. (i + 1) + j - 1 = i + j /\ j \in 1..(Len(s) - (i + 1) + 1)
      BY <1>0, <2>3
    <3>. QED
      BY <2>2, <3>1
  <2>5. Len(rest) = Len(s) - i
    <3>1. Len(rest) = IF i + 1 <= Len(s) THEN Len(s) - (i + 1) + 1 ELSE 0
      BY ONLY <2>2
    <3>2. CASE i + 1 <= Len(s)
      BY ONLY <2>3, <3>1, <3>2
    <3>3. CASE ~ (i + 1 <= Len(s))
      <4>1. Len(s) - i = 0
        BY ONLY <1>0, <3>3
      <4>. QED
        BY ONLY <3>1, <3>3, <4>1
    <3>. QED
      BY ONLY <3>2, <3>3
  <2>6. rest \in Seq(S)
    BY ONLY <2>2
  <2>. QED
    BY ONLY <2>4, <2>5, <2>6
<1>. HIDE DEF front, rest
<1>3. /\ front \o rest \in Seq(S) /\ Len(front \o rest) = Len(s) - 1
      /\ \A j \in 1..(Len(s) - 1) : (front \o rest)[j] = IF j < i THEN s[j] ELSE s[j + 1]
  <2>1. /\ front \o rest \in Seq(S) /\ Len(front \o rest) = Len(front) + Len(rest)
        /\ \A j \in 1..(Len(front) + Len(rest)) :
             (front \o rest)[j] = IF j <= Len(front) THEN front[j] ELSE rest[j - Len(front)]
    BY <1>1, <1>2, ConcatProperties
  <2>2. Len(front) + Len(rest) = Len(s) - 1
    BY <1>0, <1>1, <1>2
  <2>3. ASSUME NEW j \in 1..(Len(s) - 1), ~ (j < i) PROVE (front \o rest)[j] = s[j + 1]
    <3>1. j - (i - 1) \in 1..(Len(s) - i) /\ i + (j - (i - 1)) = j + 1
      BY <1>0, <2>3
    <3>2. j \in 1..(Len(front) + Len(rest)) /\ ~ (j <= Len(front)) /\ j - Len(front) = j - (i - 1)
      BY <1>0, <1>1, <1>2, <2>2, <2>3
    <3>3. (front \o rest)[j] = rest[j - (i - 1)]
      BY ONLY <2>1, <3>2
    <3>4. rest[j - (i - 1)] = s[i + (j - (i - 1))]
      BY ONLY <1>2, <3>1
    <3>. QED
      BY ONLY <3>1, <3>3, <3>4
  <2>4. ASSUME NEW j \in 1..(Len(s) - 1), j < i PROVE (front \o rest)[j] = s[j]
    BY <1>0, <1>1, <2>1, <2>2, <2>4
  <2>. QED
    BY <2>1, <2>2, <2>3, <2>4
<1>4. RemoveAt(s, i) = front \o rest
  BY DEF RemoveAt, front, rest
<1>. QED
  BY ONLY <1>3, <1>4

\* A sequence with another element added.
LEMMA Added ==
  ASSUME NEW S, NEW p \in Seq(S), NEW e \in S, NEW t, t = p \o <<e>>
  PROVE  /\ t \in Seq(S) /\ Len(t) = Len(p) + 1 /\ DOMAIN t = 1..(Len(p) + 1)
         /\ \A j \in 1..Len(p) : t[j] = p[j]
         /\ t[Len(p) + 1] = e
<1>. QED
  OBVIOUS

LEMMA FirstReplaced ==
  ASSUME NEW S, NEW s \in Seq(S), Len(s) >= 1, NEW e \in S, NEW t, t = Tail(s) \o <<e>>
  PROVE  /\ t \in Seq(S) /\ Len(t) = Len(s) /\ DOMAIN t = 1..Len(s)
         /\ \A j \in 1..Len(s) : t[j] = IF j < Len(s) THEN s[j + 1] ELSE e
<1>. DEFINE rest == Tail(s)
<1>0. s # <<>> /\ Len(s) \in Nat
  OBVIOUS
<1>1. /\ rest \in Seq(S) /\ Len(rest) = Len(s) - 1
      /\ \A j \in 1..(Len(s) - 1) : rest[j] = s[j + 1]
  BY <1>0, HeadTailProperties
<1>2. t = rest \o <<e>>
  OBVIOUS
<1>. HIDE DEF rest
<1>. QED
  BY <1>0, <1>1, <1>2

\* A place in the map is still there after a call for another client, unless
\* it is the one dropped; and a call makes no place but its own.
LEMMA TouchKeeps ==
  ASSUME LimiterTypeOK, NEW k \in Clients
  PROVE  /\ Touch(k) \in Seq(Clients) /\ Len(Touch(k)) <= MaxBuckets
         /\ \E i \in DOMAIN Touch(k) : Touch(k)[i] = k
         /\ \A j \in Clients \ {k} :
              /\ InMap(j) /\ j \notin Dropped(k) =>
                   \E i \in DOMAIN Touch(k) : Touch(k)[i] = j
              /\ (\E i \in DOMAIN Touch(k) : Touch(k)[i] = j) => InMap(j)
<1>0. /\ recency \in Seq(Clients) /\ Len(recency) \in Nat /\ Len(recency) <= MaxBuckets
      /\ DOMAIN recency = 1..Len(recency) /\ MaxBuckets \in Nat \ {0}
      /\ \A i \in 1..Len(recency) : recency[i] \in Clients
  BY LimiterAssumption DEF LimiterTypeOK
<1>1. CASE InMap(k)
  <2>0. PICK i : i = CHOOSE n \in DOMAIN recency : recency[n] = k
    OBVIOUS
  <2>1. i \in 1..Len(recency) /\ recency[i] = k
    BY <1>0, <1>1, <2>0 DEF InMap
  <2>2. PICK p : p = RemoveAt(recency, i)
    OBVIOUS
  <2>3. Touch(k) = p \o <<k>>
    BY <1>1, <2>0, <2>2 DEF Touch
  <2>4. /\ p \in Seq(Clients) /\ Len(p) = Len(recency) - 1
        /\ \A j \in 1..(Len(recency) - 1) : p[j] = IF j < i THEN recency[j] ELSE recency[j + 1]
    <3>1. recency \in Seq(Clients) /\ i \in 1..Len(recency)
      BY <1>0, <2>1
    <3>2. p \in Seq(Clients)
      BY ONLY <2>2, <3>1, Removed
    <3>3. Len(p) = Len(recency) - 1
      BY ONLY <2>2, <3>1, Removed
    <3>4. \A SS : \A ss \in Seq(SS) : \A ii \in 1..Len(ss) : \A j \in 1..(Len(ss) - 1) :
            RemoveAt(ss, ii)[j] = IF j < ii THEN ss[j] ELSE ss[j + 1]
      BY ONLY Removed
    <3>5. \A j \in 1..(Len(recency) - 1) : p[j] = IF j < i THEN recency[j] ELSE recency[j + 1]
      BY ONLY <2>2, <3>1, <3>4
    <3>. QED
      BY ONLY <3>2, <3>3, <3>5
  <2>5. /\ Touch(k) \in Seq(Clients) /\ Len(Touch(k)) = Len(recency)
        /\ DOMAIN Touch(k) = 1..Len(recency)
        /\ \A j \in 1..Len(recency) :
             Touch(k)[j] = IF j < i THEN recency[j]
                           ELSE IF j < Len(recency) THEN recency[j + 1] ELSE k
    <3>1. PICK t : t = p \o <<k>>
      OBVIOUS
    <3>2. /\ t \in Seq(Clients) /\ Len(t) = Len(p) + 1 /\ DOMAIN t = 1..(Len(p) + 1)
          /\ \A j \in 1..Len(p) : t[j] = p[j]
          /\ t[Len(p) + 1] = k
      BY ONLY <2>4, <3>1, Added, k \in Clients
    <3>3. Len(p) + 1 = Len(recency)
      BY <1>0, <2>4
    <3>4. ASSUME NEW j \in 1..Len(recency)
          PROVE  t[j] = IF j < i THEN recency[j]
                        ELSE IF j < Len(recency) THEN recency[j + 1] ELSE k
      <4>1. CASE j < Len(recency)
        <5>1. j \in 1..Len(p) /\ j \in 1..(Len(recency) - 1)
          BY <1>0, <3>3, <4>1
        <5>. QED
          BY ONLY <2>4, <3>2, <4>1, <5>1
      <4>2. CASE ~ (j < Len(recency))
        <5>1. j = Len(p) + 1 /\ ~ (j < i)
          BY <1>0, <2>1, <3>3, <4>2
        <5>. QED
          BY ONLY <3>2, <4>2, <5>1
      <4>. QED
        BY <4>1, <4>2
    <3>. QED
      BY ONLY <2>3, <3>1, <3>2, <3>3, <3>4
  <2>6. ASSUME NEW j \in Clients \ {k}, NEW m \in 1..Len(recency), recency[m] = j
        PROVE  \E n \in DOMAIN Touch(k) : Touch(k)[n] = j
    <3>1. CASE m < i
      BY <2>1, <2>5, <2>6, <3>1
    <3>2. CASE m > i
      <4>1. m - 1 \in 1..Len(recency) /\ Touch(k)[m - 1] = recency[m]
        BY <1>0, <2>1, <2>5, <3>2
      <4>. QED
        BY <2>5, <2>6, <4>1
    <3>. QED
      BY <1>0, <2>1, <2>6, <3>1, <3>2
  <2>7. ASSUME NEW j \in Clients \ {k}, NEW m \in 1..Len(recency), Touch(k)[m] = j
        PROVE  InMap(j)
    <3>1. \E n \in 1..Len(recency) : recency[n] = j
      BY <1>0, <2>1, <2>5, <2>7
    <3>. QED
      BY <1>0, <3>1 DEF InMap
  <2>8. Len(recency) \in DOMAIN Touch(k) /\ Touch(k)[Len(recency)] = k
    BY <1>0, <2>1, <2>5
  <2>. QED
    BY <1>0, <2>5, <2>6, <2>7, <2>8 DEF InMap
<1>2. CASE ~InMap(k) /\ Len(recency) >= MaxBuckets
  <2>1. Touch(k) = Tail(recency) \o <<k>> /\ Dropped(k) = {recency[1]}
    BY <1>2 DEF Touch, Dropped
  <2>2. /\ Touch(k) \in Seq(Clients) /\ Len(Touch(k)) = Len(recency)
        /\ DOMAIN Touch(k) = 1..Len(recency)
        /\ \A j \in 1..Len(recency) :
             Touch(k)[j] = IF j < Len(recency) THEN recency[j + 1] ELSE k
    <3>1. Len(recency) >= 1
      BY <1>0, <1>2
    <3>2. PICK t : t = Tail(recency) \o <<k>>
      OBVIOUS
    <3>3. /\ t \in Seq(Clients) /\ Len(t) = Len(recency) /\ DOMAIN t = 1..Len(recency)
          /\ \A j \in 1..Len(recency) : t[j] = IF j < Len(recency) THEN recency[j + 1] ELSE k
      <4>1. recency \in Seq(Clients) /\ k \in Clients
        BY <1>0
      <4>. QED
        BY ONLY <3>1, <3>2, <4>1, FirstReplaced
    <3>. QED
      BY ONLY <2>1, <3>2, <3>3
  <2>3. ASSUME NEW j \in Clients \ {k}, NEW m \in 1..Len(recency), recency[m] = j, j # recency[1]
        PROVE  \E n \in DOMAIN Touch(k) : Touch(k)[n] = j
    <3>1. m - 1 \in 1..Len(recency) /\ Touch(k)[m - 1] = recency[m]
      BY <1>0, <2>2, <2>3
    <3>. QED
      BY <2>2, <2>3, <3>1
  <2>4. ASSUME NEW j \in Clients \ {k}, NEW m \in 1..Len(recency), Touch(k)[m] = j
        PROVE  InMap(j)
    <3>1. m + 1 \in 1..Len(recency) /\ recency[m + 1] = j
      BY <1>0, <2>2, <2>4
    <3>. QED
      BY <1>0, <3>1 DEF InMap
  <2>5. Len(recency) \in DOMAIN Touch(k) /\ Touch(k)[Len(recency)] = k
    BY <1>0, <1>2, <2>2
  <2>. QED
    BY <1>0, <2>1, <2>2, <2>3, <2>4, <2>5 DEF InMap
<1>3. CASE ~InMap(k) /\ Len(recency) < MaxBuckets
  <2>1. Touch(k) = Append(recency, k)
    <3>1. ~ (Len(recency) >= MaxBuckets)
      BY <1>0, <1>3
    <3>. QED
      BY <1>3, <3>1 DEF Touch
  <2>2. /\ Touch(k) \in Seq(Clients) /\ Len(Touch(k)) = Len(recency) + 1
        /\ DOMAIN Touch(k) = 1..(Len(recency) + 1)
        /\ \A j \in 1..(Len(recency) + 1) :
             Touch(k)[j] = IF j <= Len(recency) THEN recency[j] ELSE k
    BY <1>0, <2>1
  <2>3. Len(Touch(k)) <= MaxBuckets
    BY <1>0, <1>3, <2>2
  <2>4. ASSUME NEW j \in Clients \ {k}
        PROVE  (\E m \in DOMAIN Touch(k) : Touch(k)[m] = j) <=> InMap(j)
    BY <1>0, <2>2 DEF InMap
  <2>5. Len(recency) + 1 \in DOMAIN Touch(k) /\ Touch(k)[Len(recency) + 1] = k
    BY <1>0, <2>2
  <2>. QED
    BY <2>2, <2>3, <2>4, <2>5
<1>. QED
  BY <1>0, <1>1, <1>2, <1>3

\* What is refilled is at most a full bucket, no less than was there, and no
\* more than the time brings.
LEMMA RefilledIs ==
  ASSUME NEW held \in 0..Capacity, NEW e \in Nat, NEW x,
         x = IF held + e * Refill < Capacity THEN held + e * Refill ELSE Capacity
  PROVE  /\ e * Refill \in Nat
         /\ x \in 0..Capacity /\ x >= held /\ x <= held + e * Refill
         /\ e = 0 => x = held
<1>1. Capacity \in Nat /\ Refill \in Nat
  BY LimiterAssumption
<1>2. e * Refill \in Nat
  BY <1>1
<1>3. e = 0 => e * Refill = 0
  BY <1>1
<1>. QED
  BY <1>1, <1>2, <1>3

\* A bucket as the map has it, or a full one, and what it holds by now.
LEMMA HeldIs ==
  ASSUME LimiterTypeOK, NEW s \in Bucket
  PROVE  /\ Elapsed(s) \in Nat
         /\ Refilled(s) \in 0..Capacity
         /\ second = s.at => Refilled(s) = s.tokens
<1>1. second \in Nat /\ s.at \in Nat /\ s.tokens \in 0..Capacity
  BY LimiterAssumption DEF LimiterTypeOK, Bucket
<1>2. Elapsed(s) \in Nat /\ (second = s.at => Elapsed(s) = 0)
  BY <1>1 DEF Elapsed
<1>3. Refilled(s) = IF s.tokens + Elapsed(s) * Refill < Capacity
                    THEN s.tokens + Elapsed(s) * Refill ELSE Capacity
  BY DEF Refilled
<1>4. PICK held, e, x : held = s.tokens /\ e = Elapsed(s) /\ x = Refilled(s)
  OBVIOUS
<1>. QED
  BY <1>1, <1>2, <1>3, <1>4, RefilledIs

LEMMA StateIs ==
  ASSUME LimiterTypeOK
  PROVE  /\ Full \in Bucket /\ State(Watched) \in Bucket
         /\ ~InMap(Watched) => Refilled(State(Watched)) = Capacity
<1>1. second \in 0..LastSecond /\ buckets \in [Clients -> Bucket] /\ Watched \in Clients
      /\ Capacity \in Nat
  BY LimiterAssumption DEF LimiterTypeOK
<1>2. Full \in Bucket /\ Full.at = second /\ Full.tokens = Capacity
  BY <1>1 DEF Full, Bucket
<1>3. State(Watched) \in Bucket
  BY <1>1, <1>2 DEF State
<1>4. Refilled(Full) = Capacity
  BY <1>2, HeldIs
<1>. QED
  BY <1>2, <1>3, <1>4 DEF State

\* The time a refused client is told brings what it is short of.
LEMMA RetryIsEnough ==
  ASSUME NEW short \in Nat \ {0}, Refill # 0
  PROVE  RetryAfter(short) \in Nat /\ RetryAfter(short) * Refill >= short
<1>1. Refill \in Nat \ {0}
  BY LimiterAssumption
<1>2. PICK n \in Nat : n = short + Refill - 1
  BY <1>1
<1>3. PICK q \in Nat : q = n \div Refill
  BY <1>1
<1>4. n < Refill * q + Refill
  BY ONLY <1>1, <1>3
<1>5. Refill * q \in Nat /\ q * Refill = Refill * q
  BY <1>1
<1>6. q * Refill >= short
  BY <1>1, <1>2, <1>4, <1>5
<1>. QED
  BY <1>2, <1>3, <1>6 DEF RetryAfter

\* What a bucket becomes in a call, and what is told.
LEMMA ConsumeIs ==
  ASSUME LimiterTypeOK, NEW k \in Clients, Consume(k), NEW tokens, tokens = Refilled(State(k))
  PROVE  /\ tokens \in 0..Capacity
         /\ buckets' = [buckets EXCEPT ![k] =
              [tokens |-> IF Request <= Capacity /\ tokens >= Request THEN tokens - Request
                          ELSE tokens,
               at |-> second]]
         /\ k = Watched /\ Request <= Capacity /\ tokens >= Request =>
              window' = [window EXCEPT !.granted = window.granted + 1] /\ promise' = NoPromise
         /\ k = Watched /\ ~(Request <= Capacity /\ tokens >= Request) =>
              /\ window' = window
              /\ \/ promise' = NoPromise
                 \/ /\ Request <= Capacity /\ Refill # 0
                    /\ promise' = second + RetryAfter(Request - tokens)
         /\ k # Watched /\ Watched \in Dropped(k) =>
              /\ window.dropped < MaxDropped
              /\ window' = [window EXCEPT !.dropped = window.dropped + 1]
              /\ promise' = promise
         /\ k # Watched /\ Watched \notin Dropped(k) => window' = window /\ promise' = promise
<1>1. State(k) \in Bucket
  BY StateIs DEF State, LimiterTypeOK
<1>2. tokens \in 0..Capacity
  BY <1>1, HeldIs
<1>3. Watched \notin Dropped(Watched)
  <2>1. ASSUME ~InMap(Watched), Len(recency) >= MaxBuckets PROVE recency[1] # Watched
    <3>1. 1 \in DOMAIN recency
      BY <2>1, LimiterAssumption DEF LimiterTypeOK
    <3>. QED
      BY <2>1, <3>1 DEF InMap
  <2>. QED
    BY <2>1 DEF Dropped
<1>4. /\ buckets' = [buckets EXCEPT ![k] =
           [tokens |-> IF Request <= Capacity /\ tokens >= Request THEN tokens - Request
                       ELSE tokens,
            at |-> second]]
      /\ Watched \in Dropped(k) => window.dropped < MaxDropped
      /\ window' = CASE k = Watched /\ Request <= Capacity /\ tokens >= Request ->
                            [window EXCEPT !.granted = window.granted + 1]
                     [] Watched \in Dropped(k) -> [window EXCEPT !.dropped = window.dropped + 1]
                     [] OTHER -> window
      /\ promise' = CASE k # Watched -> promise
                      [] k = Watched /\ ((Request <= Capacity /\ tokens >= Request)
                                           \/ Request > Capacity \/ Refill = 0) -> NoPromise
                      [] OTHER -> second + RetryAfter(Request - tokens)
  BY DEF Consume
<1>5. Request \in Nat /\ Capacity \in Nat
  BY LimiterAssumption
<1>6. CASE k = Watched /\ Request <= Capacity /\ tokens >= Request
  BY ONLY <1>2, <1>3, <1>4, <1>6
<1>7. CASE k = Watched /\ ~(Request <= Capacity /\ tokens >= Request)
  BY ONLY <1>2, <1>3, <1>4, <1>5, <1>7
<1>8. CASE k # Watched /\ Watched \in Dropped(k)
  BY ONLY <1>2, <1>4, <1>8
<1>9. CASE k # Watched /\ Watched \notin Dropped(k)
  BY ONLY <1>2, <1>4, <1>9
<1>. QED
  BY ONLY <1>6, <1>7, <1>8, <1>9

-----------------------------------------------------------------------------
(* The promise made to a refused client is kept in the map's terms: by the *)
(* time it was told, its bucket has what a request costs.                  *)

PromiseOK ==
  promise # NoPromise =>
    /\ Request <= Capacity
    /\ promise >= buckets[Watched].at
    /\ buckets[Watched].tokens + (promise - buckets[Watched].at) * Refill >= Request

\* What was granted, and what there is still to be granted.
GrantedAndHeld ==
  Request * window.granted + Refill * window.since + Refilled(State(Watched))
    <= Capacity * (1 + window.dropped) + Refill * (second + (back - window.back))

LimiterInv ==
  /\ LimiterTypeOK
  /\ window.back <= back
  /\ PromiseOK
  /\ GrantedAndHeld

LEMMA WindowIs ==
  ASSUME NEW w \in Window
  PROVE  /\ w.since \in 0..LastSecond /\ w.back \in 0..MaxBack
         /\ w.granted \in Nat /\ w.dropped \in 0..MaxDropped
<1>. QED
  BY DEF Window

LEMMA WindowMoves ==
  ASSUME NEW w \in Window, NEW w2,
         \/ w2 = [w EXCEPT !.granted = w.granted + 1]
         \/ w.dropped < MaxDropped /\ w2 = [w EXCEPT !.dropped = w.dropped + 1]
  PROVE  w2 \in Window
<1>1. MaxDropped \in Nat
  BY LimiterAssumption
<1>2. CASE w2 = [w EXCEPT !.granted = w.granted + 1]
  BY ONLY <1>2, w \in Window DEF Window
<1>3. CASE w.dropped < MaxDropped /\ w2 = [w EXCEPT !.dropped = w.dropped + 1]
  BY ONLY <1>1, <1>3, w \in Window DEF Window
<1>. QED
  BY <1>2, <1>3

\* A call for some client keeps the types.
LEMMA ConsumeTypes ==
  ASSUME LimiterTypeOK, NEW k \in Clients, Consume(k)
  PROVE  LimiterTypeOK'
<1>0. /\ second \in 0..LastSecond /\ back \in 0..MaxBack /\ buckets \in [Clients -> Bucket]
      /\ window \in Window /\ promise \in Nat /\ LastSecond \in Nat
      /\ Request \in Nat \ {0} /\ Capacity \in Nat \ {0}
  BY LimiterAssumption DEF LimiterTypeOK
<1>1. second' = second /\ back' = back /\ recency' = Touch(k)
  BY DEF Consume
<1>2. recency' \in Seq(Clients) /\ Len(recency') <= MaxBuckets
  BY <1>1, TouchKeeps
<1>3. PICK tokens : tokens = Refilled(State(k))
  OBVIOUS
<1>4. PICK left :
        left = IF Request <= Capacity /\ tokens >= Request THEN tokens - Request ELSE tokens
  OBVIOUS
<1>5. tokens \in 0..Capacity /\ left \in 0..Capacity
  BY <1>0, <1>3, <1>4, ConsumeIs
<1>6. [tokens |-> left, at |-> second] \in Bucket
  BY <1>0, <1>5 DEF Bucket
<1>7. buckets' = [buckets EXCEPT ![k] = [tokens |-> left, at |-> second]]
  BY <1>3, <1>4, ConsumeIs
<1>8. buckets' \in [Clients -> Bucket]
  BY <1>0, <1>6, <1>7
<1>9. /\ k = Watched /\ Request <= Capacity /\ tokens >= Request =>
           window' = [window EXCEPT !.granted = window.granted + 1] /\ promise' = NoPromise
      /\ k = Watched /\ ~(Request <= Capacity /\ tokens >= Request) =>
           /\ window' = window
           /\ \/ promise' = NoPromise
              \/ /\ Request <= Capacity /\ Refill # 0
                 /\ promise' = second + RetryAfter(Request - tokens)
      /\ k # Watched /\ Watched \in Dropped(k) =>
           /\ window.dropped < MaxDropped
           /\ window' = [window EXCEPT !.dropped = window.dropped + 1]
           /\ promise' = promise
      /\ k # Watched /\ Watched \notin Dropped(k) => window' = window /\ promise' = promise
  BY <1>3, ConsumeIs
<1>10. window' \in Window
  BY <1>0, <1>9, WindowMoves
<1>11. NoPromise \in Nat
  BY <1>0 DEF NoPromise
<1>12. promise' \in Nat
  <2>1. CASE promise' = NoPromise \/ promise' = promise
    BY <1>0, <1>11, <2>1
  <2>2. CASE /\ ~(Request <= Capacity /\ tokens >= Request) /\ Request <= Capacity /\ Refill # 0
             /\ promise' = second + RetryAfter(Request - tokens)
    <3>1. PICK short \in Nat \ {0} : short = Request - tokens
      BY <1>0, <1>5, <2>2
    <3>2. RetryAfter(short) \in Nat
      BY <2>2, RetryIsEnough
    <3>. QED
      BY <1>0, <2>2, <3>1, <3>2
  <2>. QED
    BY <1>9, <2>1, <2>2
<1>. QED
  BY <1>0, <1>1, <1>2, <1>8, <1>10, <1>12 DEF LimiterTypeOK

\* What a bucket holds grows with the time, a second bringing one refill.
LEMMA LaterHolds ==
  ASSUME NEW held \in 0..Capacity, NEW e \in Nat, NEW f \in Nat, NEW x, NEW y,
         x = IF held + e * Refill < Capacity THEN held + e * Refill ELSE Capacity,
         y = IF held + f * Refill < Capacity THEN held + f * Refill ELSE Capacity
  PROVE  /\ f <= e => y <= x
         /\ f <= e + 1 => y <= x + Refill
<1>1. Capacity \in Nat /\ Refill \in Nat
  BY LimiterAssumption
<1>2. PICK a \in Nat, b \in Nat : a = e * Refill /\ b = f * Refill
  BY <1>1
<1>3. ASSUME f <= e PROVE b <= a
  <2>1. PICK d \in Nat : e = f + d
    BY <1>3
  <2>2. e * Refill = f * Refill + d * Refill /\ d * Refill \in Nat
    BY ONLY <1>1, <2>1, d \in Nat, f \in Nat
  <2>. QED
    BY ONLY <1>2, <2>2
<1>4. ASSUME f <= e + 1 PROVE b <= a + Refill
  <2>1. CASE f <= e
    BY <1>1, <1>3, <2>1
  <2>2. CASE f = e + 1
    <3>1. f * Refill = e * Refill + Refill
      BY ONLY <1>1, <2>2, e \in Nat
    <3>. QED
      BY ONLY <1>1, <1>2, <3>1
  <2>. QED
    BY <1>4, <2>1, <2>2
<1>. QED
  BY <1>1, <1>2, <1>3, <1>4

\* What Watched has before and after a step.
LEMMA HeldBefore ==
  ASSUME LimiterTypeOK, NEW x, x = Refilled(State(Watched)),
         NEW e, e = IF second < buckets[Watched].at THEN 0 ELSE second - buckets[Watched].at
  PROVE  /\ x \in 0..Capacity
         /\ ~InMap(Watched) => x = Capacity
         /\ InMap(Watched) =>
              x = IF buckets[Watched].tokens + e * Refill < Capacity
                  THEN buckets[Watched].tokens + e * Refill ELSE Capacity
<1>1. x \in 0..Capacity /\ (~InMap(Watched) => x = Capacity)
  BY StateIs, HeldIs
<1>. QED
  BY <1>1 DEF Refilled, State, Elapsed

LEMMA HeldAfter ==
  ASSUME LimiterTypeOK', NEW x, x = Refilled(State(Watched))',
         NEW e, e = IF second' < buckets'[Watched].at THEN 0 ELSE second' - buckets'[Watched].at
  PROVE  /\ x \in 0..Capacity
         /\ ~InMap(Watched)' => x = Capacity
         /\ InMap(Watched)' =>
              x = IF buckets'[Watched].tokens + e * Refill < Capacity
                  THEN buckets'[Watched].tokens + e * Refill ELSE Capacity
<1>1. /\ Capacity \in Nat /\ Refill \in Nat /\ second' \in Nat
      /\ buckets'[Watched] \in Bucket
  BY LimiterAssumption DEF LimiterTypeOK
<1>2. buckets'[Watched].tokens \in 0..Capacity /\ buckets'[Watched].at \in Nat
  BY <1>1, LimiterAssumption DEF Bucket
<1>3. e \in Nat
  BY <1>1, <1>2
<1>4. CASE InMap(Watched)'
  <2>1. State(Watched)' = buckets'[Watched]
    BY <1>4 DEF State
  <2>2. x = IF buckets'[Watched].tokens + e * Refill < Capacity
            THEN buckets'[Watched].tokens + e * Refill ELSE Capacity
    BY <2>1 DEF Refilled, Elapsed
  <2>. QED
    BY <1>2, <1>3, <1>4, <2>2, RefilledIs
<1>5. CASE ~InMap(Watched)'
  <2>1. State(Watched)' = [tokens |-> Capacity, at |-> second']
    BY <1>5 DEF State, Full
  <2>2. x = IF Capacity + 0 * Refill < Capacity THEN Capacity + 0 * Refill ELSE Capacity
    BY <1>1, <2>1 DEF Refilled, Elapsed
  <2>3. x = Capacity
    BY ONLY <1>1, <2>2
  <2>. QED
    BY <1>1, <1>5, <2>3
<1>. QED
  BY <1>4, <1>5

\* What Watched has after its own call, and after a call for another client.
LEMMA OwnCall ==
  ASSUME LimiterTypeOK, LimiterTypeOK', Consume(Watched),
         NEW x, x = Refilled(State(Watched)), NEW y, y = Refilled(State(Watched))'
  PROVE  /\ buckets'[Watched] = [tokens |-> y, at |-> second]
         /\ y = IF Request <= Capacity /\ x >= Request THEN x - Request ELSE x
<1>0. /\ Watched \in Clients /\ second \in Nat /\ buckets \in [Clients -> Bucket]
      /\ Request \in Nat /\ Capacity \in Nat /\ Refill \in Nat
  BY LimiterAssumption DEF LimiterTypeOK
<1>1. second' = second /\ recency' = Touch(Watched)
  BY DEF Consume
<1>2. InMap(Watched)'
  BY <1>0, <1>1, TouchKeeps DEF InMap
<1>3. PICK left : left = IF Request <= Capacity /\ x >= Request THEN x - Request ELSE x
  OBVIOUS
<1>4. x \in 0..Capacity /\ left \in 0..Capacity
  BY <1>0, <1>3, ConsumeIs
<1>5. buckets' = [buckets EXCEPT ![Watched] = [tokens |-> left, at |-> second]]
  BY <1>0, <1>3, ConsumeIs
<1>6. buckets'[Watched] = [tokens |-> left, at |-> second]
  BY <1>0, <1>5
<1>7. PICK e \in Nat : e = IF second' < buckets'[Watched].at THEN 0
                           ELSE second' - buckets'[Watched].at
  BY <1>0, <1>1, <1>6
<1>8. e = 0
  BY <1>0, <1>1, <1>6, <1>7
<1>9. y = IF left + e * Refill < Capacity THEN left + e * Refill ELSE Capacity
  BY <1>2, <1>6, <1>7, HeldAfter
<1>10. y = left
  BY <1>4, <1>8, <1>9, RefilledIs
<1>. QED
  BY <1>3, <1>6, <1>10

LEMMA OtherCall ==
  ASSUME LimiterTypeOK, LimiterTypeOK', NEW k \in Clients \ {Watched}, Consume(k),
         NEW x, x = Refilled(State(Watched)), NEW y, y = Refilled(State(Watched))'
  PROVE  /\ buckets'[Watched] = buckets[Watched]
         /\ x \in 0..Capacity /\ y \in 0..Capacity
         /\ Watched \notin Dropped(k) => y = x
<1>0. /\ Watched \in Clients /\ k # Watched /\ second \in Nat /\ buckets \in [Clients -> Bucket]
  BY LimiterAssumption DEF LimiterTypeOK
<1>1. second' = second /\ recency' = Touch(k)
  BY DEF Consume
<1>2. buckets'[Watched] = buckets[Watched]
  BY <1>0 DEF Consume
<1>3. Watched \notin Dropped(k) => (InMap(Watched)' <=> InMap(Watched))
  BY <1>0, <1>1, TouchKeeps DEF InMap
<1>4. PICK e : e = IF second < buckets[Watched].at THEN 0 ELSE second - buckets[Watched].at
  OBVIOUS
<1>5. /\ x \in 0..Capacity
      /\ ~InMap(Watched) => x = Capacity
      /\ InMap(Watched) =>
           x = IF buckets[Watched].tokens + e * Refill < Capacity
               THEN buckets[Watched].tokens + e * Refill ELSE Capacity
  BY <1>4, HeldBefore
<1>6. e = IF second' < buckets'[Watched].at THEN 0 ELSE second' - buckets'[Watched].at
  BY <1>1, <1>2, <1>4
<1>7. /\ y \in 0..Capacity
      /\ ~InMap(Watched)' => y = Capacity
      /\ InMap(Watched)' =>
           y = IF buckets'[Watched].tokens + e * Refill < Capacity
               THEN buckets'[Watched].tokens + e * Refill ELSE Capacity
  BY <1>6, HeldAfter
<1>. QED
  BY <1>2, <1>3, <1>5, <1>7

\* The clock moves on or is set back, and the map stays.
LEMMA ClockMoves ==
  ASSUME LimiterTypeOK, LimiterTypeOK', UNCHANGED <<buckets, recency>>,
         NEW x, x = Refilled(State(Watched)), NEW y, y = Refilled(State(Watched))'
  PROVE  /\ x \in 0..Capacity /\ y \in 0..Capacity
         /\ second' <= second => y <= x
         /\ second' = second + 1 => y <= x + Refill
<1>0. /\ second \in Nat /\ second' \in Nat /\ Refill \in Nat /\ Capacity \in Nat
      /\ buckets[Watched] \in Bucket
  BY LimiterAssumption DEF LimiterTypeOK
<1>1. buckets[Watched].tokens \in 0..Capacity /\ buckets[Watched].at \in Nat
  BY <1>0, LimiterAssumption DEF Bucket
<1>2. buckets' = buckets /\ (InMap(Watched)' <=> InMap(Watched))
  BY DEF InMap
<1>3. PICK e \in Nat : e = IF second < buckets[Watched].at THEN 0
                           ELSE second - buckets[Watched].at
  BY <1>0, <1>1
<1>4. PICK f \in Nat : f = IF second' < buckets'[Watched].at THEN 0
                           ELSE second' - buckets'[Watched].at
  BY <1>0, <1>1, <1>2
<1>5. /\ x \in 0..Capacity
      /\ ~InMap(Watched) => x = Capacity
      /\ InMap(Watched) =>
           x = IF buckets[Watched].tokens + e * Refill < Capacity
               THEN buckets[Watched].tokens + e * Refill ELSE Capacity
  BY <1>3, HeldBefore
<1>6. /\ y \in 0..Capacity
      /\ ~InMap(Watched)' => y = Capacity
      /\ InMap(Watched)' =>
           y = IF buckets'[Watched].tokens + f * Refill < Capacity
               THEN buckets'[Watched].tokens + f * Refill ELSE Capacity
  BY <1>4, HeldAfter
<1>7. (second' <= second => f <= e) /\ (second' = second + 1 => f <= e + 1)
  BY <1>0, <1>1, <1>2, <1>3, <1>4
<1>8. CASE InMap(Watched)
  BY <1>1, <1>2, <1>5, <1>6, <1>7, <1>8, LaterHolds
<1>9. CASE ~InMap(Watched)
  BY <1>0, <1>2, <1>5, <1>6, <1>9
<1>. QED
  BY <1>8, <1>9

\* The sums of GrantedAndHeld, with the products they are made of.
LEMMA OneMoreGranted ==
  ASSUME NEW a \in Nat, NEW n \in Nat, NEW x \in Nat, NEW y \in Nat, NEW b \in Nat,
         NEW bound \in Int,
         a * n + b + x <= bound, y = x - a
  PROVE  a * (n + 1) + b + y <= bound
<1>1. a * (n + 1) = a * n + a /\ a * n \in Nat
  OBVIOUS
<1>. QED
  BY <1>1

LEMMA OneMoreDropped ==
  ASSUME NEW c \in Nat, NEW n \in Nat, NEW x \in 0..c, NEW y \in 0..c, NEW a \in Nat,
         NEW b \in Int, a + x <= c * (1 + n) + b
  PROVE  a + y <= c * (1 + (n + 1)) + b
<1>1. c * (1 + (n + 1)) = c * (1 + n) + c /\ c * (1 + n) \in Nat
  OBVIOUS
<1>. QED
  BY <1>1

LEMMA OneMoreSecond ==
  ASSUME NEW r \in Nat, NEW n \in Int, NEW x \in Nat, NEW y \in Nat, NEW a \in Nat, NEW b \in Int,
         a + x <= b + r * n, y <= x + r
  PROVE  a + y <= b + r * (n + 1)
<1>1. r * (n + 1) = r * n + r /\ r * n \in Int
  OBVIOUS
<1>. QED
  BY <1>1

\* A call keeps the balance.
LEMMA ConsumeBalance ==
  ASSUME LimiterInv, LimiterTypeOK', NEW k \in Clients, Consume(k)
  PROVE  GrantedAndHeld' /\ window'.back = window.back
<1>0. /\ LimiterTypeOK /\ second \in Nat /\ back \in Nat /\ window \in Window
      /\ Request \in Nat /\ Capacity \in Nat /\ Refill \in Nat /\ Watched \in Clients
      /\ second' = second /\ back' = back
  BY LimiterAssumption DEF LimiterInv, LimiterTypeOK, Consume
<1>1. /\ window.since \in Nat /\ window.back \in Nat /\ window.granted \in Nat
      /\ window.dropped \in Nat
  BY <1>0, WindowIs, LimiterAssumption
<1>2. PICK x, y : x = Refilled(State(Watched)) /\ y = Refilled(State(Watched))'
  OBVIOUS
<1>3. PICK g \in Nat, s \in Nat, b \in Int, d \in Nat :
        /\ g = Request * window.granted /\ s = Refill * window.since
        /\ b = Refill * (second + (back - window.back)) /\ d = Capacity * (1 + window.dropped)
  <2>1. second + (back - window.back) \in Int
    BY <1>0, <1>1
  <2>2. Refill * (second + (back - window.back)) \in Int
    BY ONLY <1>0, <2>1
  <2>3. /\ Request * window.granted \in Nat /\ Refill * window.since \in Nat
        /\ Capacity * (1 + window.dropped) \in Nat
    BY ONLY <1>0, <1>1
  <2>. QED
    BY ONLY <2>2, <2>3
<1>4. g + s + x <= d + b
  BY ONLY <1>2, <1>3, LimiterInv DEF LimiterInv, GrantedAndHeld
<1>5. x \in 0..Capacity /\ y \in 0..Capacity
  <2>1. PICK e : e = IF second < buckets[Watched].at THEN 0 ELSE second - buckets[Watched].at
    OBVIOUS
  <2>2. PICK f : f = IF second' < buckets'[Watched].at THEN 0 ELSE second' - buckets'[Watched].at
    OBVIOUS
  <2>. QED
    BY <1>0, <1>2, <2>1, <2>2, HeldBefore, HeldAfter
<1>6. CASE k = Watched
  <2>1. y = IF Request <= Capacity /\ x >= Request THEN x - Request ELSE x
    BY <1>0, <1>2, <1>6, OwnCall
  <2>2. CASE Request <= Capacity /\ x >= Request
    <3>1. window' = [window EXCEPT !.granted = window.granted + 1]
      BY <1>0, <1>2, <1>6, <2>2, ConsumeIs
    <3>2. /\ window'.granted = window.granted + 1 /\ window'.since = window.since
          /\ window'.dropped = window.dropped /\ window'.back = window.back
      BY <1>0, <3>1 DEF Window
    <3>3. y = x - Request
      BY <2>1, <2>2
    <3>4. Request * (window.granted + 1) + s + y <= d + b
      BY <1>0, <1>1, <1>3, <1>4, <1>5, <3>3, OneMoreGranted
    <3>. QED
      BY ONLY <1>0, <1>2, <1>3, <3>2, <3>4 DEF GrantedAndHeld
  <2>3. CASE ~(Request <= Capacity /\ x >= Request)
    <3>1. window' = window /\ y = x
      BY <1>0, <1>2, <1>6, <2>1, <2>3, ConsumeIs
    <3>. QED
      BY ONLY <1>0, <1>2, <1>3, <1>4, <3>1 DEF GrantedAndHeld
  <2>. QED
    BY <2>2, <2>3
<1>7. CASE k # Watched
  <2>1. Watched \notin Dropped(k) => y = x
    BY <1>0, <1>2, <1>7, OtherCall
  <2>2. PICK tokens : tokens = Refilled(State(k))
    OBVIOUS
  <2>3. CASE Watched \in Dropped(k)
    <3>1. window' = [window EXCEPT !.dropped = window.dropped + 1]
      BY <1>0, <1>7, <2>2, <2>3, ConsumeIs
    <3>2. /\ window'.granted = window.granted /\ window'.since = window.since
          /\ window'.dropped = window.dropped + 1 /\ window'.back = window.back
      BY <1>0, <3>1 DEF Window
    <3>3. PICK a \in Nat : a = g + s
      BY <1>3
    <3>4. a + y <= Capacity * (1 + (window.dropped + 1)) + b
      BY <1>0, <1>1, <1>3, <1>4, <1>5, <3>3, OneMoreDropped
    <3>. QED
      BY ONLY <1>0, <1>2, <1>3, <3>2, <3>3, <3>4 DEF GrantedAndHeld
  <2>4. CASE Watched \notin Dropped(k)
    <3>1. window' = window
      BY <1>0, <1>7, <2>2, <2>4, ConsumeIs
    <3>. QED
      BY ONLY <1>0, <1>2, <1>3, <1>4, <2>1, <2>4, <3>1 DEF GrantedAndHeld
  <2>. QED
    BY <2>3, <2>4
<1>. QED
  BY <1>6, <1>7

\* A call keeps the promise.
LEMMA ConsumePromise ==
  ASSUME LimiterInv, LimiterTypeOK', NEW k \in Clients, Consume(k)
  PROVE  PromiseOK'
<1>0. /\ LimiterTypeOK /\ PromiseOK /\ second \in Nat /\ Watched \in Clients
      /\ Request \in Nat /\ Capacity \in Nat /\ Refill \in Nat
  BY LimiterAssumption DEF LimiterInv, LimiterTypeOK
<1>1. PICK x, y : x = Refilled(State(Watched)) /\ y = Refilled(State(Watched))'
  OBVIOUS
<1>2. CASE k = Watched
  <2>1. /\ buckets'[Watched] = [tokens |-> y, at |-> second]
        /\ y = IF Request <= Capacity /\ x >= Request THEN x - Request ELSE x
    BY <1>0, <1>1, <1>2, OwnCall
  <2>2. x \in 0..Capacity
    BY <1>0, <1>1, <1>2, ConsumeIs
  <2>3. CASE promise' = NoPromise
    BY <2>3 DEF PromiseOK, NoPromise
  <2>4. CASE promise' # NoPromise
    <3>1. /\ ~(Request <= Capacity /\ x >= Request) /\ Request <= Capacity /\ Refill # 0
          /\ promise' = second + RetryAfter(Request - x)
      BY <1>0, <1>1, <1>2, <2>4, ConsumeIs
    <3>2. PICK short \in Nat \ {0} : short = Request - x
      BY <1>0, <2>2, <3>1
    <3>3. PICK wait \in Nat, brought \in Nat :
            /\ wait = RetryAfter(short) /\ brought = wait * Refill /\ brought >= short
      <4>1. RetryAfter(short) \in Nat /\ RetryAfter(short) * Refill >= short
        BY <3>1, RetryIsEnough
      <4>2. RetryAfter(short) * Refill \in Nat
        BY ONLY <1>0, <4>1
      <4>. QED
        BY <4>1, <4>2
    <3>4. promise' - second = wait /\ promise' >= second
      BY <1>0, <3>1, <3>2, <3>3
    <3>5. x + (promise' - second) * Refill >= Request
      BY <1>0, <2>2, <3>2, <3>3, <3>4
    <3>6. buckets'[Watched].tokens = x /\ buckets'[Watched].at = second
      BY <2>1, <3>1
    <3>. QED
      BY ONLY <3>1, <3>4, <3>5, <3>6 DEF PromiseOK
  <2>. QED
    BY <2>3, <2>4
<1>3. CASE k # Watched
  <2>1. buckets'[Watched] = buckets[Watched]
    BY <1>0, <1>1, <1>3, OtherCall
  <2>2. promise' = promise
    BY <1>3 DEF Consume
  <2>. QED
    BY <1>0, <2>1, <2>2 DEF PromiseOK, NoPromise
<1>. QED
  BY <1>2, <1>3

LEMMA LimiterStep ==
  ASSUME LimiterInv, [LimiterNext]_limiterVars
  PROVE  LimiterInv'
<1>0. /\ LimiterTypeOK /\ PromiseOK /\ GrantedAndHeld /\ window.back <= back
      /\ second \in 0..LastSecond /\ back \in 0..MaxBack /\ window \in Window
      /\ Request \in Nat /\ Capacity \in Nat /\ Refill \in Nat
      /\ LastSecond \in Nat /\ MaxBack \in Nat
  BY LimiterAssumption DEF LimiterInv, LimiterTypeOK
<1>1. /\ window.since \in Nat /\ window.back \in 0..MaxBack /\ window.granted \in Nat
      /\ window.dropped \in Nat
  BY <1>0, WindowIs, LimiterAssumption
<1>2. PICK x, y : x = Refilled(State(Watched)) /\ y = Refilled(State(Watched))'
  OBVIOUS
<1>3. PICK a \in Nat, d \in Nat, n \in Int :
        /\ a = Request * window.granted + Refill * window.since
        /\ d = Capacity * (1 + window.dropped)
        /\ n = second + (back - window.back)
  <2>1. second + (back - window.back) \in Int
    BY <1>0, <1>1
  <2>2. /\ Request * window.granted \in Nat /\ Refill * window.since \in Nat
        /\ Capacity * (1 + window.dropped) \in Nat
    BY ONLY <1>0, <1>1
  <2>3. Request * window.granted + Refill * window.since \in Nat
    BY ONLY <2>2
  <2>. QED
    BY ONLY <2>1, <2>2, <2>3
<1>4. a + x <= d + Refill * n
  BY ONLY <1>0, <1>2, <1>3 DEF GrantedAndHeld
<1>5. ASSUME NEW k \in Clients, Consume(k) PROVE LimiterInv'
  <2>1. LimiterTypeOK'
    BY <1>0, <1>5, ConsumeTypes
  <2>2. back' = back
    BY <1>5 DEF Consume
  <2>. QED
    BY <1>0, <1>5, <2>1, <2>2, ConsumeBalance, ConsumePromise DEF LimiterInv
<1>6. ASSUME Pass PROVE LimiterInv'
  <2>1. LimiterTypeOK'
    BY <1>0, <1>6 DEF Pass, LimiterTypeOK
  <2>2. /\ second' = second + 1 /\ back' = back /\ window' = window
        /\ promise' = promise /\ buckets' = buckets /\ recency' = recency
    BY <1>6 DEF Pass
  <2>3. x \in 0..Capacity /\ y \in 0..Capacity /\ y <= x + Refill
    BY <1>0, <1>2, <2>1, <2>2, ClockMoves
  <2>4. a + y <= d + Refill * (n + 1)
    BY <1>0, <1>3, <1>4, <2>3, OneMoreSecond
  <2>5. second' + (back' - window'.back) = n + 1
    BY <1>0, <1>1, <1>3, <2>2
  <2>6. GrantedAndHeld'
    BY ONLY <1>2, <1>3, <2>2, <2>4, <2>5 DEF GrantedAndHeld
  <2>7. PromiseOK'
    BY <1>0, <2>2 DEF PromiseOK, NoPromise
  <2>. QED
    BY <1>0, <2>1, <2>2, <2>6, <2>7 DEF LimiterInv
<1>7. ASSUME SetBack PROVE LimiterInv'
  <2>1. LimiterTypeOK'
    BY <1>0, <1>7 DEF SetBack, LimiterTypeOK
  <2>2. /\ second' = second - 1 /\ back' = back + 1 /\ window' = window
        /\ promise' = promise /\ buckets' = buckets /\ recency' = recency
    BY <1>7 DEF SetBack
  <2>3. x \in 0..Capacity /\ y \in 0..Capacity /\ y <= x
    BY <1>0, <1>2, <2>1, <2>2, ClockMoves
  <2>4. PICK b \in Int : b = Refill * n
    <3>1. Refill * n \in Int
      BY ONLY <1>0, n \in Int
    <3>. QED
      BY ONLY <3>1
  <2>5. a + y <= d + b
    <3>1. a + x <= d + b
      BY ONLY <1>4, <2>4
    <3>. QED
      BY ONLY <1>0, <1>3, <2>3, <2>4, <3>1
  <2>6. second' + (back' - window'.back) = n
    <3>1. second \in Int /\ back \in Int /\ window.back \in Int /\ window'.back = window.back
      BY <1>0, <1>1, <2>2
    <3>2. (second - 1) + ((back + 1) - window.back) = second + (back - window.back)
      BY ONLY <3>1
    <3>. QED
      BY ONLY <1>3, <2>2, <3>1, <3>2
  <2>7. GrantedAndHeld'
    BY ONLY <1>2, <1>3, <2>2, <2>4, <2>5, <2>6 DEF GrantedAndHeld
  <2>8. PromiseOK'
    BY <1>0, <2>2 DEF PromiseOK, NoPromise
  <2>9. window'.back <= back'
    BY <1>0, <1>1, <2>2
  <2>. QED
    BY <2>1, <2>7, <2>8, <2>9 DEF LimiterInv
<1>8. ASSUME OpenWindow PROVE LimiterInv'
  <2>1. /\ window' = [since |-> second, back |-> back, granted |-> 0, dropped |-> 0]
        /\ second' = second /\ back' = back
        /\ promise' = promise /\ buckets' = buckets /\ recency' = recency
    BY <1>8 DEF OpenWindow
  <2>2. window' \in Window
    BY <1>0, <2>1, LimiterAssumption DEF Window
  <2>3. LimiterTypeOK'
    BY <1>0, <2>1, <2>2 DEF LimiterTypeOK
  <2>4. /\ window'.since = second /\ window'.back = back /\ window'.granted = 0
        /\ window'.dropped = 0
    BY <2>1
  <2>5. y \in 0..Capacity
    BY <1>0, <1>2, <2>1, <2>3, ClockMoves
  <2>6. Request * 0 + Refill * second + y
          <= Capacity * (1 + 0) + Refill * (second + (back - back))
    <3>1. Request * 0 = 0 /\ Capacity * (1 + 0) = Capacity /\ second + (back - back) = second
      BY ONLY <1>0
    <3>2. Refill * second \in Nat
      BY ONLY <1>0
    <3>. QED
      BY ONLY <1>0, <2>5, <3>1, <3>2
  <2>7. GrantedAndHeld'
    BY ONLY <1>2, <2>1, <2>4, <2>6 DEF GrantedAndHeld
  <2>8. PromiseOK'
    BY <1>0, <2>1 DEF PromiseOK, NoPromise
  <2>9. window'.back <= back'
    BY <1>0, <2>1, <2>4
  <2>. QED
    BY <2>3, <2>7, <2>8, <2>9 DEF LimiterInv
<1>9. CASE UNCHANGED limiterVars
  BY <1>0, <1>9 DEF limiterVars, LimiterInv, LimiterTypeOK, PromiseOK, NoPromise, GrantedAndHeld,
                    Refilled, State, InMap, Full, Elapsed
<1>. QED
  BY <1>5, <1>6, <1>7, <1>8, <1>9 DEF LimiterNext

LEMMA LimiterInitial ==
  ASSUME LimiterInit
  PROVE  LimiterInv
<1>0. /\ Watched \in Clients /\ Request \in Nat \ {0} /\ Capacity \in Nat \ {0} /\ Refill \in Nat
      /\ MaxBuckets \in Nat \ {0} /\ LastSecond \in Nat /\ MaxBack \in Nat /\ MaxDropped \in Nat
  BY LimiterAssumption
<1>1. /\ second = 0 /\ back = 0 /\ recency = <<>> /\ promise = NoPromise
      /\ buckets = [k \in Clients |-> [tokens |-> Capacity, at |-> 0]]
      /\ window = [since |-> 0, back |-> 0, granted |-> 0, dropped |-> 0]
  BY DEF LimiterInit
<1>2. recency \in Seq(Clients) /\ Len(recency) = 0 /\ ~InMap(Watched)
  BY <1>1 DEF InMap
<1>3. [tokens |-> Capacity, at |-> 0] \in Bucket
  BY <1>0 DEF Bucket
<1>4. buckets \in [Clients -> Bucket]
  BY <1>1, <1>3
<1>5. window \in Window
  BY <1>0, <1>1 DEF Window
<1>6. promise \in Nat
  BY <1>0, <1>1 DEF NoPromise
<1>7. LimiterTypeOK
  BY <1>0, <1>1, <1>2, <1>4, <1>5, <1>6 DEF LimiterTypeOK
<1>8. Refilled(State(Watched)) = Capacity
  BY <1>2, <1>7, StateIs
<1>9. /\ window.since = 0 /\ window.back = 0 /\ window.granted = 0 /\ window.dropped = 0
  BY <1>1
<1>10. Request * 0 + Refill * 0 + Capacity <= Capacity * (1 + 0) + Refill * (0 + (0 - 0))
  BY ONLY <1>0
<1>11. GrantedAndHeld
  BY ONLY <1>1, <1>8, <1>9, <1>10 DEF GrantedAndHeld
<1>12. PromiseOK
  BY <1>1 DEF PromiseOK
<1>. QED
  BY <1>1, <1>7, <1>9, <1>11, <1>12 DEF LimiterInv

LEMMA LimiterInvariant == LimiterSpec => []LimiterInv
<1>1. LimiterInit => LimiterInv
  BY LimiterInitial
<1>2. LimiterInv /\ [LimiterNext]_limiterVars => LimiterInv'
  BY LimiterStep
<1>. QED
  BY <1>1, <1>2, PTL DEF LimiterSpec

\* The clock, the map and its buckets have their type: the map of the limiter
\* never holds more than its number of buckets, nor a bucket more than it can.
THEOREM LimiterTypeCorrect == LimiterSpec => []LimiterTypeOK
<1>1. LimiterInv => LimiterTypeOK
  BY DEF LimiterInv
<1>. QED
  BY <1>1, LimiterInvariant, PTL

\* In no stretch of time is a client granted more than a full bucket and what
\* the time brings, whatever the other clients do to the map and however the
\* clock is set back, but for what those two give it again.
THEOREM LimiterCorrect == LimiterSpec => []BurstBounded
<1>1. LimiterInv => BurstBounded
  <2>1. SUFFICES ASSUME LimiterInv PROVE BurstBounded
    OBVIOUS
  <2>2. /\ LimiterTypeOK /\ second \in Nat /\ back \in Nat /\ window \in Window
        /\ Request \in Nat /\ Capacity \in Nat /\ Refill \in Nat
    BY <2>1, LimiterAssumption DEF LimiterInv, LimiterTypeOK
  <2>3. /\ window.since \in Nat /\ window.back \in Nat /\ window.granted \in Nat
        /\ window.dropped \in Nat
    BY <2>2, WindowIs, LimiterAssumption
  <2>4. Refilled(State(Watched)) \in 0..Capacity
    BY <2>2, StateIs, HeldIs
  <2>5. /\ Request * window.granted \in Nat /\ Refill * window.since \in Nat
        /\ Capacity * (1 + window.dropped) \in Nat
    BY ONLY <2>2, <2>3
  <2>6. PICK n \in Int : n = second + (back - window.back)
    BY <2>2, <2>3
  <2>7. Refill * n \in Int
    BY ONLY <2>2, <2>6
  <2>8. Request * window.granted + Refill * window.since + Refilled(State(Watched))
          <= Capacity * (1 + window.dropped) + Refill * n
    BY <2>1, <2>6 DEF LimiterInv, GrantedAndHeld
  <2>9. Request * window.granted + Refill * window.since
          <= Capacity * (1 + window.dropped) + Refill * n
    BY ONLY <2>2, <2>4, <2>5, <2>7, <2>8
  <2>. QED
    BY ONLY <2>6, <2>9 DEF BurstBounded
<1>. QED
  BY <1>1, LimiterInvariant, PTL

\* A refused client that waits as long as it was told is served, though its
\* bucket may have been dropped and the clock set back in between.
THEOREM RetriesCorrect == LimiterSpec => []RetryIsServed
<1>1. LimiterInv => RetryIsServed
  <2>1. SUFFICES ASSUME LimiterInv, second >= promise
                 PROVE  Refilled(State(Watched)) >= Request
    BY DEF RetryIsServed
  <2>2. /\ LimiterTypeOK /\ PromiseOK /\ second \in 0..LastSecond /\ promise \in Nat
        /\ Request \in Nat /\ Capacity \in Nat /\ Refill \in Nat /\ LastSecond \in Nat
        /\ buckets[Watched] \in Bucket
    BY <2>1, LimiterAssumption DEF LimiterInv, LimiterTypeOK
  <2>3. promise # NoPromise
    BY <2>1, <2>2 DEF NoPromise
  <2>4. PICK at \in Nat, tokens \in 0..Capacity :
          at = buckets[Watched].at /\ tokens = buckets[Watched].tokens
    BY <2>2, LimiterAssumption DEF Bucket
  <2>5. Request <= Capacity /\ promise >= at /\ tokens + (promise - at) * Refill >= Request
    BY <2>2, <2>3, <2>4 DEF PromiseOK
  <2>6. PICK e \in Nat : e = second - at
    BY <2>1, <2>2, <2>4, <2>5
  <2>7. e = IF second < buckets[Watched].at THEN 0 ELSE second - buckets[Watched].at
    BY <2>2, <2>4, <2>6
  <2>8. tokens + e * Refill >= Request
    <3>1. PICK told \in Nat, more \in Nat : told = promise - at /\ e = told + more
      <4>1. /\ promise - at \in Nat /\ second - promise \in Nat
            /\ e = (promise - at) + (second - promise)
        BY <2>1, <2>2, <2>4, <2>5, <2>6
      <4>. QED
        BY ONLY <4>1
    <3>2. e * Refill = told * Refill + more * Refill /\ told * Refill \in Nat /\ more * Refill \in Nat
      BY ONLY <2>2, <3>1
    <3>. QED
      BY ONLY <2>2, <2>4, <2>5, <3>1, <3>2
  <2>9. PICK x : x = Refilled(State(Watched))
    OBVIOUS
  <2>10. /\ ~InMap(Watched) => x = Capacity
         /\ InMap(Watched) =>
              x = IF tokens + e * Refill < Capacity THEN tokens + e * Refill ELSE Capacity
    BY <2>2, <2>4, <2>7, <2>9, HeldBefore
  <2>. QED
    BY <2>2, <2>5, <2>8, <2>9, <2>10
<1>. QED
  BY <1>1, LimiterInvariant, PTL
=============================================================================
