----------------------------- MODULE MCComponents -----------------------------
(***************************************************************************)
(* Small instances of eleven components that keep a state each and share   *)
(* none.  To interleave them would multiply their states and show nothing  *)
(* more, so a behaviour of this module is a behaviour of the one that      *)
(* focus names; the others stay where they begin.                          *)
(***************************************************************************)
EXTENDS WikiPages, FileStorage, CourseEnrolment, LegalHolds, Announcements,
        EmailDigests, NotificationDelivery, MCCourseOrder, HttpRateLimit, AiFeedback, MCFinalGrades, TLC

CONSTANTS r1, r2, ada, bob, cyd, dan, k1, k2, s1, s2

VARIABLE focus   \* the component that runs

vars ==
  <<focus, wikiVars, filesVars, enrolVars, holdVars, newsVars, digestVars, deliverVars,
    orderVars, limiterVars, feedbackVars, gradesVars>>

Components ==
  {"wiki", "files", "enrolment", "holds", "news", "digests", "deliveries", "order",
   "limiter", "feedback", "grades"}

-----------------------------------------------------------------------------
\* The first file is of one user, the others of another.
ThreeFiles == 1..3
Sizes == [f \in ThreeFiles |-> IF f = 1 THEN 1 ELSE 2]
TwoOwners == [f \in ThreeFiles |-> IF f = 1 THEN 1 ELSE 2]

Setting(capacity, waitlist, approval) ==
  [open |-> "yes", capacity |-> capacity, waitlist |-> waitlist, approval |-> approval]

\* Without a capacity, one seat, two with a waitlist that staff approve, and
\* closed.
FourCatalogs ==
  {Setting(Boundless, "no", "no"), Setting(1, "no", "no"), Setting(2, "yes", "yes"),
   [Setting(1, "no", "no") EXCEPT !.open = "no"]}

\* One notice of one recipient and two of another, whom the limit cuts in two.
ThreeNotices == 1..3
Recipient == [n \in ThreeNotices |-> IF n = 1 THEN 1 ELSE 2]

\* An email and a push to one user, who has two devices.
Pushes == [d \in Devices |-> {2}]

\* Three requests in one process and one in another.
Server == (dan :> s2) @@ [q \in {ada, bob, cyd} |-> s1]

-----------------------------------------------------------------------------
SomeOf(S) == CHOOSE x \in S : TRUE

\* A component that does not run begins in one of its initial states only.
Init ==
  /\ focus \in Components
  /\ WikiInit
  /\ FilesInit /\ (focus # "files" => limits = SomeOf(Quotas))
  /\ EnrolInit /\ (focus # "enrolment" => catalog = SomeOf(Catalogs))
  /\ HoldInit /\ NewsInit /\ DigestInit
  /\ DeliverInit /\ (focus # "deliveries" => tokens = Devices)
  /\ OrderInit /\ (focus # "order" => kind = SomeOf(Kinds))
  /\ LimiterInit /\ FeedbackInit
  /\ GradesInit /\ (focus # "grades" =>
                      /\ grades = SomeOf([GradeIds -> {g \in Grades : ~g.counts}])
                      /\ categories =
                           SomeOf([Categories -> {c \in Settings : c.status = "archived"}]))

Next ==
  \/ /\ focus = "wiki" /\ WikiNext
     /\ UNCHANGED <<focus, filesVars, enrolVars, holdVars, newsVars, digestVars, deliverVars,
                    orderVars, limiterVars, feedbackVars, gradesVars>>
  \/ /\ focus = "files" /\ FilesNext
     /\ UNCHANGED <<focus, wikiVars, enrolVars, holdVars, newsVars, digestVars, deliverVars,
                    orderVars, limiterVars, feedbackVars, gradesVars>>
  \/ /\ focus = "enrolment" /\ EnrolNext
     /\ UNCHANGED <<focus, wikiVars, filesVars, holdVars, newsVars, digestVars, deliverVars,
                    orderVars, limiterVars, feedbackVars, gradesVars>>
  \/ /\ focus = "holds" /\ HoldNext
     /\ UNCHANGED <<focus, wikiVars, filesVars, enrolVars, newsVars, digestVars, deliverVars,
                    orderVars, limiterVars, feedbackVars, gradesVars>>
  \/ /\ focus = "news" /\ NewsNext
     /\ UNCHANGED <<focus, wikiVars, filesVars, enrolVars, holdVars, digestVars, deliverVars,
                    orderVars, limiterVars, feedbackVars, gradesVars>>
  \/ /\ focus = "digests" /\ DigestNext
     /\ UNCHANGED <<focus, wikiVars, filesVars, enrolVars, holdVars, newsVars, deliverVars,
                    orderVars, limiterVars, feedbackVars, gradesVars>>
  \/ /\ focus = "deliveries" /\ DeliverNext
     /\ UNCHANGED <<focus, wikiVars, filesVars, enrolVars, holdVars, newsVars, digestVars,
                    orderVars, limiterVars, feedbackVars, gradesVars>>
  \/ /\ focus = "order" /\ OrderNext
     /\ UNCHANGED <<focus, wikiVars, filesVars, enrolVars, holdVars, newsVars, digestVars,
                    deliverVars, limiterVars, feedbackVars, gradesVars>>
  \/ /\ focus = "limiter" /\ LimiterNext
     /\ UNCHANGED <<focus, wikiVars, filesVars, enrolVars, holdVars, newsVars, digestVars,
                    deliverVars, orderVars, feedbackVars, gradesVars>>
  \/ /\ focus = "feedback" /\ FeedbackNext
     /\ UNCHANGED <<focus, wikiVars, filesVars, enrolVars, holdVars, newsVars, digestVars,
                    deliverVars, orderVars, limiterVars, gradesVars>>
  \/ /\ focus = "grades" /\ GradesNext
     /\ UNCHANGED <<focus, wikiVars, filesVars, enrolVars, holdVars, newsVars, digestVars,
                    deliverVars, orderVars, limiterVars, feedbackVars>>

Spec == Init /\ [][Next]_vars

\* Requests of one process, students and transactions are alike.
Symmetry ==
  Permutations({r1, r2}) \cup Permutations({ada, bob, cyd})
=============================================================================
