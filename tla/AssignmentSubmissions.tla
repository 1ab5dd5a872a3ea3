------------------------ MODULE AssignmentSubmissions ------------------------
(***************************************************************************)
(* The submissions of one assignment: submitAssignmentDraft and            *)
(* saveAssignmentDraft of the API over packages/core/src/submissions, the  *)
(* groups students hand in for, and the completion of the requirement to   *)
(* submit.                                                                 *)
(*                                                                         *)
(* A request is one handler in flight.  It reads the assignment, saves the *)
(* draft, reads the student's memberships, the status of those groups, the *)
(* members of the one that is left and the earlier submissions, each in a  *)
(* statement of its own and without a transaction; one transaction then    *)
(* inserts the next version and completes the requirement of everyone on   *)
(* the list.  Staff and students change groups and assignment meanwhile.   *)
(***************************************************************************)
EXTENDS Naturals

CONSTANTS
  Students,
  Groups,      \* groups of the group set of the assignment
  Drafts,      \* draft ids, which clients choose
  Requests,    \* handlers in flight at once
  NoStudent,
  NoDraft,
  NoGroup,     \* groupId null: the student's own submission
  Settings,    \* what staff make of the assignment
  MaxVersion,  \* bound: no later version is inserted
  MaxChanges   \* bound: changes to the assignment, the groups and members

\* Switches of an assignment: its status is published, allowResubmission,
\* groupSubmissionEnabled.
Switches == {"published", "resubmission", "grouped"}

ASSUME SubmissionsAssumption ==
  /\ NoStudent \notin Students
  /\ NoDraft \notin Drafts
  /\ NoGroup \notin Groups
  /\ Settings \subseteq SUBSET Switches
  /\ MaxVersion \in Nat \ {0}
  /\ MaxChanges \in Nat

VARIABLES
  assignment,   \* the switches that are on
  status,       \* the status of each group
  members,      \* the course_group_member rows of each group
  owner,        \* the student of each draft row
  submissions,  \* the submission rows
  completed,    \* students whose submit_assignment requirement is completed
  request,      \* the requests in flight
  offered,      \* history: resubmission has been allowed
  been,         \* history: the students ever in a group
  changes       \* how often staff and students changed any of these

vars == <<assignment, status, members, owner, submissions, completed, request,
          offered, been, changes>>
world == <<assignment, status, members, offered, been, changes>>

-----------------------------------------------------------------------------
Rows == [student : Students, group : Groups \cup {NoGroup}, draft : Drafts,
         version : 1..MaxVersion]

\* plan: the assignment as it was read; found: the groups of the student's
\* memberships; list: whom the submission completes; highest: the latest
\* earlier version, 0 for none.
Handlers == [pc : {"idle", "draft", "memberships", "groups", "members", "previous", "save"},
             student : Students \cup {NoStudent}, draft : Drafts \cup {NoDraft},
             plan : SUBSET Switches, found : SUBSET Groups,
             group : Groups \cup {NoGroup},
             list : SUBSET Students, highest : 0..MaxVersion]

Idle == [pc |-> "idle", student |-> NoStudent, draft |-> NoDraft, plan |-> {},
         found |-> {}, group |-> NoGroup, list |-> {}, highest |-> 0]

Goto(r, pc) == request' = [request EXCEPT ![r] = [@ EXCEPT !.pc = pc]]
Stop(r)     == request' = [request EXCEPT ![r] = Idle]

\* The rows a new version is counted in: the group's, or the student's own
\* and those the student handed in for groups.
Scope(s, g) == {x \in submissions : IF g = NoGroup THEN x.student = s ELSE x.group = g}

Highest(rows) ==
  CHOOSE n \in {0} \cup {x.version : x \in rows} : \A x \in rows : x.version <= n

-----------------------------------------------------------------------------
Init ==
  /\ assignment \in Settings
  /\ status      = [g \in Groups |-> "active"]
  /\ members \in [Groups -> SUBSET Students]
  /\ owner       = [d \in Drafts |-> NoStudent]
  /\ submissions = {}
  /\ completed   = {}
  /\ request     = [r \in Requests |-> Idle]
  /\ offered     = ("resubmission" \in assignment)
  /\ been        = members
  /\ changes     = 0

-----------------------------------------------------------------------------
(* The handler.                                                            *)

\* Access and the read of the assignment, which a learner sees if published.
Begin(r, s, d) ==
  /\ request[r].pc = "idle"
  /\ "published" \in assignment
  /\ request' = [request EXCEPT ![r] =
       [pc |-> "draft", student |-> s, draft |-> d, plan |-> assignment, found |-> {},
        group |-> NoGroup, list |-> {s}, highest |-> 0]]
  /\ UNCHANGED <<world, owner, submissions, completed>>

\* The upsert of the draft, whose update is for its own student only; here
\* saveAssignmentDraft ends.
SaveDraft(r) ==
  LET d == request[r].draft
      s == request[r].student IN
  /\ request[r].pc = "draft"
  /\ \/ /\ owner[d] \in {NoStudent, s}
        /\ owner' = [owner EXCEPT ![d] = s]
        /\ \/ Goto(r, IF "grouped" \in request[r].plan THEN "memberships" ELSE "previous")
           \/ Stop(r)
     \/ owner[d] \notin {NoStudent, s} /\ Stop(r) /\ UNCHANGED owner
  /\ UNCHANGED <<world, submissions, completed>>

ReadMemberships(r) ==
  /\ request[r].pc = "memberships"
  /\ request' = [request EXCEPT ![r] =
       [@ EXCEPT !.pc = "groups", !.found = {g \in Groups : request[r].student \in members[g]}]]
  /\ UNCHANGED <<world, owner, submissions, completed>>

\* resolveAssignmentSubmissionGroupId: exactly one of them is active.
ResolveGroup(r) ==
  LET active == {g \in request[r].found : status[g] = "active"} IN
  /\ request[r].pc = "groups"
  /\ \/ \E g \in active :
          /\ active = {g}
          /\ request' = [request EXCEPT ![r] =
               [@ EXCEPT !.pc = "members", !.found = {}, !.group = g]]
     \/ (\A g \in active : active # {g}) /\ Stop(r)
  /\ UNCHANGED <<world, owner, submissions, completed>>

\* Slip: the list is the members', who may be without the student by now.
ReadMembersOnly(r) ==
  /\ request[r].pc = "members"
  /\ request' = [request EXCEPT ![r] =
       [@ EXCEPT !.pc = "previous", !.list = members[request[r].group]]]
  /\ UNCHANGED <<world, owner, submissions, completed>>

\* Whom the submission completes: the student and the members just now.
ReadMembers(r) ==
  /\ request[r].pc = "members"
  /\ request' = [request EXCEPT ![r] =
       [@ EXCEPT !.pc = "previous",
                 !.list = request[r].list \cup members[request[r].group]]]
  /\ UNCHANGED <<world, owner, submissions, completed>>

\* The earlier submissions, and createSubmissionFromDraft: a second one
\* needs an assignment that allowed it when it was read.
ReadPrevious(r) ==
  LET n == Highest(Scope(request[r].student, request[r].group)) IN
  /\ request[r].pc = "previous"
  /\ IF n > 0 /\ "resubmission" \notin request[r].plan
     THEN Stop(r)
     ELSE request' = [request EXCEPT ![r] = [@ EXCEPT !.pc = "save", !.highest = n]]
  /\ UNCHANGED <<world, owner, submissions, completed>>

Row(r) == [student |-> request[r].student, group |-> request[r].group,
           draft |-> request[r].draft, version |-> request[r].highest + 1]

\* Slips: without the one index, without the other.
TakenByStudent(row) ==
  \E x \in submissions : x.version = row.version /\ x.student = row.student

TakenInGroup(row) ==
  \E x \in submissions :
    x.version = row.version /\ row.group # NoGroup /\ x.group = row.group

\* The unique indexes on student and version, and on group and version.
Taken(row) ==
  \E x \in submissions :
    /\ x.version = row.version
    /\ x.student = row.student \/ (row.group # NoGroup /\ x.group = row.group)

\* The transaction: the insert, refused by the indexes or for want of the
\* group, and the completion of everyone on the list.
Save(r) ==
  /\ request[r].pc = "save"
  /\ request[r].highest < MaxVersion
  /\ \/ /\ ~Taken(Row(r))
        /\ request[r].group # NoGroup => status[request[r].group] # "deleted"
        /\ submissions' = submissions \cup {Row(r)}
        /\ completed' = completed \cup request[r].list
     \/ /\ \/ Taken(Row(r))
           \/ request[r].group # NoGroup /\ status[request[r].group] = "deleted"
        /\ UNCHANGED <<submissions, completed>>
  /\ Stop(r)
  /\ UNCHANGED <<world, owner>>

\* The server dies or a statement fails: the draft stays as it is.
Die(r) ==
  /\ request[r].pc # "idle"
  /\ Stop(r)
  /\ UNCHANGED <<world, owner, submissions, completed>>

-----------------------------------------------------------------------------
(* Staff and groups.                                                       *)

\* An update that changes nothing is left out.
Change == changes < MaxChanges /\ changes' = changes + 1

\* updateAssignment.
UpdateAssignment(a) ==
  /\ a # assignment
  /\ assignment' = a
  /\ offered' = (offered \/ "resubmission" \in a)
  /\ UNCHANGED <<status, members, been, owner, submissions, completed, request>>
  /\ Change

\* The insert of joinCourseGroup and of createCourseGroupMember, which looked
\* at the status of the group before.
AddMember(s, g) ==
  /\ status[g] # "deleted"
  /\ s \notin members[g]
  /\ members' = [members EXCEPT ![g] = @ \cup {s}]
  /\ been'    = [been EXCEPT ![g] = @ \cup {s}]
  /\ UNCHANGED <<assignment, offered, status, owner, submissions, completed, request>>
  /\ Change

\* leaveCourseGroup.
Leave(s, g) ==
  /\ s \in members[g]
  /\ members' = [members EXCEPT ![g] = @ \ {s}]
  /\ UNCHANGED <<assignment, offered, status, been, owner, submissions, completed, request>>
  /\ Change

\* updateCourseGroup.
UpdateGroup(g, st) ==
  /\ status[g] \notin {"deleted", st}
  /\ status' = [status EXCEPT ![g] = st]
  /\ UNCHANGED <<assignment, offered, members, been, owner, submissions, completed, request>>
  /\ Change

\* deleteCourseGroup: memberships go with the group, submissions hold it: the
\* foreign key would set their tenant_id, which is NOT NULL, to null as well.
DeleteGroup(g) ==
  /\ status[g] # "deleted"
  /\ \A x \in submissions : x.group # g
  /\ status'  = [status EXCEPT ![g] = "deleted"]
  /\ members' = [members EXCEPT ![g] = {}]
  /\ UNCHANGED <<assignment, offered, been, owner, submissions, completed, request>>
  /\ Change

Work(r) ==
  \/ SaveDraft(r) \/ ReadMemberships(r) \/ ResolveGroup(r) \/ ReadMembers(r)
  \/ ReadPrevious(r) \/ Save(r)

Next ==
  \/ \E r \in Requests : Work(r) \/ Die(r)
  \/ \E r \in Requests, s \in Students, d \in Drafts : Begin(r, s, d)
  \/ \E a \in Settings : UpdateAssignment(a)
  \/ \E s \in Students, g \in Groups : AddMember(s, g) \/ Leave(s, g)
  \/ \E g \in Groups, st \in {"active", "archived"} : UpdateGroup(g, st)
  \/ \E g \in Groups : DeleteGroup(g)

Spec == Init /\ [][Next]_vars

-----------------------------------------------------------------------------
(* Properties.                                                             *)

\* Rows, groups and requests have their types.
TypeOK ==
  /\ assignment \in Settings
  /\ status \in [Groups -> {"active", "archived", "deleted"}]
  /\ members \in [Groups -> SUBSET Students]
  /\ owner \in [Drafts -> Students \cup {NoStudent}]
  /\ submissions \subseteq Rows
  /\ completed \subseteq Students
  /\ request \in [Requests -> Handlers]
  /\ offered \in BOOLEAN
  /\ been \in [Groups -> SUBSET Students]
  /\ changes \in 0..MaxChanges

Versions(rows) == {x.version : x \in rows}

\* Whoever of a group hands in, and however many at once, its versions are
\* 1, 2, 3 ... without a gap and each is one row; the same goes for a student
\* who has only handed in alone.
VersionsContiguous ==
  /\ \A g \in Groups :
       /\ \E n \in 0..MaxVersion : Versions(Scope(NoStudent, g)) = 1..n
       /\ \A x, y \in Scope(NoStudent, g) : x.version = y.version => x = y
  /\ \A s \in Students :
       (\A x \in Scope(s, NoGroup) : x.group = NoGroup) =>
         \E n \in 0..MaxVersion : Versions(Scope(s, NoGroup)) = 1..n

\* As long as resubmission has never been allowed, nobody has handed in twice
\* and no group has, although the check and the insert are two statements and
\* students change groups between them.
OneWithoutResubmission ==
  ~offered =>
    \A x, y \in submissions :
      x.student = y.student \/ (x.group # NoGroup /\ x.group = y.group) => x = y

\* Whoever handed in is completed, also after a failure at any point, and
\* whoever is completed has handed in or has been in a group that did.
CompletionFollowsWork ==
  /\ \A x \in submissions : x.student \in completed
  /\ \A s \in completed : \E x \in submissions :
       x.student = s \/ (x.group # NoGroup /\ s \in been[x.group])

\* A submission comes from a draft of its own student and, in a group, from a
\* student who has been a member: two students who choose the same draft id
\* never hand in each other's work.
SourceIsOwn ==
  \A x \in submissions :
    /\ owner[x.draft] = x.student
    /\ x.group # NoGroup => x.student \in been[x.group]
=============================================================================
