--------------------- MODULE AssignmentSubmissionsProofs ---------------------
(***************************************************************************)
(* What holds of AssignmentSubmissions for any number of students, groups, *)
(* drafts and requests.                                                    *)
(*                                                                         *)
(* A request inserts a version it computed from rows it read earlier.      *)
(* Rows are only added, so what it read is a part of what there is; and    *)
(* the versions of a group are 1 to n, so the version after the highest it *)
(* saw is either n + 1 or taken, and then the unique index refuses it.     *)
(***************************************************************************)
EXTENDS AssignmentSubmissions, WellFoundedInduction, TLAPS

\* The versions of rows are 1 to n.
Chain(rows) == \E n \in 0..MaxVersion : Versions(rows) = 1..n

ChainsOK ==
  /\ \A g \in Groups : Chain(Scope(NoStudent, g))
  /\ \A s \in Students :
       (\A x \in Scope(s, NoGroup) : x.group = NoGroup) => Chain(Scope(s, NoGroup))

\* What the unique indexes say.
Unique ==
  \A x, y \in submissions :
    /\ x.version = y.version
    /\ x.student = y.student \/ (x.group # NoGroup /\ x.group = y.group)
    => x = y

\* Without resubmission there are first versions only.
FirstOnly == ~offered => \A x \in submissions : x.version = 1

\* A request holds its own draft, was allowed what it does, has read groups
\* and members as they once were, and versions that are still there.
WorkOK(r) ==
  /\ request[r].pc # "idle" =>
       /\ request[r].student \in Students /\ request[r].draft \in Drafts
       /\ request[r].student \in request[r].list
  /\ "resubmission" \in request[r].plan => offered
  /\ request[r].pc \notin {"idle", "draft"} => owner[request[r].draft] = request[r].student
  /\ request[r].pc \in {"draft", "memberships", "groups"} => request[r].group = NoGroup
  /\ request[r].pc = "members" => request[r].group # NoGroup
  /\ \A g \in request[r].found : request[r].student \in been[g]
  /\ request[r].group # NoGroup => request[r].student \in been[request[r].group]
  /\ \A s \in request[r].list :
       s = request[r].student \/ (request[r].group # NoGroup /\ s \in been[request[r].group])
  /\ request[r].pc = "save" /\ request[r].highest > 0 =>
       /\ "resubmission" \in request[r].plan
       /\ \E y \in Scope(request[r].student, request[r].group) :
            y.version = request[r].highest

MembersOK ==
  /\ \A g \in Groups : members[g] \subseteq been[g]
  /\ "resubmission" \in assignment => offered

IInv ==
  /\ TypeOK
  /\ ChainsOK
  /\ Unique
  /\ FirstOnly
  /\ CompletionFollowsWork
  /\ SourceIsOwn
  /\ MembersOK
  /\ \A r \in Requests : WorkOK(r)

-----------------------------------------------------------------------------
(* The highest version.                                                    *)

\* A set of versions has a least upper bound.
LEMMA LeastBound ==
  ASSUME NEW rows \in SUBSET Rows
  PROVE  \E m \in 0..MaxVersion :
           /\ \A x \in rows : x.version <= m
           /\ \A k \in 0..MaxVersion : (\A x \in rows : x.version <= k) => m <= k
<1>. DEFINE T == {n \in 0..MaxVersion : \A x \in rows : x.version <= n}
            R == {p \in Nat \X Nat : p[1] < p[2]}
<1>1. MaxVersion \in T /\ T \subseteq Nat /\ T # {}
  <2>1. \A x \in rows : x.version <= MaxVersion
    BY DEF Rows
  <2>2. MaxVersion \in 0..MaxVersion /\ 0..MaxVersion \subseteq Nat
    BY SubmissionsAssumption
  <2>. QED
    BY <2>1, <2>2
<1>2. IsWellFoundedOn(R, Nat)
  BY NatLessThanWellFounded, Zenon DEF OpToRel
<1>3. PICK m \in T : \A k \in T : ~ (<<k, m>> \in R)
  <2>. HIDE DEF T, R
  <2>. QED
    BY <1>1, <1>2, WFMin, Zenon
<1>4. \A k \in T : m <= k
  <2>1. \A k \in T : k \in Nat /\ m \in Nat /\ ~ (k < m)
    <3>1. \A k, l \in Nat : k < l => <<k, l>> \in R
      OBVIOUS
    <3>. QED
      BY <1>1, <1>3, <3>1
  <2>. QED
    BY <2>1
<1>. QED
  BY <1>3, <1>4

\* Highest is the greatest version there is, and 0 if there is none.
LEMMA HighestIs ==
  ASSUME NEW rows \in SUBSET Rows
  PROVE  /\ Highest(rows) \in 0..MaxVersion
         /\ \A x \in rows : x.version <= Highest(rows)
         /\ Highest(rows) > 0 => \E x \in rows : x.version = Highest(rows)
<1>1. PICK m \in 0..MaxVersion :
        /\ \A x \in rows : x.version <= m
        /\ \A k \in 0..MaxVersion : (\A x \in rows : x.version <= k) => m <= k
  BY LeastBound
<1>2. \A x \in rows : x.version \in 1..MaxVersion
  BY DEF Rows
<1>3. m \in {0} \cup {x.version : x \in rows}
  <2>1. ASSUME m # 0, \A x \in rows : x.version # m
        PROVE  FALSE
    <3>1. m - 1 \in 0..MaxVersion /\ \A x \in rows : x.version <= m - 1
      BY <1>1, <1>2, <2>1, SubmissionsAssumption
    <3>. QED
      BY <1>1, <3>1, SubmissionsAssumption
  <2>. QED
    BY <2>1
<1>4. /\ Highest(rows) \in {0} \cup {x.version : x \in rows}
      /\ \A x \in rows : x.version <= Highest(rows)
  BY <1>1, <1>3, Zenon DEF Highest
<1>. QED
  BY <1>2, <1>4, SubmissionsAssumption

\* A chain grows by the version that follows one of its own, if it is new.
LEMMA ChainGrows ==
  ASSUME NEW rows \in SUBSET Rows, Chain(rows), NEW x \in Rows,
         x.version - 1 > 0 => \E y \in rows : y.version = x.version - 1,
         \A y \in rows : y.version # x.version
  PROVE  Chain(rows \cup {x})
<1>1. PICK n \in 0..MaxVersion : Versions(rows) = 1..n
  BY DEF Chain
<1>2. x.version \in 1..MaxVersion
  BY DEF Rows
<1>3. x.version \notin 1..n
  BY <1>1 DEF Versions
<1>4. x.version - 1 > 0 => x.version - 1 \in 1..n
  BY <1>1 DEF Versions
<1>5. x.version = n + 1
  BY <1>2, <1>3, <1>4, SubmissionsAssumption
<1>6. Versions(rows \cup {x}) = Versions(rows) \cup {x.version}
  BY DEF Versions
<1>7. 1..(n + 1) = (1..n) \cup {n + 1} /\ n + 1 \in 0..MaxVersion
  BY <1>2, <1>5, SubmissionsAssumption
<1>. QED
  BY <1>1, <1>5, <1>6, <1>7 DEF Chain

-----------------------------------------------------------------------------
(* Steps.                                                                  *)

\* An idle request is typed.
LEMMA IdleType == Idle \in Handlers
BY SubmissionsAssumption DEF Idle, Handlers

\* What the transaction of a request does if it commits.
Inserts(r) ==
  /\ request[r].pc = "save"
  /\ request[r].highest < MaxVersion
  /\ ~Taken(Row(r))
  /\ submissions' = submissions \cup {Row(r)}
  /\ completed' = completed \cup request[r].list
  /\ UNCHANGED <<world, owner>>

\* The row a request inserts, and the version before it.
LEMMA RowType ==
  ASSUME IInv, NEW r \in Requests, request[r].pc = "save",
         request[r].highest < MaxVersion
  PROVE  /\ Row(r) \in Rows
         /\ Row(r).student = request[r].student /\ Row(r).group = request[r].group
         /\ Row(r).draft = request[r].draft
         /\ request[r].highest \in Nat /\ Row(r).version = request[r].highest + 1
<1>1. request[r] \in Handlers
  BY DEF IInv, TypeOK
<1>2. request[r].student \in Students /\ request[r].draft \in Drafts
  BY DEF IInv, WorkOK
<1>3. request[r].highest + 1 \in 1..MaxVersion
  BY <1>1, SubmissionsAssumption DEF Handlers
<1>. QED
  BY <1>1, <1>2, <1>3, SubmissionsAssumption DEF Row, Rows, Handlers

\* A step adds one row and completes who is on its list, or does neither.
LEMMA RowsStep ==
  ASSUME [Next]_vars
  PROVE  \/ UNCHANGED <<submissions, completed>>
         \/ \E r \in Requests : Inserts(r)
<1>1. ASSUME NEW r \in Requests, Save(r)
      PROVE  UNCHANGED <<submissions, completed>> \/ Inserts(r)
  BY <1>1 DEF Save, Inserts
<1>. QED
  BY <1>1 DEF Next, Work, vars, Die, SaveDraft, ReadMemberships, ResolveGroup, ReadMembers,
     ReadPrevious, Begin, UpdateAssignment, AddMember, Leave, UpdateGroup, DeleteGroup

\* Nothing is forgotten: rows, members there have been, what was offered and
\* the student of a draft stay.
LEMMA Grows ==
  ASSUME TypeOK, [Next]_vars
  PROVE  /\ submissions \subseteq submissions'
         /\ \A g \in Groups : been[g] \subseteq been'[g]
         /\ offered => offered'
         /\ \A d \in Drafts : owner[d] # NoStudent => owner'[d] = owner[d]
<1>1. submissions \subseteq submissions'
  BY RowsStep DEF Inserts
<1>2. \A g \in Groups : been[g] \subseteq been'[g]
  <2>1. ASSUME NEW s \in Students, NEW h \in Groups, AddMember(s, h)
        PROVE  \A g \in Groups : been[g] \subseteq been'[g]
    BY <2>1 DEF AddMember, TypeOK
  <2>2. CASE been' = been
    BY <2>2
  <2>. QED
    BY <2>1, <2>2 DEF Next, Work, vars, world, Die, SaveDraft, ReadMemberships, ResolveGroup,
       ReadMembers, ReadPrevious, Save, Begin, UpdateAssignment, Leave, UpdateGroup, DeleteGroup
<1>3. offered => offered'
  <2>1. ASSUME NEW a \in Settings, UpdateAssignment(a), offered PROVE offered'
    BY <2>1, Zenon DEF UpdateAssignment
  <2>. QED
    BY <2>1 DEF Next, Work, vars, world, Die, SaveDraft, ReadMemberships, ResolveGroup,
       ReadMembers, ReadPrevious, Save, Begin, AddMember, Leave, UpdateGroup, DeleteGroup
<1>4. \A d \in Drafts : owner[d] # NoStudent => owner'[d] = owner[d]
  <2>1. ASSUME NEW r \in Requests, SaveDraft(r)
        PROVE  \A d \in Drafts : owner[d] # NoStudent => owner'[d] = owner[d]
    BY <2>1 DEF SaveDraft, TypeOK
  <2>. QED
    BY <2>1 DEF Next, Work, vars, world, Die, ReadMemberships, ResolveGroup,
       ReadMembers, ReadPrevious, Save, Begin, UpdateAssignment, AddMember, Leave, UpdateGroup,
       DeleteGroup
<1>. QED
  BY <1>1, <1>2, <1>3, <1>4

-----------------------------------------------------------------------------
(* The rows.                                                               *)

\* An inserted row keeps the indexes and makes every chain it is in longer.
LEMMA InsertOK ==
  ASSUME IInv, NEW r \in Requests, Inserts(r)
  PROVE  ChainsOK' /\ Unique' /\ FirstOnly' /\ CompletionFollowsWork' /\ SourceIsOwn'
<1>. DEFINE x == Row(r)
            s == request[r].student
            g == request[r].group
<1>1. /\ x \in Rows /\ x.student = s /\ x.group = g /\ x.draft = request[r].draft
      /\ request[r].highest \in Nat /\ x.version = request[r].highest + 1
  BY RowType DEF Inserts
<1>2. s \in Students /\ g \in Groups \cup {NoGroup} /\ WorkOK(r)
  <2>1. request[r] \in Handlers /\ WorkOK(r)
    BY DEF IInv, TypeOK
  <2>. QED
    BY <1>1, <2>1 DEF Handlers, Rows
<1>3. /\ submissions' = submissions \cup {x} /\ completed' = completed \cup request[r].list
      /\ been' = been /\ owner' = owner /\ (offered' <=> offered)
      /\ request[r].pc = "save" /\ submissions \in SUBSET Rows
  BY DEF Inserts, world, IInv, TypeOK
<1>4. \A y \in submissions :
        y.version = x.version => y.student # s /\ (g # NoGroup => y.group # g)
  BY <1>1 DEF Inserts, Taken
<1>5. x.version - 1 > 0 => \E y \in Scope(s, g) : y.version = x.version - 1
  BY <1>1, <1>2, <1>3 DEF WorkOK
<1>. HIDE DEF x, s, g
<1>6. ChainsOK'
  <2>1. ASSUME NEW h \in Groups PROVE Chain(Scope(NoStudent, h))'
    <3>1. Chain(Scope(NoStudent, h)) /\ h # NoGroup
      BY SubmissionsAssumption DEF IInv, ChainsOK
    <3>2. CASE g = h
      <4>1. Scope(NoStudent, h)' = Scope(NoStudent, h) \cup {x}
        BY <1>1, <1>3, <3>1, <3>2 DEF Scope
      <4>2. Scope(s, g) = Scope(NoStudent, h)
        BY <3>1, <3>2 DEF Scope
      <4>3. \A y \in Scope(NoStudent, h) : y.version # x.version
        BY <1>4, <3>1, <3>2 DEF Scope
      <4>4. Scope(NoStudent, h) \in SUBSET Rows
        BY <1>3 DEF Scope
      <4>. QED
        BY <1>1, <1>5, <3>1, <4>1, <4>2, <4>3, <4>4, ChainGrows DEF Chain
    <3>3. CASE g # h
      <4>1. Scope(NoStudent, h)' = Scope(NoStudent, h)
        BY <1>1, <1>3, <3>1, <3>3 DEF Scope
      <4>. QED
        BY <3>1, <4>1 DEF Chain, Versions
    <3>. QED
      BY <3>2, <3>3
  <2>2. ASSUME NEW t \in Students, \A y \in Scope(t, NoGroup)' : y.group = NoGroup
        PROVE  Chain(Scope(t, NoGroup))'
    <3>1. Scope(t, NoGroup) \subseteq Scope(t, NoGroup)' /\ Scope(t, NoGroup) \in SUBSET Rows
      BY <1>3 DEF Scope
    <3>2. Chain(Scope(t, NoGroup))
      BY <2>2, <3>1 DEF IInv, ChainsOK
    <3>3. CASE s = t
      <4>1. Scope(t, NoGroup)' = Scope(t, NoGroup) \cup {x}
        BY <1>1, <1>3, <3>3 DEF Scope
      <4>2. g = NoGroup
        BY <1>1, <2>2, <4>1
      <4>3. \A y \in Scope(t, NoGroup) : y.version # x.version
        BY <1>4, <3>3 DEF Scope
      <4>. QED
        BY <1>1, <1>5, <3>1, <3>2, <3>3, <4>1, <4>2, <4>3, ChainGrows DEF Chain
    <3>4. CASE s # t
      <4>1. Scope(t, NoGroup)' = Scope(t, NoGroup)
        BY <1>1, <1>3, <3>4 DEF Scope
      <4>. QED
        BY <3>2, <4>1 DEF Chain, Versions
    <3>. QED
      BY <3>3, <3>4
  <2>. QED
    BY <2>1, <2>2 DEF ChainsOK
<1>7. Unique'
  <2>1. \A y \in submissions :
          y.version = x.version =>
            ~ (y.student = x.student \/ (x.group # NoGroup /\ y.group = x.group))
    BY <1>1, <1>4
  <2>. QED
    BY <1>3, <2>1 DEF IInv, Unique
<1>8. FirstOnly'
  <2>1. ASSUME ~offered PROVE x.version = 1
    <3>1. "resubmission" \notin request[r].plan
      BY <1>2, <2>1 DEF WorkOK
    <3>2. ~ (request[r].highest > 0)
      BY <1>2, <1>3, <3>1 DEF WorkOK
    <3>. QED
      BY <1>1, <3>2
  <2>. QED
    BY <1>3, <2>1 DEF IInv, FirstOnly
<1>9. CompletionFollowsWork'
  <2>1. s \in request[r].list
    BY <1>2, <1>3 DEF WorkOK, s
  <2>2. \A t \in request[r].list : t = s \/ (g # NoGroup /\ t \in been[g])
    BY <1>2 DEF WorkOK, s, g
  <2>3. \A y \in submissions' : y.student \in completed'
    BY <1>1, <1>3, <2>1 DEF IInv, CompletionFollowsWork
  <2>4. ASSUME NEW t \in completed'
        PROVE  \E y \in submissions' :
                 y.student = t \/ (y.group # NoGroup /\ t \in been'[y.group])
    <3>1. CASE t \in request[r].list
      BY <1>1, <1>3, <2>2, <3>1
    <3>2. CASE t \in completed
      BY <1>3, <3>2 DEF IInv, CompletionFollowsWork
    <3>. QED
      BY <1>3, <2>4, <3>1, <3>2
  <2>. QED
    BY <2>3, <2>4 DEF CompletionFollowsWork
<1>10. SourceIsOwn'
  <2>1. owner[x.draft] = s
    BY <1>1, <1>2, <1>3 DEF WorkOK, s
  <2>2. g # NoGroup => s \in been[g]
    BY <1>2 DEF WorkOK, s, g
  <2>. QED
    BY <1>1, <1>3, <2>1, <2>2 DEF IInv, SourceIsOwn
<1>. QED
  BY <1>6, <1>7, <1>8, <1>9, <1>10

\* A step that adds no row keeps what the invariant says of rows.
LEMMA RowsOK ==
  ASSUME IInv, [Next]_vars
  PROVE  ChainsOK' /\ Unique' /\ FirstOnly' /\ CompletionFollowsWork' /\ SourceIsOwn'
<1>1. CASE \E r \in Requests : Inserts(r)
  BY <1>1, InsertOK
<1>2. CASE UNCHANGED <<submissions, completed>>
  <2>1. submissions' = submissions /\ completed' = completed
    BY <1>2
  <2>2. /\ \A g \in Groups : been[g] \subseteq been'[g]
        /\ offered => offered'
        /\ \A d \in Drafts : owner[d] # NoStudent => owner'[d] = owner[d]
    BY Grows DEF IInv
  <2>3. \A x \in submissions :
          /\ x.student \in Students /\ x.draft \in Drafts
          /\ x.group # NoGroup => x.group \in Groups
    BY DEF IInv, TypeOK, Rows
  <2>4. ChainsOK' /\ Unique'
    BY <2>1 DEF IInv, ChainsOK, Chain, Versions, Scope, Unique
  <2>5. FirstOnly'
    BY <2>1, <2>2, Zenon DEF IInv, FirstOnly
  <2>6. CompletionFollowsWork'
    BY <2>1, <2>2, <2>3 DEF IInv, CompletionFollowsWork
  <2>7. SourceIsOwn'
    BY <2>1, <2>2, <2>3, SubmissionsAssumption DEF IInv, SourceIsOwn
  <2>. QED
    BY <2>4, <2>5, <2>6, <2>7
<1>. QED
  BY <1>1, <1>2, RowsStep

-----------------------------------------------------------------------------
(* The requests.                                                           *)

\* A request that does not move keeps what the invariant says of it.
LEMMA StillOK ==
  ASSUME IInv, [Next]_vars, NEW r \in Requests, request'[r] = request[r]
  PROVE  WorkOK(r)'
<1>1. WorkOK(r) /\ request[r] \in Handlers
  BY DEF IInv, TypeOK
<1>2. /\ submissions \subseteq submissions'
      /\ \A g \in Groups : been[g] \subseteq been'[g]
      /\ offered => offered'
      /\ \A d \in Drafts : owner[d] # NoStudent => owner'[d] = owner[d]
  BY Grows DEF IInv
<1>3. /\ request[r].group # NoGroup => request[r].group \in Groups
      /\ request[r].found \subseteq Groups
  BY <1>1 DEF Handlers
<1>4. "resubmission" \in request'[r].plan => offered'
  BY <1>1, <1>2, Zenon DEF WorkOK
<1>6. request'[r].pc \notin {"idle", "draft"} =>
        owner'[request'[r].draft] = request'[r].student
  BY <1>1, <1>2, SubmissionsAssumption DEF WorkOK
<1>7. request'[r].pc = "save" /\ request'[r].highest > 0 =>
        /\ "resubmission" \in request'[r].plan
        /\ \E y \in Scope(request[r].student, request[r].group)' :
             y.version = request'[r].highest
  <2>1. Scope(request[r].student, request[r].group)
          \subseteq Scope(request[r].student, request[r].group)'
    BY <1>2 DEF Scope
  <2>. QED
    BY <1>1, <2>1 DEF WorkOK
<1>8. /\ \A g \in request'[r].found : request'[r].student \in been'[g]
      /\ request'[r].group # NoGroup => request'[r].student \in been'[request'[r].group]
      /\ \A s \in request'[r].list : \/ s = request'[r].student
                                     \/ request'[r].group # NoGroup /\ s \in been'[request'[r].group]
  BY <1>1, <1>2, <1>3 DEF WorkOK
<1>9. /\ request'[r].pc \in {"draft", "memberships", "groups"} => request'[r].group = NoGroup
      /\ request'[r].pc = "members" => request'[r].group # NoGroup
      /\ request'[r].pc # "idle" =>
        /\ request'[r].student \in Students /\ request'[r].draft \in Drafts
        /\ request'[r].student \in request'[r].list
  BY <1>1 DEF WorkOK
<1>. QED
  BY <1>4, <1>6, <1>7, <1>8, <1>9, Zenon DEF WorkOK

\* A request that stops is fine.
LEMMA StopOK ==
  ASSUME IInv, NEW r \in Requests, Stop(r)
  PROVE  WorkOK(r)'
<1>1. request'[r] = Idle
  BY DEF IInv, TypeOK, Stop
<1>. QED
  BY <1>1 DEF WorkOK, Idle

\* A request that moves from one read to the next: what it has read is sound.
LEMMA MoveOK ==
  ASSUME IInv, NEW r \in Requests, UNCHANGED <<assignment, been, offered>>,
         request[r].pc # "idle",
         request'[r].pc \in {"memberships", "groups", "members", "previous"},
         request'[r].student = request[r].student,
         request'[r].draft = request[r].draft,
         request'[r].plan = request[r].plan,
         request[r].student \in request'[r].list,
         owner'[request[r].draft] = request[r].student,
         request'[r].pc \in {"memberships", "groups"} => request'[r].group = NoGroup,
         request'[r].pc = "members" => request'[r].group # NoGroup,
         \A g \in request'[r].found : request[r].student \in been[g],
         request'[r].group # NoGroup => request[r].student \in been[request'[r].group],
         \A s \in request'[r].list :
           s = request[r].student \/ (request'[r].group # NoGroup /\ s \in been[request'[r].group])
  PROVE  WorkOK(r)'
<1>1. WorkOK(r)
  BY DEF IInv
<1>2. "resubmission" \in request'[r].plan => offered'
  BY <1>1, Zenon DEF WorkOK
<1>3. request'[r].student \in Students /\ request'[r].draft \in Drafts
  BY <1>1 DEF WorkOK
<1>. QED
  BY <1>2, <1>3 DEF WorkOK

\* What each step of a request does to it.
LEMMA WorkKept ==
  ASSUME IInv, [Next]_vars, NEW r \in Requests, Work(r)
  PROVE  WorkOK(r)'
<1>1. WorkOK(r) /\ request[r] \in Handlers /\ request \in [Requests -> Handlers]
  BY DEF IInv, TypeOK
<1>2. /\ request[r].found \subseteq Groups /\ request[r].group \in Groups \cup {NoGroup}
      /\ request[r].list \subseteq Students
  BY <1>1 DEF Handlers
<1>3. CASE Stop(r)
  BY <1>3, StopOK
<1>4. CASE SaveDraft(r) /\ ~Stop(r)
  <2>1. PICK pc \in {"memberships", "previous"} :
          request' = [request EXCEPT ![r] = [@ EXCEPT !.pc = pc]]
    BY <1>4 DEF SaveDraft, Goto
  <2>2. /\ request'[r].pc = pc /\ request'[r].found = request[r].found
        /\ request'[r].group = request[r].group /\ request'[r].list = request[r].list
        /\ request'[r].student = request[r].student /\ request'[r].draft = request[r].draft
        /\ request'[r].plan = request[r].plan
    BY <1>1, <2>1 DEF Handlers
  <2>3. request[r].pc = "draft" /\ UNCHANGED <<assignment, been, offered>>
    BY <1>4 DEF SaveDraft, world
  <2>4. owner'[request[r].draft] = request[r].student
    BY <1>1, <1>4 DEF SaveDraft, WorkOK, IInv, TypeOK
  <2>. QED
    BY <1>1, <2>2, <2>3, <2>4, MoveOK DEF WorkOK
<1>5. CASE ReadMemberships(r)
  <2>. DEFINE found == {g \in Groups : request[r].student \in members[g]}
  <2>1. request' = [request EXCEPT ![r] = [@ EXCEPT !.pc = "groups", !.found = found]]
    BY <1>5 DEF ReadMemberships
  <2>2. \A g \in found : request[r].student \in been[g]
    BY DEF IInv, MembersOK
  <2>. HIDE DEF found
  <2>3. /\ request'[r].pc = "groups" /\ request'[r].found = found
        /\ request'[r].group = request[r].group /\ request'[r].list = request[r].list
        /\ request'[r].student = request[r].student /\ request'[r].draft = request[r].draft
        /\ request'[r].plan = request[r].plan
    BY <1>1, <2>1 DEF Handlers
  <2>4. /\ request[r].pc = "memberships" /\ UNCHANGED <<assignment, been, offered>>
        /\ owner' = owner
    BY <1>5 DEF ReadMemberships, world
  <2>. QED
    BY <1>1, <2>2, <2>3, <2>4, MoveOK DEF WorkOK
<1>6. CASE ResolveGroup(r) /\ ~Stop(r)
  <2>1. PICK g \in request[r].found :
          request' = [request EXCEPT ![r] = [@ EXCEPT !.pc = "members", !.found = {}, !.group = g]]
    BY <1>6 DEF ResolveGroup
  <2>2. /\ request'[r].pc = "members" /\ request'[r].found = {}
        /\ request'[r].group = g /\ request'[r].list = request[r].list
        /\ request'[r].student = request[r].student /\ request'[r].draft = request[r].draft
        /\ request'[r].plan = request[r].plan
    BY <1>1, <2>1 DEF Handlers
  <2>3. /\ request[r].pc = "groups" /\ UNCHANGED <<assignment, been, offered>>
        /\ owner' = owner
    BY <1>6 DEF ResolveGroup, world
  <2>4. request[r].student \in been[g] /\ g # NoGroup
    BY <1>1, <1>2, SubmissionsAssumption DEF WorkOK
  <2>. QED
    BY <1>1, <2>2, <2>3, <2>4, MoveOK DEF WorkOK
<1>7. CASE ReadMembers(r)
  <2>. DEFINE list == request[r].list \cup members[request[r].group]
  <2>1. request' = [request EXCEPT ![r] = [@ EXCEPT !.pc = "previous", !.list = list]]
    BY <1>7 DEF ReadMembers
  <2>2. /\ request[r].pc = "members" /\ UNCHANGED <<assignment, been, offered>>
        /\ owner' = owner
    BY <1>7 DEF ReadMembers, world
  <2>3. \A s \in members[request[r].group] :
          request[r].group # NoGroup /\ s \in been[request[r].group]
    BY <1>1, <1>2, <2>2 DEF IInv, MembersOK, WorkOK
  <2>4. /\ request[r].student \in list
        /\ \A s \in list :
             s = request[r].student \/ (request[r].group # NoGroup /\ s \in been[request[r].group])
    BY <1>1, <2>2, <2>3 DEF WorkOK
  <2>. HIDE DEF list
  <2>5. /\ request'[r].pc = "previous" /\ request'[r].found = request[r].found
        /\ request'[r].group = request[r].group /\ request'[r].list = list
        /\ request'[r].student = request[r].student /\ request'[r].draft = request[r].draft
        /\ request'[r].plan = request[r].plan
    BY <1>1, <2>1 DEF Handlers
  <2>. QED
    BY <1>1, <2>2, <2>4, <2>5, MoveOK DEF WorkOK
<1>8. CASE ReadPrevious(r) /\ ~Stop(r)
  <2>. DEFINE sc == Scope(request[r].student, request[r].group)
  <2>1. /\ request' = [request EXCEPT ![r] = [@ EXCEPT !.pc = "save", !.highest = Highest(sc)]]
        /\ Highest(sc) > 0 => "resubmission" \in request[r].plan
    BY <1>8 DEF ReadPrevious
  <2>2. sc \in SUBSET Rows
    BY DEF Scope, IInv, TypeOK
  <2>3. Highest(sc) > 0 => \E x \in sc : x.version = Highest(sc)
    BY <2>2, HighestIs
  <2>4. /\ request'[r].pc = "save" /\ request'[r].found = request[r].found
        /\ request'[r].group = request[r].group /\ request'[r].list = request[r].list
        /\ request'[r].student = request[r].student /\ request'[r].draft = request[r].draft
        /\ request'[r].plan = request[r].plan /\ request'[r].highest = Highest(sc)
    BY <1>1, <2>1 DEF Handlers
  <2>5. /\ request[r].pc = "previous" /\ submissions' = submissions
        /\ UNCHANGED <<assignment, been, offered, owner>>
    BY <1>8 DEF ReadPrevious, world
  <2>6. Scope(request[r].student, request[r].group)' = sc
    BY <2>4, <2>5 DEF Scope
  <2>7. "resubmission" \in request'[r].plan => offered'
    BY <1>1, <2>4, <2>5, Zenon DEF WorkOK
  <2>. HIDE DEF sc
  <2>. QED
    BY <1>1, <2>1, <2>3, <2>4, <2>5, <2>6, <2>7 DEF WorkOK
<1>. QED
  BY <1>3, <1>4, <1>5, <1>6, <1>7, <1>8 DEF Work, Save

\* A request begins.
LEMMA BeginOK ==
  ASSUME IInv, NEW r \in Requests, NEW s \in Students, NEW d \in Drafts, Begin(r, s, d)
  PROVE  WorkOK(r)'
<1>1. request' = [request EXCEPT ![r] =
        [pc |-> "draft", student |-> s, draft |-> d, plan |-> assignment, found |-> {},
         group |-> NoGroup, list |-> {s}, highest |-> 0]]
  BY DEF Begin
<1>2. /\ request'[r].pc = "draft" /\ request'[r].student = s /\ request'[r].draft = d
      /\ request'[r].plan = assignment /\ request'[r].list = {s}
      /\ request'[r].found = {} /\ request'[r].group = NoGroup
  BY <1>1 DEF IInv, TypeOK
<1>3. "resubmission" \in assignment => offered'
  BY Zenon DEF IInv, MembersOK, Begin, world
<1>. QED
  BY <1>2, <1>3 DEF WorkOK

\* Every request is fine after every step.
LEMMA RequestsOK ==
  ASSUME IInv, [Next]_vars
  PROVE  \A r \in Requests : WorkOK(r)'
<1>. SUFFICES ASSUME NEW r \in Requests PROVE WorkOK(r)'
  OBVIOUS
<1>1. CASE request'[r] = request[r]
  BY <1>1, StillOK
<1>2. CASE Work(r)
  BY <1>2, WorkKept
<1>3. CASE Die(r)
  BY <1>3, StopOK DEF Die
<1>4. CASE \E s \in Students, d \in Drafts : Begin(r, s, d)
  BY <1>4, BeginOK
<1>5. ASSUME NEW q \in Requests \ {r},
             Work(q) \/ Die(q) \/ \E s \in Students, d \in Drafts : Begin(q, s, d)
      PROVE  request'[r] = request[r]
  BY <1>5 DEF Work, Die, Begin, SaveDraft, ReadMemberships, ResolveGroup, ReadMembers,
     ReadPrevious, Save, Goto, Stop, IInv, TypeOK
<1>6. CASE request' = request
  BY <1>1, <1>6
<1>. QED
  BY <1>1, <1>2, <1>3, <1>4, <1>5, <1>6
     DEF Next, vars, UpdateAssignment, AddMember, Leave, UpdateGroup, DeleteGroup

-----------------------------------------------------------------------------
(* Types, and groups.                                                      *)

\* A change to the assignment or the groups keeps the types and the members.
LEMMA ChangeOK ==
  ASSUME IInv,
         \/ \E a \in Settings : UpdateAssignment(a)
         \/ \E s \in Students, g \in Groups : AddMember(s, g) \/ Leave(s, g)
         \/ \E g \in Groups, st \in {"active", "archived"} : UpdateGroup(g, st)
         \/ \E g \in Groups : DeleteGroup(g)
  PROVE  TypeOK' /\ MembersOK'
<1>. USE DEF IInv, TypeOK, Change
<1>0. ASSUME Change PROVE changes' \in 0..MaxChanges
  BY <1>0, SubmissionsAssumption
<1>1. CASE \E a \in Settings : UpdateAssignment(a)
  <2>1. PICK a \in Settings : UpdateAssignment(a)
    BY <1>1
  <2>2. offered' \in BOOLEAN /\ ("resubmission" \in assignment' => offered')
    BY <2>1, Zenon DEF UpdateAssignment
  <2>3. changes' \in 0..MaxChanges
    BY <1>0, <2>1, Zenon DEF UpdateAssignment
  <2>. QED
    BY <2>1, <2>2, <2>3 DEF UpdateAssignment, MembersOK
<1>2. ASSUME NEW s \in Students, NEW g \in Groups, AddMember(s, g) PROVE TypeOK' /\ MembersOK'
  <2>1. changes' \in 0..MaxChanges
    BY <1>0, <1>2, Zenon DEF AddMember
  <2>2. /\ members' \in [Groups -> SUBSET Students] /\ been' \in [Groups -> SUBSET Students]
        /\ \A h \in Groups : members'[h] \subseteq been'[h]
    BY <1>2 DEF AddMember, MembersOK
  <2>. QED
    BY <1>2, <2>1, <2>2, Zenon DEF AddMember, MembersOK
<1>3. ASSUME NEW s \in Students, NEW g \in Groups, Leave(s, g) PROVE TypeOK' /\ MembersOK'
  <2>1. changes' \in 0..MaxChanges
    BY <1>0, <1>3, Zenon DEF Leave
  <2>2. /\ members' \in [Groups -> SUBSET Students]
        /\ \A h \in Groups : members'[h] \subseteq members[h]
    BY <1>3 DEF Leave
  <2>3. been' = been /\ \A h \in Groups : members'[h] \subseteq been'[h]
    BY <1>3, <2>2 DEF Leave, MembersOK
  <2>. QED
    BY <1>3, <2>1, <2>2, <2>3, Zenon DEF Leave, MembersOK
<1>4. ASSUME NEW g \in Groups, NEW st \in {"active", "archived"}, UpdateGroup(g, st)
      PROVE  TypeOK' /\ MembersOK'
  <2>1. changes' \in 0..MaxChanges
    BY <1>0, <1>4, Zenon DEF UpdateGroup
  <2>2. status' \in [Groups -> {"active", "archived", "deleted"}]
    BY <1>4 DEF UpdateGroup
  <2>. QED
    BY <1>4, <2>1, <2>2, Zenon DEF UpdateGroup, MembersOK
<1>5. ASSUME NEW g \in Groups, DeleteGroup(g) PROVE TypeOK' /\ MembersOK'
  <2>1. changes' \in 0..MaxChanges
    BY <1>0, <1>5, Zenon DEF DeleteGroup
  <2>2. /\ status' \in [Groups -> {"active", "archived", "deleted"}]
        /\ members' \in [Groups -> SUBSET Students]
        /\ \A h \in Groups : members'[h] \subseteq members[h]
    BY <1>5 DEF DeleteGroup
  <2>3. been' = been /\ \A h \in Groups : members'[h] \subseteq been'[h]
    BY <1>5, <2>2 DEF DeleteGroup, MembersOK
  <2>. QED
    BY <1>5, <2>1, <2>2, <2>3, Zenon DEF DeleteGroup, MembersOK
<1>. QED
  BY <1>1, <1>2, <1>3, <1>4, <1>5

\* What the steps of a request write into it keeps its type.
LEMMA UpdateTypes ==
  ASSUME NEW x \in Handlers
  PROVE  /\ \A pc \in {"memberships", "previous"} : [x EXCEPT !.pc = pc] \in Handlers
         /\ \A found \in SUBSET Groups : [x EXCEPT !.pc = "groups", !.found = found] \in Handlers
         /\ \A g \in Groups :
              [x EXCEPT !.pc = "members", !.found = {}, !.group = g] \in Handlers
         /\ \A list \in SUBSET Students :
              [x EXCEPT !.pc = "previous", !.list = list] \in Handlers
         /\ \A n \in 0..MaxVersion : [x EXCEPT !.pc = "save", !.highest = n] \in Handlers
<1>1. \A pc \in {"memberships", "previous"} : [x EXCEPT !.pc = pc] \in Handlers
  BY DEF Handlers
<1>2. \A found \in SUBSET Groups : [x EXCEPT !.pc = "groups", !.found = found] \in Handlers
  BY DEF Handlers
<1>3. \A g \in Groups : [x EXCEPT !.pc = "members", !.found = {}, !.group = g] \in Handlers
  BY DEF Handlers
<1>4. \A list \in SUBSET Students : [x EXCEPT !.pc = "previous", !.list = list] \in Handlers
  BY DEF Handlers
<1>5. \A n \in 0..MaxVersion : [x EXCEPT !.pc = "save", !.highest = n] \in Handlers
  BY DEF Handlers
<1>. QED
  BY <1>1, <1>2, <1>3, <1>4, <1>5

\* The steps of requests keep the types; assignment and groups they leave alone.
LEMMA HandlerOK ==
  ASSUME IInv, [Next]_vars,
         \/ \E r \in Requests : Work(r) \/ Die(r)
         \/ \E r \in Requests, s \in Students, d \in Drafts : Begin(r, s, d)
  PROVE  TypeOK' /\ MembersOK'
<1>1. UNCHANGED world
  BY DEF Work, Die, Begin, SaveDraft, ReadMemberships, ResolveGroup, ReadMembers,
     ReadPrevious, Save
<1>2. submissions' \in SUBSET Rows /\ completed' \in SUBSET Students
  <2>1. ASSUME NEW r \in Requests, Inserts(r)
        PROVE  Row(r) \in Rows /\ request[r].list \in SUBSET Students
    BY <2>1, RowType DEF Inserts, IInv, TypeOK, Handlers
  <2>. QED
    BY <2>1, RowsStep DEF Inserts, IInv, TypeOK
<1>3. owner' \in [Drafts -> Students \cup {NoStudent}]
  <2>1. ASSUME NEW r \in Requests, SaveDraft(r)
        PROVE  owner' \in [Drafts -> Students \cup {NoStudent}]
    <3>1. request[r].student \in Students /\ owner \in [Drafts -> Students \cup {NoStudent}]
      BY <2>1 DEF SaveDraft, IInv, WorkOK, TypeOK
    <3>. QED
      BY <2>1, <3>1 DEF SaveDraft
  <2>2. CASE owner' = owner
    BY <2>2 DEF IInv, TypeOK
  <2>. QED
    BY <2>1, <2>2 DEF Work, Die, Begin, ReadMemberships, ResolveGroup, ReadMembers,
       ReadPrevious, Save
<1>4. request' \in [Requests -> Handlers]
  <2>1. request \in [Requests -> Handlers] /\ members \in [Groups -> SUBSET Students]
        /\ assignment \in SUBSET Switches
    BY SubmissionsAssumption DEF IInv, TypeOK
  <2>2. ASSUME NEW r \in Requests, NEW x \in Handlers, request' = [request EXCEPT ![r] = x]
        PROVE  request' \in [Requests -> Handlers]
    BY <2>1, <2>2
  <2>3. ASSUME NEW r \in Requests, Stop(r) PROVE request' \in [Requests -> Handlers]
    BY <2>2, <2>3, IdleType DEF Stop
  <2>4. ASSUME NEW r \in Requests, NEW s \in Students, NEW d \in Drafts, Begin(r, s, d)
        PROVE  request' \in [Requests -> Handlers]
    <3>1. [pc |-> "draft", student |-> s, draft |-> d, plan |-> assignment, found |-> {},
           group |-> NoGroup, list |-> {s}, highest |-> 0] \in Handlers
      BY <2>1, SubmissionsAssumption DEF Handlers
    <3>. QED
      BY <2>2, <2>4, <3>1 DEF Begin
  <2>5. ASSUME NEW r \in Requests, SaveDraft(r) PROVE request' \in [Requests -> Handlers]
    <3>1. \A pc \in {"memberships", "previous"} :
            [request[r] EXCEPT !.pc = pc] \in Handlers
      BY <2>1, UpdateTypes, Zenon
    <3>. QED
      BY <2>2, <2>3, <2>5, <3>1 DEF SaveDraft, Goto
  <2>6. ASSUME NEW r \in Requests, ReadMemberships(r) PROVE request' \in [Requests -> Handlers]
    <3>1. \A found \in SUBSET Groups :
            [request[r] EXCEPT !.pc = "groups", !.found = found] \in Handlers
      BY <2>1, UpdateTypes, Zenon
    <3>. QED
      BY <2>2, <2>6, <3>1 DEF ReadMemberships
  <2>7. ASSUME NEW r \in Requests, ResolveGroup(r) PROVE request' \in [Requests -> Handlers]
    <3>1. \A g \in request[r].found :
            [request[r] EXCEPT !.pc = "members", !.found = {}, !.group = g] \in Handlers
      <4>1. request[r] \in Handlers /\ request[r].found \subseteq Groups
        BY <2>1 DEF Handlers
      <4>. QED
        BY <4>1, UpdateTypes, Zenon
    <3>. QED
      BY <2>2, <2>3, <2>7, <3>1 DEF ResolveGroup
  <2>8. ASSUME NEW r \in Requests, ReadMembers(r) PROVE request' \in [Requests -> Handlers]
    <3>1. request[r].list \cup members[request[r].group] \in SUBSET Students
      <4>1. request[r].group \in Groups
        <5>1. request[r].pc = "members" /\ WorkOK(r) /\ request[r] \in Handlers
          BY <2>1, <2>8 DEF ReadMembers, IInv
        <5>2. request[r].group # NoGroup
          BY <5>1 DEF WorkOK
        <5>. QED
          BY <5>1, <5>2 DEF Handlers
      <4>. QED
        BY <2>1, <4>1 DEF Handlers
    <3>2. \A list \in SUBSET Students :
            [request[r] EXCEPT !.pc = "previous", !.list = list] \in Handlers
      BY <2>1, UpdateTypes, Zenon
    <3>. QED
      BY <2>2, <2>8, <3>1, <3>2 DEF ReadMembers
  <2>9. ASSUME NEW r \in Requests, ReadPrevious(r) PROVE request' \in [Requests -> Handlers]
    <3>1. Highest(Scope(request[r].student, request[r].group)) \in 0..MaxVersion
      <4>1. Scope(request[r].student, request[r].group) \in SUBSET Rows
        BY DEF Scope, IInv, TypeOK
      <4>. QED
        BY <4>1, HighestIs
    <3>2. \A n \in 0..MaxVersion : [request[r] EXCEPT !.pc = "save", !.highest = n] \in Handlers
      BY <2>1, UpdateTypes, Zenon
    <3>. QED
      BY <2>2, <2>3, <2>9, <3>1, <3>2 DEF ReadPrevious
  <2>. QED
    BY <2>3, <2>4, <2>5, <2>6, <2>7, <2>8, <2>9 DEF Work, Die, Save
<1>5. MembersOK'
  BY <1>1, Zenon DEF IInv, MembersOK, world
<1>6. /\ assignment' \in Settings /\ changes' \in 0..MaxChanges
      /\ status' \in [Groups -> {"active", "archived", "deleted"}]
      /\ members' \in [Groups -> SUBSET Students] /\ been' \in [Groups -> SUBSET Students]
      /\ offered' \in BOOLEAN
  BY <1>1, Zenon DEF IInv, TypeOK, world
<1>. QED
  BY <1>2, <1>3, <1>4, <1>5, <1>6, Zenon DEF TypeOK

-----------------------------------------------------------------------------
(* The theorems.                                                           *)

LEMMA InitOK == Init => IInv
<1>. SUFFICES ASSUME Init PROVE IInv
  OBVIOUS
<1>1. TypeOK
  <2>1. request \in [Requests -> Handlers]
    BY IdleType DEF Init
  <2>2. changes \in 0..MaxChanges
    BY SubmissionsAssumption DEF Init
  <2>3. offered \in BOOLEAN
    <3>1. offered = ("resubmission" \in assignment)
      BY DEF Init
    <3>. QED
      BY ONLY <3>1
  <2>. QED
    BY <2>1, <2>2, <2>3 DEF Init, TypeOK
<1>2. ChainsOK
  <2>1. \A rows : rows = {} => Chain(rows)
    BY SubmissionsAssumption DEF Chain, Versions
  <2>. QED
    BY <2>1 DEF Init, ChainsOK, Scope
<1>3. Unique /\ FirstOnly /\ CompletionFollowsWork /\ SourceIsOwn
  BY DEF Init, Unique, FirstOnly, CompletionFollowsWork, SourceIsOwn
<1>4. MembersOK
  BY Zenon DEF Init, MembersOK
<1>5. \A r \in Requests : WorkOK(r)
  BY DEF Init, WorkOK, Idle
<1>. QED
  BY <1>1, <1>2, <1>3, <1>4, <1>5 DEF IInv

LEMMA NextOK == IInv /\ [Next]_vars => IInv'
<1>. SUFFICES ASSUME IInv, [Next]_vars PROVE IInv'
  OBVIOUS
<1>1. TypeOK' /\ MembersOK'
  <2>1. CASE UNCHANGED vars
    BY <2>1, Zenon DEF IInv, TypeOK, MembersOK, vars
  <2>. QED
    BY <2>1, ChangeOK, HandlerOK DEF Next
<1>. QED
  BY <1>1, RowsOK, RequestsOK DEF IInv

\* The inductive invariant holds of every reachable state.
THEOREM Invariance == Spec => []IInv
BY InitOK, NextOK, PTL DEF Spec

\* Rows, groups and requests have their types.
THEOREM TypeCorrect == Spec => []TypeOK
<1>1. IInv => TypeOK
  BY DEF IInv
<1>. QED
  BY <1>1, Invariance, PTL

\* The versions of every group, and of every student who works alone, are 1 to
\* n, whoever submits at the same time.
THEOREM VersionsCorrect == Spec => []VersionsContiguous
<1>1. IInv => VersionsContiguous
  <2>. SUFFICES ASSUME IInv PROVE VersionsContiguous
    OBVIOUS
  <2>1. ASSUME NEW g \in Groups, NEW x \in Scope(NoStudent, g), NEW y \in Scope(NoStudent, g),
               x.version = y.version
        PROVE  x = y
    <3>1. g # NoGroup
      BY SubmissionsAssumption
    <3>2. x \in submissions /\ y \in submissions /\ x.group = g /\ y.group = g
      BY <3>1 DEF Scope
    <3>. QED
      BY <2>1, <3>1, <3>2 DEF IInv, Unique
  <2>. QED
    BY <2>1, Zenon DEF IInv, ChainsOK, Chain, VersionsContiguous
<1>. QED
  BY <1>1, Invariance, PTL

\* Unless resubmission is ever allowed, no student and no group hands in twice.
THEOREM ResubmissionCorrect == Spec => []OneWithoutResubmission
<1>1. IInv => OneWithoutResubmission
  BY DEF IInv, FirstOnly, Unique, OneWithoutResubmission
<1>. QED
  BY <1>1, Invariance, PTL

\* Completion and work go together, whatever fails on the way.
THEOREM CompletionCorrect == Spec => []CompletionFollowsWork
<1>1. IInv => CompletionFollowsWork
  BY DEF IInv
<1>. QED
  BY <1>1, Invariance, PTL

\* A submission is of its own student's draft and of a group the student was in.
THEOREM SourceCorrect == Spec => []SourceIsOwn
<1>1. IInv => SourceIsOwn
  BY DEF IInv
<1>. QED
  BY <1>1, Invariance, PTL
=============================================================================
