----------------------------- MODULE CourseOrder -----------------------------
(***************************************************************************)
(* The order of the items of one scope, modules, sections or units of a    *)
(* course or categories of its gradebook: packages/core/src/courses/       *)
(* reorder.ts beside the creation, change and deletion of an item.         *)
(*                                                                         *)
(* A reorder lists the items, and then in a transaction gives each item it *)
(* was asked to order a negative position, in the order asked, and each    *)
(* its index after that.  An update locks its row to the end of the        *)
(* transaction, so two reorders may wait for each other until the database *)
(* ends one; what a transaction has written is seen when it commits.  A    *)
(* category has a check that its position is not negative.                 *)
(***************************************************************************)
EXTENDS Integers, Sequences

CONSTANTS
  Items,          \* ids of the scope
  Reorders,       \* requests that reorder
  Orders,         \* what they ask for: sequences of items
  Places,         \* positions that staff give an item themselves
  Kinds           \* "content" or "category"

ASSUME OrderAssumption ==
  /\ Orders \subseteq Seq(Items)
  /\ \A o \in Orders : o # <<>> /\ \A i, j \in DOMAIN o : i # j => o[i] # o[j]
  /\ Places \subseteq Nat
  /\ Kinds \subseteq {"content", "category"}

VARIABLES
  kind,      \* which table the scope is
  present,   \* ids that have a row
  unborn,    \* ids that never had one
  position,  \* committed positions
  reorder,   \* the reorders in flight
  asked,     \* history: what the last reorder that succeeded was asked
  touched    \* history: items whose position was given otherwise since

orderVars == <<kind, present, unborn, position, reorder, asked, touched>>

-----------------------------------------------------------------------------
STAGING_OFFSET == -1000000

\* done: the updates the present pass has made.
Reordering ==
  [pc : {"idle", "list", "stage", "final", "refused"}, order : Orders \cup {<<>>}, done : Nat]
NoReorder == [pc |-> "idle", order |-> <<>>, done |-> 0]

\* The items whose rows r has updated, and so locked.
LockedBy(r) ==
  CASE reorder[r].pc = "stage" -> {reorder[r].order[i] : i \in 1..reorder[r].done} \cap present
    [] reorder[r].pc = "final" -> {reorder[r].order[i] : i \in DOMAIN reorder[r].order} \cap present
    [] OTHER -> {}

Free(x, r) == \A q \in Reorders \ {r} : x \notin LockedBy(q)
FreeForAll(x) == \A q \in Reorders : x \notin LockedBy(q)

OrderInit ==
  /\ kind \in Kinds
  /\ present = {} /\ unborn = Items
  /\ position = [x \in Items |-> 0]
  /\ reorder = [r \in Reorders |-> NoReorder]
  /\ asked = <<>>
  /\ touched = {}

\* Categories have a unique index on their position.
Allowed(x, p) == kind = "category" => \A y \in present \ {x} : position[y] # p

CreateItem(x, p) ==
  /\ x \in unborn
  /\ Allowed(x, p)
  /\ present' = present \cup {x}
  /\ unborn' = unborn \ {x}
  /\ position' = [position EXCEPT ![x] = p]
  /\ touched' = touched \cup {x}
  /\ UNCHANGED <<kind, reorder, asked>>

UpdateItem(x, p) ==
  /\ x \in present
  /\ FreeForAll(x)
  /\ Allowed(x, p)
  /\ position' = [position EXCEPT ![x] = p]
  /\ touched' = touched \cup {x}
  /\ UNCHANGED <<kind, present, unborn, reorder, asked>>

DeleteItem(x) ==
  /\ x \in present
  /\ FreeForAll(x)
  /\ present' = present \ {x}
  /\ UNCHANGED <<kind, unborn, position, reorder, asked, touched>>

BeginReorder(r, order) ==
  /\ reorder[r].pc = "idle"
  /\ reorder' = [reorder EXCEPT ![r] = [pc |-> "list", order |-> order, done |-> 0]]
  /\ UNCHANGED <<kind, present, unborn, position, asked, touched>>

\* listIdsInScope, before the transaction: every id asked for is there.
ListIds(r) ==
  /\ reorder[r].pc = "list"
  /\ \A i \in DOMAIN reorder[r].order : reorder[r].order[i] \in present
  /\ reorder' = [reorder EXCEPT ![r] = [@ EXCEPT !.pc = "stage"]]
  /\ UNCHANGED <<kind, present, unborn, position, asked, touched>>

\* Slip: the staging is done outside the transaction.
StageOutside(r) ==
  LET i == reorder[r].done + 1
      x == reorder[r].order[i]
  IN /\ reorder[r].pc = "stage"
     /\ i \in DOMAIN reorder[r].order
     /\ position' = IF x \in present
                    THEN [position EXCEPT ![x] = STAGING_OFFSET - (i - 1)] ELSE position
     /\ reorder' = [reorder EXCEPT ![r] =
          IF i = Len(@.order) THEN [pc |-> "final", order |-> @.order, done |-> 0]
          ELSE [pc |-> "stage", order |-> @.order, done |-> i]]
     /\ UNCHANGED <<kind, present, unborn, asked, touched>>

\* The first pass.  A row that has been deleted is passed over, and the
\* check of a category refuses the staging position.
StageItem(r) ==
  LET i == reorder[r].done + 1
      x == reorder[r].order[i]
  IN /\ reorder[r].pc = "stage"
     /\ i \in DOMAIN reorder[r].order
     /\ Free(x, r)
     /\ reorder' = [reorder EXCEPT ![r] =
          IF kind = "category" /\ x \in present /\ STAGING_OFFSET - (i - 1) < 0
          THEN [pc |-> "refused", order |-> <<>>, done |-> 0]
          ELSE IF i = Len(@.order) THEN [pc |-> "final", order |-> @.order, done |-> 0]
          ELSE [pc |-> "stage", order |-> @.order, done |-> i]]
     /\ UNCHANGED <<kind, present, unborn, position, asked, touched>>

\* The second pass writes rows that are locked already, and commits.
CommitReorder(r) ==
  LET order == reorder[r].order
  IN /\ reorder[r].pc = "final"
     /\ position' = [x \in Items |->
          IF x \in present /\ \E i \in DOMAIN order : order[i] = x
          THEN (CHOOSE i \in DOMAIN order : order[i] = x) - 1
          ELSE position[x]]
     /\ reorder' = [reorder EXCEPT ![r] = NoReorder]
     /\ asked' = order
     /\ touched' = {}
     /\ UNCHANGED <<kind, present, unborn>>

\* An id that is not there, a wait that the database ends, an error, a death:
\* nothing of the transaction stays.
AbortReorder(r) ==
  /\ reorder[r].pc # "idle"
  /\ reorder' = [reorder EXCEPT ![r] = NoReorder]
  /\ UNCHANGED <<kind, present, unborn, position, asked, touched>>

OrderNext ==
  \/ \E x \in Items, p \in Places : CreateItem(x, p) \/ UpdateItem(x, p)
  \/ \E x \in Items : DeleteItem(x)
  \/ \E r \in Reorders :
       \/ \E order \in Orders : BeginReorder(r, order)
       \/ ListIds(r) \/ StageItem(r) \/ CommitReorder(r) \/ AbortReorder(r)

OrderSpec == OrderInit /\ [][OrderNext]_orderVars

-----------------------------------------------------------------------------
(* Properties.                                                             *)

\* Every row and every request has its type.
OrderTypeOK ==
  /\ kind \in Kinds
  /\ present \subseteq Items /\ unborn \subseteq Items \ present
  /\ position \in [Items -> Int]
  /\ reorder \in [Reorders -> Reordering]
  /\ asked \in Orders \cup {<<>>}
  /\ touched \subseteq Items

\* The items stand in the order that the last reorder asked for, those apart
\* that were moved or came since: two reorders that overlap never leave a
\* mixture of what they were asked, and nobody sees a position of the first
\* pass.
OrderAsAsked ==
  /\ \A x \in present : position[x] >= 0
  /\ \A i, j \in DOMAIN asked :
       i < j /\ {asked[i], asked[j]} \subseteq present \ touched
         => position[asked[i]] < position[asked[j]]

\* What the comment of reorderInScope says: two passes make a reorder work in
\* scopes with a constraint on the position.
TwoPassesWork == \A r \in Reorders : reorder[r].pc # "refused"
=============================================================================
