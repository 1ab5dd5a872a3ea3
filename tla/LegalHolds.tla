----------------------------- MODULE LegalHolds -----------------------------
(***************************************************************************)
(* Legal holds against the deletion of an account: packages/core/src/auth/ *)
(* admin.ts and legal-holds/repository.ts, with their handlers.            *)
(*                                                                         *)
(* A deletion is a transaction that looks for an active hold of any tenant *)
(* without locking anything, reads the user, anonymises the row and what   *)
(* belongs to it, and commits.  Its update changes a column of a unique    *)
(* index, so it conflicts with the share of the user row that the foreign  *)
(* key of a hold being inserted needs: a hold is placed before the update  *)
(* or after the commit, never between the two.                             *)
(***************************************************************************)
EXTENDS Naturals

CONSTANTS
  Accounts,   \* users
  Tenants,    \* tenants that may hold a user
  Deletions   \* requests to delete an account

VARIABLES
  account,    \* the user rows: active or deleted
  holds,      \* per account the tenants with a hold in force
  deletion,   \* the deletions in flight
  late        \* history: holds placed after a deletion had looked for holds

holdVars == <<account, holds, deletion, late>>

-----------------------------------------------------------------------------
Deleting == [pc : {"idle", "check", "read", "update", "commit"}, user : SUBSET Accounts]
NoDeletion == [pc |-> "idle", user |-> {}]

\* The deletions of u that have found no hold.
Unhindered(u) ==
  {d \in Deletions : u \in deletion[d].user /\ deletion[d].pc \in {"read", "update", "commit"}}

Anonymised(u) == \E d \in Deletions : u \in deletion[d].user /\ deletion[d].pc = "commit"

HoldInit ==
  /\ account = [u \in Accounts |-> "active"]
  /\ holds = [u \in Accounts |-> {}]
  /\ deletion = [d \in Deletions |-> NoDeletion]
  /\ late = [u \in Accounts |-> {}]

\* createUserLegalHold: one active hold per user and tenant.  Nothing asks
\* whether the account is deleted.
PlaceHold(t, u) ==
  /\ t \notin holds[u]
  /\ ~Anonymised(u)
  /\ holds' = [holds EXCEPT ![u] = @ \cup {t}]
  /\ late' = [late EXCEPT ![u] =
       IF Unhindered(u) # {} \/ account[u] = "deleted" THEN @ \cup {t} ELSE @]
  /\ UNCHANGED <<account, deletion>>

ReleaseHold(t, u) ==
  /\ t \in holds[u]
  /\ holds' = [holds EXCEPT ![u] = @ \ {t}]
  /\ late' = [late EXCEPT ![u] = @ \ {t}]
  /\ UNCHANGED <<account, deletion>>

Proceed(d, pc) == deletion' = [deletion EXCEPT ![d] = [@ EXCEPT !.pc = pc]]

\* deleteCurrentUser reads the retention policies and opens the transaction.
BeginDeletion(d, u) ==
  /\ deletion[d].pc = "idle"
  /\ deletion' = [deletion EXCEPT ![d] = [pc |-> "check", user |-> {u}]]
  /\ UNCHANGED <<account, holds, late>>

\* Slip: only the first tenant's holds are looked at.
CheckSomeHolds(d) ==
  /\ deletion[d].pc = "check"
  /\ \A u \in deletion[d].user : holds[u] # Tenants
  /\ Proceed(d, "read")
  /\ UNCHANGED <<account, holds, late>>

\* An active hold ends the transaction.
CheckHolds(d) ==
  /\ deletion[d].pc = "check"
  /\ \A u \in deletion[d].user : holds[u] = {}
  /\ Proceed(d, "read")
  /\ UNCHANGED <<account, holds, late>>

ReadUser(d) ==
  /\ deletion[d].pc = "read"
  /\ Proceed(d, "update")
  /\ UNCHANGED <<account, holds, late>>

\* The update waits for another deletion of the same account to end.
AnonymiseUser(d) ==
  /\ deletion[d].pc = "update"
  /\ \A u \in deletion[d].user : ~Anonymised(u)
  /\ Proceed(d, "commit")
  /\ UNCHANGED <<account, holds, late>>

\* Sessions and accounts are deleted, audit rows redacted, and all of it is
\* committed.
CommitDeletion(d) ==
  /\ deletion[d].pc = "commit"
  /\ account' = [u \in Accounts |-> IF u \in deletion[d].user THEN "deleted" ELSE account[u]]
  /\ deletion' = [deletion EXCEPT ![d] = NoDeletion]
  /\ UNCHANGED <<holds, late>>

\* A hold, an error or a death: nothing of the transaction stays.
RollBack(d) ==
  /\ deletion[d].pc # "idle"
  /\ deletion' = [deletion EXCEPT ![d] = NoDeletion]
  /\ UNCHANGED <<account, holds, late>>

HoldNext ==
  \/ \E t \in Tenants, u \in Accounts : PlaceHold(t, u) \/ ReleaseHold(t, u)
  \/ \E d \in Deletions, u \in Accounts : BeginDeletion(d, u)
  \/ \E d \in Deletions :
       \/ CheckHolds(d) \/ ReadUser(d) \/ AnonymiseUser(d)
       \/ CommitDeletion(d) \/ RollBack(d)

HoldSpec == HoldInit /\ [][HoldNext]_holdVars

-----------------------------------------------------------------------------
(* Properties.                                                             *)

\* Every row and every transaction has its type.
HoldTypeOK ==
  /\ account \in [Accounts -> {"active", "deleted"}]
  /\ holds \in [Accounts -> SUBSET Tenants]
  /\ deletion \in [Deletions -> Deleting]
  /\ late \in [Accounts -> SUBSET Tenants]

\* A hold protects from every deletion that looks for holds after it was
\* placed: a deleted account has none but those placed later than that.
HoldsProtect ==
  \A u \in Accounts : account[u] = "deleted" => holds[u] \subseteq late[u]
=============================================================================
