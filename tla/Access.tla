------------------------------- MODULE Access -------------------------------
(***************************************************************************)
(* Roles and permissions of one member of a company, other than its owner   *)
(* (src/apps/core/rbac_views.py), and the cache of his permissions          *)
(* (effective_permissions of src/apps/core/services.py).  Every saved or    *)
(* deleted role, link, assignment or membership clears the cache            *)
(* (src/apps/core/signals.py): inside a transaction before it commits,      *)
(* otherwise after the statement that committed.  A reader that finds       *)
(* nothing in the cache asks the database and puts there what it found.     *)
(*                                                                         *)
(* A permission stands for a code with the ones it implies.  Roles begin    *)
(* without permissions; creating one is left out, as is their validity in   *)
(* time, which no operation of the program sets.                            *)
(*                                                                         *)
(* Definitions commented "Mutant:" are mistakes for the properties to find. *)
(***************************************************************************)
EXTENDS Naturals, FiniteSets

CONSTANTS
  Roles,          \* roles the company may assign
  CoOwner,        \* the one that makes an administrator; a system role
  Permissions,
  Assignments,    \* primary keys of UserRole
  Changers,       \* changes that can be under way at once
  Readers,        \* requests that ask for the permissions at once
  None

VARIABLES
  enabled,        \* Role.is_active
  links,          \* the permissions of each role
  assignments,    \* role and is_active of each UserRole
  admin,          \* TenantMembership.is_tenant_admin
  cached,         \* the permissions in the cache
  changes,        \* what each change under way has read and will do
  reads,          \* what each reader has found in the database
  torn            \* history: a revocation was mixed with another change

accessVars == <<enabled, links, assignments, admin, cached, changes, reads, torn>>

Active(a) == assignments[a] # None /\ assignments[a].active

(* What effective_permissions finds in the database. *)
Stored ==
  (IF admin THEN Permissions ELSE {})
    \cup UNION {links[assignments[a].role] :
                  a \in {x \in Assignments : Active(x) /\ enabled[assignments[x].role]}}

At(q, step) == changes[q] # None /\ changes[q].step = step

(* A change has told the cache and not yet the database. *)
HalfDone(q) == At(q, "commit")

AccessInit ==
  /\ enabled = [r \in Roles |-> TRUE]
  /\ links = [r \in Roles |-> {}]
  /\ assignments = [a \in Assignments |-> None]
  /\ admin = FALSE
  /\ cached = None
  /\ changes = [q \in Changers |-> None]
  /\ reads = [d \in Readers |-> None]
  /\ torn = FALSE

-----------------------------------------------------------------------------
(* effective_permissions: without an entry the database is read ...          *)
Read(d) ==
  /\ reads[d] = None /\ cached = None
  /\ reads' = [reads EXCEPT ![d] = [codes |-> Stored, mixed |-> FALSE]]
  /\ UNCHANGED <<enabled, links, assignments, admin, cached, changes, torn>>

(* ... and later the entry is set, whatever happened meanwhile. *)
SetEntry(d) ==
  /\ reads[d] # None
  /\ cached' = [codes |-> reads[d].codes,
                mixed |-> reads[d].mixed \/ \E q \in Changers : HalfDone(q)]
  /\ reads' = [reads EXCEPT ![d] = None]
  /\ UNCHANGED <<enabled, links, assignments, admin, changes, torn>>

(* An entry lives for half a minute. *)
Expire ==
  /\ cached # None /\ cached' = None
  /\ UNCHANGED <<enabled, links, assignments, admin, changes, reads, torn>>

(* History: a reader under way has read what is no longer stored. *)
MarkReads == [d \in Readers |-> IF reads[d] = None THEN None
                                ELSE [reads[d] EXCEPT !.mixed = TRUE]]

-----------------------------------------------------------------------------
Begin(q, change) ==
  /\ changes[q] = None
  /\ changes' = [changes EXCEPT ![q] = change]
  /\ UNCHANGED <<enabled, links, assignments, admin, cached, reads, torn>>

(* RoleDetailView.put: the role is read, and saved whole in a transaction     *)
(* that exchanges its links.  What is not asked for is written as it was     *)
(* read; without a list of permissions the links stay.                       *)
StartPut(q, r, on, codes) ==
  /\ r # CoOwner
  /\ Begin(q, [kind |-> "put", step |-> "clear first", role |-> r, on |-> on,
               codes |-> codes, row |-> None])

(* RoleDetailView.delete disables a role in a single statement. *)
StartDisable(q, r) ==
  /\ r # CoOwner
  /\ Begin(q, [kind |-> "disable", step |-> "save", role |-> r, on |-> FALSE,
               codes |-> {}, row |-> None])

(* UserRoleListCreateView.post: the role is enabled. *)
StartAssign(q, r) ==
  /\ enabled[r]
  /\ Begin(q, [kind |-> "assign", step |-> "clear first", role |-> r, on |-> TRUE,
               codes |-> {}, row |-> None])

(* UserRoleDetailView.delete: any assignment, active or not. *)
StartRevoke(q, a) ==
  /\ assignments[a] # None
  /\ changes[q] = None
  /\ changes' = [changes EXCEPT ![q] =
                   [kind |-> "revoke", step |-> "save", role |-> assignments[a].role,
                    on |-> FALSE, codes |-> {}, row |-> a]]
  /\ torn' = (torn \/ ~Active(a) \/ \E p \in Changers \ {q} :
                changes[p] # None /\ changes[p].kind \in {"assign", "revoke"})
  /\ UNCHANGED <<enabled, links, assignments, admin, cached, reads>>

(* Mutant: a query set writes the rows, and no signal is sent. *)
NotCleared == cached

(* The signals of a transaction, sent while it is open. *)
Cleared == None

ClearFirst(q) ==
  /\ At(q, "clear first")
  /\ cached' = Cleared
  /\ changes' = [changes EXCEPT ![q].step = "commit"]
  /\ UNCHANGED <<enabled, links, assignments, admin, reads, torn>>

CommitPut(q) ==
  /\ At(q, "commit") /\ changes[q].kind = "put"
  /\ enabled' = [enabled EXCEPT ![changes[q].role] = changes[q].on]
  /\ links' = IF changes[q].codes = None THEN links
              ELSE [links EXCEPT ![changes[q].role] = changes[q].codes]
  /\ changes' = [changes EXCEPT ![q] = None]
  /\ reads' = MarkReads
  /\ UNCHANGED <<assignments, admin, cached, torn>>

(* The locked assignment of the member is replaced and his membership saved; *)
(* when he had none, the constraint one_active_role_per_company_user lets    *)
(* one of two transactions commit.                                           *)
CommitAssign(q, a) ==
  /\ At(q, "commit") /\ changes[q].kind = "assign"
  /\ assignments[a] = None
  /\ assignments' = [x \in Assignments |->
       IF x = a THEN [role |-> changes[q].role, active |-> TRUE]
       ELSE IF Active(x) THEN [assignments[x] EXCEPT !.active = FALSE]
       ELSE assignments[x]]
  /\ admin' = (changes[q].role = CoOwner)
  /\ changes' = [changes EXCEPT ![q] = None]
  /\ reads' = MarkReads
  /\ torn' = (torn \/ \E p \in Changers \ {q} :
                changes[p] # None /\ changes[p].kind = "revoke")
  /\ UNCHANGED <<enabled, links, cached>>

(* The transaction is rolled back, or its process ends. *)
RollBack(q) ==
  /\ At(q, "clear first") \/ At(q, "commit")
  /\ changes' = [changes EXCEPT ![q] = None]
  /\ UNCHANGED <<enabled, links, assignments, admin, cached, reads, torn>>

(* A single statement commits, and its signal follows. *)
Save(q) ==
  /\ At(q, "save")
  /\ IF changes[q].kind = "disable"
     THEN /\ enabled' = [enabled EXCEPT ![changes[q].role] = FALSE]
          /\ UNCHANGED assignments
     ELSE /\ assignments' = [assignments EXCEPT ![changes[q].row].active = FALSE]
          /\ UNCHANGED enabled
  /\ changes' = [changes EXCEPT ![q].step = "clear"]
  /\ reads' = MarkReads
  /\ UNCHANGED <<links, admin, cached, torn>>

(* A revocation goes on to the membership. *)
ClearAfter(q) ==
  /\ At(q, "clear") \/ At(q, "clear last")
  /\ cached' = None
  /\ changes' = [changes EXCEPT
       ![q] = IF At(q, "clear") /\ @.kind = "revoke" THEN [@ EXCEPT !.step = "flag"]
              ELSE None]
  /\ UNCHANGED <<enabled, links, assignments, admin, reads, torn>>

ResetFlag(q) ==
  /\ At(q, "flag")
  /\ admin' = FALSE
  /\ changes' = [changes EXCEPT ![q].step = "clear last"]
  /\ reads' = MarkReads
  /\ UNCHANGED <<enabled, links, assignments, cached, torn>>

(* The process ends between two statements: the entry stays as it is. *)
Die(q) ==
  /\ At(q, "clear") \/ At(q, "flag") \/ At(q, "clear last")
  /\ changes' = [changes EXCEPT ![q] = None]
  /\ cached' = IF cached = None \/ At(q, "flag") THEN cached
               ELSE [cached EXCEPT !.mixed = TRUE]
  /\ torn' = (torn \/ changes[q].kind = "revoke")
  /\ UNCHANGED <<enabled, links, assignments, admin, reads>>

AccessNext ==
  \/ \E d \in Readers : Read(d) \/ SetEntry(d)
  \/ \E q \in Changers :
       \/ \E r \in Roles :
            \/ \E on \in BOOLEAN, codes \in (SUBSET Permissions) \cup {None} :
                 StartPut(q, r, on, codes)
            \/ StartDisable(q, r) \/ StartAssign(q, r)
       \/ \E a \in Assignments : StartRevoke(q, a) \/ CommitAssign(q, a)
       \/ ClearFirst(q) \/ CommitPut(q) \/ RollBack(q)
       \/ Save(q) \/ ClearAfter(q) \/ ResetFlag(q) \/ Die(q)
  \/ Expire

AccessSpec == AccessInit /\ [][AccessNext]_accessVars

-----------------------------------------------------------------------------
(* "full invalidation avoids stale privilege grants/revocations across role  *)
(* graphs" (signals.py:9): the entry is what the database holds, unless a    *)
(* change committed between its reading and its setting, a change has        *)
(* committed whose signal is still to come, or the entry was set while a     *)
(* change was between its signal and its commit.  Such an entry lives for    *)
(* half a minute.                                                            *)
EntryIsStored ==
  \/ cached = None \/ cached.mixed
  \/ \E q \in Changers : At(q, "clear") \/ At(q, "clear last")
  \/ cached.codes = Stored

(* The member is an administrator exactly while his role is co-owner, unless *)
(* an assignment was revoked that was not active, beside another change, or  *)
(* by a process that ended before it reset the flag.                         *)
AdminByRole ==
  \/ torn \/ \E q \in Changers : At(q, "clear") \/ At(q, "flag")
  \/ admin = (\E a \in Assignments : Active(a) /\ assignments[a].role = CoOwner)

AccessFollowsRoles == EntryIsStored /\ AdminByRole

-----------------------------------------------------------------------------
(* The rows, and what is assumed of the constants.                          *)
Assigned == [role : Roles, active : BOOLEAN]
Entries == [codes : SUBSET Permissions, mixed : BOOLEAN]
ChangeRows ==
  [kind : {"put", "disable", "assign", "revoke"},
   step : {"clear first", "commit", "save", "clear", "flag", "clear last"},
   role : Roles, on : BOOLEAN, codes : (SUBSET Permissions) \cup {None},
   row : Assignments \cup {None}]

AccessConstants == None \notin Assigned \cup Entries \cup ChangeRows

AccessTypeOK ==
  /\ links \in [Roles -> SUBSET Permissions]
  /\ assignments \in [Assignments -> Assigned \cup {None}]
  /\ admin \in BOOLEAN /\ torn \in BOOLEAN
  /\ cached \in Entries \cup {None}
  /\ changes \in [Changers -> ChangeRows \cup {None}]
  /\ reads \in [Readers -> Entries \cup {None}]

=============================================================================
