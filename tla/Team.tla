-------------------------------- MODULE Team --------------------------------
(***************************************************************************)
(* Who works in a company: memberships, their roles, and the invitations    *)
(* through which people come in (src/apps/reference_erp/team.py, the user   *)
(* commands of views.py, the administrator change of platform_views.py).    *)
(*                                                                         *)
(* The team screens hold the company's row lock, so their handlers are one  *)
(* step each; accepting an invitation finds the invitation before it has    *)
(* the lock, and reads it again after.  There are other doors (Doors): the  *)
(* sign-up view and the e-mail invitation of src/apps/core, which take no   *)
(* lock, and the platform's own administrators.                             *)
(*                                                                         *)
(* Whether an actor is authorized is decided when the request arrives, and  *)
(* may have changed when the lock is granted: here any person may act.  A   *)
(* handler may also refuse for reasons outside the model (an inactive       *)
(* company, a retired role); it then changes nothing.                       *)
(*                                                                         *)
(* Definitions commented "Mutant:" are mistakes for the properties to find. *)
(***************************************************************************)
EXTENDS Naturals, FiniteSets

CONSTANTS
  People, Owner,    \* persons, and the one who owns the company
  Invitations,      \* ids that invitations can be given
  Roles,            \* roles that can be granted, "co-owner" among them
  Seats,            \* user_limit of the company's plan
  MaxLinks,         \* bound on the links sent for one invitation
  Doors,            \* the other doors that are used
  None

ASSUME TeamAssumption ==
  /\ IsFiniteSet(People) /\ Owner \in People /\ None \notin People \cup Invitations
  /\ "co-owner" \in Roles /\ "owner" \notin Roles
  /\ Seats \in Nat \ {0} /\ MaxLinks \in Nat \ {0}
  /\ Doors \subseteq {"sign-up", "mail", "platform"}

VARIABLES
  member,       \* status of each membership, and whether it is an admin's
  roles,        \* active role assignments of each person
  assigned,     \* role assignments ever made to each person: none, one, several
  invitation,   \* status, role, newest link of each invitation, and whether
                \*   that link has expired
  message,      \* state of the message that carries each link
  following,    \* the link each person has open
  signing       \* persons whom the sign-up view found a seat for

vars == <<member, roles, assigned, invitation, message, following, signing>>
memberVars == <<member, roles, assigned>>

-----------------------------------------------------------------------------
AllRoles == Roles \cup {"owner"}
MemberStatuses == {"none", "active", "inactive"}
MessageStates == {"none", "not configured", "queued", "sending", "sent", "unknown",
                  "cancelled"}
Members == [status : MemberStatuses, admin : BOOLEAN]
NoMember == [status |-> "none", admin |-> FALSE]
Absent == [status |-> "absent", role |-> None, link |-> 0, expired |-> FALSE]
InvitationRows ==
  [status : {"pending", "accepted", "revoked"}, role : Roles,
   link : 1..MaxLinks, expired : BOOLEAN]

Admin == [status |-> "active", admin |-> TRUE]

Active == {p \in People : member[p].status = "active"}
SeatFree == Cardinality(Active) < Seats

(* create_company_workspace: the owner, with the owner role. *)
Init ==
  /\ member = [p \in People |-> IF p = Owner THEN Admin ELSE NoMember]
  /\ roles = [p \in People |-> IF p = Owner THEN {"owner"} ELSE {}]
  /\ assigned = [p \in People |-> IF p = Owner THEN "one" ELSE "none"]
  /\ invitation = [i \in Invitations |-> Absent]
  /\ message = [i \in Invitations |-> [n \in 1..MaxLinks |-> "none"]]
  /\ following = [p \in People |-> None]
  /\ signing = {}

-----------------------------------------------------------------------------
(* Mutant: the message with the old link stays in the queue. *)
SendLinkKeeping(i, r) ==
  LET n == invitation[i].link
  IN  /\ n < MaxLinks
      /\ invitation' = [invitation EXCEPT ![i] =
           [status |-> "pending", role |-> r, link |-> n + 1, expired |-> FALSE]]
      /\ \E s \in {"queued", "not configured"} :
           message' = [message EXCEPT ![i][n + 1] = s]

(* A link that has not left yet is not sent any more. *)
Withdraw(i, n) ==
  IF n > 0 /\ message[i][n] = "queued"
  THEN [message[i] EXCEPT ![n] = "cancelled"] ELSE message[i]

(* send_invitation: a new link replaces the old one, and goes to the queue  *)
(* when a provider and a phone are there.                                   *)
SendLink(i, r) ==
  LET n == invitation[i].link
  IN  /\ n < MaxLinks
      /\ invitation' = [invitation EXCEPT ![i] =
           [status |-> "pending", role |-> r, link |-> n + 1, expired |-> FALSE]]
      /\ \E s \in {"queued", "not configured"} :
           message' = [message EXCEPT ![i] = [Withdraw(i, n) EXCEPT ![n + 1] = s]]

Invite(i, r) ==
  /\ invitation[i] = Absent
  /\ SeatFree
  /\ SendLink(i, r)
  /\ UNCHANGED <<memberVars, following, signing>>

Resend(i) ==
  /\ invitation[i].status = "pending"
  /\ SendLink(i, invitation[i].role)
  /\ UNCHANGED <<memberVars, following, signing>>

Revoke(i) ==
  /\ invitation[i].status = "pending"
  /\ invitation' = [invitation EXCEPT ![i].status = "revoked"]
  /\ message' = [message EXCEPT ![i] = Withdraw(i, invitation[i].link)]
  /\ UNCHANGED <<memberVars, following, signing>>

(* Seven days pass. *)
Expire(i) ==
  /\ invitation[i].status = "pending" /\ ~invitation[i].expired
  /\ invitation' = [invitation EXCEPT ![i].expired = TRUE]
  /\ UNCHANGED <<memberVars, message, following, signing>>

(* process_erp_outbox takes a queued message, and delivers it outside the   *)
(* transaction; if it cannot tell whether it did, it leaves it at that.     *)
PickMessage(i, n) ==
  /\ message[i][n] = "queued"
  /\ message' = [message EXCEPT ![i][n] = "sending"]
  /\ UNCHANGED <<memberVars, invitation, following, signing>>

DeliverMessage(i, n) ==
  /\ message[i][n] = "sending"
  /\ \E s \in {"sent", "unknown"} : message' = [message EXCEPT ![i][n] = s]
  /\ UNCHANGED <<memberVars, invitation, following, signing>>

-----------------------------------------------------------------------------
(* A link leads to its invitation while that is pending and unexpired. *)
Leads(i, n) ==
  /\ invitation[i].status = "pending"
  /\ ~invitation[i].expired
  /\ invitation[i].link = n

(* A new assignment becomes the only active one of p. *)
Granted(p, r) ==
  /\ roles' = [roles EXCEPT ![p] = {r}]
  /\ assigned' = [assigned EXCEPT ![p] = IF @ = "none" THEN "one" ELSE "several"]

(* get_or_create: no new assignment if r is the one that p has. *)
Ensured(p, r) ==
  IF roles[p] = {r} THEN UNCHANGED <<roles, assigned>> ELSE Granted(p, r)

(* The first look at the invitation, before the company is locked. *)
Follow(p, i) ==
  /\ following[p] = None
  /\ Leads(i, invitation[i].link)
  /\ following' = [following EXCEPT ![p] = [invitation |-> i, link |-> invitation[i].link]]
  /\ UNCHANGED <<memberVars, invitation, message, signing>>

(* The person becomes a member, or has the membership changed, according to *)
(* the invitation.  update_or_create fails on a person who was assigned     *)
(* several roles, and with it the acceptance.                               *)
Join(p, i) ==
  /\ assigned[p] # "several"
  /\ member' = [member EXCEPT ![p] =
       [status |-> "active", admin |-> invitation[i].role = "co-owner"]]
  /\ roles' = [roles EXCEPT ![p] = {invitation[i].role}]
  /\ assigned' = [assigned EXCEPT ![p] = "one"]
  /\ invitation' = [invitation EXCEPT ![i].status = "accepted"]
  /\ following' = [following EXCEPT ![p] = None]
  /\ UNCHANGED <<message, signing>>

(* Mutant: the invitation is not read again under the lock. *)
AcceptUnread(p) ==
  /\ following[p] # None
  /\ SeatFree
  /\ Join(p, following[p].invitation)

(* Mutant: no seat is looked for when the invitation is accepted. *)
AcceptUncounted(p) ==
  /\ following[p] # None
  /\ Leads(following[p].invitation, following[p].link)
  /\ Join(p, following[p].invitation)

(* InvitationAcceptView.post, once it holds the lock. *)
Accept(p) ==
  /\ following[p] # None
  /\ Leads(following[p].invitation, following[p].link)
  /\ SeatFree
  /\ Join(p, following[p].invitation)

(* The acceptance is refused, or never sent. *)
LeaveLink(p) ==
  /\ following[p] # None
  /\ following' = [following EXCEPT ![p] = None]
  /\ UNCHANGED <<memberVars, invitation, message, signing>>

-----------------------------------------------------------------------------
(* Mutant: the administrator flag is left as it was. *)
ChangeRoleOnly(a, p, r) ==
  /\ member[p].status # "none"
  /\ p \notin {a, Owner}
  /\ Granted(p, r)
  /\ UNCHANGED <<member, invitation, message, following, signing>>

(* MemberRoleView: person a gives p the role r. *)
ChangeRole(a, p, r) ==
  /\ member[p].status # "none"
  /\ p \notin {a, Owner}
  /\ Granted(p, r)
  /\ member' = [member EXCEPT ![p].admin = r = "co-owner"]
  /\ UNCHANGED <<invitation, message, following, signing>>

(* user-toggle: person a switches the membership of p off or on. *)
Toggle(a, p) ==
  /\ p \notin {a, Owner}
  /\ \/ member[p].status = "active" /\ member' = [member EXCEPT ![p].status = "inactive"]
     \/ /\ member[p].status = "inactive"
        /\ SeatFree
        /\ member' = [member EXCEPT ![p].status = "active"]
  /\ UNCHANGED <<roles, assigned, invitation, message, following, signing>>

(* PlatformTenantDetailView.patch with another administrator's phone: p     *)
(* becomes an administrator in place of a, if there was one.  No seat is    *)
(* counted.                                                                 *)
ReplaceAdmin(p) ==
  /\ "platform" \in Doors
  /\ \E a \in (People \ {p}) \cup {None} :
       /\ IF a = None THEN \A q \in People : member[q] # Admin ELSE member[a] = Admin
       /\ member' = [q \in People |->
            IF q = p THEN Admin
            ELSE IF q = a THEN [status |-> "inactive", admin |-> FALSE]
            ELSE member[q]]
  /\ Ensured(p, "owner")
  /\ UNCHANGED <<invitation, message, following, signing>>

-----------------------------------------------------------------------------
(* SignupView, without a lock: it counts the seats and later adds the new   *)
(* user.                                                                    *)
CountSeats(p) ==
  /\ "sign-up" \in Doors
  /\ member[p].status = "none" /\ p \notin signing
  /\ SeatFree
  /\ signing' = signing \cup {p}
  /\ UNCHANGED <<memberVars, invitation, message, following>>

SignUp(p) ==
  /\ p \in signing
  /\ signing' = signing \ {p}
  /\ member' = IF member[p].status = "none"
               THEN [member EXCEPT ![p].status = "active"] ELSE member
  /\ UNCHANGED <<roles, assigned, invitation, message, following>>

(* An e-mail invitation is accepted: no seat is counted, and the            *)
(* administrator flag of an old membership stays as it was.                 *)
AcceptMail(p, r) ==
  /\ "mail" \in Doors
  /\ member' = [member EXCEPT ![p].status = "active"]
  /\ IF r = None THEN UNCHANGED <<roles, assigned>> ELSE Ensured(p, r)
  /\ UNCHANGED <<invitation, message, following, signing>>

Next ==
  \/ \E i \in Invitations, r \in Roles : Invite(i, r)
  \/ \E i \in Invitations : Resend(i) \/ Revoke(i) \/ Expire(i)
  \/ \E i \in Invitations, n \in 1..MaxLinks : PickMessage(i, n) \/ DeliverMessage(i, n)
  \/ \E p \in People, i \in Invitations : Follow(p, i)
  \/ \E p \in People : Accept(p) \/ LeaveLink(p)
  \/ \E a, p \in People, r \in Roles : ChangeRole(a, p, r)
  \/ \E a, p \in People : Toggle(a, p)
  \/ \E p \in People : ReplaceAdmin(p) \/ CountSeats(p) \/ SignUp(p)
  \/ \E p \in People, r \in Roles \cup {None} : AcceptMail(p, r)

Spec == Init /\ [][Next]_vars

-----------------------------------------------------------------------------
TypeOK ==
  /\ member \in [People -> Members]
  /\ roles \in [People -> SUBSET AllRoles]
  /\ assigned \in [People -> {"none", "one", "several"}]
  /\ invitation \in [Invitations -> InvitationRows \cup {Absent}]
  /\ message \in [Invitations -> [1..MaxLinks -> MessageStates]]
  /\ following \in
       [People -> [invitation : Invitations, link : 1..MaxLinks] \cup {None}]
  /\ signing \subseteq People

(* Acceptances and switched-on members never take more seats than the plan  *)
(* has, although an invitation is sent long before its seat is taken.  (The *)
(* team screens keep this; no other door does.)                             *)
SeatsWithinPlan == Cardinality(Active) <= Seats

(* The administrator flag of a membership and its role are stored apart and *)
(* written by different handlers: an administrator always has the role of   *)
(* one, and a member who was given another role is none.                    *)
AdminsHoldAdminRole ==
  \A p \in People : member[p].admin => roles[p] \in {{"owner"}, {"co-owner"}}

(* However roles are changed, a person has one active role at most. *)
OneRoleEach == \A p \in People : Cardinality(roles[p]) <= 1

(* Both: what is stored of a member's rights, in three places, agrees. *)
RolesAgree == OneRoleEach /\ AdminsHoldAdminRole

(* A message waiting in the queue carries the newest link of its            *)
(* invitation, and that invitation was not revoked.                         *)
QueuedLinkCurrent ==
  \A i \in Invitations, n \in 1..MaxLinks : message[i][n] = "queued" =>
    /\ n = invitation[i].link
    /\ invitation[i].status \in {"pending", "accepted"}

(* An invitation ends once: no acceptance under way revives a revoked one,  *)
(* accepts it a second time or comes in through a link that was replaced.   *)
InvitationsEndOnce ==
  [][\A i \in Invitations :
       /\ invitation[i].status \in {"accepted", "revoked"} =>
            invitation'[i].status = invitation[i].status
       /\ \A p \in People :
            /\ following[p] # None /\ following[p].invitation = i
            /\ following'[p] = None /\ roles'[p] # roles[p]
            => following[p].link = invitation[i].link]_vars

(* What APPROVED_WORKFLOW.md says of invitations: the active members and    *)
(* the pending invitations fit the seats together.                          *)
InvitationsHaveSeats ==
  Cardinality(Active)
    + Cardinality({i \in Invitations : invitation[i].status = "pending" /\ ~invitation[i].expired})
  <= Seats

=============================================================================
