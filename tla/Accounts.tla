------------------------------ MODULE Accounts ------------------------------
(***************************************************************************)
(* How accounts and workspaces come to be: signing in with Google, the      *)
(* first workspace of a Google user, the sign-up form and the paid sign-up  *)
(* (which create their user), and invitations by e-mail, accepted with      *)
(* Google or with a password (src/apps/core/google_auth.py,                 *)
(* src/apps/core/onboard_views.py, src/apps/erp/onboarding.py).             *)
(*                                                                         *)
(* Each request is one transaction.  It finds its user among the rows that  *)
(* are committed; it writes him, waiting for transactions that have written *)
(* the same row or the same unique value; it may look for memberships; and  *)
(* it commits.  An answer that refuses commits as well what was written     *)
(* before it; a violated constraint rolls everything back.                  *)
(*                                                                         *)
(* A claim of Google is the id and the address of a Google account; the     *)
(* address of an account may change.  Left out: users who are switched off. *)
(*                                                                         *)
(* Definitions commented "Mutant:" are mistakes for the properties to find. *)
(***************************************************************************)
EXTENDS Naturals, FiniteSets

CONSTANTS
  Users,         \* primary keys of User
  Subs,          \* ids of Google accounts
  Emails,
  Invites,       \* rows of OrganizationInvitation, of one company
  Requests,      \* requests that can be under way at once
  MaxRequests,   \* bound on their number over time
  None

VARIABLES
  users,         \* address, user name (an address, or none) and Google id
  guests,        \* the active members of the company that invites
  members,       \* those of any other company
  invites,       \* address and state of each invitation
  reqs,          \* what each request under way has found and will write
  arrived,       \* how many requests have arrived
  founded,       \* history: how many companies each user founded by himself
                 \* since he last belonged to none
  confused,      \* history: users taken for, or linked to, another Google id
  joined,        \* history: how often each invitation was accepted
  raced          \* history: what requests overlapped on, see below

accountVars == <<users, members, guests, invites, reqs, arrived, founded,
                 confused, joined, raced>>

Exists(u) == users[u] # None
BySub(s) == {u \in Users : Exists(u) /\ users[u].sub = s}
ByEmail(e) == {u \in Users : Exists(u) /\ users[u].email = e}
ByName(e) == {u \in Users : Exists(u) /\ users[u].name = e}
OpenFor(e) == {i \in Invites : invites[i] # None /\ invites[i].email = e
                               /\ invites[i].state = "open"}

At(q, step) == reqs[q] # None /\ reqs[q].step = step
Others(q) == {p \in Requests \ {q} : reqs[p] # None}

AccountsInit ==
  /\ users = [u \in Users |-> None]
  /\ members = {} /\ guests = {}
  /\ invites = [i \in Invites |-> None]
  /\ reqs = [q \in Requests |-> None]
  /\ arrived = 0
  /\ founded = [u \in Users |-> 0]
  /\ confused = {}
  /\ joined = [i \in Invites |-> 0]
  /\ raced = {}

-----------------------------------------------------------------------------
Refuse(q) == reqs' = [reqs EXCEPT ![q] = None]
Found(q, r, u, act) ==
  reqs' = [reqs EXCEPT ![q] =
             [r EXCEPT !.step = "write", !.user = u, !.act = act,
                       !.row = IF act = "password" THEN users[u] ELSE None]]

(* Mutant: an address that is linked to another id is linked again. *)
LinkAnyway(u) == TRUE

MayLink(u) == users[u].sub = None

(* _find_or_create_user: by the Google id, whose new address is taken over    *)
(* unless another user has it; else by the address, and the id is linked; an *)
(* address that is linked to another id is refused.                          *)
FindByClaim(q, r) ==
  IF BySub(r.sub) # {}
  THEN \E u \in BySub(r.sub) :
         Found(q, r, u, IF users[u].email # r.email /\ ByEmail(r.email) = {}
                        THEN "address" ELSE "none")
  ELSE IF ByEmail(r.email) # {}
  THEN \E u \in ByEmail(r.email) : MayLink(u) /\ Found(q, r, u, "link")
  ELSE Found(q, r, None, "create")

(* The forms of the free and the paid sign-up refuse an address that has an   *)
(* account; an invitation accepted with a password gives it to its user.     *)
Forms == {"form", "paid"}

FindByAddress(q, r) ==
  IF ByEmail(r.email) = {} THEN Found(q, r, None, "create")
  ELSE /\ r.kind \notin Forms
       /\ \E u \in ByEmail(r.email) : Found(q, r, u, "password")

(* A user who is signed in needs no claim for his first workspace. *)
FindSignedIn(q, r) == \E u \in ByEmail(r.email) : Found(q, r, u, "none")

(* A request arrives, with a claim of Google (s, e), or with an address that  *)
(* a form or an invitation gives, and finds its user.  The form of the paid  *)
(* sign-up may name a Google id beside any address.  An invitation is locked *)
(* first, and must be open and for the address.                              *)
Locked(i) == \E p \in Requests : reqs[p] # None /\ reqs[p].invite = i

Request(kind, s, e, i) ==
  [kind |-> kind, sub |-> s, email |-> e, invite |-> i, step |-> "find",
   user |-> None, act |-> "none", row |-> None, holds |-> {}, seen |-> {}]

Arrive(q, kind, s, e, i) ==
  /\ reqs[q] = None /\ arrived < MaxRequests /\ arrived' = arrived + 1
  /\ kind = "signin" => s # None
  /\ kind = "form" => s = None
  /\ IF kind = "join" THEN i # None ELSE i = None
  /\ i # None => i \in OpenFor(e) /\ ~Locked(i)
  /\ CASE kind \in Forms \/ (kind = "join" /\ s = None) ->
            FindByAddress(q, Request(kind, s, e, i))
       [] kind = "onboard" /\ s = None -> FindSignedIn(q, Request(kind, s, e, i))
       [] kind \notin Forms /\ s # None -> FindByClaim(q, Request(kind, s, e, i))
  /\ UNCHANGED <<users, members, guests, invites, founded, confused, joined, raced>>

-----------------------------------------------------------------------------
(* The rows and unique values a write locks until its transaction ends. *)
Needs(r) ==
  CASE r.act = "none"     -> {}
    [] r.act = "password" -> {r.user}
    [] r.act = "address"  -> {r.user, r.email}
    [] r.act = "link"     -> {r.user, r.sub}
    [] r.act = "create"   -> {r.email, r.sub} \ {None}

Free(q) == \A p \in Others(q) : reqs[p].holds \cap Needs(reqs[q]) = {}

Wrote(q, u, row) ==
  /\ reqs' = [reqs EXCEPT ![q].step = "check", ![q].user = u, ![q].row = row,
                          ![q].holds = Needs(reqs[q]) \cup {u}]
  /\ confused' = IF Exists(u) /\ users[u].sub \notin {None, row.sub}
                 THEN confused \cup {u} ELSE confused

Linked(u, s) == [users[u] EXCEPT !.sub = s]

(* get_or_create returns the user who took the address: he is still to be    *)
(* linked if he has no Google id, and is signed in whatever his Google id is. *)
Returned(q, v) ==
  IF users[v].sub = None
  THEN /\ reqs' = [reqs EXCEPT ![q].user = v, ![q].act = "link"]
       /\ UNCHANGED confused
  ELSE /\ reqs' = [reqs EXCEPT ![q].step = "check", ![q].user = v]
       /\ confused' = IF users[v].sub # reqs[q].sub THEN confused \cup {v} ELSE confused

(* The write meets what has been committed since: a unique value that is     *)
(* taken ends it, unless get_or_create finds the user who took the address.  *)
Write(q) ==
  LET r == reqs[q]
      u == reqs[q].user
      taken == \/ r.act = "address" /\ ByEmail(r.email) # {}
               \/ r.act = "link" /\ BySub(r.sub) # {}
  IN
  /\ At(q, "write") /\ Free(q)
  /\ CASE r.act = "none" ->
            /\ reqs' = [reqs EXCEPT ![q].step = "check"]
            /\ UNCHANGED confused
       [] r.act \in {"address", "link"} /\ taken ->
            Refuse(q) /\ UNCHANGED confused
       [] r.act = "address" /\ ~taken -> Wrote(q, u, [users[u] EXCEPT !.email = r.email])
       [] r.act = "link" /\ ~taken -> Wrote(q, u, Linked(u, r.sub))
       [] r.act = "password" -> Wrote(q, u, r.row)
       [] r.act = "create" /\ ByEmail(r.email) # {} ->
            IF r.kind \in Forms \/ r.sub = None THEN Refuse(q) /\ UNCHANGED confused
            ELSE \E v \in ByEmail(r.email) : Returned(q, v)
       [] r.act = "create" /\ ByEmail(r.email) = {} ->
            LET name == IF r.kind \in Forms THEN None ELSE r.email
            IN  IF (name # None /\ ByName(name) # {}) \/ (r.sub # None /\ BySub(r.sub) # {})
                THEN Refuse(q) /\ UNCHANGED confused
                ELSE \E v \in Users :
                       /\ ~Exists(v) /\ \A p \in Others(q) : v \notin reqs[p].holds
                       /\ Wrote(q, v, [email |-> r.email, name |-> name, sub |-> r.sub])
  /\ UNCHANGED <<arrived, users, members, guests, invites, founded, joined, raced>>

-----------------------------------------------------------------------------
Committed(r) == IF r.row = None THEN users ELSE [users EXCEPT ![r.user] = r.row]

(* History: users that another request found, or missed, before this commit. *)
MetBy(q) ==
  LET r == reqs[q]
  IN  IF r.row # None /\ \E p \in Others(q) : /\ reqs[p].step = "write"
                          /\ \/ reqs[p].user = r.user
                             \/ reqs[p].email = r.row.email
      THEN {r.user} ELSE {}

(* "Prevent duplicate company creation from the onboard endpoint." *)
HasCompany(u) == u \in members \cup guests

(* What is left to do; a user who has a company is refused, and what was     *)
(* written of him is committed.                                              *)
Check(q) ==
  /\ At(q, "check")
  /\ IF reqs[q].kind = "signin" \/ (reqs[q].kind = "onboard" /\ HasCompany(reqs[q].user))
     THEN /\ users' = Committed(reqs[q])
          /\ Refuse(q)
          /\ raced' = raced \cup MetBy(q)
     ELSE /\ reqs' = [reqs EXCEPT ![q].step = "commit"]
          /\ raced' = IF reqs[q].kind = "onboard" /\ \E p \in Others(q) :
                           /\ reqs[p].kind = "onboard" /\ reqs[p].step = "commit"
                           /\ reqs[p].user = reqs[q].user
                      THEN raced \cup {<<"onboard", reqs[q].user>>} ELSE raced
          /\ UNCHANGED users
  /\ UNCHANGED <<arrived, members, guests, invites, founded, confused, joined>>

Founds(q) ==
  /\ users' = Committed(reqs[q])
  /\ members' = members \cup {reqs[q].user}
  /\ founded' = [founded EXCEPT ![reqs[q].user] = @ + 1]
  /\ Refuse(q)
  /\ raced' = raced \cup MetBy(q)
  /\ UNCHANGED <<arrived, guests, invites, confused, joined>>

(* create_company_workspace *)
FoundCompany(q) ==
  At(q, "commit") /\ reqs[q].kind \in {"form", "onboard"} /\ Founds(q)

(* RazorpayOnboardVerifyView.post: the workspace that has been paid for. *)
FoundPaidCompany(q) == At(q, "commit") /\ reqs[q].kind = "paid" /\ Founds(q)

(* _accept_invitation *)
Join(q) ==
  /\ At(q, "commit") /\ reqs[q].kind = "join"
  /\ users' = Committed(reqs[q])
  /\ invites' = [invites EXCEPT ![reqs[q].invite].state = "closed"]
  /\ guests' = guests \cup {reqs[q].user}
  /\ joined' = [joined EXCEPT ![reqs[q].invite] = @ + 1]
  /\ Refuse(q)
  /\ raced' = raced \cup MetBy(q)
  /\ UNCHANGED <<arrived, members, founded, confused>>

(* The process ends, or the database refuses. *)
RollBack(q) ==
  /\ reqs[q] # None
  /\ Refuse(q)
  /\ UNCHANGED <<arrived, users, members, guests, invites, founded, confused, joined, raced>>

-----------------------------------------------------------------------------
(* AddCompanyView: the platform gives a user another company. *)
AddCompany(u) ==
  /\ Exists(u)
  /\ members' = members \cup {u}
  /\ UNCHANGED <<arrived, users, guests, invites, reqs, founded, confused, joined, raced>>

(* A membership ends: the platform puts another administrator in the place   *)
(* of one, the owner too (PlatformTenantDetailView.patch), or the company    *)
(* switches a member off.                                                    *)
EndMembership(u) ==
  /\ \/ u \in members /\ members' = members \ {u} /\ UNCHANGED guests
     \/ u \in guests /\ guests' = guests \ {u} /\ UNCHANGED members
  /\ founded' = IF u \in members' \cup guests' THEN founded ELSE [founded EXCEPT ![u] = 0]
  /\ UNCHANGED <<arrived, users, invites, reqs, confused, joined, raced>>

(* _create_invitation: not for an active member.  The role it names, changes *)
(* or makes is left out (module Access has roles).  The open invitations of  *)
(* the address are deleted; those of a transaction that has not committed    *)
(* are not seen.                                                             *)
StartInvite(q, e) ==
  /\ reqs[q] = None /\ arrived < MaxRequests /\ arrived' = arrived + 1
  /\ ByEmail(e) \cap guests = {}
  /\ reqs' = [reqs EXCEPT ![q] = [Request("invite", None, e, None) EXCEPT
                                        !.step = "replace", !.seen = OpenFor(e)]]
  /\ raced' = IF \E p \in Others(q) : At(p, "replace") /\ reqs[p].email = e
              THEN raced \cup {e} ELSE raced
  /\ UNCHANGED <<users, members, guests, invites, founded, confused, joined>>

Spared(q, j) == j \notin reqs[q].seen \/ invites[j].state # "open"

Invite(q, i) ==
  /\ At(q, "replace") /\ invites[i] = None
  /\ \A j \in reqs[q].seen : ~Locked(j)
  /\ invites' = [j \in Invites |->
       IF j = i THEN [email |-> reqs[q].email, state |-> "open"]
       ELSE IF invites[j] = None \/ Spared(q, j) THEN invites[j]
       ELSE [invites[j] EXCEPT !.state = "closed"]]
  /\ Refuse(q)
  /\ UNCHANGED <<arrived, users, members, guests, founded, confused, joined, raced>>

(* OrganizationInvitationView.delete, whatever the state of the invitation. *)
Revoke(i) ==
  /\ invites[i] # None /\ ~Locked(i)
  /\ invites' = [invites EXCEPT ![i].state = "closed"]
  /\ UNCHANGED <<arrived, users, members, guests, reqs, founded, confused, joined, raced>>

AccountsNext ==
  \/ \E q \in Requests :
       \/ \E kind \in {"signin", "onboard", "form", "paid", "join"}, s \in Subs \cup {None},
            e \in Emails, i \in Invites \cup {None} : Arrive(q, kind, s, e, i)
       \/ Write(q) \/ Check(q) \/ FoundCompany(q) \/ FoundPaidCompany(q) \/ Join(q) \/ RollBack(q)
       \/ \E e \in Emails : StartInvite(q, e)
       \/ \E i \in Invites : Invite(q, i)
  \/ \E u \in Users : AddCompany(u) \/ EndMembership(u)
  \/ \E i \in Invites : Revoke(i)

AccountsSpec == AccountsInit /\ [][AccountsNext]_accountVars

-----------------------------------------------------------------------------
(* "Google OAuth2 subject identifier (sub claim). Immutable once set."       *)
(* (models.py:108): a user keeps his Google id and is signed in with no      *)
(* other, unless a request found him, or missed him, before another that     *)
(* wrote him committed.                                                      *)
GoogleIdKept == confused \subseteq raced

(* "Prevent duplicate company creation from the onboard endpoint."           *)
(* (google_auth.py:348): a user founds no second company by himself before   *)
(* all his memberships have ended, unless two of his requests overlapped.    *)
OneCompanyEach ==
  \A u \in Users : <<"onboard", u>> \in raced \/ founded[u] <= 1

(* "This invitation is single-use" (google_auth.py:621): an invitation is    *)
(* accepted once, and only the last one of an address is open, unless two    *)
(* for the same address were made at once.                                   *)
LastInvitationOnce ==
  /\ \A i \in Invites : joined[i] <= 1
  /\ \A e \in Emails : e \in raced \/ Cardinality(OpenFor(e)) <= 1

AccountsHold == GoogleIdKept /\ OneCompanyEach /\ LastInvitationOnce

-----------------------------------------------------------------------------
(* The rows, and what is assumed of the constants.                          *)
UserRows == [email : Emails, name : Emails \cup {None}, sub : Subs \cup {None}]
InviteRows == [email : Emails, state : {"open", "closed"}]
RequestRows ==
  [kind : {"signin", "onboard", "form", "paid", "join", "invite"},
   sub : Subs \cup {None}, email : Emails, invite : Invites \cup {None},
   step : {"find", "write", "check", "commit", "replace"}, user : Users \cup {None},
   act : {"none", "password", "address", "link", "create"},
   row : UserRows \cup {None}, holds : SUBSET (Users \cup Emails \cup Subs \cup {None}),
   seen : SUBSET Invites]

AccountsConstants ==
  None \notin Users \cup Emails \cup Subs \cup Invites
              \cup UserRows \cup InviteRows \cup RequestRows

AccountsTypeOK ==
  /\ users \in [Users -> UserRows \cup {None}]
  /\ members \subseteq Users /\ guests \subseteq Users
  /\ invites \in [Invites -> InviteRows \cup {None}]
  /\ reqs \in [Requests -> RequestRows \cup {None}]
  /\ founded \in [Users -> Nat]
  /\ joined \in [Invites -> Nat]

(* A user whom a request makes is known to this request only; a form always  *)
(* makes one.                                                                *)
Writing(q) == At(q, "check") \/ At(q, "commit")

=============================================================================
