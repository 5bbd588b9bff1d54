----------------------------- MODULE TeamProofs -----------------------------
(***************************************************************************)
(* Proofs about module Team: what holds for any number of people,           *)
(* invitations, roles and seats.                                            *)
(*                                                                         *)
(* Roles and the administrator flag are a matter of the steps that write    *)
(* memberships, the seats of the steps that make somebody active; the lemma *)
(* MemberSteps sorts the steps by what they do to memberships, so that the  *)
(* ones that only move invitations and messages are dealt with once.        *)
(***************************************************************************)
EXTENDS Team, FiniteSetTheorems, TLAPS

(* The steps that leave memberships and roles as they are. *)
MembersStay == UNCHANGED <<member, roles>>

(* Either nobody's membership changes, or one of the handlers that write    *)
(* memberships ran.                                                         *)
LEMMA MemberSteps ==
  ASSUME [Next]_vars
  PROVE  \/ MembersStay
         \/ \E p \in People : Accept(p)
         \/ \E a, p \in People, r \in Roles : ChangeRole(a, p, r)
         \/ \E a, p \in People : Toggle(a, p)
         \/ \E p \in People : ReplaceAdmin(p) \/ SignUp(p)
         \/ \E p \in People, r \in Roles \cup {None} : AcceptMail(p, r)
<1>1. CASE UNCHANGED vars
  BY <1>1 DEF vars, MembersStay
<1>2. CASE \E i \in Invitations, r \in Roles : Invite(i, r)
  BY <1>2 DEF Invite, MembersStay, memberVars
<1>3. CASE \E i \in Invitations : Resend(i) \/ Revoke(i) \/ Expire(i)
  BY <1>3 DEF Resend, Revoke, Expire, MembersStay, memberVars
<1>4. CASE \E i \in Invitations, n \in 1..MaxLinks : PickMessage(i, n) \/ DeliverMessage(i, n)
  BY <1>4 DEF PickMessage, DeliverMessage, MembersStay, memberVars
<1>5. CASE \E p \in People, i \in Invitations : Follow(p, i)
  BY <1>5 DEF Follow, MembersStay, memberVars
<1>6. CASE \E p \in People : LeaveLink(p) \/ CountSeats(p)
  BY <1>6 DEF LeaveLink, CountSeats, MembersStay, memberVars
<1> QED
  BY <1>1, <1>2, <1>3, <1>4, <1>5, <1>6 DEF Next

-----------------------------------------------------------------------------
(* Memberships, roles and invitations are well-formed.  Links and messages  *)
(* need not be for what follows.                                            *)
RowsTyped ==
  /\ member \in [People -> Members]
  /\ roles \in [People -> SUBSET AllRoles]
  /\ invitation \in [Invitations -> InvitationRows \cup {Absent}]
  /\ following \in
       [People -> [invitation : Invitations, link : 1..MaxLinks] \cup {None}]

LEMMA RowsInit == Init => RowsTyped
BY TeamAssumption
   DEF Init, RowsTyped, Members, MemberStatuses, Admin, NoMember, AllRoles

(* The role of an invitation that is there can be granted. *)
LEMMA InvitationRole ==
  ASSUME RowsTyped, NEW i \in Invitations, invitation[i].status = "pending"
  PROVE  invitation[i] \in InvitationRows /\ invitation[i].role \in Roles
BY DEF RowsTyped, Absent, InvitationRows

(* A link that is open belongs to an invitation. *)
LEMMA OpenLink ==
  ASSUME RowsTyped, NEW p \in People, following[p] # None
  PROVE  /\ following[p].invitation \in Invitations
         /\ following[p].link \in 1..MaxLinks
BY DEF RowsTyped

LEMMA MembersTyped ==
  ASSUME RowsTyped, [Next]_vars
  PROVE  member' \in [People -> Members] /\ roles' \in [People -> SUBSET AllRoles]
<1> USE DEF Members, MemberStatuses, AllRoles
<1>1. CASE MembersStay
  BY <1>1 DEF MembersStay, RowsTyped
<1>2. ASSUME NEW p \in People, Accept(p)
      PROVE  member' \in [People -> Members] /\ roles' \in [People -> SUBSET AllRoles]
  <2> DEFINE i == following[p].invitation
  <2>1. i \in Invitations /\ invitation[i].status = "pending"
    BY <1>2, OpenLink DEF Accept, Leads
  <2>2. invitation[i].role \in Roles
    BY <2>1, InvitationRole
  <2> QED
    BY <1>2, <2>2 DEF Accept, Join, RowsTyped
<1>3. ASSUME NEW a \in People, NEW p \in People, NEW r \in Roles, ChangeRole(a, p, r)
      PROVE  member' \in [People -> Members] /\ roles' \in [People -> SUBSET AllRoles]
  <2>1. roles' \in [People -> SUBSET AllRoles]
    BY <1>3 DEF ChangeRole, Granted, RowsTyped
  <2>2. \A b \in BOOLEAN : [member[p] EXCEPT !.admin = b] \in Members
    BY DEF RowsTyped
  <2>3. member' = [member EXCEPT ![p].admin = (r = "co-owner")] /\ (r = "co-owner") \in BOOLEAN
    BY <1>3 DEF ChangeRole
  <2>4. member' \in [People -> Members]
    BY <2>2, <2>3 DEF RowsTyped
  <2> QED
    BY <2>1, <2>4
<1>4. ASSUME NEW a \in People, NEW p \in People, Toggle(a, p)
      PROVE  member' \in [People -> Members] /\ roles' \in [People -> SUBSET AllRoles]
  BY <1>4 DEF Toggle, RowsTyped
<1>5. ASSUME NEW p \in People, ReplaceAdmin(p)
      PROVE  member' \in [People -> Members] /\ roles' \in [People -> SUBSET AllRoles]
  BY <1>5 DEF ReplaceAdmin, Admin, Ensured, Granted, RowsTyped
<1>6. ASSUME NEW p \in People, SignUp(p)
      PROVE  member' \in [People -> Members] /\ roles' \in [People -> SUBSET AllRoles]
  BY <1>6 DEF SignUp, RowsTyped
<1>7. ASSUME NEW p \in People, NEW r \in Roles \cup {None}, AcceptMail(p, r)
      PROVE  member' \in [People -> Members] /\ roles' \in [People -> SUBSET AllRoles]
  BY <1>7 DEF AcceptMail, Ensured, Granted, RowsTyped
<1> QED
  BY <1>1, <1>2, <1>3, <1>4, <1>5, <1>6, <1>7, MemberSteps

(* What a new link leaves of the invitations. *)
LEMMA SendLinkTyped ==
  ASSUME RowsTyped, NEW i \in Invitations, NEW r \in Roles, SendLink(i, r)
  PROVE  invitation' \in [Invitations -> InvitationRows \cup {Absent}]
<1>1. invitation[i].link \in 0..MaxLinks
  BY TeamAssumption DEF RowsTyped, Absent, InvitationRows
<1>2. invitation[i].link < MaxLinks
  BY DEF SendLink
<1>3. \A n \in 0..MaxLinks : n < MaxLinks => n + 1 \in 1..MaxLinks
  BY TeamAssumption
<1>4. invitation[i].link + 1 \in 1..MaxLinks
  BY <1>1, <1>2, <1>3
<1> QED
  BY <1>4 DEF SendLink, RowsTyped, InvitationRows

LEMMA InvitationsTyped ==
  ASSUME RowsTyped, [Next]_vars
  PROVE  invitation' \in [Invitations -> InvitationRows \cup {Absent}]
<1> DEFINE Kept == invitation' = invitation
<1>1. CASE Kept
  BY <1>1 DEF RowsTyped
<1>2. ASSUME NEW i \in Invitations, NEW r \in Roles, Invite(i, r)
      PROVE  invitation' \in [Invitations -> InvitationRows \cup {Absent}]
  BY <1>2, SendLinkTyped DEF Invite
<1>3. ASSUME NEW i \in Invitations, Resend(i)
      PROVE  invitation' \in [Invitations -> InvitationRows \cup {Absent}]
  BY <1>3, SendLinkTyped, InvitationRole DEF Resend
<1>4. ASSUME NEW i \in Invitations, Revoke(i) \/ Expire(i)
      PROVE  invitation' \in [Invitations -> InvitationRows \cup {Absent}]
  <2>1. invitation[i] \in InvitationRows
    BY <1>4, InvitationRole DEF Revoke, Expire
  <2>2. CASE Revoke(i)
    <3>1. [invitation[i] EXCEPT !.status = "revoked"] \in InvitationRows
      BY <2>1 DEF InvitationRows
    <3> QED
      BY <2>2, <3>1 DEF Revoke, RowsTyped
  <2>3. CASE Expire(i)
    <3>1. [invitation[i] EXCEPT !.expired = TRUE] \in InvitationRows
      BY <2>1 DEF InvitationRows
    <3> QED
      BY <2>3, <3>1 DEF Expire, RowsTyped
  <2> QED
    BY <1>4, <2>2, <2>3
<1>5. ASSUME NEW p \in People, Accept(p)
      PROVE  invitation' \in [Invitations -> InvitationRows \cup {Absent}]
  <2> DEFINE i == following[p].invitation
  <2>1. i \in Invitations /\ invitation[i].status = "pending"
    BY <1>5, OpenLink DEF Accept, Leads
  <2>2. invitation[i] \in InvitationRows
    BY <2>1, InvitationRole
  <2> QED
    BY <1>5, <2>1, <2>2 DEF Accept, Join, RowsTyped, InvitationRows
<1>6. \/ Kept
      \/ \E i \in Invitations, r \in Roles : Invite(i, r)
      \/ \E i \in Invitations : Resend(i) \/ Revoke(i) \/ Expire(i)
      \/ \E p \in People : Accept(p)
  BY DEF Next, vars, PickMessage, DeliverMessage, Follow, LeaveLink, ChangeRole, Toggle,
         ReplaceAdmin, CountSeats, SignUp, AcceptMail
<1> QED
  BY <1>1, <1>2, <1>3, <1>4, <1>5, <1>6

LEMMA FollowingTyped ==
  ASSUME RowsTyped, [Next]_vars
  PROVE  following' \in
           [People -> [invitation : Invitations, link : 1..MaxLinks] \cup {None}]
<1>1. CASE following' = following
  BY <1>1 DEF RowsTyped
<1>2. ASSUME NEW p \in People, NEW i \in Invitations, Follow(p, i)
      PROVE  following' \in
               [People -> [invitation : Invitations, link : 1..MaxLinks] \cup {None}]
  <2>1. invitation[i].link \in 1..MaxLinks
    BY <1>2, InvitationRole DEF Follow, Leads, InvitationRows
  <2> QED
    BY <1>2, <2>1 DEF Follow, RowsTyped
<1>3. ASSUME NEW p \in People, Accept(p) \/ LeaveLink(p)
      PROVE  following' \in
               [People -> [invitation : Invitations, link : 1..MaxLinks] \cup {None}]
  BY <1>3 DEF Accept, Join, LeaveLink, RowsTyped
<1>4. \/ following' = following
      \/ \E p \in People, i \in Invitations : Follow(p, i)
      \/ \E p \in People : Accept(p) \/ LeaveLink(p)
  BY DEF Next, vars, Invite, Resend, Revoke, Expire, PickMessage, DeliverMessage,
         ChangeRole, Toggle, ReplaceAdmin, CountSeats, SignUp, AcceptMail
<1> QED
  BY <1>1, <1>2, <1>3, <1>4

LEMMA RowsStep == RowsTyped /\ [Next]_vars => RowsTyped'
BY MembersTyped, InvitationsTyped, FollowingTyped DEF RowsTyped

THEOREM TeamRowsTyped == Spec => []RowsTyped
BY RowsInit, RowsStep, PTL DEF Spec

-----------------------------------------------------------------------------
(* One role each.  Every handler writes the whole set of active roles of a  *)
(* person; which sets they write is said by SingleRoles.                    *)
SingleRoles == \A p \in People : roles[p] = {} \/ \E r \in AllRoles : roles[p] = {r}

LEMMA SingleRolesInit == Init => SingleRoles
BY DEF Init, SingleRoles, AllRoles

LEMMA RolesWritten ==
  ASSUME RowsTyped, [Next]_vars
  PROVE  \/ roles' = roles
         \/ \E p \in People, r \in AllRoles : roles' = [roles EXCEPT ![p] = {r}]
<1> DEFINE Written == \E p \in People, r \in AllRoles : roles' = [roles EXCEPT ![p] = {r}]
<1>1. ASSUME NEW p \in People, Accept(p) PROVE Written
  <2> DEFINE i == following[p].invitation
  <2>1. i \in Invitations /\ invitation[i].status = "pending"
    BY <1>1, OpenLink DEF Accept, Leads
  <2>2. invitation[i].role \in AllRoles
    BY <2>1, InvitationRole DEF AllRoles
  <2>3. roles' = [roles EXCEPT ![p] = {invitation[i].role}]
    BY <1>1 DEF Accept, Join
  <2> QED
    BY <2>2, <2>3
<1>2. ASSUME NEW a \in People, NEW p \in People, NEW r \in Roles, ChangeRole(a, p, r)
      PROVE  Written
  BY <1>2 DEF ChangeRole, Granted, AllRoles
<1>3. ASSUME NEW p \in People, ReplaceAdmin(p) PROVE roles' = roles \/ Written
  BY <1>3 DEF ReplaceAdmin, Ensured, Granted, AllRoles
<1>4. ASSUME NEW p \in People, NEW r \in Roles \cup {None}, AcceptMail(p, r)
      PROVE  roles' = roles \/ Written
  BY <1>4 DEF AcceptMail, Ensured, Granted, AllRoles
<1> QED
  BY <1>1, <1>2, <1>3, <1>4, MemberSteps DEF MembersStay, Toggle, SignUp

LEMMA SingleRolesStep == RowsTyped /\ SingleRoles /\ [Next]_vars => SingleRoles'
BY RolesWritten DEF SingleRoles, RowsTyped

LEMMA SingleRolesCounted == SingleRoles => OneRoleEach
<1> SUFFICES ASSUME SingleRoles, NEW p \in People
             PROVE  Cardinality(roles[p]) <= 1
  BY DEF OneRoleEach
<1>1. CASE roles[p] = {}
  BY <1>1, FS_EmptySet
<1>2. CASE \E r \in AllRoles : roles[p] = {r}
  <2>1. PICK r \in AllRoles : roles[p] = {r}
    BY <1>2
  <2>2. Cardinality({r}) = 1
    BY FS_Singleton, Zenon
  <2> QED
    BY <2>1, <2>2
<1> QED
  BY <1>1, <1>2 DEF SingleRoles

(* However invitations, role changes, the platform and the other doors are  *)
(* interleaved, nobody has two active roles.                                *)
THEOREM TeamOneRoleEach == Spec => []OneRoleEach
<1>1. Init => RowsTyped /\ SingleRoles
  BY RowsInit, SingleRolesInit
<1>2. RowsTyped /\ SingleRoles /\ [Next]_vars => (RowsTyped /\ SingleRoles)'
  BY RowsStep, SingleRolesStep
<1> QED
  BY <1>1, <1>2, SingleRolesCounted, PTL DEF Spec
-----------------------------------------------------------------------------
(* Administrators.  The e-mail invitation writes the role and leaves the    *)
(* flag, so it is left out.                                                 *)
LEMMA AdminsInit == Init => AdminsHoldAdminRole
BY DEF Init, AdminsHoldAdminRole, NoMember

LEMMA AdminsStep ==
  ASSUME RowsTyped, AdminsHoldAdminRole, "mail" \notin Doors, [Next]_vars
  PROVE  AdminsHoldAdminRole'
<1> USE DEF AdminsHoldAdminRole
<1>1. CASE MembersStay
  BY <1>1 DEF MembersStay
<1>2. ASSUME NEW p \in People, Accept(p) PROVE AdminsHoldAdminRole'
  BY <1>2 DEF Accept, Join, RowsTyped
<1>3. ASSUME NEW a \in People, NEW p \in People, NEW r \in Roles, ChangeRole(a, p, r)
      PROVE  AdminsHoldAdminRole'
  <2>1. member'[p].admin = (r = "co-owner") /\ roles'[p] = {r}
    BY <1>3 DEF ChangeRole, Granted, RowsTyped, Members
  <2>2. \A q \in People \ {p} : member'[q] = member[q] /\ roles'[q] = roles[q]
    BY <1>3 DEF ChangeRole, Granted, RowsTyped
  <2> QED
    BY <2>1, <2>2
<1>4. ASSUME NEW a \in People, NEW p \in People, Toggle(a, p)
      PROVE  AdminsHoldAdminRole'
  <2>1. \E s \in MemberStatuses : member' = [member EXCEPT ![p].status = s]
    BY <1>4 DEF Toggle, MemberStatuses
  <2>2. member \in [People -> Members]
    BY DEF RowsTyped
  <2>3. \A q \in People : member'[q].admin = member[q].admin
    BY <2>1, <2>2 DEF Members
  <2> QED
    BY <1>4, <2>3 DEF Toggle
<1>5. ASSUME NEW p \in People, ReplaceAdmin(p) PROVE AdminsHoldAdminRole'
  <2>1. roles'[p] = {"owner"}
    BY <1>5 DEF ReplaceAdmin, Ensured, Granted, RowsTyped
  <2>2. \A q \in People \ {p} : roles'[q] = roles[q] /\ (member'[q].admin => member[q].admin)
    BY <1>5 DEF ReplaceAdmin, Ensured, Granted, RowsTyped
  <2> QED
    BY <2>1, <2>2
<1>6. ASSUME NEW p \in People, SignUp(p) PROVE AdminsHoldAdminRole'
  <2>1. \A q \in People : member'[q].admin = member[q].admin
    BY <1>6 DEF SignUp, RowsTyped, Members
  <2> QED
    BY <1>6, <2>1 DEF SignUp
<1> QED
  BY <1>1, <1>2, <1>3, <1>4, <1>5, <1>6, MemberSteps DEF AcceptMail

(* Where people come in by the team screens, the sign-up view and the       *)
(* platform, the administrator flag never contradicts the role.             *)
THEOREM TeamAdminsHoldAdminRole ==
  ASSUME "mail" \notin Doors
  PROVE  Spec => []AdminsHoldAdminRole
<1>1. Init => RowsTyped /\ AdminsHoldAdminRole
  BY RowsInit, AdminsInit
<1>2. RowsTyped /\ AdminsHoldAdminRole /\ [Next]_vars => (RowsTyped /\ AdminsHoldAdminRole)'
  BY RowsStep, AdminsStep
<1> QED
  BY <1>1, <1>2, PTL DEF Spec

(* The rights of a member, stored in three places, agree. *)
THEOREM TeamRolesAgree ==
  ASSUME "mail" \notin Doors
  PROVE  Spec => []RolesAgree
BY TeamOneRoleEach, TeamAdminsHoldAdminRole, PTL DEF RolesAgree

-----------------------------------------------------------------------------
(* Seats.  Without the other doors one person at a time becomes active, and *)
(* only while a seat is free.                                               *)
LEMMA ActiveFinite == IsFiniteSet(Active) /\ Cardinality(Active) \in Nat
<1>1. IsFiniteSet(Active)
  BY TeamAssumption, FS_Subset DEF Active
<1> QED
  BY <1>1, FS_CardinalityType

LEMMA SeatTaken ==
  ASSUME SeatFree, NEW p \in People, NEW S, S \subseteq Active \cup {p}
  PROVE  Cardinality(S) <= Seats
<1>1. /\ IsFiniteSet(Active \cup {p})
      /\ Cardinality(Active \cup {p}) <= Cardinality(Active) + 1
  <2>1. /\ IsFiniteSet(Active \cup {p})
        /\ Cardinality(Active \cup {p}) =
             IF p \in Active THEN Cardinality(Active) ELSE Cardinality(Active) + 1
    BY ActiveFinite, FS_AddElement, Zenon
  <2> QED
    BY <2>1, ActiveFinite
<1>2. Cardinality(Active \cup {p}) \in Nat
  BY <1>1, FS_CardinalityType
<1>3. Cardinality(S) <= Cardinality(Active \cup {p}) /\ Cardinality(S) \in Nat
  BY <1>1, FS_Subset, FS_CardinalityType
<1>4. Cardinality(Active) < Seats
  BY DEF SeatFree
<1>5. Seats \in Nat
  BY TeamAssumption
<1> QED
  BY <1>1, <1>2, <1>3, <1>4, <1>5, ActiveFinite

NobodySigning == signing = {}

LEMMA SeatsInit == Init => SeatsWithinPlan /\ NobodySigning
<1> SUFFICES ASSUME Init PROVE SeatsWithinPlan /\ NobodySigning
  OBVIOUS
<1>1. Active = {Owner}
  BY TeamAssumption DEF Init, Active, Admin, NoMember
<1>2. Cardinality(Active) = 1
  BY <1>1, FS_Singleton
<1> QED
  BY <1>2, TeamAssumption DEF SeatsWithinPlan, NobodySigning, Init

LEMMA NobodySigningStep ==
  ASSUME Doors = {}, NobodySigning, [Next]_vars
  PROVE  NobodySigning'
BY DEF NobodySigning, Next, vars, Invite, Resend, Revoke, Expire, PickMessage,
       DeliverMessage, Follow, Accept, Join, LeaveLink, ChangeRole, Toggle, ReplaceAdmin,
       CountSeats, SignUp, AcceptMail

LEMMA SeatsStep ==
  ASSUME RowsTyped, SeatsWithinPlan, NobodySigning, Doors = {}, [Next]_vars
  PROVE  SeatsWithinPlan'
<1>1. CASE Active' = Active
  BY <1>1 DEF SeatsWithinPlan
<1>2. CASE MembersStay
  BY <1>1, <1>2 DEF MembersStay, Active
<1>3. ASSUME NEW p \in People, Accept(p) PROVE SeatsWithinPlan'
  <2>1. SeatFree /\ Active' \subseteq Active \cup {p}
    BY <1>3 DEF Accept, Join, Active, RowsTyped
  <2> QED
    BY <2>1, SeatTaken DEF SeatsWithinPlan
<1>4. ASSUME NEW a \in People, NEW p \in People, NEW r \in Roles, ChangeRole(a, p, r)
      PROVE  SeatsWithinPlan'
  <2>1. \A q \in People : member'[q].status = member[q].status
    BY <1>4 DEF ChangeRole, RowsTyped, Members
  <2> QED
    BY <1>1, <2>1 DEF Active
<1>5. ASSUME NEW a \in People, NEW p \in People, Toggle(a, p)
      PROVE  SeatsWithinPlan'
  <2>1. CASE member' = [member EXCEPT ![p].status = "inactive"]
    <3>1. Active' \subseteq Active
      BY <2>1 DEF Active, RowsTyped, Members
    <3>2. Cardinality(Active') <= Cardinality(Active) /\ Cardinality(Active') \in Nat
      BY <3>1, ActiveFinite, FS_Subset, FS_CardinalityType
    <3> QED
      BY <3>2, ActiveFinite, TeamAssumption DEF SeatsWithinPlan
  <2>2. CASE SeatFree /\ member' = [member EXCEPT ![p].status = "active"]
    <3>1. Active' \subseteq Active \cup {p}
      BY <2>2 DEF Active, RowsTyped, Members
    <3> QED
      BY <2>2, <3>1, SeatTaken DEF SeatsWithinPlan
  <2> QED
    BY <1>5, <2>1, <2>2 DEF Toggle
<1> QED
  BY <1>2, <1>3, <1>4, <1>5, MemberSteps DEF ReplaceAdmin, SignUp, AcceptMail, NobodySigning

(* Where people come in by the team screens only, the plan's seats are      *)
(* never exceeded, whatever number of acceptances is under way.             *)
THEOREM TeamSeatsWithinPlan ==
  ASSUME Doors = {}
  PROVE  Spec => []SeatsWithinPlan
<1> DEFINE Inv == RowsTyped /\ NobodySigning /\ SeatsWithinPlan
<1>1. Init => Inv
  BY RowsInit, SeatsInit
<1>2. Inv /\ [Next]_vars => Inv'
  BY RowsStep, NobodySigningStep, SeatsStep
<1> QED
  BY <1>1, <1>2, PTL DEF Spec

-----------------------------------------------------------------------------
(* What InvitationsEndOnce says of a step and one invitation. *)
EndsOnce(i) ==
  invitation[i].status \in {"accepted", "revoked"} =>
    invitation'[i].status = invitation[i].status
NewestLink(i, p) ==
  /\ following[p] # None /\ following[p].invitation = i
  /\ following'[p] = None /\ roles'[p] # roles[p]
  => following[p].link = invitation[i].link

(* Only invitations that are pending, or not there yet, are written. *)
LEMMA EndsOnceStep ==
  ASSUME RowsTyped, [Next]_vars, NEW i \in Invitations
  PROVE  EndsOnce(i)
<1>1. ASSUME invitation'[i] = invitation[i] \/ invitation[i].status \in {"pending", "absent"}
      PROVE  EndsOnce(i)
  BY <1>1 DEF EndsOnce
<1>2. ASSUME NEW k \in Invitations, invitation[k].status \in {"pending", "absent"},
             k # i => invitation'[i] = invitation[i]
      PROVE  EndsOnce(i)
  BY <1>1, <1>2
<1>3. UNCHANGED invitation => EndsOnce(i)
  BY <1>1
<1>4. ASSUME NEW k \in Invitations, NEW r, SendLink(k, r),
             invitation[k].status \in {"pending", "absent"}
      PROVE  EndsOnce(i)
  BY <1>2, <1>4 DEF SendLink, RowsTyped
<1>5. CASE \E k \in Invitations, r \in Roles : Invite(k, r)
  BY <1>4, <1>5 DEF Invite, Absent
<1>6. CASE \E k \in Invitations : Resend(k)
  BY <1>4, <1>6 DEF Resend
<1>7. CASE \E k \in Invitations : Revoke(k) \/ Expire(k)
  BY <1>2, <1>7 DEF Revoke, Expire, RowsTyped
<1>8. ASSUME NEW p \in People, Accept(p)
      PROVE  EndsOnce(i)
  <2>1. PICK k \in Invitations : k = following[p].invitation
    BY <1>8, OpenLink DEF Accept
  <2>2. invitation[k].status = "pending"
    BY <1>8, <2>1 DEF Accept, Leads
  <2>3. invitation' = [invitation EXCEPT ![k].status = "accepted"]
    BY <1>8, <2>1 DEF Accept, Join
  <2>4. k # i => invitation'[i] = invitation[i]
    BY <2>3 DEF RowsTyped
  <2> QED
    BY <1>2, <2>2, <2>4
<1>9. CASE \E k \in Invitations, n \in 1..MaxLinks : PickMessage(k, n) \/ DeliverMessage(k, n)
  BY <1>3, <1>9 DEF PickMessage, DeliverMessage
<1>10. CASE \E p \in People, k \in Invitations : Follow(p, k)
  BY <1>3, <1>10 DEF Follow
<1>11. CASE \E p \in People : LeaveLink(p) \/ ReplaceAdmin(p) \/ CountSeats(p) \/ SignUp(p)
  BY <1>3, <1>11 DEF LeaveLink, ReplaceAdmin, CountSeats, SignUp
<1>12. CASE \/ \E a, p \in People, r \in Roles : ChangeRole(a, p, r)
            \/ \E a, p \in People : Toggle(a, p)
            \/ \E p \in People, r \in Roles \cup {None} : AcceptMail(p, r)
  BY <1>3, <1>12 DEF ChangeRole, Toggle, AcceptMail
<1>13. CASE UNCHANGED vars
  BY <1>3, <1>13 DEF vars
<1> QED
  BY <1>5, <1>6, <1>7, <1>8, <1>9, <1>10, <1>11, <1>12, <1>13 DEF Next

(* A link that is open is only closed by its person, who accepts through it *)
(* or leaves it.                                                            *)
LEMMA NewestLinkStep ==
  ASSUME RowsTyped, [Next]_vars, NEW i \in Invitations, NEW p \in People
  PROVE  NewestLink(i, p)
<1>1. following'[p] = following[p] => NewestLink(i, p)
  BY DEF NewestLink
<1>2. UNCHANGED roles => NewestLink(i, p)
  BY DEF NewestLink
<1>3. ASSUME NEW q \in People, Accept(q)
      PROVE  NewestLink(i, p)
  <2>1. CASE q = p
    BY <1>3, <2>1 DEF Accept, Leads, NewestLink
  <2>2. CASE q # p
    BY <1>1, <1>3, <2>2 DEF Accept, Join, RowsTyped
  <2> QED
    BY <2>1, <2>2
<1>4. CASE \/ \E k \in Invitations, r \in Roles : Invite(k, r)
           \/ \E k \in Invitations : Resend(k) \/ Revoke(k) \/ Expire(k)
           \/ \E k \in Invitations, n \in 1..MaxLinks :
                 PickMessage(k, n) \/ DeliverMessage(k, n)
           \/ UNCHANGED vars
  BY <1>2, <1>4 DEF Invite, Resend, Revoke, Expire, PickMessage, DeliverMessage,
                    memberVars, vars
<1>5. CASE \/ \E q \in People, k \in Invitations : Follow(q, k)
           \/ \E q \in People : LeaveLink(q)
  BY <1>2, <1>5 DEF Follow, LeaveLink, memberVars
<1>6. CASE \/ \E a, q \in People, r \in Roles : ChangeRole(a, q, r)
           \/ \E a, q \in People : Toggle(a, q)
           \/ \E q \in People, r \in Roles \cup {None} : AcceptMail(q, r)
           \/ \E q \in People : ReplaceAdmin(q) \/ CountSeats(q) \/ SignUp(q)
  BY <1>1, <1>6 DEF ChangeRole, Toggle, AcceptMail, ReplaceAdmin, CountSeats, SignUp
<1> QED
  BY <1>3, <1>4, <1>5, <1>6 DEF Next

(* For any number of people, invitations and links, an invitation ends      *)
(* once: the acceptance that comes late finds it revoked, accepted or led   *)
(* to by a newer link, and changes nothing.                                 *)
THEOREM TeamInvitationsEndOnce == Spec => InvitationsEndOnce
<1>1. RowsTyped /\ [Next]_vars =>
        [\A i \in Invitations :
           /\ invitation[i].status \in {"accepted", "revoked"} =>
                invitation'[i].status = invitation[i].status
           /\ \A p \in People :
                /\ following[p] # None /\ following[p].invitation = i
                /\ following'[p] = None /\ roles'[p] # roles[p]
                => following[p].link = invitation[i].link]_vars
  <2> SUFFICES ASSUME RowsTyped, [Next]_vars, NEW i \in Invitations
               PROVE  EndsOnce(i) /\ \A p \in People : NewestLink(i, p)
    BY DEF EndsOnce, NewestLink
  <2> QED
    BY EndsOnceStep, NewestLinkStep
<1> QED
  BY <1>1, TeamRowsTyped, PTL DEF Spec, InvitationsEndOnce

-----------------------------------------------------------------------------
(* Messages.  Every step that gives an invitation a new link, or revokes it, *)
(* takes back the message of the old one.                                    *)
MessagesTyped == message \in [Invitations -> [1..MaxLinks -> MessageStates]]
MessagesInv == RowsTyped /\ MessagesTyped /\ QueuedLinkCurrent

LEMMA MessagesInit == Init => MessagesInv
BY RowsInit DEF Init, MessagesInv, MessagesTyped, MessageStates, QueuedLinkCurrent

(* A queued message waits for the newest link of i, which is not revoked. *)
QueuedCurrent(i) ==
  \A n \in 1..MaxLinks : message[i][n] = "queued" =>
    n = invitation[i].link /\ invitation[i].status \in {"pending", "accepted"}

LEMMA WithdrawnMessages ==
  ASSUME RowsTyped, MessagesTyped, NEW i \in Invitations, QueuedCurrent(i)
  PROVE  /\ Withdraw(i, invitation[i].link) \in [1..MaxLinks -> MessageStates]
         /\ \A n \in 1..MaxLinks : Withdraw(i, invitation[i].link)[n] # "queued"
<1> DEFINE k == invitation[i].link
<1>1. message[i] \in [1..MaxLinks -> MessageStates]
  BY DEF MessagesTyped
<1>2. CASE k > 0 /\ message[i][k] = "queued"
  <2>1. Withdraw(i, k) = [message[i] EXCEPT ![k] = "cancelled"]
    BY <1>2 DEF Withdraw
  <2>2. \A n \in 1..MaxLinks : n # k => message[i][n] # "queued"
    BY DEF QueuedCurrent
  <2> QED
    BY <1>1, <2>1, <2>2 DEF MessageStates
<1>3. CASE ~(k > 0 /\ message[i][k] = "queued")
  <2>1. Withdraw(i, k) = message[i]
    BY <1>3 DEF Withdraw
  <2>2. \A n \in 1..MaxLinks : message[i][n] # "queued"
    BY <1>3 DEF QueuedCurrent
  <2> QED
    BY <1>1, <2>1, <2>2
<1> QED
  BY <1>2, <1>3

LEMMA SentMessages ==
  ASSUME RowsTyped, MessagesTyped, NEW i \in Invitations, NEW r \in Roles,
         QueuedCurrent(i), SendLink(i, r)
  PROVE  /\ message' \in [Invitations -> [1..MaxLinks -> MessageStates]]
         /\ \A j \in Invitations \ {i} : message'[j] = message[j] /\ invitation'[j] = invitation[j]
         /\ QueuedCurrent(i)'
<1> DEFINE k == invitation[i].link
           W == Withdraw(i, k)
<1>1. k \in 0..MaxLinks
  BY TeamAssumption DEF RowsTyped, Absent, InvitationRows
<1>2. k + 1 \in 1..MaxLinks
  <2>1. k < MaxLinks
    BY DEF SendLink
  <2> QED
    BY <1>1, <2>1, TeamAssumption
<1>3. W \in [1..MaxLinks -> MessageStates] /\ \A n \in 1..MaxLinks : W[n] # "queued"
  BY WithdrawnMessages
<1>4. PICK s \in {"queued", "not configured"} :
        message' = [message EXCEPT ![i] = [W EXCEPT ![k + 1] = s]]
  BY DEF SendLink
<1> DEFINE row == [status |-> "pending", role |-> r, link |-> k + 1, expired |-> FALSE]
<1>5. invitation' = [invitation EXCEPT ![i] = row] /\ row.link = k + 1 /\ row.status = "pending"
  BY DEF SendLink
<1> HIDE DEF W, row
<1> DEFINE M == [W EXCEPT ![k + 1] = s]
<1>6. M \in [1..MaxLinks -> MessageStates] /\ \A n \in 1..MaxLinks : M[n] = "queued" => n = k + 1
  BY <1>2, <1>3 DEF MessageStates
<1>7. message' = [message EXCEPT ![i] = M]
  BY <1>4
<1> HIDE DEF M
<1>8. /\ message' \in [Invitations -> [1..MaxLinks -> MessageStates]]
      /\ message'[i] = M /\ \A j \in Invitations \ {i} : message'[j] = message[j]
  BY <1>6, <1>7 DEF MessagesTyped
<1>9. invitation'[i] = row /\ \A j \in Invitations \ {i} : invitation'[j] = invitation[j]
  BY <1>5 DEF RowsTyped
<1> QED
  BY <1>5, <1>6, <1>8, <1>9 DEF QueuedCurrent

(* The steps that write no message and leave the links as they are. *)
LEMMA MessagesKept ==
  ASSUME MessagesInv, UNCHANGED message,
         \A i \in Invitations :
           /\ invitation'[i].link = invitation[i].link
           /\ invitation[i].status \in {"pending", "accepted"} =>
                invitation'[i].status \in {"pending", "accepted"}
  PROVE  MessagesTyped' /\ QueuedLinkCurrent'
BY DEF MessagesInv, MessagesTyped, QueuedLinkCurrent

LEMMA MessagesStep ==
  ASSUME MessagesInv, [Next]_vars
  PROVE  MessagesTyped' /\ QueuedLinkCurrent'
<1>1. /\ RowsTyped /\ MessagesTyped /\ \A i \in Invitations : QueuedCurrent(i)
  BY DEF MessagesInv, QueuedLinkCurrent, QueuedCurrent
<1>2. ASSUME MessagesTyped', NEW i \in Invitations, QueuedCurrent(i)',
             \A j \in Invitations \ {i} : message'[j] = message[j] /\ invitation'[j] = invitation[j]
      PROVE  MessagesTyped' /\ QueuedLinkCurrent'
  BY <1>1, <1>2 DEF QueuedLinkCurrent, QueuedCurrent
<1>3. ASSUME NEW i \in Invitations, NEW r \in Roles, SendLink(i, r)
      PROVE  MessagesTyped' /\ QueuedLinkCurrent'
  BY <1>1, <1>2, <1>3, SentMessages DEF MessagesTyped
<1>4. CASE \E i \in Invitations, r \in Roles : Invite(i, r)
  BY <1>3, <1>4 DEF Invite
<1>5. CASE \E i \in Invitations : Resend(i)
  BY <1>1, <1>3, <1>5, InvitationRole DEF Resend
<1>6. ASSUME NEW i \in Invitations, Revoke(i)
      PROVE  MessagesTyped' /\ QueuedLinkCurrent'
  <2> DEFINE W == Withdraw(i, invitation[i].link)
  <2>1. W \in [1..MaxLinks -> MessageStates] /\ \A n \in 1..MaxLinks : W[n] # "queued"
    BY <1>1, WithdrawnMessages
  <2>2. message' = [message EXCEPT ![i] = W]
    BY <1>6 DEF Revoke
  <2> HIDE DEF W
  <2>3. /\ MessagesTyped' /\ message'[i] = W
        /\ \A j \in Invitations \ {i} : message'[j] = message[j]
    BY <1>1, <2>1, <2>2 DEF MessagesTyped
  <2>4. \A j \in Invitations \ {i} : invitation'[j] = invitation[j]
    BY <1>1, <1>6 DEF Revoke, RowsTyped
  <2> QED
    BY <1>2, <2>1, <2>3, <2>4 DEF QueuedCurrent
<1>7. ASSUME NEW i \in Invitations, Expire(i)
      PROVE  MessagesTyped' /\ QueuedLinkCurrent'
  <2>1. invitation[i] \in InvitationRows /\ UNCHANGED message
    BY <1>1, <1>7, InvitationRole DEF Expire
  <2>2. invitation' = [invitation EXCEPT ![i].expired = TRUE]
    BY <1>7 DEF Expire
  <2>3. /\ \A j \in Invitations \ {i} : invitation'[j] = invitation[j]
        /\ invitation'[i].link = invitation[i].link
        /\ invitation'[i].status = invitation[i].status
    BY <1>1, <2>1, <2>2 DEF RowsTyped, InvitationRows
  <2> QED
    BY <2>1, <2>3, MessagesKept
<1>8. ASSUME NEW p \in People, Accept(p)
      PROVE  MessagesTyped' /\ QueuedLinkCurrent'
  <2>1. PICK i \in Invitations : i = following[p].invitation
    BY <1>1, <1>8, OpenLink DEF Accept
  <2>2. invitation[i].status = "pending" /\ UNCHANGED message
    BY <1>8, <2>1 DEF Accept, Leads, Join
  <2>3. invitation[i] \in InvitationRows
    BY <1>1, <2>2, InvitationRole
  <2>4. invitation' = [invitation EXCEPT ![i].status = "accepted"]
    BY <1>8, <2>1 DEF Accept, Join
  <2>5. /\ \A j \in Invitations \ {i} : invitation'[j] = invitation[j]
        /\ invitation'[i].link = invitation[i].link
        /\ invitation'[i].status = "accepted"
    BY <1>1, <2>3, <2>4 DEF RowsTyped, InvitationRows
  <2> QED
    BY <2>2, <2>5, MessagesKept
(* A message is taken from the queue, or delivered. *)
<1>9. ASSUME NEW i \in Invitations, NEW n \in 1..MaxLinks, NEW s \in MessageStates \ {"queued"},
             message' = [message EXCEPT ![i][n] = s], UNCHANGED invitation
      PROVE  MessagesTyped' /\ QueuedLinkCurrent'
  <2> DEFINE M == [message[i] EXCEPT ![n] = s]
  <2>1. /\ M \in [1..MaxLinks -> MessageStates]
        /\ \A m \in 1..MaxLinks : M[m] = "queued" => message[i][m] = "queued"
    BY <1>1 DEF MessagesTyped
  <2>2. message' = [message EXCEPT ![i] = M]
    BY <1>9
  <2> HIDE DEF M
  <2>3. /\ MessagesTyped' /\ message'[i] = M
        /\ \A j \in Invitations \ {i} : message'[j] = message[j]
    BY <1>1, <2>1, <2>2 DEF MessagesTyped
  <2> QED
    BY <1>1, <1>2, <1>9, <2>1, <2>3 DEF QueuedCurrent
<1>10. CASE \E i \in Invitations, n \in 1..MaxLinks : PickMessage(i, n)
  BY <1>9, <1>10 DEF PickMessage, MessageStates
<1>11. CASE \E i \in Invitations, n \in 1..MaxLinks : DeliverMessage(i, n)
  BY <1>9, <1>11 DEF DeliverMessage, MessageStates
<1>12. CASE UNCHANGED <<message, invitation>>
  BY <1>12, MessagesKept
<1>13. CASE \/ \E p \in People, i \in Invitations : Follow(p, i)
            \/ \E p \in People : LeaveLink(p) \/ ReplaceAdmin(p) \/ CountSeats(p) \/ SignUp(p)
            \/ \E a, p \in People, r \in Roles : ChangeRole(a, p, r)
            \/ \E a, p \in People : Toggle(a, p)
            \/ \E p \in People, r \in Roles \cup {None} : AcceptMail(p, r)
            \/ UNCHANGED vars
  BY <1>12, <1>13 DEF Follow, LeaveLink, ReplaceAdmin, CountSeats, SignUp, ChangeRole, Toggle,
                      AcceptMail, vars
<1> QED
  BY <1>4, <1>5, <1>6, <1>7, <1>8, <1>10, <1>11, <1>13 DEF Next

(* Whatever doors are open, no link that was replaced or revoked waits in    *)
(* the queue (send_invitation, InvitationsView).             *)
THEOREM TeamQueuedLinkCurrent == Spec => []QueuedLinkCurrent
<1>1. MessagesInv /\ [Next]_vars => MessagesInv'
  BY RowsStep, MessagesStep DEF MessagesInv
<1>2. MessagesInv => QueuedLinkCurrent
  BY DEF MessagesInv
<1> QED
  BY MessagesInit, <1>1, <1>2, PTL DEF Spec

=============================================================================
