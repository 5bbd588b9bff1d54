------------------------------- MODULE MCTeam -------------------------------
(***************************************************************************)
(* Instances of Team, PlatformBilling, Accounts, SignIn, Sessions and       *)
(* Access.  Team is checked twice: where people come in by the team screens *)
(* only, and with every other door open, among other people.  They share no *)
(* row that their properties speak of: the run checks them side by side,    *)
(* one of them in each behaviour, which part says.                          *)
(***************************************************************************)
EXTENDS Team, TLC

CONSTANTS Strangers, Letters, OpenLinks,                      \* of the open company
          Views, Requests, References, MaxPrice, MaxMonth,    \* of PlatformBilling
          Users, Subs, Emails, Invites, MaxRequests,          \* of Accounts
          CodeIds, Askers, Verifiers, MaxFailures, MaxTries,  \* of SignIn
          Tokens, Links, Clients, MaxPassword,                \* of Sessions
          Permissions, Assignments, Changers, Readers         \* of Access

VARIABLES
  part,
  openMember, openRoles, openAssigned, openInvitation,
  openMessage, openFollowing, openSigning,
  now, company, charge, payment, view, agreements,
  users, members, guests, invites, reqs, arrived, founded, confused, joined,
  raced,                                                 \* of Accounts
  codes, asking, verifying, failures, wrong, signIns, overlapped,   \* of SignIn
  password, tokens, links, clients, ended, crowded, uses, missed,
  late,                                                  \* of Sessions
  enabled, rights, assignments, admin, cached, changes, reads, torn  \* of Access

openVars == <<openMember, openRoles, openAssigned, openInvitation,
              openMessage, openFollowing, openSigning>>
billingVars == <<now, company, charge, payment, view, agreements>>
accountVars == <<users, members, guests, invites, reqs, arrived, founded,
                 confused, joined, raced>>
signInVars == <<codes, asking, verifying, failures, wrong, signIns, overlapped>>
sessionVars == <<password, tokens, links, clients, ended, crowded, uses, missed,
                 late>>
accessVars == <<enabled, rights, assignments, admin, cached, changes, reads, torn>>
companyVars == <<vars, openVars, billingVars>>
peopleVars == <<accountVars, signInVars, sessionVars, accessVars>>
teamVars == <<part, companyVars, peopleVars>>

MCRoles == {"co-owner", "staff"}

Open == INSTANCE Team WITH
  People <- Strangers, Invitations <- Letters, MaxLinks <- OpenLinks,
  Doors <- {"sign-up", "mail", "platform"}, Roles <- {"co-owner"},
  member <- openMember, roles <- openRoles, assigned <- openAssigned,
  invitation <- openInvitation, message <- openMessage,
  following <- openFollowing, signing <- openSigning

Billing == INSTANCE PlatformBilling
Account == INSTANCE Accounts
Coded == INSTANCE SignIn
Session == INSTANCE Sessions
Access == INSTANCE Access WITH CoOwner <- "co-owner", links <- rights

(* Variables of parts that a behaviour does not run. *)
Unused(x) == x = None
NoAccounts ==
  /\ Unused(users) /\ Unused(members) /\ Unused(guests) /\ Unused(invites)
  /\ Unused(reqs) /\ Unused(arrived) /\ Unused(founded) /\ Unused(confused)
  /\ Unused(joined) /\ Unused(raced)
NoCodes ==
  /\ Unused(codes) /\ Unused(asking) /\ Unused(verifying) /\ Unused(failures)
  /\ Unused(wrong) /\ Unused(signIns) /\ Unused(overlapped)
NoSessions ==
  /\ Unused(password) /\ Unused(tokens) /\ Unused(links) /\ Unused(clients)
  /\ Unused(ended) /\ Unused(crowded) /\ Unused(uses) /\ Unused(missed) /\ Unused(late)
NoAccess ==
  /\ Unused(enabled) /\ Unused(rights) /\ Unused(assignments) /\ Unused(admin)
  /\ Unused(cached) /\ Unused(changes) /\ Unused(reads) /\ Unused(torn)

TeamInit ==
  /\ part \in {"screens", "doors", "billing", "accounts", "codes", "sessions", "access"}
  /\ Init /\ Open!Init /\ Billing!Init
  /\ part # "billing" => company = Billing!Configured("trial", 0, None, TRUE)
  /\ IF part = "accounts" THEN Account!AccountsInit ELSE NoAccounts
  /\ IF part = "codes" THEN Coded!SignInInit ELSE NoCodes
  /\ IF part = "sessions" THEN Session!SessionsInit ELSE NoSessions
  /\ IF part = "access" THEN Access!AccessInit ELSE NoAccess

TeamNext ==
  /\ UNCHANGED part
  /\ \/ part = "screens" /\ Next /\ UNCHANGED <<openVars, billingVars, peopleVars>>
     \/ part = "doors" /\ Open!Next /\ UNCHANGED <<vars, billingVars, peopleVars>>
     \/ part = "billing" /\ Billing!Next /\ UNCHANGED <<vars, openVars, peopleVars>>
     \/ /\ part = "accounts" /\ Account!AccountsNext
        /\ UNCHANGED <<companyVars, signInVars, sessionVars, accessVars>>
     \/ /\ part = "codes" /\ Coded!SignInNext
        /\ UNCHANGED <<companyVars, accountVars, sessionVars, accessVars>>
     \/ /\ part = "sessions" /\ Session!SessionsNext
        /\ UNCHANGED <<companyVars, accountVars, signInVars, accessVars>>
     \/ /\ part = "access" /\ Access!AccessNext
        /\ UNCHANGED <<companyVars, accountVars, signInVars, sessionVars>>

ASSUME OpenAssumption == Open!TeamAssumption
ASSUME BillingAssumption == Billing!BillingConstants
ASSUME AccountsAssumption == Account!AccountsConstants
ASSUME AccessAssumption == Access!AccessConstants
ASSUME SignInAssumption == Coded!SignInConstants
ASSUME SessionsAssumption == Session!SessionsConstants

TeamSpec == TeamInit /\ [][TeamNext]_teamVars

(* Persons, and requests, are interchangeable; People and Requests share     *)
(* values, so that one permutation serves both.                             *)
Symmetry == Permutations(People \ {Owner})

(* The properties of the other parts, for the run to name. *)
OpenDoorsKept == part = "doors" => Open!OneRoleEach /\ Open!QueuedLinkCurrent
ChargesAgreedAndPaidOnce == part = "billing" => Billing!ChargesAgreedAndPaidOnce
AccountsHold == part = "accounts" => Account!AccountsHold
CodesAndSessionsHold ==
  /\ part = "codes" => Coded!CodesHold
  /\ part = "sessions" => Session!SessionsHold
AccessFollowsRoles == part = "access" => Access!AccessFollowsRoles

=============================================================================
