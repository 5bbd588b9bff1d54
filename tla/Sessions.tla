------------------------------ MODULE Sessions ------------------------------
(***************************************************************************)
(* The sessions and the password of one user (src/apps/core/auth_views.py). *)
(* A login issues a refresh token, a refresh exchanges it for the next one, *)
(* a logout puts it on the list of refused tokens.  The password is changed *)
(* with the old one or with a link from a mail; a link fits the password it *)
(* was made for (Django's default_token_generator), so that it works once.  *)
(*                                                                         *)
(* A refresh checks the token, refuses it from now on and issues the next   *)
(* one in statements that commit one by one; a change of the password reads *)
(* the user and saves him in a later statement.                             *)
(*                                                                         *)
(* Left out, since it only refuses more: tokens and links that expire, and a *)
(* user who is switched off.                                                *)
(***************************************************************************)
EXTENDS Naturals, FiniteSets

CONSTANTS
  Tokens,        \* refresh tokens; a login is named by its first one
  Links,         \* links to choose a new password
  Clients,       \* requests that can be under way at once
  MaxPassword,   \* bound on the changes of the password
  None

VARIABLES
  password,      \* the password of the user: how many there were before
  tokens,        \* login and state of each refresh token
  links,         \* the password each link was made for
  clients,       \* what each request under way is at
  ended,         \* history: logins that were logged out
  crowded,       \* history: logins with a refresh beside another request
  uses,          \* history: how often each link has set the password
  missed,        \* history: links that replaced another password than theirs
  late           \* history: changes of the password overlapped

sessionVars == <<password, tokens, links, clients, ended, crowded, uses, missed, late>>

Issued(t) == tokens[t] # None
Live(t) == Issued(t) /\ tokens[t].live
Refreshing(login) ==
  \E r \in Clients : /\ clients[r] # None /\ clients[r].step \in {"refuse", "issue"}
                     /\ tokens[clients[r].of].login = login
Changing == \E r \in Clients : clients[r] # None /\ clients[r].step = "save"

SessionsInit ==
  /\ password = 0
  /\ tokens = [t \in Tokens |-> None]
  /\ links = [k \in Links |-> None]
  /\ clients = [r \in Clients |-> None]
  /\ ended = {} /\ crowded = {}
  /\ uses = [k \in Links |-> 0]
  /\ missed = {} /\ late = FALSE

-----------------------------------------------------------------------------
(* LoginView.post, and the end of VerifyOTPView.post. *)
Login(t) ==
  /\ ~Issued(t)
  /\ tokens' = [tokens EXCEPT ![t] = [login |-> t, live |-> TRUE]]
  /\ UNCHANGED <<password, links, clients, ended, crowded, uses, missed, late>>

(* RefreshView.post: the check of the token and of the user ... *)
StartRefresh(r, t) ==
  /\ clients[r] = None
  /\ Live(t)
  /\ clients' = [clients EXCEPT ![r] = [step |-> "refuse", of |-> t]]
  /\ crowded' = IF Refreshing(tokens[t].login)
                THEN crowded \cup {tokens[t].login} ELSE crowded
  /\ UNCHANGED <<password, tokens, links, ended, uses, missed, late>>

(* ... the token is refused from now on, whether it was already or not ...   *)
Refused(t) == [tokens EXCEPT ![t].live = FALSE]

Refuse(r) ==
  /\ clients[r] # None /\ clients[r].step = "refuse"
  /\ tokens' = Refused(clients[r].of)
  /\ clients' = [clients EXCEPT ![r].step = "issue"]
  /\ UNCHANGED <<password, links, ended, crowded, uses, missed, late>>

(* ... and the next one issued. *)
Issue(r, t) ==
  /\ clients[r] # None /\ clients[r].step = "issue"
  /\ ~Issued(t)
  /\ tokens' = [tokens EXCEPT ![t] = [login |-> tokens[clients[r].of].login,
                                      live |-> TRUE]]
  /\ clients' = [clients EXCEPT ![r] = None]
  /\ UNCHANGED <<password, links, ended, crowded, uses, missed, late>>

(* LogoutView.post: a token that is refused already changes nothing. *)
Logout(t) ==
  /\ Live(t)
  /\ tokens' = Refused(t)
  /\ ended' = ended \cup {tokens[t].login}
  /\ crowded' = IF Refreshing(tokens[t].login)
                THEN crowded \cup {tokens[t].login} ELSE crowded
  /\ UNCHANGED <<password, links, clients, uses, missed, late>>

-----------------------------------------------------------------------------
(* RequestPasswordResetView.post, ResetPasswordView.post.          *)
SendLink(k) ==
  /\ links[k] = None
  /\ links' = [links EXCEPT ![k] = password]
  /\ UNCHANGED <<password, tokens, clients, ended, crowded, uses, missed, late>>

LinkFits(k) == links[k] = password

(* ConfirmPasswordResetView.post: the check ... *)
StartReset(r, k) ==
  /\ clients[r] = None
  /\ LinkFits(k)
  /\ clients' = [clients EXCEPT ![r] = [step |-> "save", of |-> k, found |-> password]]
  /\ late' = (late \/ Changing)
  /\ UNCHANGED <<password, tokens, links, ended, crowded, uses, missed>>

(* ChangePasswordView.post: the old password is right. *)
StartChange(r) ==
  /\ clients[r] = None
  /\ clients' = [clients EXCEPT ![r] = [step |-> "save", of |-> None, found |-> password]]
  /\ late' = (late \/ Changing)
  /\ UNCHANGED <<password, tokens, links, ended, crowded, uses, missed>>

(* ... and the password is saved. *)
NextPassword == password + 1

SavePassword(r) ==
  /\ clients[r] # None /\ clients[r].step = "save"
  /\ password < MaxPassword
  /\ password' = NextPassword
  /\ uses' = IF clients[r].of \in Links
             THEN [uses EXCEPT ![clients[r].of] = @ + 1] ELSE uses
  /\ missed' = IF clients[r].of \in Links /\ clients[r].found # password
               THEN missed \cup {clients[r].of} ELSE missed
  /\ clients' = [clients EXCEPT ![r] = None]
  /\ UNCHANGED <<tokens, links, ended, crowded, late>>

-----------------------------------------------------------------------------
(* The process of a request ends. *)
ClientDies(r) ==
  /\ clients[r] # None
  /\ clients' = [clients EXCEPT ![r] = None]
  /\ UNCHANGED <<password, tokens, links, ended, crowded, uses, missed, late>>

SessionsNext ==
  \/ \E t \in Tokens : Login(t) \/ Logout(t)
  \/ \E r \in Clients :
       \/ \E t \in Tokens : StartRefresh(r, t) \/ Issue(r, t)
       \/ \E k \in Links : StartReset(r, k)
       \/ Refuse(r) \/ StartChange(r) \/ SavePassword(r) \/ ClientDies(r)
  \/ \E k \in Links : SendLink(k)

SessionsSpec == SessionsInit /\ [][SessionsNext]_sessionVars

-----------------------------------------------------------------------------
(* A login has one good token at any time, and none once it is logged out,   *)
(* unless a refresh ran beside another request for the same login: a refresh *)
(* that has checked its token issues the next one whatever happens to it.    *)
OneTokenPerLogin ==
  \A login \in Tokens \ crowded :
    LET good == {t \in Tokens : Live(t) /\ tokens[t].login = login}
    IN  Cardinality(good) <= (IF login \in ended THEN 0 ELSE 1)

(* A link sets the password once, and only while the password is the one it  *)
(* was made for, unless changes of the password overlapped.                  *)
LinksWorkOnce == late \/ (missed = {} /\ \A k \in Links : uses[k] <= 1)

SessionsHold == OneTokenPerLogin /\ LinksWorkOnce

-----------------------------------------------------------------------------
(* The rows, and what is assumed of the constants.                          *)
TokenRows == [login : Tokens, live : BOOLEAN]
Refreshes == [step : {"refuse", "issue"}, of : Tokens]
Changes == [step : {"save"}, of : Links \cup {None}, found : Nat]

SessionsConstants == None \notin Tokens \cup Links \cup Nat \cup TokenRows \cup Refreshes \cup Changes

SessionsTypeOK ==
  /\ password \in Nat
  /\ tokens \in [Tokens -> TokenRows \cup {None}]
  /\ links \in [Links -> Nat \cup {None}]
  /\ clients \in [Clients -> Refreshes \cup Changes \cup {None}]
  /\ ended \subseteq Tokens /\ crowded \subseteq Tokens /\ missed \subseteq Links
  /\ uses \in [Links -> Nat] /\ late \in BOOLEAN

=============================================================================
