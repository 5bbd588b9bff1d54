---------------------------- MODULE PeopleProofs ----------------------------
(***************************************************************************)
(* Proofs about the parts of MCTeam beside the team screens, for any number *)
(* of people, requests, codes, tokens and rows: accounts and invitations by *)
(* e-mail, access and roles, one-time passwords, sessions, the billing of a *)
(* company, and the team with every other door open.                        *)
(*                                                                         *)
(* Each section proves the inductive invariant of one component, which the  *)
(* component's module defines after its properties, and ends in the theorem *)
(* that the property of MCTeam which is about it always holds.              *)
(***************************************************************************)
EXTENDS MCTeam, QuantityTheorems

(* A set of interchangeable elements has at most one. *)
LEMMA AtMostOne ==
  ASSUME NEW S, \A x, y \in S : x = y
  PROVE  Cardinality(S) <= 1
<1>1. CASE S = {}
  BY <1>1, FS_EmptySet
<1>2. ASSUME NEW x \in S
      PROVE  Cardinality(S) <= 1
  <2>1. S = {x}
    BY <1>2
  <2> QED
    BY <2>1, FS_Singleton
<1> QED
  BY <1>1, <1>2

-----------------------------------------------------------------------------
(* Accounts.  First what each step makes of the request that takes it.      *)
Acts == {"none", "password", "address", "link", "create"}
Kinds == {"signin", "onboard", "form", "paid", "join"}

(* The request q becomes n. *)
Becomes(q, n) == n \in Account!RequestRows /\ reqs' = [reqs EXCEPT ![q] = n]

(* What a request that found its user, or found none, knows of him. *)
FoundTruly(n) ==
  /\ n.step = "write" /\ n.holds = {}
  /\ n.act = "create" <=> n.user = None
  /\ n.user # None => Account!Exists(n.user)
  /\ n.kind \in Account!Forms => n.act = "create"
  /\ n.act = "password" => n.row = users[n.user]
  /\ n.act = "link" => users[n.user].sub = None
  /\ n.act = "create" => Account!ByEmail(n.email) = {}

LEMMA RequestTyped ==
  ASSUME NEW kind \in Kinds \cup {"invite"}, NEW s \in Subs \cup {None}, NEW e \in Emails,
         NEW i \in Invites \cup {None}
  PROVE  Account!Request(kind, s, e, i) \in Account!RequestRows
BY DEF Kinds, Account!Request, Account!RequestRows

LEMMA FoundBecomes ==
  ASSUME Account!AccountsTypeOK, NEW q \in Requests, NEW r \in Account!RequestRows,
         NEW u \in Users \cup {None}, NEW act \in Acts, Account!Found(q, r, u, act),
         act = "password" => users[u] \in Account!UserRows
  PROVE  \E n \in Account!RequestRows :
           /\ Becomes(q, n)
           /\ n.step = "write" /\ n.user = u /\ n.act = act
           /\ n.row = IF act = "password" THEN users[u] ELSE None
           /\ n.kind = r.kind /\ n.sub = r.sub /\ n.email = r.email /\ n.invite = r.invite
           /\ n.holds = r.holds /\ n.seen = r.seen
<1> DEFINE row == IF act = "password" THEN users[u] ELSE None
           n == [r EXCEPT !.step = "write", !.user = u, !.act = act, !.row = row]
<1>1. row \in Account!UserRows \cup {None}
  OBVIOUS
<1>2. reqs' = [reqs EXCEPT ![q] = n]
  BY DEF Account!Found
<1> HIDE DEF row
<1>3. /\ n \in Account!RequestRows
      /\ n.step = "write" /\ n.user = u /\ n.act = act /\ n.row = row
      /\ n.kind = r.kind /\ n.sub = r.sub /\ n.email = r.email /\ n.invite = r.invite
      /\ n.holds = r.holds /\ n.seen = r.seen
  BY <1>1 DEF Account!RequestRows, Acts
<1> HIDE DEF n
<1> QED
  BY <1>2, <1>3 DEF row, Becomes

LEMMA ArriveBecomes ==
  ASSUME AccountsAssumption, Account!AccountsTypeOK, NEW q \in Requests, NEW kind \in Kinds,
         NEW s \in Subs \cup {None}, NEW e \in Emails, NEW i \in Invites \cup {None},
         Account!Arrive(q, kind, s, e, i)
  PROVE  \E n \in Account!RequestRows :
           /\ Becomes(q, n) /\ FoundTruly(n)
           /\ n.kind = kind /\ n.email = e /\ n.invite = i
<1> DEFINE r == Account!Request(kind, s, e, i)
<1>1. r \in Account!RequestRows
  BY RequestTyped
<1>2. r.kind = kind /\ r.sub = s /\ r.email = e /\ r.invite = i /\ r.holds = {}
  BY DEF Account!Request
<1> HIDE DEF r
<1>3. ASSUME NEW u \in Users \cup {None}, NEW act \in Acts, Account!Found(q, r, u, act),
             act = "create" <=> u = None,
             u # None => Account!Exists(u),
             kind \in Account!Forms => act = "create",
             act = "link" => users[u].sub = None,
             act = "create" => Account!ByEmail(e) = {}
      PROVE  \E n \in Account!RequestRows :
               /\ Becomes(q, n) /\ FoundTruly(n)
               /\ n.kind = kind /\ n.email = e /\ n.invite = i
  <2>1. act = "password" => users[u] \in Account!UserRows
    BY <1>3 DEF Account!AccountsTypeOK, Account!Exists
  <2> QED
    BY <1>1, <1>2, <1>3, <2>1, FoundBecomes DEF FoundTruly
<1>4. None \notin Users
  BY AccountsAssumption DEF AccountsAssumption, Account!AccountsConstants
<1> USE DEF Account!BySub, Account!ByEmail, Account!Exists, Acts
<1>5. ASSUME Account!FindByClaim(q, r), kind \notin Account!Forms
      PROVE  \E n \in Account!RequestRows :
               /\ Becomes(q, n) /\ FoundTruly(n)
               /\ n.kind = kind /\ n.email = e /\ n.invite = i
  BY <1>2, <1>3, <1>4, <1>5 DEF Account!FindByClaim, Account!MayLink
<1>6. ASSUME Account!FindByAddress(q, r)
      PROVE  \E n \in Account!RequestRows :
               /\ Becomes(q, n) /\ FoundTruly(n)
               /\ n.kind = kind /\ n.email = e /\ n.invite = i
  BY <1>2, <1>3, <1>4, <1>6 DEF Account!FindByAddress
<1>7. ASSUME Account!FindSignedIn(q, r), kind = "onboard"
      PROVE  \E n \in Account!RequestRows :
               /\ Becomes(q, n) /\ FoundTruly(n)
               /\ n.kind = kind /\ n.email = e /\ n.invite = i
  BY <1>2, <1>3, <1>4, <1>7 DEF Account!FindSignedIn, Account!Forms
<1>8. \/ Account!FindByAddress(q, r)
      \/ kind = "onboard" /\ Account!FindSignedIn(q, r)
      \/ kind \notin Account!Forms /\ Account!FindByClaim(q, r)
  BY DEF Account!Arrive, Account!Forms, Kinds, r
<1> QED
  BY <1>5, <1>6, <1>7, <1>8

(* What the proofs about Accounts need beside its properties.               *)

(* A request that accepts an invitation has locked it, alone. *)
InvitationsHeld ==
  /\ \A q \in Requests : reqs[q] # None =>
       /\ reqs[q].kind = "join" => reqs[q].invite # None
       /\ reqs[q].invite # None =>
            /\ invites[reqs[q].invite] # None
            /\ invites[reqs[q].invite].state = "open"
            /\ \A p \in Account!Others(q) : reqs[p].invite # reqs[q].invite
  /\ \A i \in Invites : joined[i] = 0 \/ (joined[i] = 1 /\ invites[i] # None
                                            /\ invites[i].state = "closed")

(* The one request that replaces the invitations of an address saw them all. *)
OneReplaces ==
  \A e \in Emails : e \in raced \/
    /\ \A i, j \in Account!OpenFor(e) : i = j
    /\ \A q \in Requests : Account!At(q, "replace") /\ reqs[q].email = e =>
         /\ Account!OpenFor(e) \subseteq reqs[q].seen
         /\ \A p \in Account!Others(q) : ~(Account!At(p, "replace") /\ reqs[p].email = e)

UsersMadeOnce ==
  \A q \in Requests :
    /\ Account!At(q, "write") => reqs[q].holds = {}
       /\ (reqs[q].act = "create" <=> reqs[q].user = None)
    /\ Account!At(q, "write") /\ reqs[q].user # None => Account!Exists(reqs[q].user)
    /\ Account!At(q, "write") /\ reqs[q].kind \in Account!Forms => reqs[q].act = "create"
    /\ Account!At(q, "write") /\ reqs[q].act = "password" => reqs[q].row # None
    /\ Account!Writing(q) =>
         /\ reqs[q].user # None
         /\ reqs[q].kind \in Account!Forms => ~Account!Exists(reqs[q].user)
         /\ ~Account!Exists(reqs[q].user) =>
              /\ reqs[q].row # None /\ reqs[q].user \in reqs[q].holds
              /\ \A p \in Account!Others(q) : reqs[q].user \notin reqs[p].holds

(* Who has founded a company is there and a member of it; who is about to    *)
(* found one has founded none.                                               *)
FoundersCounted ==
  \A u \in Users :
    /\ founded[u] > 0 => Account!Exists(u) /\ Account!HasCompany(u)
    /\ <<"onboard", u>> \in raced \/ founded[u] <= 1
    /\ <<"onboard", u>> \in raced \/
         \A q \in Requests : Account!At(q, "commit") /\ reqs[q].kind = "onboard"
           /\ reqs[q].user = u =>
           /\ founded[u] = 0
           /\ \A p \in Account!Others(q) :
                ~(Account!At(p, "commit") /\ reqs[p].kind = "onboard" /\ reqs[p].user = u)

(* What a request found is so still, or another that found the same wrote. *)
FoundIsCurrent ==
  /\ confused \subseteq raced
  /\ \A q \in Requests : Account!At(q, "write") =>
       /\ reqs[q].act = "link" => users[reqs[q].user].sub = None \/ reqs[q].user \in raced
       /\ reqs[q].act = "password" =>
            reqs[q].row.sub = users[reqs[q].user].sub \/ reqs[q].user \in raced
       /\ reqs[q].act = "create" => Account!ByEmail(reqs[q].email) \subseteq raced

AccountsInv ==
  /\ Account!AccountsTypeOK /\ InvitationsHeld /\ OneReplaces /\ UsersMadeOnce
  /\ FoundersCounted /\ FoundIsCurrent

(* What a write leaves of the request: a user who is there, or one that no   *)
(* other request holds.                                                      *)
WrittenTruly(q, n) ==
  /\ n.step = "check" /\ n.user \in Users
  /\ n.kind = reqs[q].kind /\ n.email = reqs[q].email /\ n.invite = reqs[q].invite
  /\ n.kind \in Account!Forms => ~Account!Exists(n.user)
  /\ ~Account!Exists(n.user) =>
       /\ n.row # None /\ n.user \in n.holds
       /\ \A p \in Account!Others(q) : n.user \notin reqs[p].holds
  /\ \A p \in Account!Others(q) : \A x \in Users :
       x \in n.holds /\ x \in reqs[p].holds => Account!Exists(x)
  /\ FoundIsCurrent => confused' \subseteq raced

(* get_or_create found a user who has no Google id. *)
Relinked(q, n) ==
  /\ n.step = "write" /\ n.act = "link" /\ n.holds = {}
  /\ n.user \in Users /\ Account!Exists(n.user) /\ users[n.user].sub = None
  /\ n.kind = reqs[q].kind /\ n.email = reqs[q].email /\ n.invite = reqs[q].invite
  /\ n.kind \notin Account!Forms
  /\ UNCHANGED confused

LEMMA WroteBecomes ==
  ASSUME AccountsAssumption, Account!AccountsTypeOK, UsersMadeOnce,
         NEW q \in Requests, Account!At(q, "write"), Account!Free(q),
         NEW u \in Users, NEW row \in Account!UserRows, Account!Wrote(q, u, row),
         Account!Exists(u) \/ \A p \in Account!Others(q) : u \notin reqs[p].holds,
         reqs[q].kind \in Account!Forms => ~Account!Exists(u),
         FoundIsCurrent /\ Account!Exists(u) =>
           u \in raced \/ users[u].sub \in {None, row.sub}
  PROVE  \E n \in Account!RequestRows : Becomes(q, n) /\ WrittenTruly(q, n)
<1> DEFINE holds == Account!Needs(reqs[q]) \cup {u}
           n == [reqs[q] EXCEPT !.step = "check", !.user = u, !.row = row, !.holds = holds]
<1>1. reqs[q] \in Account!RequestRows
  BY DEF Account!AccountsTypeOK, Account!At
<1>2. holds \in SUBSET (Users \cup Emails \cup Subs \cup {None})
  BY <1>1 DEF Account!RequestRows, Account!Needs
<1>3. reqs' = [reqs EXCEPT ![q] = n]
  BY <1>1 DEF Account!Wrote, Account!AccountsTypeOK
<1>4. u \in holds /\ \A x \in holds : x \in Account!Needs(reqs[q]) \/ x = u
  OBVIOUS
<1> HIDE DEF holds
<1>5. /\ n \in Account!RequestRows
      /\ n.step = "check" /\ n.user = u /\ n.row = row /\ n.holds = holds
      /\ n.kind = reqs[q].kind /\ n.email = reqs[q].email /\ n.invite = reqs[q].invite
  BY <1>1, <1>2 DEF Account!RequestRows
<1> HIDE DEF n
<1>6. row # None
  BY AccountsAssumption DEF AccountsAssumption, Account!AccountsConstants
<1>7. ASSUME NEW p \in Account!Others(q), NEW x \in Users, x \in holds, x \in reqs[p].holds
      PROVE  Account!Exists(x)
  BY <1>4, <1>7 DEF Account!Free
<1>8. FoundIsCurrent => confused' \subseteq raced
  BY DEF FoundIsCurrent, Account!Wrote
<1> QED
  BY <1>3, <1>4, <1>5, <1>6, <1>7, <1>8 DEF Becomes, WrittenTruly

LEMMA WriteBecomes ==
  ASSUME AccountsAssumption, Account!AccountsTypeOK, UsersMadeOnce,
         NEW q \in Requests, Account!Write(q)
  PROVE  \/ Account!Refuse(q) /\ UNCHANGED confused
         \/ \E n \in Account!RequestRows :
              Becomes(q, n) /\ (WrittenTruly(q, n) \/ Relinked(q, n))
<1> DEFINE r == reqs[q]
           u == reqs[q].user
<1>1. /\ Account!At(q, "write") /\ Account!Free(q)
      /\ r \in Account!RequestRows /\ r.holds = {}
      /\ r.act = "create" <=> u = None
      /\ r.act # "create" => u \in Users /\ Account!Exists(u) /\ users[u] \in Account!UserRows
      /\ r.kind \in Account!Forms => r.act = "create"
  BY DEF Account!Write, Account!At, Account!AccountsTypeOK, UsersMadeOnce,
         Account!RequestRows, Account!Exists
<1>2. ASSUME NEW v \in Users, Account!Exists(v),
             reqs' = [reqs EXCEPT ![q].step = "check", ![q].user = v],
             r.kind \notin Account!Forms, FoundIsCurrent => confused' \subseteq raced
      PROVE  \E n \in Account!RequestRows : Becomes(q, n) /\ WrittenTruly(q, n)
  <2> DEFINE n == [reqs[q] EXCEPT !.step = "check", !.user = v]
  <2>1. reqs' = [reqs EXCEPT ![q] = n]
    BY <1>1, <1>2 DEF Account!AccountsTypeOK
  <2>2. /\ n \in Account!RequestRows
        /\ n.step = "check" /\ n.user = v /\ n.holds = {}
        /\ n.kind = r.kind /\ n.email = r.email /\ n.invite = r.invite
    BY <1>1 DEF Account!RequestRows
  <2> HIDE DEF n
  <2> QED
    BY <1>2, <2>1, <2>2 DEF Becomes, WrittenTruly
<1>3. CASE r.act = "none"
  <2>1. reqs' = [reqs EXCEPT ![q].step = "check"] /\ UNCHANGED confused
    BY <1>3 DEF Account!Write
  <2>2. reqs' = [reqs EXCEPT ![q].step = "check", ![q].user = u]
    BY <1>1, <2>1 DEF Account!AccountsTypeOK, Account!RequestRows
  <2> QED
    BY <1>1, <1>2, <1>3, <2>1, <2>2 DEF FoundIsCurrent
<1>4. CASE r.act = "address"
  <2> DEFINE row == [users[u] EXCEPT !.email = r.email]
  <2>1. row \in Account!UserRows /\ row.sub = users[u].sub
    BY <1>1, <1>4 DEF Account!UserRows, Account!RequestRows
  <2>2. (Account!Refuse(q) /\ UNCHANGED confused) \/ Account!Wrote(q, u, row)
    BY <1>4 DEF Account!Write
  <2> HIDE DEF row
  <2> QED
    BY <1>1, <1>4, <2>1, <2>2, WroteBecomes
<1>5. CASE r.act = "link"
  <2> DEFINE row == [users[u] EXCEPT !.sub = r.sub]
  <2>1. row \in Account!UserRows
    BY <1>1, <1>5 DEF Account!UserRows, Account!RequestRows
  <2>2. (Account!Refuse(q) /\ UNCHANGED confused) \/ Account!Wrote(q, u, row)
    BY <1>5 DEF Account!Write, Account!Linked
  <2> HIDE DEF row
  <2>3. FoundIsCurrent => users[u].sub = None \/ u \in raced
    BY <1>1, <1>5 DEF FoundIsCurrent
  <2> QED
    BY <1>1, <1>5, <2>1, <2>2, <2>3, WroteBecomes
<1>6. CASE r.act = "password"
  <2>1. r.row \in Account!UserRows
    BY <1>1, <1>6 DEF UsersMadeOnce, Account!RequestRows
  <2>2. Account!Wrote(q, u, r.row)
    BY <1>6 DEF Account!Write
  <2>3. FoundIsCurrent => users[u].sub = r.row.sub \/ u \in raced
    BY <1>1, <1>6 DEF FoundIsCurrent
  <2> QED
    BY <1>1, <1>6, <2>1, <2>2, <2>3, WroteBecomes
<1>7. CASE r.act = "create" /\ Account!ByEmail(r.email) # {}
  <2>1. CASE r.kind \in Account!Forms \/ r.sub = None
    BY <1>7, <2>1 DEF Account!Write
  <2>2. ASSUME NEW v \in Account!ByEmail(r.email), Account!Returned(q, v),
               r.kind \notin Account!Forms
        PROVE  \E n \in Account!RequestRows :
                 Becomes(q, n) /\ (WrittenTruly(q, n) \/ Relinked(q, n))
    <3>1. v \in Users /\ Account!Exists(v)
      BY DEF Account!ByEmail
    <3>2. CASE users[v].sub = None
      <4> DEFINE n == [reqs[q] EXCEPT !.user = v, !.act = "link"]
      <4>1. reqs' = [reqs EXCEPT ![q] = n] /\ UNCHANGED confused
        BY <1>1, <2>2, <3>2 DEF Account!Returned, Account!AccountsTypeOK
      <4>2. /\ n \in Account!RequestRows
            /\ n.step = "write" /\ n.user = v /\ n.act = "link" /\ n.holds = {}
            /\ n.kind = r.kind /\ n.email = r.email /\ n.invite = r.invite
        BY <1>1, <3>1 DEF Account!RequestRows, Account!At
      <4> HIDE DEF n
      <4> QED
        BY <2>2, <3>1, <3>2, <4>1, <4>2 DEF Becomes, Relinked
    <3>3. CASE users[v].sub # None
      <4>1. /\ reqs' = [reqs EXCEPT ![q].step = "check", ![q].user = v]
            /\ confused' \subseteq confused \cup {v}
        BY <2>2, <3>3 DEF Account!Returned
      <4>2. FoundIsCurrent => v \in raced /\ confused \subseteq raced
        BY <1>1, <1>7, <2>2 DEF FoundIsCurrent
      <4> QED
        BY <1>2, <2>2, <3>1, <4>1, <4>2
    <3> QED
      BY <3>2, <3>3
  <2> QED
    BY <1>7, <2>1, <2>2 DEF Account!Write
<1>8. CASE r.act = "create" /\ Account!ByEmail(r.email) = {}
  <2> DEFINE name == IF r.kind \in Account!Forms THEN None ELSE r.email
  <2>1. \/ Account!Refuse(q) /\ UNCHANGED confused
        \/ \E v \in Users :
             /\ ~Account!Exists(v) /\ \A p \in Account!Others(q) : v \notin reqs[p].holds
             /\ Account!Wrote(q, v, [email |-> r.email, name |-> name, sub |-> r.sub])
    BY <1>8 DEF Account!Write
  <2>2. [email |-> r.email, name |-> name, sub |-> r.sub] \in Account!UserRows
    BY <1>1 DEF Account!UserRows, Account!RequestRows
  <2> QED
    BY <1>1, <2>1, <2>2, WroteBecomes
<1> QED
  BY <1>1, <1>3, <1>4, <1>5, <1>6, <1>7, <1>8 DEF Account!RequestRows

(* The transaction of q commits what it wrote. *)
Commits(q) ==
  /\ Account!Writing(q) /\ Account!Refuse(q)
  /\ users' = Account!Committed(reqs[q])
  /\ raced' = raced \cup Account!MetBy(q)

LEMMA CommitWrites ==
  ASSUME Account!AccountsTypeOK, UsersMadeOnce, NEW q \in Requests, Commits(q)
  PROVE  /\ reqs[q] \in Account!RequestRows /\ reqs[q].user \in Users
         /\ users' \in [Users -> Account!UserRows \cup {None}]
         /\ reqs' = [reqs EXCEPT ![q] = None]
         /\ \A u \in Users : Account!Exists(u) => users'[u] # None
         /\ users'[reqs[q].user] # None
         /\ \A u \in Users \ {reqs[q].user} : users'[u] = users[u]
         /\ reqs[q].row = None => users' = users
         /\ reqs[q].row # None => users'[reqs[q].user] = reqs[q].row
<1>1. /\ reqs[q] \in Account!RequestRows /\ reqs[q].user # None
      /\ reqs[q].row = None => Account!Exists(reqs[q].user)
  BY DEF Commits, Account!Writing, Account!At, Account!AccountsTypeOK, UsersMadeOnce
<1>2. reqs[q].user \in Users /\ reqs[q].row \in Account!UserRows \cup {None}
  BY <1>1 DEF Account!RequestRows
<1> QED
  BY <1>1, <1>2 DEF Commits, Account!Committed, Account!Refuse, Account!AccountsTypeOK,
                    Account!Exists

LEMMA CheckCommits ==
  ASSUME NEW q \in Requests, Account!AccountsTypeOK, Account!Check(q)
  PROVE  /\ reqs[q] \in Account!RequestRows
         /\ \/ Commits(q)
            \/ /\ UNCHANGED users
               /\ \E n \in Account!RequestRows :
                    /\ Becomes(q, n) /\ n.step = "commit"
                    /\ n.kind = reqs[q].kind /\ n.email = reqs[q].email
                    /\ n.invite = reqs[q].invite /\ n.user = reqs[q].user
                    /\ n.row = reqs[q].row /\ n.holds = reqs[q].holds
                    /\ n.kind = "onboard" => ~Account!HasCompany(n.user)
<1>1. reqs[q] \in Account!RequestRows
  BY DEF Account!Check, Account!At, Account!AccountsTypeOK
<1>2. CASE \/ reqs[q].kind = "signin"
           \/ reqs[q].kind = "onboard" /\ Account!HasCompany(reqs[q].user)
  BY <1>1, <1>2 DEF Account!Check, Commits, Account!Writing
<1>3. CASE ~(\/ reqs[q].kind = "signin"
             \/ reqs[q].kind = "onboard" /\ Account!HasCompany(reqs[q].user))
  <2> DEFINE n == [reqs[q] EXCEPT !.step = "commit"]
  <2>1. reqs' = [reqs EXCEPT ![q] = n] /\ UNCHANGED users
    BY <1>1, <1>3 DEF Account!Check, Account!AccountsTypeOK
  <2>2. /\ n \in Account!RequestRows
        /\ n.step = "commit" /\ n.user = reqs[q].user /\ n.row = reqs[q].row
        /\ n.holds = reqs[q].holds /\ n.kind = reqs[q].kind /\ n.email = reqs[q].email
        /\ n.invite = reqs[q].invite
    BY <1>1 DEF Account!RequestRows
  <2> HIDE DEF n
  <2> QED
    BY <1>1, <1>3, <2>1, <2>2 DEF Becomes
<1> QED
  BY <1>2, <1>3

LEMMA StartInviteBecomes ==
  ASSUME NEW q \in Requests, NEW e \in Emails, Account!StartInvite(q, e)
  PROVE  \E n \in Account!RequestRows :
           /\ Becomes(q, n) /\ n.step = "replace" /\ n.kind = "invite" /\ n.email = e
           /\ n.invite = None /\ n.holds = {} /\ n.seen = Account!OpenFor(e)
<1> DEFINE r == Account!Request("invite", None, e, None)
           n == [r EXCEPT !.step = "replace", !.seen = Account!OpenFor(e)]
<1>1. r \in Account!RequestRows
  BY RequestTyped
<1>2. r.kind = "invite" /\ r.email = e /\ r.invite = None /\ r.holds = {}
  BY DEF Account!Request
<1>3. Account!OpenFor(e) \in SUBSET Invites
  BY DEF Account!OpenFor
<1>4. reqs' = [reqs EXCEPT ![q] = n]
  BY DEF Account!StartInvite
<1> HIDE DEF r
<1>5. /\ n \in Account!RequestRows
      /\ n.step = "replace" /\ n.kind = "invite" /\ n.email = e
      /\ n.invite = None /\ n.holds = {} /\ n.seen = Account!OpenFor(e)
  BY <1>1, <1>2, <1>3 DEF Account!RequestRows
<1> HIDE DEF n
<1> QED
  BY <1>4, <1>5 DEF Becomes

(* The steps, for the proofs to go through. *)
LEMMA AccountsSteps ==
  ASSUME Account!AccountsNext
  PROVE  \/ \E q \in Requests, kind \in Kinds, s \in Subs \cup {None}, e \in Emails,
              i \in Invites \cup {None} : Account!Arrive(q, kind, s, e, i)
         \/ \E q \in Requests : Account!Write(q) \/ Account!Check(q)
         \/ \E q \in Requests : Account!FoundCompany(q) \/ Account!FoundPaidCompany(q)
         \/ \E q \in Requests : Account!Join(q) \/ Account!RollBack(q)
         \/ \E q \in Requests, e \in Emails : Account!StartInvite(q, e)
         \/ \E q \in Requests, i \in Invites : Account!Invite(q, i)
         \/ \E u \in Users : Account!AddCompany(u) \/ Account!EndMembership(u)
         \/ \E i \in Invites : Account!Revoke(i)
BY DEF Account!AccountsNext, Kinds

(* Rows stay well-formed. *)
LEMMA AccountsTyped ==
  ASSUME AccountsAssumption, Account!AccountsTypeOK, UsersMadeOnce,
         InvitationsHeld, [Account!AccountsNext]_accountVars
  PROVE  Account!AccountsTypeOK'
<1> USE DEF Account!AccountsTypeOK
<1>1. ASSUME NEW q \in Requests, NEW kind \in Kinds, NEW s \in Subs \cup {None},
             NEW e \in Emails, NEW i \in Invites \cup {None}, Account!Arrive(q, kind, s, e, i)
      PROVE  Account!AccountsTypeOK'
  <2>1. PICK n \in Account!RequestRows : Becomes(q, n)
    BY <1>1, ArriveBecomes
  <2> QED
    BY <1>1, <2>1 DEF Account!Arrive, Becomes
<1>2. ASSUME NEW q \in Requests, Account!Write(q)
      PROVE  Account!AccountsTypeOK'
  <2>1. reqs' \in [Requests -> Account!RequestRows \cup {None}]
    BY <1>2, WriteBecomes DEF Becomes, Account!Refuse
  <2> QED
    BY <1>2, <2>1 DEF Account!Write
<1>3. ASSUME NEW q \in Requests, Account!Check(q)
      PROVE  Account!AccountsTypeOK'
  <2>1. /\ reqs' \in [Requests -> Account!RequestRows \cup {None}]
        /\ users' \in [Users -> Account!UserRows \cup {None}]
    BY <1>3, CheckCommits, CommitWrites DEF Becomes
  <2> QED
    BY <1>3, <2>1 DEF Account!Check
<1>4. ASSUME NEW q \in Requests, Account!FoundCompany(q) \/ Account!FoundPaidCompany(q)
      PROVE  Account!AccountsTypeOK'
  <2>1. Commits(q)
    BY <1>4 DEF Account!FoundCompany, Account!FoundPaidCompany, Account!Founds, Commits,
                Account!Writing
  <2>2. /\ reqs' \in [Requests -> Account!RequestRows \cup {None}]
        /\ users' \in [Users -> Account!UserRows \cup {None}]
        /\ reqs[q].user \in Users
    BY <2>1, CommitWrites
  <2> QED
    BY <1>4, <2>2 DEF Account!FoundCompany, Account!FoundPaidCompany, Account!Founds
<1>5. ASSUME NEW q \in Requests, Account!Join(q)
      PROVE  Account!AccountsTypeOK'
  <2>1. Commits(q)
    BY <1>5 DEF Account!Join, Commits, Account!Writing
  <2>2. /\ reqs' \in [Requests -> Account!RequestRows \cup {None}]
        /\ users' \in [Users -> Account!UserRows \cup {None}]
        /\ reqs[q].user \in Users /\ reqs[q] \in Account!RequestRows
    BY <2>1, CommitWrites
  <2>3. /\ reqs[q].invite \in Invites
        /\ invites[reqs[q].invite] \in Account!InviteRows
    BY <1>5, <2>2 DEF Account!Join, Account!At, InvitationsHeld, Account!RequestRows
  <2>4. invites' \in [Invites -> Account!InviteRows \cup {None}]
    BY <1>5, <2>3 DEF Account!Join, Account!InviteRows
  <2> QED
    BY <1>5, <2>2, <2>3, <2>4 DEF Account!Join
<1>6. ASSUME NEW q \in Requests, Account!RollBack(q)
      PROVE  Account!AccountsTypeOK'
  BY <1>6 DEF Account!RollBack, Account!Refuse
<1>7. ASSUME NEW q \in Requests, NEW e \in Emails, Account!StartInvite(q, e)
      PROVE  Account!AccountsTypeOK'
  <2>1. reqs' \in [Requests -> Account!RequestRows \cup {None}]
    BY <1>7, StartInviteBecomes DEF Becomes
  <2> QED
    BY <1>7, <2>1 DEF Account!StartInvite
<1>8. ASSUME NEW q \in Requests, NEW i \in Invites, Account!Invite(q, i)
      PROVE  Account!AccountsTypeOK'
  <2>1. reqs[q].email \in Emails
    BY <1>8 DEF Account!Invite, Account!At, Account!RequestRows
  <2>2. ASSUME NEW j \in Invites, invites[j] # None
        PROVE  [invites[j] EXCEPT !.state = "closed"] \in Account!InviteRows
    BY <2>2 DEF Account!InviteRows
  <2>3. [email |-> reqs[q].email, state |-> "open"] \in Account!InviteRows
    BY <2>1 DEF Account!InviteRows
  <2>4. invites' \in [Invites -> Account!InviteRows \cup {None}]
    BY <1>8, <2>2, <2>3 DEF Account!Invite
  <2> QED
    BY <1>8, <2>4 DEF Account!Invite, Account!Refuse
<1>9. ASSUME NEW u \in Users, Account!AddCompany(u) \/ Account!EndMembership(u)
      PROVE  Account!AccountsTypeOK'
  <2>1. CASE Account!AddCompany(u)
    BY <2>1 DEF Account!AddCompany
  <2>2. CASE Account!EndMembership(u)
    <3>1. members' \subseteq Users /\ guests' \subseteq Users
      BY <2>2 DEF Account!EndMembership
    <3>2. founded' \in [Users -> Nat]
      BY <2>2 DEF Account!EndMembership
    <3> QED
      BY <2>2, <3>1, <3>2 DEF Account!EndMembership
  <2> QED
    BY <1>9, <2>1, <2>2
<1>10. ASSUME NEW i \in Invites, Account!Revoke(i)
       PROVE  Account!AccountsTypeOK'
  <2>1. invites' \in [Invites -> Account!InviteRows \cup {None}]
    BY <1>10 DEF Account!Revoke, Account!InviteRows
  <2> QED
    BY <1>10, <2>1 DEF Account!Revoke
<1>11. CASE UNCHANGED accountVars
  BY <1>11 DEF accountVars
<1> QED
  BY <1>1, <1>2, <1>3, <1>4, <1>5, <1>6, <1>7, <1>8, <1>9, <1>10, <1>11, AccountsSteps

(* A request that accepts an invitation keeps it open and to itself.        *)
LEMMA InvitationsHeldStep ==
  ASSUME AccountsAssumption, Account!AccountsTypeOK, UsersMadeOnce,
         InvitationsHeld, [Account!AccountsNext]_accountVars
  PROVE  InvitationsHeld'
<1> USE DEF Account!Others
<1>0. None \notin Account!RequestRows /\ None \notin Account!InviteRows
  BY AccountsAssumption DEF AccountsAssumption, Account!AccountsConstants
<1>1. ASSUME NEW q \in Requests, NEW n \in Account!RequestRows, Becomes(q, n),
             reqs[q] # None, n.kind = reqs[q].kind, n.invite = reqs[q].invite,
             UNCHANGED <<invites, joined>>
      PROVE  InvitationsHeld'
  BY <1>0, <1>1 DEF Becomes, InvitationsHeld, Account!AccountsTypeOK
<1>2. ASSUME NEW q \in Requests, Account!Refuse(q), UNCHANGED <<invites, joined>>
      PROVE  InvitationsHeld'
  BY <1>0, <1>2 DEF Account!Refuse, InvitationsHeld, Account!AccountsTypeOK
<1>3. ASSUME NEW q \in Requests, NEW kind \in Kinds, NEW s \in Subs \cup {None},
             NEW e \in Emails, NEW i \in Invites \cup {None}, Account!Arrive(q, kind, s, e, i)
      PROVE  InvitationsHeld'
  <2>1. PICK n \in Account!RequestRows : Becomes(q, n) /\ n.kind = kind /\ n.invite = i
    BY <1>3, ArriveBecomes
  <2>2. /\ kind = "join" => i # None
        /\ i # None => /\ i \in Invites /\ invites[i] # None /\ invites[i].state = "open"
                       /\ \A p \in Requests : reqs[p] # None => reqs[p].invite # i
        /\ UNCHANGED <<invites, joined>>
    BY <1>3 DEF Account!Arrive, Account!OpenFor, Account!Locked
  <2> QED
    BY <1>0, <2>1, <2>2 DEF Becomes, InvitationsHeld, Account!AccountsTypeOK
<1>4. ASSUME NEW q \in Requests, Account!Write(q)
      PROVE  InvitationsHeld'
  <2>1. reqs[q] # None /\ UNCHANGED <<invites, joined>>
    BY <1>4 DEF Account!Write, Account!At
  <2>2. CASE Account!Refuse(q)
    BY <1>2, <2>1, <2>2
  <2>3. ASSUME NEW n \in Account!RequestRows, Becomes(q, n), WrittenTruly(q, n) \/ Relinked(q, n)
        PROVE  InvitationsHeld'
    BY <1>1, <2>1, <2>3 DEF WrittenTruly, Relinked
  <2> QED
    BY <1>4, <2>2, <2>3, WriteBecomes
<1>5. ASSUME NEW q \in Requests, Account!Check(q)
      PROVE  InvitationsHeld'
  <2>1. reqs[q] # None /\ UNCHANGED <<invites, joined>>
    BY <1>5 DEF Account!Check, Account!At
  <2> QED
    BY <1>1, <1>2, <1>5, <2>1, CheckCommits DEF Commits
<1>6. ASSUME NEW q \in Requests, Account!FoundCompany(q) \/ Account!FoundPaidCompany(q)
      PROVE  InvitationsHeld'
  BY <1>2, <1>6 DEF Account!FoundCompany, Account!FoundPaidCompany, Account!Founds
<1>7. ASSUME NEW q \in Requests, Account!Join(q)
      PROVE  InvitationsHeld'
  <2> DEFINE i == reqs[q].invite
  <2>1. /\ reqs[q] # None /\ i \in Invites /\ invites[i] \in Account!InviteRows
        /\ invites[i].state = "open"
        /\ \A p \in Account!Others(q) : reqs[p].invite # i
    BY <1>7 DEF Account!Join, Account!At, InvitationsHeld, Account!AccountsTypeOK,
                Account!RequestRows
  <2>2. joined[i] = 0 /\ joined \in [Invites -> Nat]
    BY <2>1 DEF InvitationsHeld, Account!AccountsTypeOK
  <2>3. /\ joined' = [joined EXCEPT ![i] = @ + 1]
        /\ invites' = [invites EXCEPT ![i] = [invites[i] EXCEPT !.state = "closed"]]
        /\ reqs' = [reqs EXCEPT ![q] = None]
    BY <1>7 DEF Account!Join, Account!Refuse
  <2> DEFINE closed == [invites[i] EXCEPT !.state = "closed"]
  <2>4. closed \in Account!InviteRows /\ closed.state = "closed" /\ closed # None
    BY <1>0, <2>1 DEF Account!InviteRows
  <2> HIDE DEF closed
  <2>5. ASSUME NEW p \in Requests, reqs'[p] # None
        PROVE  /\ reqs'[p].kind = "join" => reqs'[p].invite # None
               /\ reqs'[p].invite # None =>
                    /\ invites'[reqs'[p].invite] # None
                    /\ invites'[reqs'[p].invite].state = "open"
                    /\ \A o \in Account!Others(p)' : reqs'[o].invite # reqs'[p].invite
    <3>1. p # q /\ reqs'[p] = reqs[p] /\ p \in Account!Others(q)
          /\ \A o \in Account!Others(p)' : o \in Account!Others(p) /\ reqs'[o] = reqs[o]
      BY <2>3, <2>5 DEF Account!AccountsTypeOK
    <3>2. reqs[p].invite # None => reqs[p].invite \in Invites \ {i}
      BY <2>1, <3>1, <2>5 DEF Account!AccountsTypeOK, Account!RequestRows
    <3>3. reqs[p].invite # None => invites'[reqs[p].invite] = invites[reqs[p].invite]
      BY <2>3, <3>2 DEF Account!AccountsTypeOK
    <3> QED
      BY <2>5, <3>1, <3>3 DEF InvitationsHeld
  <2>6. ASSUME NEW j \in Invites
        PROVE  joined'[j] = 0 \/ (joined'[j] = 1 /\ invites'[j] # None
                                                /\ invites'[j].state = "closed")
    <3>1. CASE j = i
      BY <2>1, <2>2, <2>3, <2>4, <3>1 DEF Account!AccountsTypeOK, closed
    <3>2. CASE j # i
      BY <2>1, <2>2, <2>3, <3>2 DEF Account!AccountsTypeOK, InvitationsHeld
    <3> QED
      BY <3>1, <3>2
  <2> QED
    BY <2>5, <2>6 DEF InvitationsHeld
<1>8. ASSUME NEW q \in Requests, Account!RollBack(q)
      PROVE  InvitationsHeld'
  BY <1>2, <1>8 DEF Account!RollBack
<1>9. ASSUME NEW q \in Requests, NEW e \in Emails, Account!StartInvite(q, e)
      PROVE  InvitationsHeld'
  <2>1. PICK n \in Account!RequestRows : Becomes(q, n) /\ n.kind = "invite" /\ n.invite = None
    BY <1>9, StartInviteBecomes
  <2>2. UNCHANGED <<invites, joined>>
    BY <1>9 DEF Account!StartInvite
  <2> QED
    BY <1>0, <2>1, <2>2 DEF Becomes, InvitationsHeld, Account!AccountsTypeOK
<1>10. ASSUME NEW q \in Requests, NEW i \in Invites, Account!Invite(q, i)
       PROVE  InvitationsHeld'
  <2>1. /\ invites[i] = None /\ joined' = joined /\ reqs' = [reqs EXCEPT ![q] = None]
        /\ reqs[q].seen \subseteq Invites
        /\ \A j \in reqs[q].seen : ~Account!Locked(j)
    BY <1>10 DEF Account!Invite, Account!Refuse, Account!At, Account!AccountsTypeOK,
                 Account!RequestRows
  <2>2. \A j \in Invites \ {i} : invites'[j] = invites[j] \/
          /\ j \in reqs[q].seen /\ invites[j] # None /\ invites[j].state = "open"
          /\ invites'[j] = [invites[j] EXCEPT !.state = "closed"]
    BY <1>10 DEF Account!Invite, Account!Spared
  <2>3. ASSUME NEW p \in Requests, reqs[p] # None, reqs[p].invite # None
        PROVE  /\ reqs[p].invite \in Invites \ {i}
               /\ invites'[reqs[p].invite] = invites[reqs[p].invite]
    <3>1. reqs[p].invite \in Invites /\ invites[reqs[p].invite] # None
      BY <2>3 DEF InvitationsHeld, Account!AccountsTypeOK, Account!RequestRows
    <3>2. reqs[p].invite \notin reqs[q].seen
      BY <2>1, <2>3 DEF Account!Locked
    <3> QED
      BY <2>1, <2>2, <3>1, <3>2
  <2>4. ASSUME NEW j \in Invites
        PROVE  joined'[j] = 0 \/ (joined'[j] = 1 /\ invites'[j] # None
                                                /\ invites'[j].state = "closed")
    BY <2>1, <2>2 DEF InvitationsHeld
  <2> QED
    BY <2>1, <2>3, <2>4 DEF InvitationsHeld, Account!AccountsTypeOK
<1>11. ASSUME NEW u \in Users, Account!AddCompany(u) \/ Account!EndMembership(u)
       PROVE  InvitationsHeld'
  BY <1>11 DEF Account!AddCompany, Account!EndMembership, InvitationsHeld
<1>12. ASSUME NEW i \in Invites, Account!Revoke(i)
       PROVE  InvitationsHeld'
  <2> DEFINE closed == [invites[i] EXCEPT !.state = "closed"]
  <2>1. invites' = [invites EXCEPT ![i] = closed] /\ UNCHANGED <<reqs, joined>>
        /\ \A p \in Requests : reqs[p] # None => reqs[p].invite # i
    BY <1>12 DEF Account!Revoke, Account!Locked
  <2>2. closed.state = "closed" /\ closed # None
    BY <1>0, <1>12 DEF Account!Revoke, Account!InviteRows, Account!AccountsTypeOK
  <2> HIDE DEF closed
  <2> QED
    BY <2>1, <2>2 DEF InvitationsHeld, Account!AccountsTypeOK
<1>13. CASE UNCHANGED accountVars
  BY <1>13 DEF accountVars, InvitationsHeld
<1> QED
  BY <1>3, <1>4, <1>5, <1>6, <1>7, <1>8, <1>9, <1>10, <1>11, <1>12, <1>13, AccountsSteps

(* Unless two invitations of an address were made at once, one is open.      *)
LEMMA OneReplacesStep ==
  ASSUME AccountsAssumption, Account!AccountsTypeOK, UsersMadeOnce,
         InvitationsHeld, OneReplaces, [Account!AccountsNext]_accountVars
  PROVE  OneReplaces'
<1> USE DEF Account!Others, Account!At
<1>0. None \notin Account!RequestRows /\ None \notin Account!InviteRows
  BY AccountsAssumption DEF AccountsAssumption, Account!AccountsConstants
<1>1. ASSUME \A e \in Emails : Account!OpenFor(e)' \subseteq Account!OpenFor(e),
             \A p \in Requests : Account!At(p, "replace")' =>
               Account!At(p, "replace") /\ reqs'[p] = reqs[p],
             raced \subseteq raced'
      PROVE  OneReplaces'
  BY <1>1 DEF OneReplaces
<1>2. ASSUME UNCHANGED invites
      PROVE  \A e \in Emails : Account!OpenFor(e)' \subseteq Account!OpenFor(e)
  BY <1>2 DEF Account!OpenFor
<1>3. ASSUME NEW q \in Requests, NEW n \in Account!RequestRows, Becomes(q, n),
             n.step # "replace", UNCHANGED invites, raced \subseteq raced'
      PROVE  OneReplaces'
  <2>1. \A p \in Requests : Account!At(p, "replace")' =>
          Account!At(p, "replace") /\ reqs'[p] = reqs[p]
    BY <1>3 DEF Becomes, Account!AccountsTypeOK
  <2> QED
    BY <1>1, <1>2, <1>3, <2>1
<1>4. ASSUME NEW q \in Requests, Account!Refuse(q), raced \subseteq raced',
             \A e \in Emails : Account!OpenFor(e)' \subseteq Account!OpenFor(e)
      PROVE  OneReplaces'
  <2>1. \A p \in Requests : Account!At(p, "replace")' =>
          Account!At(p, "replace") /\ reqs'[p] = reqs[p]
    BY <1>4 DEF Account!Refuse, Account!AccountsTypeOK
  <2> QED
    BY <1>1, <1>4, <2>1
<1>5. ASSUME NEW q \in Requests, NEW kind \in Kinds, NEW s \in Subs \cup {None},
             NEW e \in Emails, NEW i \in Invites \cup {None}, Account!Arrive(q, kind, s, e, i)
      PROVE  OneReplaces'
  <2>1. PICK n \in Account!RequestRows : Becomes(q, n) /\ FoundTruly(n)
    BY <1>5, ArriveBecomes
  <2>2. UNCHANGED <<invites, raced>>
    BY <1>5 DEF Account!Arrive
  <2> QED
    BY <1>3, <2>1, <2>2 DEF FoundTruly
<1>6. ASSUME NEW q \in Requests, Account!Write(q)
      PROVE  OneReplaces'
  <2>1. UNCHANGED <<invites, raced>>
    BY <1>6 DEF Account!Write
  <2>2. CASE Account!Refuse(q)
    BY <1>2, <1>4, <2>1, <2>2
  <2>3. ASSUME NEW n \in Account!RequestRows, Becomes(q, n), WrittenTruly(q, n) \/ Relinked(q, n)
        PROVE  OneReplaces'
    BY <1>3, <2>1, <2>3 DEF WrittenTruly, Relinked
  <2> QED
    BY <1>6, <2>2, <2>3, WriteBecomes
<1>7. ASSUME NEW q \in Requests, Account!Check(q)
      PROVE  OneReplaces'
  <2>1. UNCHANGED invites /\ raced \subseteq raced'
    BY <1>7 DEF Account!Check
  <2> QED
    BY <1>2, <1>3, <1>4, <1>7, <2>1, CheckCommits DEF Commits
<1>8. ASSUME NEW q \in Requests, Account!FoundCompany(q) \/ Account!FoundPaidCompany(q)
      PROVE  OneReplaces'
  BY <1>2, <1>4, <1>8 DEF Account!FoundCompany, Account!FoundPaidCompany, Account!Founds
<1>9. ASSUME NEW i \in Invites, invites' = [invites EXCEPT ![i].state = "closed"],
             invites[i] # None
      PROVE  \A e \in Emails : Account!OpenFor(e)' \subseteq Account!OpenFor(e)
  BY <1>9 DEF Account!OpenFor, Account!AccountsTypeOK, Account!InviteRows
<1>10. ASSUME NEW q \in Requests, Account!Join(q)
       PROVE  OneReplaces'
  <2>1. reqs[q].invite \in Invites /\ invites[reqs[q].invite] # None
    BY <1>10 DEF Account!Join, InvitationsHeld, Account!AccountsTypeOK,
                 Account!RequestRows
  <2> QED
    BY <1>4, <1>9, <1>10, <2>1 DEF Account!Join
<1>11. ASSUME NEW q \in Requests, Account!RollBack(q)
       PROVE  OneReplaces'
  BY <1>2, <1>4, <1>11 DEF Account!RollBack
<1>12. ASSUME NEW q \in Requests, NEW e \in Emails, Account!StartInvite(q, e)
       PROVE  OneReplaces'
  <2>1. PICK n \in Account!RequestRows :
          Becomes(q, n) /\ n.step = "replace" /\ n.email = e /\ n.seen = Account!OpenFor(e)
    BY <1>12, StartInviteBecomes
  <2>2. /\ UNCHANGED invites /\ reqs[q] = None
        /\ e \in raced'
           \/ \A p \in Account!Others(q) : ~(Account!At(p, "replace") /\ reqs[p].email = e)
        /\ raced \subseteq raced'
    BY <1>12 DEF Account!StartInvite
  <2>3. \A f \in Emails : Account!OpenFor(f)' = Account!OpenFor(f)
    BY <2>2 DEF Account!OpenFor
  <2>4. reqs'[q] = n /\ \A p \in Requests \ {q} : reqs'[p] = reqs[p]
    BY <2>1 DEF Becomes, Account!AccountsTypeOK
  <2>5. ASSUME NEW f \in Emails, f \notin raced'
        PROVE  /\ \A i, j \in Account!OpenFor(f)' : i = j
               /\ \A o \in Requests : Account!At(o, "replace")' /\ reqs'[o].email = f =>
                    /\ Account!OpenFor(f)' \subseteq reqs'[o].seen
                    /\ \A p \in Account!Others(o)' :
                         ~(Account!At(p, "replace")' /\ reqs'[p].email = f)
    <3>1. f \notin raced
      BY <2>2, <2>5
    <3>2. CASE f = e
      BY <2>1, <2>2, <2>3, <2>4, <2>5, <3>1, <3>2 DEF OneReplaces
    <3>3. CASE f # e
      BY <2>1, <2>2, <2>3, <2>4, <2>5, <3>1, <3>3 DEF OneReplaces
    <3> QED
      BY <3>2, <3>3
  <2> QED
    BY <2>5 DEF OneReplaces
<1>13. ASSUME NEW q \in Requests, NEW i \in Invites, Account!Invite(q, i)
       PROVE  OneReplaces'
  <2>0. PICK e \in Emails : e = reqs[q].email
    BY <1>13 DEF Account!Invite, Account!AccountsTypeOK, Account!RequestRows
  <2>1. /\ reqs[q] \in Account!RequestRows
        /\ reqs' = [reqs EXCEPT ![q] = None] /\ raced' = raced
    BY <1>13 DEF Account!Invite, Account!Refuse, Account!AccountsTypeOK, Account!RequestRows
  <2>2. ASSUME NEW j \in Invites
        PROVE  /\ j = i => invites'[j] = [email |-> e, state |-> "open"]
               /\ j # i =>
                    \/ /\ invites'[j] = invites[j]
                       /\ j \notin reqs[q].seen \/ invites[j] = None \/ invites[j].state # "open"
                    \/ invites'[j] # None /\ invites'[j].state = "closed"
    BY <1>0, <1>13, <2>0 DEF Account!Invite, Account!Spared, Account!AccountsTypeOK,
                             Account!InviteRows
  <2>3. ASSUME NEW f \in Emails, f # e
        PROVE  Account!OpenFor(f)' \subseteq Account!OpenFor(f)
    BY <2>2, <2>3 DEF Account!OpenFor
  <2>4. ASSUME e \notin raced
        PROVE  Account!OpenFor(e)' \subseteq {i}
    <3>1. Account!OpenFor(e) \subseteq reqs[q].seen
      BY <1>13, <2>0, <2>1, <2>4 DEF OneReplaces, Account!Invite
    <3> QED
      BY <2>2, <3>1 DEF Account!OpenFor
  <2>5. \A p \in Requests : Account!At(p, "replace")' =>
          p # q /\ Account!At(p, "replace") /\ reqs'[p] = reqs[p]
    BY <2>1 DEF Account!AccountsTypeOK
  <2>6. ASSUME NEW f \in Emails, f \notin raced'
        PROVE  /\ \A h, j \in Account!OpenFor(f)' : h = j
               /\ \A o \in Requests : Account!At(o, "replace")' /\ reqs'[o].email = f =>
                    /\ Account!OpenFor(f)' \subseteq reqs'[o].seen
                    /\ \A p \in Account!Others(o)' :
                         ~(Account!At(p, "replace")' /\ reqs'[p].email = f)
    <3>1. CASE f = e
      <4>1. \A o \in Requests : ~(Account!At(o, "replace")' /\ reqs'[o].email = f)
        BY <1>13, <2>0, <2>1, <2>5, <2>6, <3>1 DEF OneReplaces, Account!Invite
      <4>2. Account!OpenFor(f)' \subseteq {i}
        BY <2>1, <2>4, <2>6, <3>1
      <4> QED
        BY <4>1, <4>2
    <3>2. CASE f # e
      BY <2>1, <2>3, <2>5, <2>6, <3>2 DEF OneReplaces
    <3> QED
      BY <3>1, <3>2
  <2> QED
    BY <2>6 DEF OneReplaces
<1>14. ASSUME NEW u \in Users, Account!AddCompany(u) \/ Account!EndMembership(u)
       PROVE  OneReplaces'
  BY <1>1, <1>2, <1>14 DEF Account!AddCompany, Account!EndMembership
<1>15. ASSUME NEW i \in Invites, Account!Revoke(i)
       PROVE  OneReplaces'
  BY <1>1, <1>9, <1>15 DEF Account!Revoke
<1>16. CASE UNCHANGED accountVars
  BY <1>1, <1>2, <1>16 DEF accountVars
<1> QED
  BY <1>5, <1>6, <1>7, <1>8, <1>10, <1>11, <1>12, <1>13, <1>14, <1>15, <1>16, AccountsSteps

(* A user whom a request makes stays its own until it commits.               *)
LEMMA UsersMadeOnceStep ==
  ASSUME AccountsAssumption, Account!AccountsTypeOK, UsersMadeOnce,
         [Account!AccountsNext]_accountVars
  PROVE  UsersMadeOnce'
<1> USE DEF Account!Others, Account!At, Account!Writing, Account!Exists
<1>0. None \notin Account!RequestRows /\ None \notin Account!UserRows /\ None \notin Users
  BY AccountsAssumption DEF AccountsAssumption, Account!AccountsConstants
<1>1. ASSUME NEW q \in Requests, reqs' = [reqs EXCEPT ![q] = None], UNCHANGED users
      PROVE  UsersMadeOnce'
  BY <1>1 DEF UsersMadeOnce, Account!AccountsTypeOK
<1>2. ASSUME NEW q \in Requests, Commits(q)
      PROVE  UsersMadeOnce'
  <2>1. /\ reqs' = [reqs EXCEPT ![q] = None] /\ reqs[q].user \in Users
        /\ \A u \in Users : users[u] # None => users'[u] # None
        /\ \A u \in Users \ {reqs[q].user} : users'[u] = users[u]
    BY <1>2, CommitWrites
  <2>2. ASSUME NEW p \in Requests, reqs'[p] # None
        PROVE  p \in Requests \ {q} /\ reqs'[p] = reqs[p] /\ reqs[p] \in Account!RequestRows
    BY <2>1, <2>2 DEF Account!AccountsTypeOK
  <2>3. ASSUME NEW p \in Requests \ {q}, Account!Writing(p), users[reqs[p].user] = None
        PROVE  users'[reqs[p].user] = None
    <3>1. reqs[p].user \in Users
      BY <2>3 DEF UsersMadeOnce, Account!AccountsTypeOK, Account!RequestRows
    <3>2. reqs[p].user # reqs[q].user
      BY <1>2, <2>3 DEF UsersMadeOnce, Commits
    <3> QED
      BY <2>1, <2>3, <3>1, <3>2
  <2>4. ASSUME NEW p \in Requests, Account!At(p, "write")'
        PROVE  /\ reqs'[p].holds = {}
               /\ reqs'[p].act = "create" <=> reqs'[p].user = None
               /\ reqs'[p].user # None => users'[reqs'[p].user] # None
               /\ reqs'[p].kind \in Account!Forms => reqs'[p].act = "create"
               /\ reqs'[p].act = "password" => reqs'[p].row # None
    BY <2>1, <2>2, <2>4 DEF UsersMadeOnce, Account!RequestRows
  <2>5. ASSUME NEW p \in Requests, Account!Writing(p)'
        PROVE  /\ reqs'[p].user # None
               /\ reqs'[p].kind \in Account!Forms => users'[reqs'[p].user] = None
               /\ users'[reqs'[p].user] = None =>
                    /\ reqs'[p].row # None /\ reqs'[p].user \in reqs'[p].holds
                    /\ \A o \in Account!Others(p)' : reqs'[p].user \notin reqs'[o].holds
    <3>1. p \in Requests \ {q} /\ reqs'[p] = reqs[p] /\ Account!Writing(p)
          /\ reqs[p] \in Account!RequestRows
      BY <2>2, <2>5
    <3>2. /\ reqs[p].user # None /\ reqs[p].user \in Users
          /\ reqs[p].kind \in Account!Forms => users[reqs[p].user] = None
      BY <3>1 DEF UsersMadeOnce, Account!RequestRows
    <3>3. users'[reqs[p].user] = None <=> users[reqs[p].user] = None
      <4>1. CASE users[reqs[p].user] = None
        BY <2>3, <3>1, <4>1
      <4>2. CASE users[reqs[p].user] # None
        BY <2>1, <3>2, <4>2
      <4> QED
        BY <4>1, <4>2
    <3>4. users[reqs[p].user] = None =>
            /\ reqs[p].row # None /\ reqs[p].user \in reqs[p].holds
            /\ \A o \in Account!Others(p) : reqs[p].user \notin reqs[o].holds
      BY <3>1 DEF UsersMadeOnce
    <3>5. \A o \in Account!Others(p)' : o \in Account!Others(p) /\ reqs'[o] = reqs[o]
      BY <2>2
    <3>6. ASSUME users[reqs[p].user] = None, NEW o \in Account!Others(p)'
          PROVE  reqs[p].user \notin reqs'[o].holds
      BY <3>4, <3>5, <3>6
    <3> QED
      BY <3>1, <3>2, <3>3, <3>4, <3>6
  <2> QED
    BY <2>4, <2>5 DEF UsersMadeOnce
<1>3. ASSUME NEW q \in Requests, NEW n \in Account!RequestRows, Becomes(q, n),
             n.holds = {}, n.step \in {"write", "replace"}, UNCHANGED users,
             n.step = "write" =>
               /\ n.act = "create" <=> n.user = None
               /\ n.user # None => users[n.user] # None
               /\ n.kind \in Account!Forms => n.act = "create"
               /\ n.act = "password" => n.row # None
      PROVE  UsersMadeOnce'
  <2>1. reqs'[q] = n /\ \A p \in Requests \ {q} : reqs'[p] = reqs[p]
    BY <1>3 DEF Becomes, Account!AccountsTypeOK
  <2> QED
    BY <1>0, <1>3, <2>1 DEF UsersMadeOnce
<1>4. ASSUME NEW q \in Requests, NEW kind \in Kinds, NEW s \in Subs \cup {None},
             NEW e \in Emails, NEW i \in Invites \cup {None}, Account!Arrive(q, kind, s, e, i)
      PROVE  UsersMadeOnce'
  <2>1. PICK n \in Account!RequestRows : Becomes(q, n) /\ FoundTruly(n)
    BY <1>4, ArriveBecomes
  <2>2. UNCHANGED users
    BY <1>4 DEF Account!Arrive
  <2>3. n.act = "password" => n.row # None
    BY <2>1 DEF FoundTruly
  <2> QED
    BY <1>3, <2>1, <2>2, <2>3 DEF FoundTruly
<1>5. ASSUME NEW q \in Requests, Account!Write(q)
      PROVE  UsersMadeOnce'
  <2>1. UNCHANGED users
    BY <1>5 DEF Account!Write
  <2>2. CASE Account!Refuse(q)
    BY <1>1, <2>1, <2>2 DEF Account!Refuse
  <2>3. ASSUME NEW n \in Account!RequestRows, Becomes(q, n), Relinked(q, n)
        PROVE  UsersMadeOnce'
    BY <1>0, <1>3, <2>1, <2>3 DEF Relinked
  <2>4. ASSUME NEW n \in Account!RequestRows, Becomes(q, n), WrittenTruly(q, n)
        PROVE  UsersMadeOnce'
    <3>1. reqs'[q] = n /\ \A p \in Requests \ {q} : reqs'[p] = reqs[p]
      BY <2>4 DEF Becomes, Account!AccountsTypeOK
    <3>2. ASSUME NEW p \in Requests \ {q}, Account!Writing(p), users[reqs[p].user] = None
          PROVE  reqs[p].user \notin n.holds
      <4>1. reqs[p].user \in Users /\ reqs[p].user \in reqs[p].holds
        BY <3>2 DEF UsersMadeOnce, Account!AccountsTypeOK, Account!RequestRows
      <4> QED
        BY <2>4, <3>2, <4>1 DEF WrittenTruly
    <3>3. \A p \in Requests \ {q} : Account!Others(p)' \subseteq Account!Others(p) \cup {q}
      BY <3>1
    <3>4. Account!Others(q)' = Account!Others(q)
      BY <3>1
    <3>5. ASSUME NEW p \in Requests, Account!At(p, "write")'
          PROVE  /\ reqs'[p].holds = {}
                 /\ reqs'[p].act = "create" <=> reqs'[p].user = None
                 /\ reqs'[p].user # None => users'[reqs'[p].user] # None
                 /\ reqs'[p].kind \in Account!Forms => reqs'[p].act = "create"
                 /\ reqs'[p].act = "password" => reqs'[p].row # None
      BY <2>1, <2>4, <3>1, <3>5 DEF UsersMadeOnce, WrittenTruly
    <3>6. ASSUME NEW p \in Requests, Account!Writing(p)'
          PROVE  /\ reqs'[p].user # None
                 /\ reqs'[p].kind \in Account!Forms => users'[reqs'[p].user] = None
                 /\ users'[reqs'[p].user] = None =>
                      /\ reqs'[p].row # None /\ reqs'[p].user \in reqs'[p].holds
                      /\ \A o \in Account!Others(p)' : reqs'[p].user \notin reqs'[o].holds
      <4>1. CASE p = q
        <5>1. n.user # None
          BY <1>0, <2>4 DEF WrittenTruly
        <5> QED
          BY <2>1, <2>4, <3>1, <3>4, <4>1, <5>1 DEF WrittenTruly
      <4>2. CASE p # q
        BY <2>1, <3>1, <3>2, <3>3, <3>6, <4>2 DEF UsersMadeOnce
      <4> QED
        BY <4>1, <4>2
    <3> QED
      BY <3>5, <3>6 DEF UsersMadeOnce
  <2> QED
    BY <1>5, <2>2, <2>3, <2>4, WriteBecomes
<1>6. ASSUME NEW q \in Requests, Account!Check(q)
      PROVE  UsersMadeOnce'
  <2>1. ASSUME NEW n \in Account!RequestRows, Becomes(q, n), n.step = "commit",
               n.kind = reqs[q].kind, n.user = reqs[q].user,
               n.row = reqs[q].row, n.holds = reqs[q].holds, UNCHANGED users
        PROVE  UsersMadeOnce'
    <3>1. reqs'[q] = n /\ \A p \in Requests \ {q} : reqs'[p] = reqs[p]
      BY <2>1 DEF Becomes, Account!AccountsTypeOK
    <3>2. reqs[q] # None /\ Account!Writing(q)
      BY <1>6 DEF Account!Check
    <3>3. \A p \in Requests : Account!Others(p)' = Account!Others(p)
      BY <1>0, <3>1, <3>2
    <3>4. \A p \in Requests : reqs[p] # None => reqs'[p].holds = reqs[p].holds
      BY <2>1, <3>1
    <3> QED
      BY <2>1, <3>1, <3>2, <3>3, <3>4 DEF UsersMadeOnce
  <2> QED
    BY <1>2, <1>6, <2>1, CheckCommits
<1>7. ASSUME NEW q \in Requests, \/ Account!FoundCompany(q) \/ Account!FoundPaidCompany(q)
                                 \/ Account!Join(q)
      PROVE  UsersMadeOnce'
  <2>1. Commits(q)
    BY <1>7 DEF Account!FoundCompany, Account!FoundPaidCompany, Account!Founds, Account!Join,
                Commits
  <2> QED
    BY <1>2, <2>1
<1>8. ASSUME NEW q \in Requests, Account!RollBack(q)
      PROVE  UsersMadeOnce'
  BY <1>1, <1>8 DEF Account!RollBack, Account!Refuse
<1>9. ASSUME NEW q \in Requests, NEW e \in Emails, Account!StartInvite(q, e)
      PROVE  UsersMadeOnce'
  <2>1. PICK n \in Account!RequestRows : Becomes(q, n) /\ n.step = "replace" /\ n.holds = {}
    BY <1>9, StartInviteBecomes
  <2>2. UNCHANGED users
    BY <1>9 DEF Account!StartInvite
  <2> QED
    BY <1>3, <2>1, <2>2
<1>10. ASSUME NEW q \in Requests, NEW i \in Invites, Account!Invite(q, i)
       PROVE  UsersMadeOnce'
  BY <1>1, <1>10 DEF Account!Invite, Account!Refuse
<1>11. ASSUME UNCHANGED <<users, reqs>>
       PROVE  UsersMadeOnce'
  BY <1>11 DEF UsersMadeOnce
<1> QED
  BY <1>4, <1>5, <1>6, <1>7, <1>8, <1>9, <1>10, <1>11, AccountsSteps
  DEF Account!AddCompany, Account!EndMembership, Account!Revoke, accountVars

(* A request that is about to found a company of a user who is there. *)
Founding(q, u) ==
  Account!At(q, "commit") /\ reqs[q].kind = "onboard" /\ reqs[q].user = u

LEMMA FoundersCountedStep ==
  ASSUME AccountsAssumption, Account!AccountsTypeOK, UsersMadeOnce,
         FoundersCounted, [Account!AccountsNext]_accountVars
  PROVE  FoundersCounted'
<1> USE DEF Account!Others, Account!At, Account!Exists, Account!HasCompany, Founding
<1>0. None \notin Account!RequestRows /\ None \notin Users
  BY AccountsAssumption DEF AccountsAssumption, Account!AccountsConstants
<1>1. ASSUME \A u \in Users : users[u] # None => users'[u] # None,
             members \cup guests \subseteq members' \cup guests',
             raced \subseteq raced', UNCHANGED founded,
             \A p \in Requests, u \in Users : Founding(p, u)' => Founding(p, u)
      PROVE  FoundersCounted'
  <2>1. ASSUME NEW u \in Users
        PROVE  /\ founded'[u] > 0 => users'[u] # None /\ u \in members' \cup guests'
               /\ <<"onboard", u>> \in raced' \/ founded'[u] <= 1
    BY <1>1 DEF FoundersCounted
  <2>2. ASSUME NEW u \in Users, <<"onboard", u>> \notin raced', NEW p \in Requests, Founding(p, u)'
        PROVE  founded'[u] = 0 /\ \A o \in Requests \ {p} : ~Founding(o, u)'
    <3>1. <<"onboard", u>> \notin raced /\ Founding(p, u)
      BY <1>1, <2>2
    <3>2. founded[u] = 0 /\ \A o \in Requests \ {p} : ~Founding(o, u)
      BY <3>1 DEF FoundersCounted
    <3> QED
      BY <1>1, <3>2
  <2> QED
    BY <2>1, <2>2 DEF FoundersCounted
<1>2. ASSUME NEW q \in Requests, Commits(q)
      PROVE  /\ \A u \in Users : users[u] # None => users'[u] # None
             /\ raced \subseteq raced' /\ reqs[q].user \in Users
             /\ users'[reqs[q].user] # None
             /\ \A p \in Requests, u \in Users : Founding(p, u)' => p # q /\ Founding(p, u)
  <2>1. reqs' = [reqs EXCEPT ![q] = None]
    BY <1>2, CommitWrites
  <2> QED
    BY <1>2, <2>1, CommitWrites DEF Commits, Account!AccountsTypeOK
<1>3. ASSUME NEW q \in Requests, reqs' = [reqs EXCEPT ![q] = None]
      PROVE  \A p \in Requests, u \in Users : Founding(p, u)' => Founding(p, u)
  BY <1>3 DEF Account!AccountsTypeOK
<1>4. ASSUME NEW q \in Requests, NEW n \in Account!RequestRows, Becomes(q, n), n.step # "commit"
      PROVE  \A p \in Requests, u \in Users : Founding(p, u)' => Founding(p, u)
  BY <1>4 DEF Account!AccountsTypeOK, Becomes
<1>5. ASSUME NEW q \in Requests, NEW kind \in Kinds, NEW s \in Subs \cup {None},
             NEW e \in Emails, NEW i \in Invites \cup {None}, Account!Arrive(q, kind, s, e, i)
      PROVE  FoundersCounted'
  <2>1. PICK n \in Account!RequestRows : Becomes(q, n) /\ FoundTruly(n)
    BY <1>5, ArriveBecomes
  <2>2. UNCHANGED <<users, members, guests, founded, raced>> /\ n.step # "commit"
    BY <1>5, <2>1 DEF Account!Arrive, FoundTruly
  <2> QED
    BY <1>1, <1>4, <2>1, <2>2
<1>6. ASSUME NEW q \in Requests, Account!Write(q)
      PROVE  FoundersCounted'
  <2>1. UNCHANGED <<users, members, guests, founded, raced>>
    BY <1>6 DEF Account!Write
  <2>2. \A p \in Requests, u \in Users : Founding(p, u)' => Founding(p, u)
    <3>1. CASE Account!Refuse(q)
      BY <1>3, <3>1 DEF Account!Refuse
    <3>2. ASSUME NEW n \in Account!RequestRows, Becomes(q, n),
                 WrittenTruly(q, n) \/ Relinked(q, n)
          PROVE  \A p \in Requests, u \in Users : Founding(p, u)' => Founding(p, u)
      <4>1. n.step # "commit"
        BY <3>2 DEF WrittenTruly, Relinked
      <4> QED
        BY <1>4, <3>2, <4>1
    <3> QED
      BY <1>6, <3>1, <3>2, WriteBecomes
  <2> QED
    BY <1>1, <2>1, <2>2
<1>7. ASSUME NEW q \in Requests, Account!Check(q)
      PROVE  FoundersCounted'
  <2>1. UNCHANGED <<members, guests, founded>> /\ raced \subseteq raced'
    BY <1>7 DEF Account!Check
  <2>2. CASE Commits(q)
    BY <1>1, <1>2, <2>1, <2>2
  <2>3. ASSUME NEW n \in Account!RequestRows, Becomes(q, n), n.step = "commit",
               n.kind = reqs[q].kind, n.user = reqs[q].user, ~Commits(q),
               n.kind = "onboard" => n.user \notin members \cup guests, UNCHANGED users
        PROVE  FoundersCounted'
    <3>1. reqs'[q] = n /\ \A p \in Requests \ {q} : reqs'[p] = reqs[p]
      BY <2>3 DEF Becomes, Account!AccountsTypeOK
    <3>2. \A p \in Requests \ {q}, u \in Users : Founding(p, u)' => Founding(p, u)
      BY <3>1
    <3>3. raced' = IF n.kind = "onboard" /\ \E p \in Requests \ {q} : Founding(p, n.user)
                   THEN raced \cup {<<"onboard", n.user>>} ELSE raced
      BY <1>7, <2>3 DEF Account!Check, Commits, Account!Writing
    <3>4. ASSUME NEW u \in Users, <<"onboard", u>> \notin raced', NEW p \in Requests,
                 Founding(p, u)'
          PROVE  founded'[u] = 0 /\ \A o \in Requests \ {p} : ~Founding(o, u)'
      <4>1. CASE p = q
        <5>1. n.kind = "onboard" /\ n.user = u
          BY <3>1, <3>4, <4>1
        <5>2. \A o \in Requests \ {q} : ~Founding(o, u)
          BY <3>3, <3>4, <5>1
        <5>3. founded[u] = 0
          <6>1. u \notin members \cup guests /\ founded[u] \in Nat
            BY <2>3, <5>1 DEF Account!AccountsTypeOK
          <6>2. ~(founded[u] > 0)
            BY <6>1 DEF FoundersCounted
          <6> QED
            BY <6>1, <6>2
        <5> QED
          BY <2>1, <3>2, <4>1, <5>2, <5>3
      <4>2. CASE p # q
        <5>1. Founding(p, u) /\ <<"onboard", u>> \notin raced
          BY <2>1, <3>2, <3>4, <4>2
        <5>2. founded[u] = 0 /\ \A o \in Requests \ {p} : ~Founding(o, u)
          BY <5>1 DEF FoundersCounted
        <5>3. ~Founding(q, u)'
          BY <3>1, <3>3, <3>4, <4>2, <5>1
        <5> QED
          BY <2>1, <3>2, <5>2, <5>3
      <4> QED
        BY <4>1, <4>2
    <3> QED
      BY <2>1, <2>3, <3>4 DEF FoundersCounted
  <2> QED
    BY <1>7, <2>2, <2>3, CheckCommits
<1>8. ASSUME NEW q \in Requests, Account!FoundCompany(q) \/ Account!FoundPaidCompany(q)
      PROVE  FoundersCounted'
  <2>1. Commits(q) /\ Account!At(q, "commit") /\ members' = members \cup {reqs[q].user}
        /\ UNCHANGED guests
        /\ founded' = [founded EXCEPT ![reqs[q].user] = @ + 1]
        /\ reqs[q].kind \in Account!Forms \cup {"onboard"}
    BY <1>8 DEF Account!FoundCompany, Account!FoundPaidCompany, Account!Founds, Commits,
                Account!Writing, Account!Forms
  <2>2. PICK v \in Users : v = reqs[q].user
    BY <1>2, <2>1
  <2>3. <<"onboard", v>> \in raced \/ founded[v] = 0
    BY <2>1, <2>2 DEF FoundersCounted, UsersMadeOnce, Account!AccountsTypeOK,
                      Account!Writing
  <2>4. /\ \A u \in Users : users[u] # None => users'[u] # None
        /\ raced \subseteq raced' /\ users'[v] # None
        /\ \A p \in Requests, u \in Users : Founding(p, u)' => p # q /\ Founding(p, u)
    BY <1>2, <2>1, <2>2
  <2>5. founded \in [Users -> Nat] /\ founded' = [founded EXCEPT ![v] = @ + 1]
    BY <2>1, <2>2 DEF Account!AccountsTypeOK
  <2>6. ASSUME NEW u \in Users
        PROVE  /\ founded'[u] > 0 => users'[u] # None /\ u \in members' \cup guests'
               /\ <<"onboard", u>> \in raced' \/ founded'[u] <= 1
    <3>1. CASE u = v
      BY <2>1, <2>2, <2>3, <2>4, <2>5, <3>1
    <3>2. CASE u # v
      BY <2>1, <2>4, <2>5, <3>2 DEF FoundersCounted
    <3> QED
      BY <3>1, <3>2
  <2>7. ASSUME NEW u \in Users, <<"onboard", u>> \notin raced', NEW p \in Requests, Founding(p, u)'
        PROVE  founded'[u] = 0 /\ \A o \in Requests \ {p} : ~Founding(o, u)'
    <3>1. p # q /\ Founding(p, u) /\ <<"onboard", u>> \notin raced
      BY <2>4, <2>7
    <3>2. founded[u] = 0 /\ \A o \in Requests \ {p} : ~Founding(o, u)
      BY <3>1 DEF FoundersCounted
    <3>3. u # v
      <4>1. CASE reqs[q].kind = "onboard"
        BY <2>1, <2>2, <3>1, <3>2, <4>1
      <4>2. CASE reqs[q].kind \in Account!Forms
        <5>1. users[v] = None
          BY <2>1, <2>2, <4>2 DEF UsersMadeOnce, Account!Writing
        <5>2. \A o \in Requests \ {q} : reqs[o] # None => v \notin reqs[o].holds
          BY <2>1, <2>2, <5>1 DEF UsersMadeOnce, Account!Writing
        <5>3. users[u] = None => u \in reqs[p].holds
          BY <3>1 DEF UsersMadeOnce, Account!Writing
        <5> QED
          BY <3>1, <5>1, <5>2, <5>3
      <4> QED
        BY <2>1, <4>1, <4>2
    <3> QED
      BY <2>4, <2>5, <3>2, <3>3
  <2> QED
    BY <2>6, <2>7 DEF FoundersCounted
<1>9. ASSUME NEW q \in Requests, Account!Join(q)
      PROVE  FoundersCounted'
  <2>1. Commits(q) /\ guests \subseteq guests' /\ UNCHANGED <<members, founded>>
    BY <1>9 DEF Account!Join, Commits, Account!Writing
  <2> QED
    BY <1>1, <1>2, <2>1
<1>10. ASSUME NEW q \in Requests, Account!RollBack(q)
       PROVE  FoundersCounted'
  BY <1>1, <1>3, <1>10 DEF Account!RollBack, Account!Refuse
<1>11. ASSUME NEW q \in Requests, NEW e \in Emails, Account!StartInvite(q, e)
       PROVE  FoundersCounted'
  <2>1. PICK n \in Account!RequestRows : Becomes(q, n) /\ n.step = "replace"
    BY <1>11, StartInviteBecomes
  <2>2. UNCHANGED <<users, members, guests, founded>> /\ raced \subseteq raced'
    BY <1>11 DEF Account!StartInvite
  <2> QED
    BY <1>1, <1>4, <2>1, <2>2
<1>12. ASSUME NEW q \in Requests, NEW i \in Invites, Account!Invite(q, i)
       PROVE  FoundersCounted'
  BY <1>1, <1>3, <1>12 DEF Account!Invite, Account!Refuse
<1>13. ASSUME NEW u \in Users, Account!AddCompany(u)
       PROVE  FoundersCounted'
  BY <1>1, <1>13 DEF Account!AddCompany
<1>14. ASSUME NEW w \in Users, Account!EndMembership(w)
       PROVE  FoundersCounted'
  <2>1. /\ UNCHANGED <<users, reqs, raced>>
        /\ \A v \in Users \ {w} : v \in members \cup guests => v \in members' \cup guests'
    BY <1>14 DEF Account!EndMembership
  <2>2. \/ w \in members' \cup guests' /\ founded' = founded
        \/ w \notin members' \cup guests' /\ founded' = [founded EXCEPT ![w] = 0]
    BY <1>14 DEF Account!EndMembership
  <2>3. ASSUME NEW v \in Users
        PROVE  founded'[v] = 0 \/ founded'[v] = founded[v]
    BY <2>2 DEF Account!AccountsTypeOK
  <2>4. ASSUME NEW v \in Users, founded'[v] > 0
        PROVE  users'[v] # None /\ v \in members' \cup guests'
    <3>1. founded \in [Users -> Nat]
      BY DEF Account!AccountsTypeOK
    <3>2. founded[v] = founded'[v]
      BY <2>3, <2>4
    <3>3. users[v] # None /\ v \in members \cup guests
      BY <2>4, <3>2 DEF FoundersCounted
    <3>4. v = w => v \in members' \cup guests'
      BY <2>2, <2>4, <3>1
    <3> QED
      BY <2>1, <3>3, <3>4
  <2>5. \A v \in Users : <<"onboard", v>> \in raced' \/ founded'[v] <= 1
    <3> TAKE v \in Users
    <3>1. <<"onboard", v>> \in raced \/ founded[v] <= 1
      BY DEF FoundersCounted
    <3>2. CASE founded'[v] = 0
      BY <3>2
    <3>3. CASE founded'[v] = founded[v] /\ <<"onboard", v>> \in raced
      BY <2>1, <3>3
    <3>4. CASE founded'[v] = founded[v] /\ founded[v] <= 1
      BY <3>4
    <3> QED
      BY <2>3, <3>1, <3>2, <3>3, <3>4
  <2>6. ASSUME NEW v \in Users, <<"onboard", v>> \notin raced', NEW p \in Requests, Founding(p, v)'
        PROVE  founded'[v] = 0 /\ \A o \in Requests \ {p} : ~Founding(o, v)'
    BY <2>1, <2>3, <2>6 DEF FoundersCounted
  <2> QED
    BY <2>4, <2>5, <2>6 DEF FoundersCounted
<1>15. ASSUME UNCHANGED <<users, members, guests, founded, raced, reqs>>
       PROVE  FoundersCounted'
  BY <1>1, <1>15
<1> QED
  BY <1>5, <1>6, <1>7, <1>8, <1>9, <1>10, <1>11, <1>12, <1>13, <1>14, <1>15, AccountsSteps
  DEF Account!Revoke, accountVars

(* What a request found is so when it writes, or the user is in raced.       *)
LEMMA FoundIsCurrentStep ==
  ASSUME AccountsAssumption, Account!AccountsTypeOK, UsersMadeOnce,
         FoundIsCurrent, [Account!AccountsNext]_accountVars
  PROVE  FoundIsCurrent'
<1> USE DEF Account!Others, Account!At
<1>0. None \notin Account!RequestRows /\ None \notin Users /\ None \notin Account!UserRows
  BY AccountsAssumption DEF AccountsAssumption, Account!AccountsConstants
<1>1. ASSUME UNCHANGED users, raced \subseteq raced', confused' \subseteq raced',
             \A p \in Requests : Account!At(p, "write")' =>
               Account!At(p, "write") /\ reqs'[p] = reqs[p]
      PROVE  FoundIsCurrent'
  BY <1>1 DEF FoundIsCurrent, Account!ByEmail, Account!Exists
<1>2. ASSUME NEW q \in Requests, reqs' = [reqs EXCEPT ![q] = None]
      PROVE  \A p \in Requests : Account!At(p, "write")' =>
               p # q /\ Account!At(p, "write") /\ reqs'[p] = reqs[p]
  BY <1>2 DEF Account!AccountsTypeOK
<1>3. ASSUME NEW q \in Requests, NEW n \in Account!RequestRows, Becomes(q, n), n.step # "write"
      PROVE  \A p \in Requests : Account!At(p, "write")' =>
               Account!At(p, "write") /\ reqs'[p] = reqs[p]
  BY <1>3 DEF Account!AccountsTypeOK, Becomes
<1>4. confused \subseteq raced
  BY DEF FoundIsCurrent
<1>5. ASSUME NEW q \in Requests, NEW n \in Account!RequestRows, Becomes(q, n),
             UNCHANGED <<users, raced, confused>>,
             n.act = "link" => users[n.user].sub = None,
             n.act = "password" => n.row = users[n.user],
             n.act = "create" => Account!ByEmail(n.email) = {}
      PROVE  FoundIsCurrent'
  <2>1. reqs'[q] = n /\ \A p \in Requests \ {q} : reqs'[p] = reqs[p]
    BY <1>5 DEF Becomes, Account!AccountsTypeOK
  <2>2. \A e \in Emails : Account!ByEmail(e)' = Account!ByEmail(e)
    BY <1>5 DEF Account!ByEmail, Account!Exists
  <2>3. ASSUME NEW p \in Requests, Account!At(p, "write")'
        PROVE  /\ reqs'[p].act = "link" =>
                    users'[reqs'[p].user].sub = None \/ reqs'[p].user \in raced'
               /\ reqs'[p].act = "password" =>
                    reqs'[p].row.sub = users'[reqs'[p].user].sub \/ reqs'[p].user \in raced'
               /\ reqs'[p].act = "create" => Account!ByEmail(reqs[p].email)' \subseteq raced'
    <3>1. CASE p = q
      BY <1>5, <2>1, <3>1 DEF Account!ByEmail, Account!Exists
    <3>2. CASE p # q
      BY <1>5, <2>1, <2>3, <3>2 DEF FoundIsCurrent, Account!ByEmail, Account!Exists
    <3> QED
      BY <3>1, <3>2
  <2> QED
    BY <1>4, <1>5, <2>3 DEF FoundIsCurrent
<1>6. ASSUME NEW q \in Requests, Commits(q), UNCHANGED confused
      PROVE  FoundIsCurrent'
  <2>1. /\ reqs' = [reqs EXCEPT ![q] = None] /\ reqs[q] \in Account!RequestRows
        /\ reqs[q].user \in Users
        /\ \A u \in Users \ {reqs[q].user} : users'[u] = users[u]
        /\ reqs[q].row = None => users' = users
        /\ reqs[q].row # None => users'[reqs[q].user] = reqs[q].row
    BY <1>6, CommitWrites
  <2>2. raced \subseteq raced'
    BY <1>6 DEF Commits
  <2>3. ASSUME NEW p \in Requests, Account!At(p, "write")'
        PROVE  /\ p # q /\ reqs'[p] = reqs[p] /\ Account!At(p, "write")
               /\ reqs[p] \in Account!RequestRows
    BY <1>2, <2>1, <2>3 DEF Account!AccountsTypeOK
  <2>4. ASSUME NEW p \in Requests \ {q}, Account!At(p, "write"), reqs[q].row # None,
               \/ reqs[p].user = reqs[q].user
               \/ reqs[p].email = reqs[q].row.email
        PROVE  reqs[q].user \in raced'
    BY <1>6, <2>4 DEF Commits, Account!MetBy
  <2>5. ASSUME NEW p \in Requests, Account!At(p, "write")', reqs[p].act \in {"link", "password"}
        PROVE  users'[reqs[p].user] = users[reqs[p].user] \/ reqs[p].user \in raced'
    <3>1. p # q /\ Account!At(p, "write") /\ reqs[p].user \in Users
      BY <2>3, <2>5 DEF UsersMadeOnce, Account!RequestRows
    <3> QED
      BY <2>1, <2>4, <3>1
  <2>6. ASSUME NEW p \in Requests, Account!At(p, "write")', reqs[p].act = "create",
               NEW u \in Users, users'[u] # None, users'[u].email = reqs[p].email
        PROVE  u \in raced'
    <3>1. p # q /\ Account!At(p, "write")
      BY <2>3, <2>6
    <3>2. CASE users'[u] = users[u]
      BY <2>2, <2>6, <3>1, <3>2 DEF FoundIsCurrent, Account!ByEmail, Account!Exists
    <3>3. CASE users'[u] # users[u]
      BY <2>1, <2>4, <2>6, <3>1, <3>3
    <3> QED
      BY <3>2, <3>3
  <2>7. ASSUME NEW p \in Requests, Account!At(p, "write")'
        PROVE  /\ reqs'[p].act = "link" =>
                    users'[reqs'[p].user].sub = None \/ reqs'[p].user \in raced'
               /\ reqs'[p].act = "password" =>
                    reqs'[p].row.sub = users'[reqs'[p].user].sub \/ reqs'[p].user \in raced'
    BY <2>2, <2>3, <2>5, <2>7 DEF FoundIsCurrent
  <2>8. ASSUME NEW p \in Requests, Account!At(p, "write")', reqs'[p].act = "create",
               NEW u \in Users, users'[u] # None, users'[u].email = reqs'[p].email
        PROVE  u \in raced'
    BY <2>3, <2>6, <2>8
  <2>9. confused' \subseteq raced'
    BY <1>4, <1>6, <2>2
  <2> QED
    BY <2>7, <2>8, <2>9 DEF FoundIsCurrent, Account!ByEmail, Account!Exists
<1>7. ASSUME NEW q \in Requests, NEW kind \in Kinds, NEW s \in Subs \cup {None},
             NEW e \in Emails, NEW i \in Invites \cup {None}, Account!Arrive(q, kind, s, e, i)
      PROVE  FoundIsCurrent'
  <2>1. PICK n \in Account!RequestRows : Becomes(q, n) /\ FoundTruly(n)
    BY <1>7, ArriveBecomes
  <2>2. UNCHANGED <<users, raced, confused>>
    BY <1>7 DEF Account!Arrive
  <2> QED
    BY <1>5, <2>1, <2>2 DEF FoundTruly
<1>8. ASSUME NEW q \in Requests, Account!Write(q)
      PROVE  FoundIsCurrent'
  <2>1. UNCHANGED <<users, raced>>
    BY <1>8 DEF Account!Write
  <2>2. ASSUME Account!Refuse(q), UNCHANGED confused
        PROVE  FoundIsCurrent'
    BY <1>1, <1>2, <1>4, <2>1, <2>2 DEF Account!Refuse
  <2>3. ASSUME NEW n \in Account!RequestRows, Becomes(q, n), Relinked(q, n)
        PROVE  FoundIsCurrent'
    BY <1>5, <2>1, <2>3 DEF Relinked
  <2>4. ASSUME NEW n \in Account!RequestRows, Becomes(q, n), WrittenTruly(q, n)
        PROVE  FoundIsCurrent'
    <3>1. n.step # "write" /\ confused' \subseteq raced
      BY <2>4 DEF WrittenTruly
    <3> QED
      BY <1>1, <1>3, <2>1, <2>4, <3>1
  <2> QED
    BY <1>8, <2>2, <2>3, <2>4, WriteBecomes
<1>9. ASSUME NEW q \in Requests, Account!Check(q)
      PROVE  FoundIsCurrent'
  <2>1. UNCHANGED confused /\ raced \subseteq raced'
    BY <1>9 DEF Account!Check
  <2>2. ASSUME NEW n \in Account!RequestRows, Becomes(q, n), n.step = "commit", UNCHANGED users
        PROVE  FoundIsCurrent'
    BY <1>1, <1>3, <1>4, <2>1, <2>2
  <2> QED
    BY <1>6, <1>9, <2>1, <2>2, CheckCommits
<1>10. ASSUME NEW q \in Requests, \/ Account!FoundCompany(q) \/ Account!FoundPaidCompany(q)
                                  \/ Account!Join(q)
       PROVE  FoundIsCurrent'
  <2>1. Commits(q) /\ UNCHANGED confused
    BY <1>10 DEF Account!FoundCompany, Account!FoundPaidCompany, Account!Founds, Account!Join,
                 Commits, Account!Writing
  <2> QED
    BY <1>6, <2>1
<1>11. ASSUME NEW q \in Requests,
              Account!RollBack(q) \/ \E i \in Invites : Account!Invite(q, i)
       PROVE  FoundIsCurrent'
  <2>1. reqs' = [reqs EXCEPT ![q] = None] /\ UNCHANGED <<users, raced, confused>>
    BY <1>11 DEF Account!RollBack, Account!Invite, Account!Refuse
  <2> QED
    BY <1>1, <1>2, <1>4, <2>1
<1>12. ASSUME NEW q \in Requests, NEW e \in Emails, Account!StartInvite(q, e)
       PROVE  FoundIsCurrent'
  <2>1. PICK n \in Account!RequestRows : Becomes(q, n) /\ n.step = "replace"
    BY <1>12, StartInviteBecomes
  <2>2. UNCHANGED <<users, confused>> /\ raced \subseteq raced'
    BY <1>12 DEF Account!StartInvite
  <2> QED
    BY <1>1, <1>3, <1>4, <2>1, <2>2
<1>13. ASSUME UNCHANGED <<users, raced, confused, reqs>>
       PROVE  FoundIsCurrent'
  BY <1>1, <1>4, <1>13
<1> QED
  BY <1>7, <1>8, <1>9, <1>10, <1>11, <1>12, <1>13, AccountsSteps
  DEF Account!AddCompany, Account!EndMembership, Account!Revoke, accountVars

(* An account keeps its Google id, founds one company by itself and accepts  *)
(* an invitation once, whatever requests overlap, but for those users and    *)
(* addresses on whom requests met: for any number of users, addresses,       *)
(* Google accounts, invitations and requests.                               *)
LEMMA AccountsInvInit ==
  ASSUME AccountsAssumption, Account!AccountsInit
  PROVE  AccountsInv
<1>1. None \notin Account!RequestRows /\ None \notin Account!UserRows
      /\ None \notin Account!InviteRows
  BY AccountsAssumption DEF AccountsAssumption, Account!AccountsConstants
<1> QED
  BY <1>1 DEF Account!AccountsInit, AccountsInv, Account!AccountsTypeOK,
              InvitationsHeld, OneReplaces, UsersMadeOnce,
              FoundersCounted, FoundIsCurrent, Account!At, Account!Writing,
              Account!OpenFor

LEMMA AccountsInvHolds == AccountsInv => Account!AccountsHold
<1> SUFFICES ASSUME AccountsInv
             PROVE  Account!AccountsHold
  OBVIOUS
<1> USE DEF AccountsInv
<1>1. Account!GoogleIdKept
  BY DEF Account!GoogleIdKept, FoundIsCurrent
<1>2. Account!OneCompanyEach
  BY DEF Account!OneCompanyEach, FoundersCounted
<1>3. \A i \in Invites : joined[i] <= 1
  BY DEF InvitationsHeld
<1>4. ASSUME NEW e \in Emails, e \notin raced
      PROVE  Account!Cardinality(Account!OpenFor(e)) <= 1
  <2>1. \A i, j \in Account!OpenFor(e) : i = j
    BY <1>4 DEF OneReplaces
  <2>2. Cardinality(Account!OpenFor(e)) <= 1
    BY <2>1, AtMostOne
  <2> QED
    BY <2>2 DEF Account!Cardinality, Cardinality
<1> QED
  BY <1>1, <1>2, <1>3, <1>4 DEF Account!AccountsHold, Account!LastInvitationOnce

(* Accounts is one of the parts that MCTeam runs side by side. *)
THEOREM PeopleAccountsHold == TeamSpec => []AccountsHold
<1> DEFINE Inv == part = "accounts" => AccountsInv
<1>1. TeamInit => Inv
  BY AccountsAssumption, AccountsInvInit DEF TeamInit
<1>2. Inv /\ [TeamNext]_teamVars => Inv'
  <2> SUFFICES ASSUME Inv, [TeamNext]_teamVars, part' = "accounts"
               PROVE  AccountsInv'
    OBVIOUS
  <2>1. part = "accounts" /\ [Account!AccountsNext]_accountVars
    BY DEF TeamNext, teamVars, peopleVars
  <2>2. AccountsInv
    BY <2>1
  <2> QED
    BY <2>1, <2>2, AccountsAssumption, AccountsTyped, InvitationsHeldStep, OneReplacesStep,
       UsersMadeOnceStep, FoundersCountedStep, FoundIsCurrentStep
    DEF AccountsInv
<1>3. Inv => AccountsHold
  BY AccountsInvHolds DEF AccountsHold
<1> QED
  BY <1>1, <1>2, <1>3, PTL DEF TeamSpec

-----------------------------------------------------------------------------
(* Access.  The steps, for the proofs to go through.                        *)
LEMMA AccessSteps ==
  ASSUME Access!AccessNext
  PROVE  \/ \E d \in Readers : Access!Read(d) \/ Access!SetEntry(d)
         \/ \E q \in Changers, r \in Roles :
              \/ \E on \in BOOLEAN, granted \in (SUBSET Permissions) \cup {None} :
                   Access!StartPut(q, r, on, granted)
              \/ Access!StartDisable(q, r) \/ Access!StartAssign(q, r)
         \/ \E q \in Changers, a \in Assignments : Access!StartRevoke(q, a)
         \/ \E q \in Changers, a \in Assignments : Access!CommitAssign(q, a)
         \/ \E q \in Changers : Access!ClearFirst(q) \/ Access!CommitPut(q) \/ Access!RollBack(q)
         \/ \E q \in Changers : Access!Save(q) \/ Access!ClearAfter(q)
         \/ \E q \in Changers : Access!ResetFlag(q) \/ Access!Die(q)
         \/ Access!Expire
BY DEF Access!AccessNext

(* The change q becomes n. *)
Changed(q, n) == changes' = [changes EXCEPT ![q] = n]

(* What each kind of step makes of the change that takes it. *)
LEMMA StartChanges ==
  ASSUME Access!AccessTypeOK, NEW q \in Changers, NEW r \in Roles,
         \/ \E on \in BOOLEAN, granted \in (SUBSET Permissions) \cup {None} :
              Access!StartPut(q, r, on, granted)
         \/ Access!StartDisable(q, r) \/ Access!StartAssign(q, r)
  PROVE  /\ \E n \in Access!ChangeRows :
              /\ Changed(q, n) /\ n.kind # "revoke"
              /\ n.step = "clear first" \/ (n.step = "save" /\ n.kind = "disable")
         /\ changes[q] = None
         /\ UNCHANGED <<enabled, rights, assignments, admin, cached, reads, torn>>
<1>1. ASSUME NEW n \in Access!ChangeRows, n.kind # "revoke",
             n.step = "clear first" \/ (n.step = "save" /\ n.kind = "disable"),
             Access!Begin(q, n)
      PROVE  /\ \E m \in Access!ChangeRows :
                  /\ Changed(q, m) /\ m.kind # "revoke"
                  /\ m.step = "clear first" \/ (m.step = "save" /\ m.kind = "disable")
             /\ changes[q] = None
             /\ UNCHANGED <<enabled, rights, assignments, admin, cached, reads, torn>>
  BY <1>1 DEF Access!Begin, Changed
<1>2. ASSUME NEW on \in BOOLEAN, NEW granted \in (SUBSET Permissions) \cup {None},
             Access!StartPut(q, r, on, granted)
      PROVE  \E n \in Access!ChangeRows :
               /\ n.kind # "revoke" /\ Access!Begin(q, n)
               /\ n.step = "clear first" \/ (n.step = "save" /\ n.kind = "disable")
  <2> DEFINE n == [kind |-> "put", step |-> "clear first", role |-> r, on |-> on,
                   codes |-> granted, row |-> None]
  <2>1. n \in Access!ChangeRows /\ n.kind = "put" /\ n.step = "clear first"
    BY <1>2 DEF Access!ChangeRows
  <2>2. Access!Begin(q, n)
    BY <1>2 DEF Access!StartPut
  <2> HIDE DEF n
  <2> QED
    BY <2>1, <2>2
<1>3. ASSUME Access!StartDisable(q, r)
      PROVE  \E n \in Access!ChangeRows :
               /\ n.kind # "revoke" /\ Access!Begin(q, n)
               /\ n.step = "clear first" \/ (n.step = "save" /\ n.kind = "disable")
  <2> DEFINE n == [kind |-> "disable", step |-> "save", role |-> r, on |-> FALSE,
                   codes |-> {}, row |-> None]
  <2>1. n \in Access!ChangeRows /\ n.kind = "disable" /\ n.step = "save"
    BY <1>3 DEF Access!ChangeRows
  <2>2. Access!Begin(q, n)
    BY <1>3 DEF Access!StartDisable
  <2> HIDE DEF n
  <2> QED
    BY <2>1, <2>2
<1>4. ASSUME Access!StartAssign(q, r)
      PROVE  \E n \in Access!ChangeRows :
               /\ n.kind # "revoke" /\ Access!Begin(q, n)
               /\ n.step = "clear first" \/ (n.step = "save" /\ n.kind = "disable")
  <2> DEFINE n == [kind |-> "assign", step |-> "clear first", role |-> r, on |-> TRUE,
                   codes |-> {}, row |-> None]
  <2>1. n \in Access!ChangeRows /\ n.kind = "assign" /\ n.step = "clear first"
    BY <1>4 DEF Access!ChangeRows
  <2>2. Access!Begin(q, n)
    BY <1>4 DEF Access!StartAssign
  <2> HIDE DEF n
  <2> QED
    BY <2>1, <2>2
<1>5. \E n \in Access!ChangeRows :
        /\ n.kind # "revoke" /\ Access!Begin(q, n)
        /\ n.step = "clear first" \/ (n.step = "save" /\ n.kind = "disable")
  BY <1>2, <1>3, <1>4
<1> QED
  BY <1>1, <1>5

LEMMA ChangeStepped ==
  ASSUME NEW n \in Access!ChangeRows,
         NEW step \in {"clear first", "commit", "save", "clear", "flag", "clear last"}
  PROVE  /\ [n EXCEPT !.step = step] \in Access!ChangeRows
         /\ [n EXCEPT !.step = step].step = step
         /\ [n EXCEPT !.step = step].kind = n.kind
         /\ [n EXCEPT !.step = step].row = n.row
BY DEF Access!ChangeRows

LEMMA ChangeSteps ==
  ASSUME Access!AccessTypeOK, NEW q \in Changers, changes[q] # None,
         NEW step \in {"clear first", "commit", "save", "clear", "flag", "clear last"},
         changes' = [changes EXCEPT ![q].step = step]
  PROVE  \E n \in Access!ChangeRows :
           /\ Changed(q, n) /\ n.step = step
           /\ n.kind = changes[q].kind /\ n.row = changes[q].row
<1> DEFINE n == [changes[q] EXCEPT !.step = step]
<1>1. changes[q] \in Access!ChangeRows
  BY DEF Access!AccessTypeOK
<1>2. changes' = [changes EXCEPT ![q] = n]
  OBVIOUS
<1>3. n \in Access!ChangeRows /\ n.step = step /\ n.kind = changes[q].kind
      /\ n.row = changes[q].row
  BY <1>1, ChangeStepped
<1> HIDE DEF n
<1> QED
  BY <1>2, <1>3 DEF Changed

(* What the proofs about Access need beside its properties.                 *)

Revoking(q) == changes[q] # None /\ changes[q].kind = "revoke"

(* A reader has what is stored or is marked, and so is an entry made while a *)
(* transaction is between its signals and its commit.                       *)
EntriesMarked ==
  /\ Access!EntryIsStored
  /\ \A d \in Readers : reads[d] # None => reads[d].mixed \/ reads[d].codes = Access!Stored
  /\ \A q \in Changers : Access!HalfDone(q) => cached = None \/ cached.mixed

OneActive == \A a, b \in Assignments : Access!Active(a) /\ Access!Active(b) => a = b

(* Which kinds of change are at which step; a revocation has its row. *)
Staged(q) ==
  /\ Access!At(q, "flag") \/ Access!At(q, "clear last") => Revoking(q)
  /\ Access!At(q, "save") => changes[q].kind \in {"disable", "revoke"}
  /\ Access!At(q, "clear first") \/ Access!At(q, "commit") => ~Revoking(q)
  /\ Revoking(q) => changes[q].row \in Assignments /\ assignments[changes[q].row] # None

(* A revocation that meets no other change takes the one active assignment,  *)
(* and until it has reset the flag only the flag differs.                   *)
Untorn(q) ==
  /\ \A p \in Changers : Revoking(p) => p = q
  /\ Access!At(q, "save") => Access!Active(changes[q].row)
  /\ ~Access!At(q, "save") => \A a \in Assignments : ~Access!Active(a)

AdminIsCoOwner == admin <=> \E a \in Assignments : Access!Active(a)
  /\ assignments[a].role = "co-owner"

RevokedAlone ==
  \/ torn
  \/ /\ \A q \in Changers : Revoking(q) => Untorn(q)
     /\ \/ \E q \in Changers : Revoking(q) /\ (Access!At(q, "clear") \/ Access!At(q, "flag"))
        \/ AdminIsCoOwner

AccessInv ==
  /\ Access!AccessTypeOK /\ EntriesMarked /\ OneActive /\ RevokedAlone
  /\ \A q \in Changers : Staged(q)

(* After a revocation has cleared the cache it goes on to the membership. *)
LEMMA ClearAfterChanges ==
  ASSUME Access!AccessTypeOK, NEW q \in Changers, Access!ClearAfter(q)
  PROVE  /\ changes[q] # None
         /\ \/ Changed(q, None) /\ ~(Access!At(q, "clear") /\ Revoking(q))
            \/ /\ Access!At(q, "clear") /\ Revoking(q)
               /\ \E n \in Access!ChangeRows :
                    /\ Changed(q, n) /\ n.step = "flag"
                    /\ n.kind = "revoke" /\ n.row = changes[q].row
<1>1. changes[q] \in Access!ChangeRows /\ changes[q] # None
  BY DEF Access!AccessTypeOK, Access!ClearAfter, Access!At
<1>2. CASE Access!At(q, "clear") /\ Revoking(q)
  <2>1. changes' = [changes EXCEPT ![q].step = "flag"]
    BY <1>1, <1>2 DEF Access!ClearAfter, Revoking, Access!AccessTypeOK
  <2>2. PICK n \in Access!ChangeRows :
          /\ Changed(q, n) /\ n.step = "flag"
          /\ n.kind = changes[q].kind /\ n.row = changes[q].row
    BY <1>1, <2>1, ChangeSteps
  <2>3. n.kind = "revoke"
    BY <1>2, <2>2 DEF Revoking
  <2> QED
    BY <1>1, <1>2, <2>2, <2>3
<1>3. CASE ~(Access!At(q, "clear") /\ Revoking(q))
  BY <1>1, <1>3 DEF Access!ClearAfter, Revoking, Changed
<1> QED
  BY <1>1, <1>2, <1>3

LEMMA MarkedTyped ==
  ASSUME Access!AccessTypeOK, reads' = Access!MarkReads, AccessAssumption
  PROVE  /\ reads' \in [Readers -> Access!Entries \cup {None}]
         /\ \A d \in Readers : reads'[d] # None => reads'[d].mixed
<1>1. ASSUME NEW e \in Access!Entries
      PROVE  [e EXCEPT !.mixed = TRUE] \in Access!Entries /\ [e EXCEPT !.mixed = TRUE].mixed
  BY DEF Access!Entries
<1> QED
  BY <1>1 DEF Access!MarkReads, Access!AccessTypeOK

LEMMA StoredCodes ==
  ASSUME Access!AccessTypeOK
  PROVE  Access!Stored \in SUBSET Permissions
<1>1. ASSUME NEW a \in Assignments, Access!Active(a)
      PROVE  rights[assignments[a].role] \subseteq Permissions
  BY <1>1 DEF Access!AccessTypeOK, Access!Active, Access!Assigned
<1> QED
  BY <1>1 DEF Access!Stored

LEMMA AccessTyped ==
  ASSUME AccessAssumption, Access!AccessTypeOK, \A q \in Changers : Staged(q),
         [Access!AccessNext]_accessVars
  PROVE  Access!AccessTypeOK'
<1>0. None \notin Access!ChangeRows /\ None \notin Access!Entries /\ None \notin Access!Assigned
  BY AccessAssumption DEF AccessAssumption, Access!AccessConstants
<1>1. ASSUME NEW q \in Changers, NEW n \in Access!ChangeRows \cup {None}, Changed(q, n)
      PROVE  changes' \in [Changers -> Access!ChangeRows \cup {None}]
  BY <1>1 DEF Changed, Access!AccessTypeOK
<1>2. ASSUME NEW d \in Readers, Access!Read(d) \/ Access!SetEntry(d)
      PROVE  Access!AccessTypeOK'
  <2>1. CASE Access!Read(d)
    <3>1. [codes |-> Access!Stored, mixed |-> FALSE] \in Access!Entries
      BY StoredCodes DEF Access!Entries
    <3> QED
      BY <2>1, <3>1 DEF Access!Read, Access!AccessTypeOK
  <2>2. CASE Access!SetEntry(d)
    <3> DEFINE half == \E q \in Changers : Access!HalfDone(q)
    <3>1. reads[d].codes \in SUBSET Permissions /\ reads[d].mixed \in BOOLEAN
      BY <2>2 DEF Access!SetEntry, Access!AccessTypeOK, Access!Entries
    <3>2. (reads[d].mixed \/ half) \in BOOLEAN
      OBVIOUS
    <3>3. cached' = [codes |-> reads[d].codes, mixed |-> reads[d].mixed \/ half]
      BY <2>2 DEF Access!SetEntry
    <3> HIDE DEF half
    <3>4. cached' \in Access!Entries
      BY <3>1, <3>2, <3>3 DEF Access!Entries
    <3> QED
      BY <2>2, <3>4 DEF Access!SetEntry, Access!AccessTypeOK
  <2> QED
    BY <1>2, <2>1, <2>2
<1>3. ASSUME NEW q \in Changers, NEW r \in Roles,
             \/ \E on \in BOOLEAN, granted \in (SUBSET Permissions) \cup {None} :
                  Access!StartPut(q, r, on, granted)
             \/ Access!StartDisable(q, r) \/ Access!StartAssign(q, r)
      PROVE  Access!AccessTypeOK'
  BY <1>1, <1>3, StartChanges DEF Access!AccessTypeOK
<1>4. ASSUME NEW q \in Changers, NEW a \in Assignments, Access!StartRevoke(q, a)
      PROVE  Access!AccessTypeOK'
  <2> DEFINE n == [kind |-> "revoke", step |-> "save", role |-> assignments[a].role,
                   on |-> FALSE, codes |-> {}, row |-> a]
  <2>1. n \in Access!ChangeRows
    BY <1>4 DEF Access!ChangeRows, Access!StartRevoke, Access!AccessTypeOK, Access!Assigned
  <2>2. Changed(q, n) /\ UNCHANGED <<rights, assignments, admin, cached, reads>>
    BY <1>4 DEF Access!StartRevoke, Changed
  <2>3. torn' \in BOOLEAN
    BY <1>4 DEF Access!StartRevoke
  <2> HIDE DEF n
  <2> QED
    BY <1>1, <2>1, <2>2, <2>3 DEF Access!AccessTypeOK
<1>5. ASSUME NEW q \in Changers, NEW a \in Assignments, Access!CommitAssign(q, a)
      PROVE  Access!AccessTypeOK'
  <2>1. changes[q] \in Access!ChangeRows
    BY <1>5 DEF Access!CommitAssign, Access!At, Access!AccessTypeOK
  <2>2. ASSUME NEW x \in Access!Assigned
        PROVE  [x EXCEPT !.active = FALSE] \in Access!Assigned
    BY DEF Access!Assigned
  <2>3. [role |-> changes[q].role, active |-> TRUE] \in Access!Assigned
    BY <2>1 DEF Access!Assigned, Access!ChangeRows
  <2>4. assignments' \in [Assignments -> Access!Assigned \cup {None}]
    BY <1>5, <2>2, <2>3 DEF Access!CommitAssign, Access!AccessTypeOK, Access!Active
  <2>5. admin' \in BOOLEAN /\ torn' \in BOOLEAN
    BY <1>5 DEF Access!CommitAssign
  <2> QED
    BY <1>1, <1>5, <2>4, <2>5, MarkedTyped DEF Access!CommitAssign, Access!AccessTypeOK, Changed
<1>6. ASSUME NEW q \in Changers, Access!ClearFirst(q)
      PROVE  Access!AccessTypeOK'
  <2>1. changes' \in [Changers -> Access!ChangeRows \cup {None}]
    BY <1>1, <1>6, ChangeSteps DEF Access!ClearFirst, Access!At
  <2> QED
    BY <1>6, <2>1 DEF Access!ClearFirst, Access!Cleared, Access!AccessTypeOK
<1>7. ASSUME NEW q \in Changers, Access!CommitPut(q)
      PROVE  Access!AccessTypeOK'
  <2>1. changes[q] \in Access!ChangeRows
    BY <1>7 DEF Access!CommitPut, Access!At, Access!AccessTypeOK
  <2>2. rights' \in [Roles -> SUBSET Permissions]
    <3>1. changes[q].role \in Roles /\ changes[q].codes \in (SUBSET Permissions) \cup {None}
      BY <2>1 DEF Access!ChangeRows
    <3>2. rights' = IF changes[q].codes = None THEN rights
                    ELSE [rights EXCEPT ![changes[q].role] = changes[q].codes]
      BY <1>7 DEF Access!CommitPut
    <3>3. CASE changes[q].codes = None
      BY <3>2, <3>3 DEF Access!AccessTypeOK
    <3>4. CASE changes[q].codes # None
      <4>1. changes[q].codes \in SUBSET Permissions
        BY <3>1, <3>4
      <4>2. rights' = [rights EXCEPT ![changes[q].role] = changes[q].codes]
        BY <3>2, <3>4
      <4> QED
        BY <3>1, <4>1, <4>2 DEF Access!AccessTypeOK
    <3> QED
      BY <3>3, <3>4
  <2> QED
    BY <1>1, <1>7, <2>2, MarkedTyped DEF Access!CommitPut, Access!AccessTypeOK, Changed
<1>8. ASSUME NEW q \in Changers, Access!RollBack(q)
      PROVE  Access!AccessTypeOK'
  BY <1>1, <1>8 DEF Access!RollBack, Access!AccessTypeOK, Changed
<1>9. ASSUME NEW q \in Changers, Access!Save(q)
      PROVE  Access!AccessTypeOK'
  <2>1. changes' \in [Changers -> Access!ChangeRows \cup {None}]
    BY <1>1, <1>9, ChangeSteps DEF Access!Save, Access!At
  <2>2. assignments' \in [Assignments -> Access!Assigned \cup {None}]
    <3>1. CASE changes[q].kind = "disable"
      BY <1>9, <3>1 DEF Access!Save, Access!AccessTypeOK
    <3>2. CASE changes[q].kind # "disable"
      <4>1. changes[q].kind = "revoke"
        BY <1>9, <3>2 DEF Access!Save, Staged
      <4>2. PICK a \in Assignments : a = changes[q].row /\ assignments[a] \in Access!Assigned
        BY <1>9, <4>1 DEF Access!Save, Access!At, Staged, Revoking,
                          Access!AccessTypeOK
      <4>3. assignments' = [assignments EXCEPT ![a] = [assignments[a] EXCEPT !.active = FALSE]]
        BY <1>9, <3>2, <4>2 DEF Access!Save
      <4>4. [assignments[a] EXCEPT !.active = FALSE] \in Access!Assigned
        BY <4>2 DEF Access!Assigned
      <4> QED
        BY <4>3, <4>4 DEF Access!AccessTypeOK
    <3> QED
      BY <3>1, <3>2
  <2> QED
    BY <1>9, <2>1, <2>2, MarkedTyped DEF Access!Save, Access!AccessTypeOK
<1>10. ASSUME NEW q \in Changers, Access!ClearAfter(q)
       PROVE  Access!AccessTypeOK'
  BY <1>1, <1>10, ClearAfterChanges DEF Access!ClearAfter, Access!AccessTypeOK
<1>11. ASSUME NEW q \in Changers, Access!ResetFlag(q)
       PROVE  Access!AccessTypeOK'
  <2>1. changes' \in [Changers -> Access!ChangeRows \cup {None}]
    BY <1>1, <1>11, ChangeSteps DEF Access!ResetFlag, Access!At
  <2> QED
    BY <1>11, <2>1, MarkedTyped DEF Access!ResetFlag, Access!AccessTypeOK
<1>12. ASSUME NEW q \in Changers, Access!Die(q)
       PROVE  Access!AccessTypeOK'
  <2>1. ASSUME NEW e \in Access!Entries
        PROVE  [e EXCEPT !.mixed = TRUE] \in Access!Entries
    BY DEF Access!Entries
  <2>2. cached' \in Access!Entries \cup {None}
    BY <1>12, <2>1 DEF Access!Die, Access!AccessTypeOK
  <2>3. torn' \in BOOLEAN
    BY <1>12 DEF Access!Die
  <2> QED
    BY <1>1, <1>12, <2>2, <2>3 DEF Access!Die, Access!AccessTypeOK, Changed
<1>13. CASE Access!Expire
  BY <1>13 DEF Access!Expire, Access!AccessTypeOK
<1>14. CASE UNCHANGED accessVars
  BY <1>14 DEF accessVars, Access!AccessTypeOK
<1> QED
  BY <1>2, <1>3, <1>4, <1>5, <1>6, <1>7, <1>8, <1>9, <1>10, <1>11, <1>12, <1>13, <1>14,
     AccessSteps
(* What is stored depends on the tables only. *)
LEMMA StoredStays ==
  ASSUME UNCHANGED <<enabled, rights, assignments, admin>>
  PROVE  Access!Stored' = Access!Stored
BY DEF Access!Stored, Access!Active

(* An entry is stale in the ways that EntryIsStored names only. *)
LEMMA EntriesMarkedStep ==
  ASSUME AccessAssumption, Access!AccessTypeOK, EntriesMarked,
         [Access!AccessNext]_accessVars
  PROVE  EntriesMarked'
<1> USE DEF Access!At, Access!HalfDone
<1>0. None \notin Access!ChangeRows /\ None \notin Access!Entries
  BY AccessAssumption DEF AccessAssumption, Access!AccessConstants
<1> DEFINE Clearing(q) == Access!At(q, "clear") \/ Access!At(q, "clear last")
           Marked == cached = None \/ cached.mixed
<1>1. ASSUME UNCHANGED <<enabled, rights, assignments, admin, cached, reads>>,
             \A q \in Changers : Clearing(q) => Clearing(q)',
             \A q \in Changers : Access!HalfDone(q)' => Access!HalfDone(q)
      PROVE  EntriesMarked'
  BY <1>1, StoredStays DEF EntriesMarked, Access!EntryIsStored
<1>2. ASSUME NEW q \in Changers, NEW n \in Access!ChangeRows \cup {None}, Changed(q, n)
      PROVE  changes'[q] = n /\ \A p \in Changers \ {q} : changes'[p] = changes[p]
  BY <1>2 DEF Changed, Access!AccessTypeOK
<1>3. ASSUME NEW d \in Readers, Access!Read(d)
      PROVE  EntriesMarked'
  <2>1. Access!Stored' = Access!Stored /\ UNCHANGED <<changes, cached>>
    BY <1>3, StoredStays DEF Access!Read
  <2>2. reads' = [reads EXCEPT ![d] = [codes |-> Access!Stored, mixed |-> FALSE]]
    BY <1>3 DEF Access!Read
  <2> QED
    BY <2>1, <2>2 DEF EntriesMarked, Access!EntryIsStored, Access!AccessTypeOK
<1>4. ASSUME NEW d \in Readers, Access!SetEntry(d)
      PROVE  EntriesMarked'
  <2>1. Access!Stored' = Access!Stored /\ UNCHANGED changes
    BY <1>4, StoredStays DEF Access!SetEntry
  <2>2. /\ reads' = [reads EXCEPT ![d] = None] /\ reads[d] # None
        /\ cached'.codes = reads[d].codes
        /\ cached'.mixed <=> reads[d].mixed \/ \E q \in Changers : Access!HalfDone(q)
    BY <1>4 DEF Access!SetEntry
  <2> QED
    BY <2>1, <2>2 DEF EntriesMarked, Access!EntryIsStored, Access!AccessTypeOK
<1>5. ASSUME NEW q \in Changers, NEW n \in Access!ChangeRows, Changed(q, n), ~Clearing(q),
             n.step # "commit", UNCHANGED <<enabled, rights, assignments, admin, cached, reads>>
      PROVE  EntriesMarked'
  <2>1. changes'[q] = n /\ \A p \in Changers \ {q} : changes'[p] = changes[p]
    BY <1>2, <1>5
  <2>2. \A p \in Changers : Clearing(p) => Clearing(p)'
    BY <1>5, <2>1
  <2>3. \A p \in Changers : Access!HalfDone(p)' => Access!HalfDone(p)
    BY <1>5, <2>1
  <2> QED
    BY <1>1, <1>5, <2>2, <2>3
<1>6. ASSUME NEW q \in Changers, NEW r \in Roles,
             \/ \E on \in BOOLEAN, granted \in (SUBSET Permissions) \cup {None} :
                  Access!StartPut(q, r, on, granted)
             \/ Access!StartDisable(q, r) \/ Access!StartAssign(q, r)
      PROVE  EntriesMarked'
  BY <1>5, <1>6, StartChanges
<1>7. ASSUME NEW q \in Changers, NEW a \in Assignments, Access!StartRevoke(q, a)
      PROVE  EntriesMarked'
  <2> DEFINE n == [kind |-> "revoke", step |-> "save", role |-> assignments[a].role,
                   on |-> FALSE, codes |-> {}, row |-> a]
  <2>1. n \in Access!ChangeRows /\ n.step = "save"
    BY <1>7 DEF Access!ChangeRows, Access!StartRevoke, Access!AccessTypeOK, Access!Assigned
  <2>2. /\ Changed(q, n) /\ changes[q] = None
        /\ UNCHANGED <<enabled, rights, assignments, admin, cached, reads>>
    BY <1>7 DEF Access!StartRevoke, Changed
  <2> HIDE DEF n
  <2> QED
    BY <1>5, <2>1, <2>2
(* The tables change, and every reader is marked. *)
<1>8. ASSUME Marked \/ \E q \in Changers : Clearing(q)', UNCHANGED cached,
             \A q \in Changers : Access!HalfDone(q)' => Access!HalfDone(q),
             reads' = Access!MarkReads
      PROVE  EntriesMarked'
  <2>1. \A d \in Readers : reads'[d] # None => reads'[d].mixed
    BY <1>8, MarkedTyped
  <2> QED
    BY <1>8, <2>1 DEF EntriesMarked, Access!EntryIsStored
<1>9. ASSUME NEW q \in Changers,
             Access!CommitPut(q) \/ \E a \in Assignments : Access!CommitAssign(q, a)
      PROVE  EntriesMarked'
  <2>1. Access!HalfDone(q) /\ Changed(q, None) /\ reads' = Access!MarkReads /\ UNCHANGED cached
    BY <1>9 DEF Access!CommitPut, Access!CommitAssign, Changed
  <2>2. Marked
    BY <2>1 DEF EntriesMarked
  <2>3. \A p \in Changers : Access!HalfDone(p)' => Access!HalfDone(p)
    BY <1>2, <2>1
  <2> QED
    BY <1>8, <2>1, <2>2, <2>3
<1>10. ASSUME NEW q \in Changers, Access!ClearFirst(q)
       PROVE  EntriesMarked'
  <2>1. UNCHANGED <<enabled, rights, assignments, admin, reads>> /\ cached' = None
    BY <1>10 DEF Access!ClearFirst, Access!Cleared
  <2> QED
    BY <2>1, StoredStays DEF EntriesMarked, Access!EntryIsStored
<1>11. ASSUME NEW q \in Changers, Access!RollBack(q)
       PROVE  EntriesMarked'
  <2>1. /\ Changed(q, None) /\ ~Clearing(q)
        /\ UNCHANGED <<enabled, rights, assignments, admin, cached, reads>>
    BY <1>11 DEF Access!RollBack, Changed
  <2> QED
    BY <1>1, <1>2, <2>1
<1>12. ASSUME NEW q \in Changers, Access!Save(q) \/ Access!ResetFlag(q)
       PROVE  EntriesMarked'
  <2>1. ASSUME Access!Save(q)
        PROVE  \E n \in Access!ChangeRows : Changed(q, n) /\ n.step \in {"clear", "clear last"}
    <3>1. changes[q] # None /\ changes' = [changes EXCEPT ![q].step = "clear"]
      BY <2>1 DEF Access!Save
    <3>2. \E n \in Access!ChangeRows : Changed(q, n) /\ n.step = "clear"
      BY <3>1, ChangeSteps
    <3> QED
      BY <3>2
  <2>2. ASSUME Access!ResetFlag(q)
        PROVE  \E n \in Access!ChangeRows : Changed(q, n) /\ n.step \in {"clear", "clear last"}
    <3>1. changes[q] # None /\ changes' = [changes EXCEPT ![q].step = "clear last"]
      BY <2>2 DEF Access!ResetFlag
    <3>2. \E n \in Access!ChangeRows : Changed(q, n) /\ n.step = "clear last"
      BY <3>1, ChangeSteps
    <3> QED
      BY <3>2
  <2>3. PICK n \in Access!ChangeRows : Changed(q, n) /\ n.step \in {"clear", "clear last"}
    BY <1>12, <2>1, <2>2
  <2>4. changes'[q] = n /\ \A p \in Changers \ {q} : changes'[p] = changes[p]
    BY <1>2, <2>3
  <2>5. Clearing(q)' /\ \A p \in Changers : Access!HalfDone(p)' => Access!HalfDone(p)
    BY <1>0, <2>3, <2>4
  <2> QED
    BY <1>8, <1>12, <2>5 DEF Access!Save, Access!ResetFlag
<1>13. ASSUME NEW q \in Changers, Access!ClearAfter(q)
       PROVE  EntriesMarked'
  <2>1. UNCHANGED <<enabled, rights, assignments, admin, reads>> /\ cached' = None
    BY <1>13 DEF Access!ClearAfter
  <2> QED
    BY <2>1, StoredStays DEF EntriesMarked, Access!EntryIsStored
<1>14. ASSUME NEW q \in Changers, Access!Die(q)
       PROVE  EntriesMarked'
  <2>1. /\ Changed(q, None) /\ UNCHANGED <<enabled, rights, assignments, admin, reads>>
        /\ Clearing(q) \/ Access!At(q, "flag")
    BY <1>14 DEF Access!Die, Changed
  <2>2. /\ changes'[q] = None
        /\ \A p \in Changers \ {q} : changes'[p] = changes[p]
    BY <1>2, <2>1
  <2>3. \A p \in Changers : Access!HalfDone(p)' => Access!HalfDone(p)
    BY <2>2
  <2>4. CASE cached = None \/ Access!At(q, "flag")
    <3>1. UNCHANGED cached
      BY <1>14, <2>4 DEF Access!Die
    <3>2. CASE cached = None
      BY <2>1, <2>3, <3>1, <3>2, StoredStays DEF EntriesMarked, Access!EntryIsStored
    <3>3. CASE Access!At(q, "flag")
      <4>1. \A p \in Changers : Clearing(p) => Clearing(p)'
        BY <2>2, <3>3
      <4> QED
        BY <1>1, <2>1, <2>3, <3>1, <4>1
    <3> QED
      BY <2>4, <3>2, <3>3
  <2>5. CASE ~(cached = None \/ Access!At(q, "flag"))
    <3>1. cached' = [cached EXCEPT !.mixed = TRUE]
      BY <1>14, <2>5 DEF Access!Die
    <3>2. cached \in Access!Entries
      BY <2>5 DEF Access!AccessTypeOK
    <3>3. cached'.mixed
      BY <3>1, <3>2 DEF Access!Entries
    <3> QED
      BY <2>1, <2>3, <3>3, StoredStays DEF EntriesMarked, Access!EntryIsStored
  <2> QED
    BY <2>4, <2>5
<1>15. CASE Access!Expire
  <2>1. UNCHANGED <<enabled, rights, assignments, admin, reads, changes>> /\ cached' = None
    BY <1>15 DEF Access!Expire
  <2> QED
    BY <2>1, StoredStays DEF EntriesMarked, Access!EntryIsStored
<1>16. CASE UNCHANGED accessVars
  BY <1>1, <1>16 DEF accessVars
<1> QED
  BY <1>3, <1>4, <1>6, <1>7, <1>9, <1>10, <1>11, <1>12, <1>13, <1>14, <1>15, <1>16, AccessSteps

(* The change q becomes n: what the others keep.                            *)
LEMMA OthersKeep ==
  ASSUME Access!AccessTypeOK, NEW q \in Changers, NEW n \in Access!ChangeRows \cup {None},
         Changed(q, n)
  PROVE  changes'[q] = n /\ \A p \in Changers \ {q} : changes'[p] = changes[p]
BY DEF Changed, Access!AccessTypeOK

LEMMA StagedKept ==
  ASSUME AccessAssumption, Access!AccessTypeOK, \A p \in Changers : Staged(p),
         NEW q \in Changers, NEW n \in Access!ChangeRows \cup {None}, Changed(q, n),
         \/ n = None
         \/ /\ n.step \in {"flag", "clear last"} => n.kind = "revoke"
            /\ n.step = "save" => n.kind \in {"disable", "revoke"}
            /\ n.step \in {"clear first", "commit"} => n.kind # "revoke"
            /\ n.kind = "revoke" => n.row \in Assignments /\ assignments'[n.row] # None,
         \A a \in Assignments : assignments[a] # None => assignments'[a] # None
  PROVE  \A p \in Changers : Staged(p)'
<1>1. changes'[q] = n /\ \A p \in Changers \ {q} : changes'[p] = changes[p]
  BY OthersKeep
<1>2. Staged(q)'
  BY <1>1 DEF Staged, Access!At, Revoking
<1>3. ASSUME NEW p \in Changers \ {q}
      PROVE  Staged(p)'
  <2>1. changes'[p] = changes[p] /\ Staged(p)
    BY <1>1
  <2> QED
    BY <2>1 DEF Staged, Access!At, Revoking
<1> QED
  BY <1>2, <1>3

(* A change that is no revocation goes on or ends, or a revocation is torn. *)
LEMMA AloneKept ==
  ASSUME AccessAssumption, Access!AccessTypeOK, RevokedAlone,
         NEW q \in Changers, NEW n \in Access!ChangeRows \cup {None}, Changed(q, n),
         n = None \/ n.kind # "revoke", UNCHANGED <<assignments, admin>>,
         torn' \/ (~torn /\ ~Revoking(q))
  PROVE  RevokedAlone'
<1>1. CASE torn'
  BY <1>1 DEF RevokedAlone
<1>2. CASE ~torn'
  <2>1. ~torn /\ ~Revoking(q)
    BY <1>2
  <2>2. changes'[q] = n /\ \A p \in Changers \ {q} : changes'[p] = changes[p]
    BY OthersKeep
  <2>3. ~Revoking(q)'
    BY <2>2 DEF Revoking
  <2>4. ASSUME NEW p \in Changers, Revoking(p) \/ Revoking(p)'
        PROVE  p # q /\ changes'[p] = changes[p]
    BY <2>1, <2>2, <2>3, <2>4
  <2>5. \A p \in Changers : Revoking(p)' <=> Revoking(p)
    BY <2>4 DEF Revoking
  <2>6. ASSUME NEW p \in Changers, Revoking(p)'
        PROVE  Untorn(p)'
    <3>1. Untorn(p) /\ changes'[p] = changes[p]
      BY <2>1, <2>4, <2>5, <2>6 DEF RevokedAlone
    <3> QED
      BY <2>5, <3>1 DEF Untorn, Access!At, Access!Active
  <2>7. CASE \E p \in Changers : Revoking(p) /\ (Access!At(p, "clear") \/ Access!At(p, "flag"))
    <3>1. \E p \in Changers :
            Revoking(p)' /\ (Access!At(p, "clear")' \/ Access!At(p, "flag")')
      BY <2>4, <2>5, <2>7 DEF Access!At
    <3> QED
      BY <2>6, <3>1 DEF RevokedAlone
  <2>8. CASE AdminIsCoOwner
    <3>1. AdminIsCoOwner'
      BY <2>8 DEF AdminIsCoOwner, Access!Active
    <3> QED
      BY <2>6, <3>1 DEF RevokedAlone
  <2> QED
    BY <2>1, <2>7, <2>8 DEF RevokedAlone
<1> QED
  BY <1>1, <1>2

(* The revocation q goes to another of its steps, or ends after the last.    *)
LEMMA AloneMoves ==
  ASSUME AccessAssumption, Access!AccessTypeOK, RevokedAlone,
         NEW q \in Changers, Revoking(q), NEW n \in Access!ChangeRows \cup {None},
         Changed(q, n), UNCHANGED torn,
         n # None => n.kind = "revoke" /\ n.step # "save",
         ~torn => \A a \in Assignments : ~Access!Active(a)',
         \/ n # None /\ n.step \in {"clear", "flag"}
         \/ torn \/ ~admin'
  PROVE  RevokedAlone'
<1>1. CASE torn
  BY <1>1 DEF RevokedAlone
<1>2. CASE ~torn
  <2>1. \A p \in Changers : Revoking(p) => p = q
    BY <1>2 DEF RevokedAlone, Untorn
  <2>2. changes'[q] = n /\ \A p \in Changers \ {q} : changes'[p] = changes[p]
    BY OthersKeep
  <2>3. \A p \in Changers : Revoking(p)' => p = q
    BY <2>1, <2>2 DEF Revoking
  <2>4. ASSUME Revoking(q)'
        PROVE  Untorn(q)'
    <3>1. ~Access!At(q, "save")'
      BY <2>2 DEF Access!At
    <3> QED
      BY <1>2, <2>3, <3>1 DEF Untorn
  <2>5. \A p \in Changers : Revoking(p)' => Untorn(p)'
    BY <2>3, <2>4
  <2>6. CASE n # None /\ n.step \in {"clear", "flag"}
    <3>1. Revoking(q)' /\ (Access!At(q, "clear")' \/ Access!At(q, "flag")')
      BY <2>2, <2>6 DEF Revoking, Access!At
    <3> QED
      BY <2>5, <3>1 DEF RevokedAlone
  <2>7. CASE ~admin'
    <3>1. AdminIsCoOwner'
      BY <1>2, <2>7 DEF AdminIsCoOwner
    <3> QED
      BY <2>5, <3>1 DEF RevokedAlone
  <2> QED
    BY <1>2, <2>6, <2>7
<1> QED
  BY <1>1, <1>2

(* Changes go through the steps of their kind. *)
LEMMA StagedStep ==
  ASSUME AccessAssumption, Access!AccessTypeOK, \A p \in Changers : Staged(p),
         [Access!AccessNext]_accessVars
  PROVE  \A p \in Changers : Staged(p)'
<1>0. None \notin Access!Assigned
  BY AccessAssumption DEF AccessAssumption, Access!AccessConstants
<1>1. ASSUME UNCHANGED <<assignments, changes>>
      PROVE  \A p \in Changers : Staged(p)'
  BY <1>1 DEF Staged, Access!At, Revoking
<1>2. ASSUME NEW q \in Changers, NEW r \in Roles,
             \/ \E on \in BOOLEAN, granted \in (SUBSET Permissions) \cup {None} :
                  Access!StartPut(q, r, on, granted)
             \/ Access!StartDisable(q, r) \/ Access!StartAssign(q, r)
      PROVE  \A p \in Changers : Staged(p)'
  BY <1>2, StagedKept, StartChanges
<1>3. ASSUME NEW q \in Changers, NEW a \in Assignments, Access!StartRevoke(q, a)
      PROVE  \A p \in Changers : Staged(p)'
  <2> DEFINE n == [kind |-> "revoke", step |-> "save", role |-> assignments[a].role,
                   on |-> FALSE, codes |-> {}, row |-> a]
  <2>1. n \in Access!ChangeRows /\ n.kind = "revoke" /\ n.step = "save" /\ n.row = a
    BY <1>3 DEF Access!ChangeRows, Access!StartRevoke, Access!AccessTypeOK, Access!Assigned
  <2>2. Changed(q, n) /\ assignments[a] # None /\ UNCHANGED assignments
    BY <1>3 DEF Access!StartRevoke, Changed
  <2> HIDE DEF n
  <2> QED
    BY <2>1, <2>2, StagedKept
<1>4. ASSUME NEW q \in Changers,
             \/ \E a \in Assignments : Access!CommitAssign(q, a)
             \/ Access!CommitPut(q) \/ Access!RollBack(q) \/ Access!Die(q)
      PROVE  \A p \in Changers : Staged(p)'
  <2>1. Changed(q, None)
    BY <1>4 DEF Access!CommitAssign, Access!CommitPut, Access!RollBack, Access!Die, Changed
  <2>2. \A a \in Assignments : assignments[a] # None => assignments'[a] # None
    <3>1. ASSUME NEW a \in Assignments, Access!CommitAssign(q, a)
          PROVE  \A x \in Assignments : assignments[x] # None => assignments'[x] # None
      <4>1. ASSUME NEW x \in Access!Assigned
            PROVE  [x EXCEPT !.active = FALSE] # None
        <5>1. [x EXCEPT !.active = FALSE] \in Access!Assigned
          BY DEF Access!Assigned
        <5> QED
          BY <1>0, <5>1
      <4> QED
        BY <3>1, <4>1 DEF Access!CommitAssign, Access!AccessTypeOK
    <3>2. Access!CommitPut(q) \/ Access!RollBack(q) \/ Access!Die(q) => UNCHANGED assignments
      BY DEF Access!CommitPut, Access!RollBack, Access!Die
    <3> QED
      BY <1>4, <3>1, <3>2
  <2> QED
    BY <2>1, <2>2, StagedKept
<1>5. ASSUME NEW q \in Changers, Access!ClearFirst(q)
      PROVE  \A p \in Changers : Staged(p)'
  <2>1. PICK n \in Access!ChangeRows :
          Changed(q, n) /\ n.step = "commit" /\ n.kind = changes[q].kind /\ n.row = changes[q].row
    BY <1>5, ChangeSteps DEF Access!ClearFirst, Access!At
  <2>2. n.kind # "revoke" /\ UNCHANGED assignments
    BY <1>5, <2>1 DEF Access!ClearFirst, Staged, Revoking, Access!At
  <2> QED
    BY <2>1, <2>2, StagedKept
<1>6. ASSUME NEW q \in Changers, Access!Save(q)
      PROVE  \A p \in Changers : Staged(p)'
  <2>1. PICK n \in Access!ChangeRows :
          Changed(q, n) /\ n.step = "clear" /\ n.kind = changes[q].kind /\ n.row = changes[q].row
    BY <1>6, ChangeSteps DEF Access!Save, Access!At
  <2>2. \A a \in Assignments : assignments[a] # None => assignments'[a] # None
    <3>1. ASSUME NEW x \in Access!Assigned
          PROVE  [x EXCEPT !.active = FALSE] # None
      <4>1. [x EXCEPT !.active = FALSE] \in Access!Assigned
        BY DEF Access!Assigned
      <4> QED
        BY <1>0, <4>1
    <3> QED
      BY <1>6, <3>1 DEF Access!Save, Access!AccessTypeOK
  <2>3. n.kind = "revoke" => n.row \in Assignments /\ assignments[n.row] # None
    BY <1>6, <2>1 DEF Access!Save, Staged, Revoking, Access!At
  <2> QED
    BY <2>1, <2>2, <2>3, StagedKept
<1>7. ASSUME NEW q \in Changers, Access!ClearAfter(q)
      PROVE  \A p \in Changers : Staged(p)'
  <2>1. UNCHANGED assignments
    BY <1>7 DEF Access!ClearAfter
  <2>2. CASE Changed(q, None)
    BY <2>1, <2>2, StagedKept
  <2>3. ASSUME Revoking(q), NEW n \in Access!ChangeRows, Changed(q, n),
               n.step = "flag", n.kind = "revoke", n.row = changes[q].row
        PROVE  \A p \in Changers : Staged(p)'
    <3>1. n.row \in Assignments /\ assignments[n.row] # None
      BY <2>3 DEF Staged
    <3> QED
      BY <2>1, <2>3, <3>1, StagedKept
  <2> QED
    BY <1>7, <2>2, <2>3, ClearAfterChanges
<1>8. ASSUME NEW q \in Changers, Access!ResetFlag(q)
      PROVE  \A p \in Changers : Staged(p)'
  <2>1. PICK n \in Access!ChangeRows :
          Changed(q, n) /\ n.step = "clear last" /\ n.kind = changes[q].kind
            /\ n.row = changes[q].row
    BY <1>8, ChangeSteps DEF Access!ResetFlag, Access!At
  <2>2. /\ n.kind = "revoke" /\ UNCHANGED assignments
        /\ n.row \in Assignments /\ assignments[n.row] # None
    BY <1>8, <2>1 DEF Access!ResetFlag, Staged, Revoking, Access!At
  <2> QED
    BY <2>1, <2>2, StagedKept
<1>9. ASSUME NEW d \in Readers, Access!Read(d) \/ Access!SetEntry(d)
      PROVE  \A p \in Changers : Staged(p)'
  BY <1>1, <1>9 DEF Access!Read, Access!SetEntry
<1>10. CASE Access!Expire
  BY <1>1, <1>10 DEF Access!Expire
<1>11. CASE UNCHANGED accessVars
  BY <1>1, <1>11 DEF accessVars
<1> QED
  BY <1>2, <1>3, <1>4, <1>5, <1>6, <1>7, <1>8, <1>9, <1>10, <1>11, AccessSteps

(* No step leaves two active assignments: the one that makes one active     *)
(* replaces the other (UserRoleListCreateView.post, its constraint).         *)
LEMMA OneActiveStep ==
  ASSUME AccessAssumption, Access!AccessTypeOK, OneActive,
         \A p \in Changers : Staged(p), [Access!AccessNext]_accessVars
  PROVE  OneActive'
<1> USE DEF OneActive, Access!Active
<1>0. None \notin Access!Assigned
  BY AccessAssumption DEF AccessAssumption, Access!AccessConstants
<1>1. ASSUME NEW x \in Access!Assigned
      PROVE  [x EXCEPT !.active = FALSE] \in Access!Assigned /\ ~[x EXCEPT !.active = FALSE].active
  BY DEF Access!Assigned
<1>2. ASSUME NEW q \in Changers, NEW a \in Assignments, Access!CommitAssign(q, a)
      PROVE  OneActive'
  <2>1. \A x \in Assignments \ {a} : ~Access!Active(x)'
    BY <1>1, <1>2 DEF Access!CommitAssign, Access!AccessTypeOK
  <2> QED
    BY <2>1
<1>3. ASSUME NEW q \in Changers, Access!Save(q)
      PROVE  OneActive'
  <2>1. CASE changes[q].kind = "disable"
    BY <1>3, <2>1 DEF Access!Save
  <2>2. CASE changes[q].kind # "disable"
    <3>1. PICK a \in Assignments : a = changes[q].row /\ assignments[a] \in Access!Assigned
      BY <1>3, <2>2 DEF Access!Save, Staged, Revoking, Access!At, Access!AccessTypeOK
    <3>2. assignments' = [assignments EXCEPT ![a] = [assignments[a] EXCEPT !.active = FALSE]]
      BY <1>3, <2>2, <3>1 DEF Access!Save
    <3>3. ~Access!Active(a)' /\ \A x \in Assignments \ {a} : assignments'[x] = assignments[x]
      BY <1>1, <3>1, <3>2 DEF Access!AccessTypeOK
    <3> QED
      BY <3>3
  <2> QED
    BY <2>1, <2>2
<1>4. UNCHANGED assignments \/ \E q \in Changers :
        Access!Save(q) \/ \E a \in Assignments : Access!CommitAssign(q, a)
  <2>1. ASSUME NEW q \in Changers, NEW r \in Roles,
               \/ \E on \in BOOLEAN, granted \in (SUBSET Permissions) \cup {None} :
                    Access!StartPut(q, r, on, granted)
               \/ Access!StartDisable(q, r) \/ Access!StartAssign(q, r)
        PROVE  UNCHANGED assignments
    BY <2>1, StartChanges
  <2>2. ASSUME NEW q \in Changers,
               \/ \E a \in Assignments : Access!StartRevoke(q, a)
               \/ Access!ClearFirst(q) \/ Access!CommitPut(q) \/ Access!RollBack(q)
               \/ Access!ClearAfter(q) \/ Access!ResetFlag(q) \/ Access!Die(q)
        PROVE  UNCHANGED assignments
    BY <2>2 DEF Access!StartRevoke, Access!ClearFirst, Access!CommitPut, Access!RollBack,
                Access!ClearAfter, Access!ResetFlag, Access!Die
  <2>3. ASSUME NEW d \in Readers, Access!Read(d) \/ Access!SetEntry(d)
        PROVE  UNCHANGED assignments
    BY <2>3 DEF Access!Read, Access!SetEntry
  <2>4. Access!Expire \/ UNCHANGED accessVars => UNCHANGED assignments
    BY DEF Access!Expire, accessVars
  <2> QED
    BY <2>1, <2>2, <2>3, <2>4, AccessSteps
<1> QED
  BY <1>2, <1>3, <1>4

(* A revocation alone takes the one active assignment and then the flag;     *)
(* whatever it meets besides marks it as torn.                              *)
LEMMA RevokedAloneStep ==
  ASSUME AccessAssumption, Access!AccessTypeOK, RevokedAlone, OneActive,
         \A p \in Changers : Staged(p), [Access!AccessNext]_accessVars
  PROVE  RevokedAlone'
<1>0. None \notin Access!ChangeRows /\ None \notin Access!Assigned
  BY AccessAssumption DEF AccessAssumption, Access!AccessConstants
<1>1. ASSUME NEW x \in Access!Assigned
      PROVE  [x EXCEPT !.active = FALSE] \in Access!Assigned /\ ~[x EXCEPT !.active = FALSE].active
  BY DEF Access!Assigned
<1>2. ASSUME UNCHANGED <<assignments, admin, changes, torn>>
      PROVE  RevokedAlone'
  BY <1>2 DEF RevokedAlone, Untorn, AdminIsCoOwner, Revoking,
              Access!At, Access!Active
<1>3. ASSUME NEW q \in Changers, NEW r \in Roles,
             \/ \E on \in BOOLEAN, granted \in (SUBSET Permissions) \cup {None} :
                  Access!StartPut(q, r, on, granted)
             \/ Access!StartDisable(q, r) \/ Access!StartAssign(q, r)
      PROVE  RevokedAlone'
  <2>1. ~Revoking(q) /\ UNCHANGED <<assignments, admin, torn>>
    BY <1>3, StartChanges DEF Revoking
  <2>2. PICK n \in Access!ChangeRows : Changed(q, n) /\ n.kind # "revoke"
    BY <1>3, StartChanges
  <2> QED
    BY <2>1, <2>2, AloneKept DEF Access!AccessTypeOK
<1>4. ASSUME NEW q \in Changers, NEW a \in Assignments, Access!StartRevoke(q, a)
      PROVE  RevokedAlone'
  <2> DEFINE n == [kind |-> "revoke", step |-> "save", role |-> assignments[a].role,
                   on |-> FALSE, codes |-> {}, row |-> a]
  <2>1. n \in Access!ChangeRows /\ n.step = "save" /\ n.row = a
    BY <1>4 DEF Access!ChangeRows, Access!StartRevoke, Access!AccessTypeOK, Access!Assigned
  <2>2. /\ Changed(q, n) /\ changes[q] = None /\ UNCHANGED <<assignments, admin>>
        /\ torn' <=> (torn \/ ~Access!Active(a) \/ \E p \in Changers \ {q} :
                        changes[p] # None /\ changes[p].kind \in {"assign", "revoke"})
    BY <1>4 DEF Access!StartRevoke, Changed
  <2> HIDE DEF n
  <2>3. changes'[q] = n /\ \A p \in Changers \ {q} : changes'[p] = changes[p]
    BY <2>1, <2>2, OthersKeep
  <2>4. CASE torn'
    BY <2>4 DEF RevokedAlone
  <2>5. CASE ~torn'
    <3>1. ~torn /\ Access!Active(a) /\ \A p \in Changers : ~Revoking(p)
      BY <2>2, <2>5 DEF Revoking
    <3>2. \A p \in Changers : Revoking(p)' => p = q
      BY <2>3, <3>1 DEF Revoking
    <3>3. Untorn(q)'
      BY <1>0, <2>1, <2>2, <2>3, <3>1, <3>2 DEF Untorn, Access!At, Access!Active
    <3>4. AdminIsCoOwner'
      BY <2>2, <3>1 DEF RevokedAlone, AdminIsCoOwner, Access!Active
    <3> QED
      BY <3>2, <3>3, <3>4 DEF RevokedAlone
  <2> QED
    BY <2>4, <2>5
<1>5. ASSUME NEW q \in Changers, NEW a \in Assignments, Access!CommitAssign(q, a)
      PROVE  RevokedAlone'
  <2>1. changes[q] \in Access!ChangeRows /\ ~Revoking(q) /\ Changed(q, None)
    BY <1>5 DEF Access!CommitAssign, Access!At, Revoking, Access!AccessTypeOK, Changed
  <2>2. changes'[q] = None /\ \A p \in Changers \ {q} : changes'[p] = changes[p]
    BY <2>1, OthersKeep
  <2>3. [role |-> changes[q].role, active |-> TRUE] \in Access!Assigned
    BY <2>1 DEF Access!Assigned, Access!ChangeRows
  <2>4. assignments'[a] = [role |-> changes[q].role, active |-> TRUE]
    BY <1>5 DEF Access!CommitAssign
  <2>5. Access!Active(a)' /\ assignments'[a].role = changes[q].role
    <3>1. assignments'[a] # None
      BY <1>0, <2>3, <2>4
    <3>2. assignments'[a].active /\ assignments'[a].role = changes[q].role
      BY <2>4
    <3> QED
      BY <3>1, <3>2 DEF Access!Active
  <2>6. \A x \in Assignments \ {a} : ~Access!Active(x)'
    BY <1>0, <1>1, <1>5 DEF Access!CommitAssign, Access!AccessTypeOK, Access!Active
  <2>7. admin' <=> changes[q].role = "co-owner"
    BY <1>5 DEF Access!CommitAssign
  <2>8. AdminIsCoOwner'
    BY <2>5, <2>6, <2>7 DEF AdminIsCoOwner
  <2>9. torn' <=> (torn \/ \E p \in Changers \ {q} : changes[p] # None
          /\ changes[p].kind = "revoke")
    BY <1>5 DEF Access!CommitAssign
  <2>10. torn' \/ \A p \in Changers : ~Revoking(p)'
    BY <2>2, <2>9 DEF Revoking
  <2> QED
    BY <2>8, <2>10 DEF RevokedAlone
<1>6. ASSUME NEW q \in Changers, Access!ClearFirst(q) \/ Access!CommitPut(q) \/ Access!RollBack(q)
      PROVE  RevokedAlone'
  <2>1. ~Revoking(q) /\ changes[q] # None /\ UNCHANGED <<assignments, admin, torn>>
    BY <1>6 DEF Access!ClearFirst, Access!CommitPut, Access!RollBack, Staged, Access!At
  <2>2. CASE Access!ClearFirst(q)
    <3>1. PICK n \in Access!ChangeRows : Changed(q, n) /\ n.kind = changes[q].kind
      BY <2>1, <2>2, ChangeSteps DEF Access!ClearFirst
    <3>2. n.kind # "revoke"
      BY <2>1, <3>1 DEF Revoking
    <3> QED
      BY <2>1, <3>1, <3>2, AloneKept DEF Access!AccessTypeOK
  <2>3. CASE Access!CommitPut(q) \/ Access!RollBack(q)
    <3>1. Changed(q, None)
      BY <2>3 DEF Access!CommitPut, Access!RollBack, Changed
    <3> QED
      BY <2>1, <3>1, AloneKept DEF Access!AccessTypeOK
  <2> QED
    BY <1>6, <2>2, <2>3
<1>7. ASSUME NEW q \in Changers, Access!Save(q)
      PROVE  RevokedAlone'
  <2>1. changes[q] # None /\ UNCHANGED <<admin, torn>> /\ Access!At(q, "save")
    BY <1>7 DEF Access!Save, Access!At
  <2>2. PICK n \in Access!ChangeRows :
          Changed(q, n) /\ n.step = "clear" /\ n.kind = changes[q].kind
    BY <1>7, <2>1, ChangeSteps DEF Access!Save
  <2>3. CASE changes[q].kind = "disable"
    <3>1. UNCHANGED assignments /\ ~Revoking(q) /\ n.kind # "revoke"
      BY <1>7, <2>2, <2>3 DEF Access!Save, Revoking
    <3> QED
      BY <2>1, <2>2, <3>1, AloneKept DEF Access!AccessTypeOK
  <2>4. CASE changes[q].kind # "disable"
    <3>1. Revoking(q) /\ n.kind = "revoke"
      BY <2>1, <2>2, <2>4 DEF Staged, Revoking
    <3>2. PICK a \in Assignments : a = changes[q].row /\ assignments[a] \in Access!Assigned
      BY <3>1 DEF Staged, Access!AccessTypeOK
    <3>3. assignments' = [assignments EXCEPT ![a] = [assignments[a] EXCEPT !.active = FALSE]]
      BY <1>7, <2>4, <3>2 DEF Access!Save
    <3>4. ~Access!Active(a)' /\ \A x \in Assignments \ {a} : assignments'[x] = assignments[x]
      BY <1>1, <3>2, <3>3 DEF Access!AccessTypeOK, Access!Active
    <3>5. ~torn => Access!Active(a)
      BY <2>1, <3>1, <3>2 DEF RevokedAlone, Untorn
    <3>6. ~torn => \A x \in Assignments : ~Access!Active(x)'
      BY <3>4, <3>5 DEF OneActive, Access!Active
    <3> QED
      BY <1>0, <2>1, <2>2, <3>1, <3>6, AloneMoves
  <2> QED
    BY <2>3, <2>4
<1>8. ASSUME NEW q \in Changers, Access!ClearAfter(q)
      PROVE  RevokedAlone'
  <2>1. /\ UNCHANGED <<assignments, admin, torn>>
        /\ Access!At(q, "clear") \/ Access!At(q, "clear last")
    BY <1>8 DEF Access!ClearAfter
  <2>2. Revoking(q) /\ ~torn => Untorn(q) /\ \A a \in Assignments : ~Access!Active(a)'
    <3>1. ~Access!At(q, "save")
      BY <2>1 DEF Access!At
    <3> QED
      BY <2>1, <3>1 DEF RevokedAlone, Untorn, Access!Active
  <2>3. CASE Changed(q, None) /\ ~Revoking(q)
    BY <2>1, <2>3, AloneKept DEF Access!AccessTypeOK
  <2>4. CASE Changed(q, None) /\ Revoking(q) /\ ~Access!At(q, "clear")
    <3>1. ASSUME ~torn
          PROVE  ~admin'
      <4>1. \A p \in Changers : Revoking(p) =>
              ~(Access!At(p, "clear") \/ Access!At(p, "flag"))
        BY <2>1, <2>2, <2>4, <3>1 DEF Untorn, Access!At
      <4>2. AdminIsCoOwner /\ \A a \in Assignments : ~Access!Active(a)
        BY <2>1, <2>2, <2>4, <3>1, <4>1 DEF RevokedAlone, Access!Active
      <4> QED
        BY <2>1, <4>2 DEF AdminIsCoOwner
    <3> QED
      BY <2>1, <2>2, <2>4, <3>1, AloneMoves
  <2>5. ASSUME Revoking(q), NEW n \in Access!ChangeRows, Changed(q, n),
               n.step = "flag", n.kind = "revoke"
        PROVE  RevokedAlone'
    BY <1>0, <2>1, <2>2, <2>5, AloneMoves
  <2> QED
    BY <1>8, <2>3, <2>4, <2>5, ClearAfterChanges
<1>9. ASSUME NEW q \in Changers, Access!ResetFlag(q)
      PROVE  RevokedAlone'
  <2>1. /\ changes[q] # None /\ UNCHANGED <<assignments, torn>> /\ ~admin'
        /\ Access!At(q, "flag") /\ Revoking(q)
    BY <1>9 DEF Access!ResetFlag, Staged, Access!At
  <2>2. PICK n \in Access!ChangeRows :
          Changed(q, n) /\ n.step = "clear last" /\ n.kind = changes[q].kind
    BY <1>9, <2>1, ChangeSteps DEF Access!ResetFlag
  <2>3. ~torn => \A a \in Assignments : ~Access!Active(a)'
    <3>1. ~Access!At(q, "save")
      BY <2>1 DEF Access!At
    <3> QED
      BY <2>1, <3>1 DEF RevokedAlone, Untorn, Access!Active
  <2>4. n.kind = "revoke"
    BY <2>1, <2>2 DEF Revoking
  <2> QED
    BY <2>1, <2>2, <2>3, <2>4, AloneMoves
<1>10. ASSUME NEW q \in Changers, Access!Die(q)
       PROVE  RevokedAlone'
  <2>1. /\ Changed(q, None) /\ UNCHANGED <<assignments, admin>> /\ changes[q] # None
        /\ torn' <=> (torn \/ changes[q].kind = "revoke")
    BY <1>10 DEF Access!Die, Access!At, Changed
  <2>2. torn' \/ (~torn /\ ~Revoking(q))
    BY <2>1 DEF Revoking
  <2> QED
    BY <2>1, <2>2, AloneKept
<1>11. ASSUME NEW d \in Readers, Access!Read(d) \/ Access!SetEntry(d)
       PROVE  RevokedAlone'
  BY <1>2, <1>11 DEF Access!Read, Access!SetEntry
<1>12. CASE Access!Expire
  BY <1>2, <1>12 DEF Access!Expire
<1>13. CASE UNCHANGED accessVars
  BY <1>2, <1>13 DEF accessVars
<1> QED
  BY <1>3, <1>4, <1>5, <1>6, <1>7, <1>8, <1>9, <1>10, <1>11, <1>12, <1>13, AccessSteps

LEMMA AccessInvInit ==
  ASSUME AccessAssumption, Access!AccessInit
  PROVE  AccessInv
<1>1. Access!AccessTypeOK
  BY DEF Access!AccessInit, Access!AccessTypeOK
<1>2. EntriesMarked
  BY DEF Access!AccessInit, EntriesMarked, Access!EntryIsStored, Access!HalfDone, Access!At
<1>3. \A a \in Assignments : ~Access!Active(a)
  BY DEF Access!AccessInit, Access!Active
<1>4. \A q \in Changers : ~Revoking(q) /\ Staged(q)
  BY DEF Access!AccessInit, Staged, Revoking, Access!At
<1>5. RevokedAlone
  BY <1>3, <1>4 DEF Access!AccessInit, RevokedAlone, AdminIsCoOwner
<1> QED
  BY <1>1, <1>2, <1>3, <1>4, <1>5 DEF AccessInv, OneActive

LEMMA AccessInvHolds ==
  ASSUME AccessInv
  PROVE  Access!AccessFollowsRoles
<1>1. Access!EntryIsStored
  BY DEF AccessInv, EntriesMarked
<1>2. CASE torn \/ \E q \in Changers : Access!At(q, "clear") \/ Access!At(q, "flag")
  BY <1>1, <1>2 DEF Access!AdminByRole, Access!AccessFollowsRoles
<1>3. CASE AdminIsCoOwner
  <2>1. admin = (\E a \in Assignments : Access!Active(a) /\ assignments[a].role = "co-owner")
    BY <1>3 DEF AdminIsCoOwner, AccessInv, Access!AccessTypeOK
  <2> QED
    BY <1>1, <2>1 DEF Access!AdminByRole, Access!AccessFollowsRoles
<1> QED
  BY <1>2, <1>3 DEF AccessInv, RevokedAlone

(* The permissions that the cache answers with are those of the database, or *)
(* the entry is one of the kinds that the code lets live for half a minute;  *)
(* and the member is an administrator exactly while his role is co-owner,    *)
(* unless a revocation was torn (rbac_views.py, signals.py): for any roles,  *)
(* permissions, assignments, changes and readers.                           *)
AccessPart == part = "access" => AccessInv

THEOREM PeopleAccessFollowsRoles == TeamSpec => []AccessFollowsRoles
<1>1. TeamInit => AccessPart
  BY AccessInvInit, AccessAssumption DEF TeamInit, AccessPart
<1>2. AccessPart /\ [TeamNext]_teamVars => AccessPart'
  <2> SUFFICES ASSUME AccessPart, [TeamNext]_teamVars, part' = "access"
               PROVE  AccessInv'
    BY DEF AccessPart
  <2>1. part = "access" /\ [Access!AccessNext]_accessVars
    BY DEF TeamNext, teamVars, peopleVars
  <2>2. AccessInv
    BY <2>1 DEF AccessPart
  <2> QED
    BY <2>1, <2>2, AccessAssumption, AccessTyped, EntriesMarkedStep, StagedStep,
       OneActiveStep, RevokedAloneStep
       DEF AccessInv
<1>3. AccessPart => AccessFollowsRoles
  BY AccessInvHolds DEF AccessPart, AccessFollowsRoles
<1> QED
  BY <1>1, <1>2, <1>3, PTL DEF TeamSpec

-----------------------------------------------------------------------------
(* SignIn.  The steps, by what they write.  A step of a request for a code,  *)
(* or of a verification, writes that request or verification only.           *)
LEMMA SignInSteps ==
  ASSUME [Coded!SignInNext]_signInVars
  PROVE  \/ \E r \in Askers : Coded!Ask(r)
         \/ \E r \in Askers : Coded!CloseOpen(r)
         \/ \E r \in Askers, c \in CodeIds : Coded!CreateCode(r, c)
         \/ \E r \in Askers : Coded!SendCode(r)
         \/ \E v \in Verifiers, c \in CodeIds, right \in BOOLEAN : Coded!StartVerify(v, c, right)
         \/ \E v \in Verifiers : Coded!FindCode(v)
         \/ \E v \in Verifiers : Coded!AcceptCode(v)
         \/ \E v \in Verifiers : Coded!CountFailure(v) \/ Coded!VerifierDies(v)
         \/ \E c \in CodeIds : Coded!GrowOlder(c)
         \/ Coded!ForgetFailures
         \/ UNCHANGED signInVars
BY DEF Coded!SignInNext

LEMMA CodeRows ==
  ASSUME SignInAssumption
  PROVE  /\ MaxFailures \in Nat /\ None \notin CodeIds /\ None \notin Coded!Codes
         /\ None \notin Coded!Asks /\ None \notin Coded!Verifications
BY DEF SignInAssumption, Coded!SignInConstants

(* Fields of rows that are written. *)
LEMMA CodeWritten ==
  ASSUME NEW x \in Coded!Codes
  PROVE  /\ [x EXCEPT !.consumed = TRUE] \in Coded!Codes
         /\ [x EXCEPT !.consumed = TRUE].consumed
         /\ [x EXCEPT !.recent = FALSE] \in Coded!Codes
         /\ [x EXCEPT !.recent = FALSE].consumed <=> x.consumed
         /\ [x EXCEPT !.consumed = TRUE, !.attempts = @ + 1] \in Coded!Codes
         /\ [x EXCEPT !.consumed = TRUE, !.attempts = @ + 1].consumed
<1> USE DEF Coded!Codes
<1>1. [x EXCEPT !.consumed = TRUE] \in Coded!Codes /\ [x EXCEPT !.consumed = TRUE].consumed
  OBVIOUS
<1>2. [x EXCEPT !.recent = FALSE] \in Coded!Codes
  OBVIOUS
<1>3. [x EXCEPT !.recent = FALSE].consumed <=> x.consumed
  OBVIOUS
<1>4. [x EXCEPT !.consumed = TRUE, !.attempts = @ + 1] \in Coded!Codes
  <2>1. x.attempts + 1 \in Nat
    OBVIOUS
  <2> QED
    BY <2>1
<1>5. [x EXCEPT !.consumed = TRUE, !.attempts = @ + 1].consumed
  OBVIOUS
<1> QED
  BY <1>1, <1>2, <1>3, <1>4, <1>5

(* What CloseOpen, SendCode, AcceptCode and GrowOlder do to the rows. *)
LEMMA CodesKept ==
  ASSUME SignInAssumption, Coded!SignInTypeOK, NEW closed \in SUBSET CodeIds,
         codes' \in [CodeIds -> Coded!Codes \cup {None}],
         \A c \in CodeIds : /\ codes'[c] = None <=> codes[c] = None
                            /\ codes'[c] # None =>
                                 (codes'[c].consumed <=> codes[c].consumed \/ c \in closed)
  PROVE  \A c \in CodeIds : /\ Coded!Exists(c)' <=> Coded!Exists(c)
                            /\ Coded!Open(c)' <=> Coded!Open(c) /\ c \notin closed
BY DEF Coded!Exists, Coded!Open

LEMMA AskBecomes ==
  ASSUME SignInAssumption, Coded!SignInTypeOK, NEW r \in Askers, Coded!Ask(r)
  PROVE  /\ asking[r] = None
         /\ \E n \in Coded!Asks : asking' = [asking EXCEPT ![r] = n] /\ n.step = "close"
         /\ "ask" \notin overlapped' => \A q \in Askers : asking[q] = None
         /\ overlapped \subseteq overlapped' /\ overlapped' \subseteq overlapped \cup {"ask"}
<1> DEFINE n == [step |-> "close", code |-> None]
<1>1. n \in Coded!Asks /\ n.step = "close"
  BY DEF Coded!Asks
<1>2. asking' = [asking EXCEPT ![r] = n]
  BY DEF Coded!Ask
<1> HIDE DEF n
<1>3. \E m \in Coded!Asks : asking' = [asking EXCEPT ![r] = m] /\ m.step = "close"
  BY <1>1, <1>2
<1> QED
  BY <1>3 DEF Coded!Ask

LEMMA CloseBecomes ==
  ASSUME SignInAssumption, Coded!SignInTypeOK, NEW r \in Askers, Coded!CloseOpen(r)
  PROVE  /\ codes' \in [CodeIds -> Coded!Codes \cup {None}]
         /\ \A c \in CodeIds : (Coded!Exists(c)' <=> Coded!Exists(c)) /\ ~Coded!Open(c)'
         /\ asking[r] # None
         /\ \E n \in Coded!Asks : asking' = [asking EXCEPT ![r] = n] /\ n.step = "create"
<1> USE CodeRows, CodeWritten
<1>1. codes' \in [CodeIds -> Coded!Codes \cup {None}]
  <2>1. \A c \in CodeIds : Coded!Closed[c] \in Coded!Codes \cup {None}
    BY DEF Coded!Closed, Coded!SignInTypeOK, Coded!Open, Coded!Exists
  <2> QED
    BY <2>1 DEF Coded!CloseOpen, Coded!Closed
<1>2. ASSUME NEW c \in CodeIds
      PROVE  (Coded!Exists(c)' <=> Coded!Exists(c)) /\ ~Coded!Open(c)'
  <2>1. codes'[c] = IF Coded!Open(c) THEN [codes[c] EXCEPT !.consumed = TRUE] ELSE codes[c]
    BY DEF Coded!CloseOpen, Coded!Closed
  <2>2. CASE Coded!Open(c)
    <3>1. codes[c] \in Coded!Codes
      BY <2>2 DEF Coded!Open, Coded!Exists, Coded!SignInTypeOK
    <3>2. PICK row \in Coded!Codes : codes'[c] = row /\ row.consumed
      BY <2>1, <2>2, <3>1
    <3> QED
      BY <2>2, <3>2 DEF Coded!Open, Coded!Exists
  <2>3. CASE ~Coded!Open(c)
    BY <2>1, <2>3 DEF Coded!Open, Coded!Exists
  <2> QED
    BY <2>2, <2>3
<1>3. asking[r] \in Coded!Asks /\ asking' = [asking EXCEPT ![r].step = "create"]
  BY DEF Coded!CloseOpen, Coded!SignInTypeOK
<1> DEFINE n == [asking[r] EXCEPT !.step = "create"]
<1>4. n \in Coded!Asks /\ n.step = "create" /\ asking' = [asking EXCEPT ![r] = n]
  BY <1>3 DEF Coded!Asks
<1> HIDE DEF n
<1>5. \E m \in Coded!Asks : asking' = [asking EXCEPT ![r] = m] /\ m.step = "create"
  BY <1>4
<1> QED
  BY <1>1, <1>2, <1>5 DEF Coded!CloseOpen

LEMMA CreateBecomes ==
  ASSUME SignInAssumption, Coded!SignInTypeOK, NEW r \in Askers, NEW c \in CodeIds,
         Coded!CreateCode(r, c)
  PROVE  /\ codes' \in [CodeIds -> Coded!Codes \cup {None}]
         /\ \A d \in CodeIds \ {c} : /\ Coded!Exists(d)' <=> Coded!Exists(d)
                                     /\ Coded!Open(d)' <=> Coded!Open(d)
         /\ ~Coded!Exists(c) /\ Coded!Exists(c)'
         /\ \E n \in Coded!Asks :
              asking' = [asking EXCEPT ![r] = n] /\ n.step = "send" /\ n.code = c
<1> USE CodeRows
<1> DEFINE row == [consumed |-> FALSE, recent |-> TRUE, attempts |-> 0]
           n == [step |-> "send", code |-> c]
<1>1. row \in Coded!Codes /\ n \in Coded!Asks /\ n.step = "send" /\ n.code = c
  BY DEF Coded!Codes, Coded!Asks
<1>2. codes' = [codes EXCEPT ![c] = row] /\ asking' = [asking EXCEPT ![r] = n]
  BY DEF Coded!CreateCode
<1> HIDE DEF row, n
<1>3. codes' \in [CodeIds -> Coded!Codes \cup {None}]
  BY <1>1, <1>2 DEF Coded!SignInTypeOK
<1>4. codes'[c] # None /\ \A d \in CodeIds \ {c} : codes'[d] = codes[d]
  BY <1>1, <1>2 DEF Coded!SignInTypeOK
<1>5. \A d \in CodeIds \ {c} : /\ Coded!Exists(d)' <=> Coded!Exists(d)
                               /\ Coded!Open(d)' <=> Coded!Open(d)
  BY <1>4 DEF Coded!Exists, Coded!Open
<1>6. ~Coded!Exists(c) /\ Coded!Exists(c)'
  BY <1>4 DEF Coded!Exists, Coded!CreateCode
<1>7. \E m \in Coded!Asks : asking' = [asking EXCEPT ![r] = m] /\ m.step = "send" /\ m.code = c
  BY <1>1, <1>2
<1> QED
  BY <1>3, <1>5, <1>6, <1>7

(* Consuming a row, if it is consumed at all. *)
LEMMA SendBecomes ==
  ASSUME SignInAssumption, Coded!SignInTypeOK, NEW r \in Askers, Coded!SendCode(r)
  PROVE  /\ codes' \in [CodeIds -> Coded!Codes \cup {None}]
         /\ \E closed \in SUBSET CodeIds :
              /\ \A c \in closed : ~Coded!Held(c)
              /\ \A c \in CodeIds : /\ Coded!Exists(c)' <=> Coded!Exists(c)
                                    /\ Coded!Open(c)' <=> Coded!Open(c) /\ c \notin closed
         /\ asking' = [asking EXCEPT ![r] = None]
<1> USE CodeRows
<1>1. PICK c \in CodeIds : c = asking[r].code /\ codes[c] \in Coded!Codes
  BY DEF Coded!SendCode, Coded!SignInTypeOK, Coded!Exists
<1>2. CASE UNCHANGED codes
  <2>1. PICK closed \in SUBSET CodeIds : closed = {}
    OBVIOUS
  <2>2. \A d \in CodeIds : /\ Coded!Exists(d)' <=> Coded!Exists(d)
                           /\ Coded!Open(d)' <=> Coded!Open(d) /\ d \notin closed
    BY <1>2, <2>1 DEF Coded!Exists, Coded!Open
  <2>3. codes' \in [CodeIds -> Coded!Codes \cup {None}]
    BY <1>2 DEF Coded!SignInTypeOK
  <2> QED
    BY <2>1, <2>2, <2>3 DEF Coded!SendCode
<1>3. CASE ~Coded!Held(c) /\ codes' = [codes EXCEPT ![c].consumed = TRUE]
  <2>1. codes' = [codes EXCEPT ![c] = [codes[c] EXCEPT !.consumed = TRUE]]
    BY <1>3
  <2>2. codes' \in [CodeIds -> Coded!Codes \cup {None}]
    BY <1>1, <2>1, CodeWritten DEF Coded!SignInTypeOK
  <2>3. PICK closed \in SUBSET CodeIds : closed = {c}
    OBVIOUS
  <2>4. \A d \in CodeIds : /\ codes'[d] = None <=> codes[d] = None
                           /\ codes'[d] # None =>
                                (codes'[d].consumed <=> codes[d].consumed \/ d \in closed)
    <3>1. PICK row \in Coded!Codes : row = [codes[c] EXCEPT !.consumed = TRUE] /\ row.consumed
      BY <1>1, CodeWritten
    <3>2. codes' = [codes EXCEPT ![c] = row]
      BY <2>1, <3>1
    <3>3. codes'[c] = row /\ \A d \in CodeIds \ {c} : codes'[d] = codes[d]
      BY <3>2 DEF Coded!SignInTypeOK
    <3> QED
      BY <1>1, <2>3, <3>1, <3>3
  <2>5. \A d \in CodeIds : /\ Coded!Exists(d)' <=> Coded!Exists(d)
                           /\ Coded!Open(d)' <=> Coded!Open(d) /\ d \notin closed
    BY <2>2, <2>4, CodesKept
  <2>6. \A d \in closed : ~Coded!Held(d)
    BY <1>3, <2>3
  <2> QED
    BY <2>2, <2>5, <2>6 DEF Coded!SendCode
<1> QED
  BY <1>1, <1>2, <1>3 DEF Coded!SendCode

(* What the proofs about SignIn need beside its properties.                 *)

(* A row is held by one verification, and one that will accept its code      *)
(* holds it while it is open; a code that signed in is consumed.             *)
LocksHeld ==
  /\ \A u, v \in Verifiers :
       verifying[u] # None /\ verifying[v] # None /\ verifying[u].locked # None
       /\ verifying[u].locked = verifying[v].locked => u = v
  /\ \A v \in Verifiers : Coded!At(v, "accept") =>
       verifying[v].locked = verifying[v].code /\ Coded!Open(verifying[v].code)
  /\ \A c \in CodeIds : signIns[c] = 0 \/ (signIns[c] = 1 /\ Coded!Exists(c) /\ ~Coded!Open(c))

(* Asks for a code that do not overlap: none is open when one is created. *)
ClosedFirst ==
  \/ "ask" \in overlapped
  \/ /\ \A q, r \in Askers : asking[q] # None /\ asking[r] # None => q = r
     /\ \A r \in Askers : asking[r] # None /\ asking[r].step = "create" =>
          \A c \in CodeIds : ~Coded!Open(c)
     /\ \A c, d \in CodeIds : Coded!Open(c) /\ Coded!Open(d) => c = d

(* Verifications that do not overlap: each wrong code is counted, or its     *)
(* verification is about to.                                                *)
FailuresCounted ==
  \/ "verify" \in overlapped
  \/ /\ \A u, v \in Verifiers : verifying[u] # None /\ verifying[v] # None => u = v
     /\ \A v \in Verifiers : Coded!At(v, "find") => failures < MaxFailures
     /\ \A v \in Verifiers : Coded!At(v, "count") =>
          verifying[v].seen < MaxFailures /\ wrong <= verifying[v].seen + 1
     /\ (\A v \in Verifiers : ~Coded!At(v, "count")) => wrong <= failures

SignInInv == Coded!SignInTypeOK /\ LocksHeld /\ ClosedFirst /\ FailuresCounted

LEMMA AcceptBecomes ==
  ASSUME SignInAssumption, Coded!SignInTypeOK, LocksHeld, NEW v \in Verifiers,
         Coded!AcceptCode(v)
  PROVE  /\ codes' \in [CodeIds -> Coded!Codes \cup {None}]
         /\ \E c \in CodeIds :
              /\ c = verifying[v].code /\ c = verifying[v].locked /\ Coded!Open(c)
              /\ signIns' = [signIns EXCEPT ![c] = @ + 1]
              /\ \A d \in CodeIds : /\ Coded!Exists(d)' <=> Coded!Exists(d)
                                    /\ Coded!Open(d)' <=> Coded!Open(d) /\ d # c
         /\ verifying[v] # None /\ verifying' = [verifying EXCEPT ![v] = None]
<1> USE CodeRows
<1>1. verifying[v] \in Coded!Verifications /\ verifying[v].code \in CodeIds
  BY DEF Coded!AcceptCode, Coded!At, Coded!SignInTypeOK, Coded!Verifications
<1>2. PICK c \in CodeIds :
        /\ c = verifying[v].code /\ c = verifying[v].locked /\ Coded!Open(c)
        /\ codes[c] \in Coded!Codes
  BY <1>1 DEF Coded!AcceptCode, LocksHeld, Coded!Open, Coded!Exists, Coded!SignInTypeOK
<1>3. codes' = [codes EXCEPT ![c] = [codes[c] EXCEPT !.consumed = TRUE, !.attempts = @ + 1]]
  BY <1>2 DEF Coded!AcceptCode, Coded!SignInTypeOK
<1>4. codes' \in [CodeIds -> Coded!Codes \cup {None}]
  BY <1>2, <1>3, CodeWritten DEF Coded!SignInTypeOK
<1>5. PICK closed \in SUBSET CodeIds : closed = {c}
  OBVIOUS
<1>6. \A d \in CodeIds : /\ codes'[d] = None <=> codes[d] = None
                         /\ codes'[d] # None =>
                              (codes'[d].consumed <=> codes[d].consumed \/ d \in closed)
  <2>1. PICK row \in Coded!Codes :
          row = [codes[c] EXCEPT !.consumed = TRUE, !.attempts = @ + 1] /\ row.consumed
    BY <1>2, CodeWritten
  <2>2. codes' = [codes EXCEPT ![c] = row]
    BY <1>3, <2>1
  <2>3. codes'[c] = row /\ \A d \in CodeIds \ {c} : codes'[d] = codes[d]
    BY <2>2 DEF Coded!SignInTypeOK
  <2> QED
    BY <1>2, <1>5, <2>1, <2>3
<1>7. \A d \in CodeIds : /\ Coded!Exists(d)' <=> Coded!Exists(d)
                         /\ Coded!Open(d)' <=> Coded!Open(d) /\ d # c
  <2>1. \A d \in CodeIds : /\ Coded!Exists(d)' <=> Coded!Exists(d)
                           /\ Coded!Open(d)' <=> Coded!Open(d) /\ d \notin closed
    BY <1>4, <1>6, CodesKept
  <2> QED
    BY <1>5, <2>1
<1>8. signIns' = [signIns EXCEPT ![c] = @ + 1]
  BY <1>2 DEF Coded!AcceptCode
<1> QED
  BY <1>2, <1>4, <1>7, <1>8 DEF Coded!AcceptCode, Coded!At

LEMMA OlderBecomes ==
  ASSUME SignInAssumption, Coded!SignInTypeOK, NEW c \in CodeIds, Coded!GrowOlder(c)
  PROVE  /\ codes' \in [CodeIds -> Coded!Codes \cup {None}]
         /\ \A d \in CodeIds : /\ Coded!Exists(d)' <=> Coded!Exists(d)
                               /\ Coded!Open(d)' <=> Coded!Open(d)
<1> USE CodeRows
<1>1. codes[c] \in Coded!Codes
  BY DEF Coded!GrowOlder, Coded!Exists, Coded!SignInTypeOK
<1>2. codes' = [codes EXCEPT ![c] = [codes[c] EXCEPT !.recent = FALSE]]
  BY DEF Coded!GrowOlder
<1>3. codes' \in [CodeIds -> Coded!Codes \cup {None}]
  BY <1>1, <1>2, CodeWritten DEF Coded!SignInTypeOK
<1>4. ASSUME NEW d \in CodeIds
      PROVE  /\ codes'[d] = None <=> codes[d] = None
             /\ codes'[d] # None => (codes'[d].consumed <=> codes[d].consumed)
  <2>1. PICK row \in Coded!Codes :
          row = [codes[c] EXCEPT !.recent = FALSE] /\ (row.consumed <=> codes[c].consumed)
    BY <1>1, CodeWritten
  <2>2. codes' = [codes EXCEPT ![c] = row]
    BY <1>2, <2>1
  <2>3. codes'[c] = row /\ \A e \in CodeIds \ {c} : codes'[e] = codes[e]
    BY <2>2 DEF Coded!SignInTypeOK
  <2> QED
    BY <1>1, <2>1, <2>3
<1>5. \A d \in CodeIds : /\ Coded!Exists(d)' <=> Coded!Exists(d)
                         /\ Coded!Open(d)' <=> Coded!Open(d)
  BY <1>4 DEF Coded!Exists, Coded!Open
<1> QED
  BY <1>3, <1>5

LEMMA StartBecomes ==
  ASSUME SignInAssumption, Coded!SignInTypeOK, NEW v \in Verifiers, NEW c \in CodeIds,
         NEW right \in BOOLEAN, Coded!StartVerify(v, c, right)
  PROVE  /\ \E n \in Coded!Verifications :
              verifying' = [verifying EXCEPT ![v] = n] /\ n.step = "find" /\ n.locked = None
         /\ verifying[v] = None /\ failures < MaxFailures
         /\ "verify" \notin overlapped' => \A u \in Verifiers : verifying[u] = None
         /\ overlapped \subseteq overlapped' /\ overlapped' \subseteq overlapped \cup {"verify"}
<1> DEFINE n == [step |-> "find", code |-> c, right |-> right, locked |-> None, seen |-> 0]
<1>1. n \in Coded!Verifications /\ n.step = "find" /\ n.locked = None
  BY CodeRows DEF Coded!Verifications
<1>2. verifying' = [verifying EXCEPT ![v] = n]
  BY DEF Coded!StartVerify
<1> HIDE DEF n
<1>3. \E m \in Coded!Verifications :
        verifying' = [verifying EXCEPT ![v] = m] /\ m.step = "find" /\ m.locked = None
  BY <1>1, <1>2
<1> QED
  BY <1>3 DEF Coded!StartVerify

LEMMA FindBecomes ==
  ASSUME SignInAssumption, Coded!SignInTypeOK, NEW v \in Verifiers, Coded!FindCode(v)
  PROVE  /\ verifying[v] # None /\ verifying[v].step = "find"
         /\ \E n \in Coded!Verifications :
              /\ verifying' = [verifying EXCEPT ![v] = n] /\ n.code = verifying[v].code
              /\ \/ n.step = "accept" /\ n.locked = n.code /\ Coded!Open(n.code) /\ wrong' = wrong
                 \/ /\ n.step = "count" /\ n.seen = failures /\ n.locked \in {n.code, None}
                    /\ wrong' \in {wrong, wrong + 1}
         /\ ~Coded!Held(verifying[v].code)
<1>1. verifying[v] \in Coded!Verifications
  BY DEF Coded!FindCode, Coded!At, Coded!SignInTypeOK
<1>2. PICK old \in Coded!Verifications : old = verifying[v]
  BY <1>1
<1> DEFINE usable == Coded!Usable(old.code)
<1>3. CASE usable /\ old.right
  <2> DEFINE n == [old EXCEPT !.step = "accept", !.locked = old.code, !.seen = 0]
  <2>1. /\ n \in Coded!Verifications /\ n.step = "accept"
        /\ n.code = old.code /\ n.locked = old.code
    <3>1. old.code \in CodeIds \cup {None} /\ 0 \in 0..MaxFailures
      BY CodeRows DEF Coded!Verifications
    <3>2. n \in Coded!Verifications
      BY <3>1 DEF Coded!Verifications
    <3>3. n.step = "accept" /\ n.code = old.code /\ n.locked = old.code
      BY DEF Coded!Verifications
    <3> QED
      BY <3>2, <3>3
  <2>2. verifying' = [verifying EXCEPT ![v] = n]
    BY <1>2, <1>3 DEF Coded!FindCode, Coded!SignInTypeOK
  <2>3. wrong' = wrong /\ Coded!Open(old.code)
    BY <1>2, <1>3 DEF Coded!FindCode, Coded!Usable
  <2> HIDE DEF n
  <2> QED
    BY <1>2, <2>1, <2>2, <2>3 DEF Coded!FindCode, Coded!At, Coded!MayLock
<1>4. CASE ~(usable /\ old.right)
  <2>1. PICK held \in {old.code, None} : held = IF usable THEN old.code ELSE None
    OBVIOUS
  <2> DEFINE n == [old EXCEPT !.step = "count", !.locked = held, !.seen = failures]
  <2>2. /\ n \in Coded!Verifications /\ n.code = old.code /\ n.step = "count"
        /\ n.locked = held /\ n.seen = failures
    BY CodeRows DEF Coded!Verifications, Coded!SignInTypeOK
  <2>3. verifying' = [verifying EXCEPT ![v] = n]
    BY <1>2, <1>4, <2>1 DEF Coded!FindCode, Coded!SignInTypeOK
  <2>4. wrong' \in {wrong, wrong + 1}
    BY <1>2, <1>4 DEF Coded!FindCode
  <2> HIDE DEF n
  <2> QED
    BY <1>2, <2>1, <2>2, <2>3, <2>4 DEF Coded!FindCode, Coded!At, Coded!MayLock
<1> QED
  BY <1>3, <1>4

LEMMA SignInTyped ==
  ASSUME SignInAssumption, Coded!SignInTypeOK, LocksHeld, [Coded!SignInNext]_signInVars
  PROVE  Coded!SignInTypeOK'
<1> USE CodeRows
<1> DEFINE Sends == \A r \in Askers : asking[r] # None /\ asking[r].step = "send" =>
                      asking[r].code \in CodeIds /\ Coded!Exists(asking[r].code)
<1>1. ASSUME NEW r \in Askers, NEW n \in Coded!Asks \cup {None},
             asking' = [asking EXCEPT ![r] = n], n # None /\ n.step = "send" =>
               n.code \in CodeIds /\ Coded!Exists(n.code)',
             \A c \in CodeIds : Coded!Exists(c) => Coded!Exists(c)'
      PROVE  asking' \in [Askers -> Coded!Asks \cup {None}] /\ Sends'
  <2>1. asking' \in [Askers -> Coded!Asks \cup {None}]
    BY <1>1 DEF Coded!SignInTypeOK
  <2>2. asking'[r] = n /\ \A q \in Askers \ {r} : asking'[q] = asking[q]
    BY <1>1 DEF Coded!SignInTypeOK
  <2>3. \A q \in Askers : asking'[q] # None /\ asking'[q].step = "send" =>
          asking'[q].code \in CodeIds /\ codes'[asking'[q].code] # None
    BY <1>1, <2>2 DEF Coded!SignInTypeOK, Coded!Exists
  <2> QED
    BY <2>1, <2>3 DEF Coded!Exists
<1>2. ASSUME UNCHANGED asking, \A c \in CodeIds : Coded!Exists(c) => Coded!Exists(c)'
      PROVE  Sends'
  <2>1. \A q \in Askers : asking'[q] # None /\ asking'[q].step = "send" =>
          asking'[q].code \in CodeIds /\ codes'[asking'[q].code] # None
    BY <1>2 DEF Coded!SignInTypeOK, Coded!Exists
  <2> QED
    BY <2>1 DEF Coded!Exists
<1> HIDE DEF Sends
<1>3. ASSUME /\ codes' \in [CodeIds -> Coded!Codes \cup {None}]
             /\ asking' \in [Askers -> Coded!Asks \cup {None}]
             /\ verifying' \in [Verifiers -> Coded!Verifications \cup {None}]
             /\ failures' \in 0..MaxFailures /\ wrong' \in Nat
             /\ signIns' \in [CodeIds -> Nat] /\ Sends'
      PROVE  Coded!SignInTypeOK'
  BY <1>3 DEF Coded!SignInTypeOK, Sends
<1>4. UNCHANGED codes => \A c \in CodeIds : Coded!Exists(c) => Coded!Exists(c)'
  BY DEF Coded!Exists
<1>5. ASSUME NEW r \in Askers, Coded!Ask(r)
      PROVE  Coded!SignInTypeOK'
  <2>1. UNCHANGED <<codes, verifying, failures, wrong, signIns>>
    BY <1>5 DEF Coded!Ask
  <2>2. PICK n \in Coded!Asks : asking' = [asking EXCEPT ![r] = n] /\ n.step = "close"
    BY <1>5, AskBecomes
  <2>3. asking' \in [Askers -> Coded!Asks \cup {None}] /\ Sends'
    BY <1>1, <1>4, <2>1, <2>2
  <2> QED
    BY <1>3, <2>1, <2>3 DEF Coded!SignInTypeOK
<1>6. ASSUME NEW r \in Askers, Coded!CloseOpen(r)
      PROVE  Coded!SignInTypeOK'
  <2>1. UNCHANGED <<verifying, failures, wrong, signIns>>
    BY <1>6 DEF Coded!CloseOpen
  <2>2. PICK n \in Coded!Asks : asking' = [asking EXCEPT ![r] = n] /\ n.step = "create"
    BY <1>6, CloseBecomes
  <2>3. /\ codes' \in [CodeIds -> Coded!Codes \cup {None}]
        /\ \A c \in CodeIds : Coded!Exists(c) => Coded!Exists(c)'
    BY <1>6, CloseBecomes
  <2>4. asking' \in [Askers -> Coded!Asks \cup {None}] /\ Sends'
    BY <1>1, <2>2, <2>3
  <2> QED
    BY <1>3, <2>1, <2>3, <2>4 DEF Coded!SignInTypeOK
<1>7. ASSUME NEW r \in Askers, NEW c \in CodeIds, Coded!CreateCode(r, c)
      PROVE  Coded!SignInTypeOK'
  <2>1. UNCHANGED <<verifying, failures, wrong, signIns>>
    BY <1>7 DEF Coded!CreateCode
  <2>2. PICK n \in Coded!Asks :
          asking' = [asking EXCEPT ![r] = n] /\ n.step = "send" /\ n.code = c
    BY <1>7, CreateBecomes
  <2>3. codes' \in [CodeIds -> Coded!Codes \cup {None}] /\ Coded!Exists(c)'
    BY <1>7, CreateBecomes
  <2>4. \A d \in CodeIds : Coded!Exists(d) => Coded!Exists(d)'
    BY <1>7, <2>3, CreateBecomes
  <2>5. asking' \in [Askers -> Coded!Asks \cup {None}] /\ Sends'
    BY <1>1, <2>2, <2>3, <2>4
  <2> QED
    BY <1>3, <2>1, <2>3, <2>5 DEF Coded!SignInTypeOK
<1>8. ASSUME NEW r \in Askers, Coded!SendCode(r)
      PROVE  Coded!SignInTypeOK'
  <2>1. UNCHANGED <<verifying, failures, wrong, signIns>>
    BY <1>8 DEF Coded!SendCode
  <2>2. /\ codes' \in [CodeIds -> Coded!Codes \cup {None}]
        /\ \A d \in CodeIds : Coded!Exists(d) => Coded!Exists(d)'
        /\ asking' = [asking EXCEPT ![r] = None]
    BY <1>8, SendBecomes
  <2>3. asking' \in [Askers -> Coded!Asks \cup {None}] /\ Sends'
    BY <1>1, <2>2
  <2> QED
    BY <1>3, <2>1, <2>2, <2>3 DEF Coded!SignInTypeOK
<1>9. ASSUME NEW v \in Verifiers, NEW n \in Coded!Verifications \cup {None},
             verifying' = [verifying EXCEPT ![v] = n]
      PROVE  verifying' \in [Verifiers -> Coded!Verifications \cup {None}]
  BY <1>9 DEF Coded!SignInTypeOK
<1>10. ASSUME NEW v \in Verifiers, NEW c \in CodeIds, NEW right \in BOOLEAN,
              Coded!StartVerify(v, c, right)
       PROVE  Coded!SignInTypeOK'
  <2>1. UNCHANGED <<codes, asking, failures, wrong, signIns>>
    BY <1>10 DEF Coded!StartVerify
  <2>2. verifying' \in [Verifiers -> Coded!Verifications \cup {None}]
    BY <1>9, <1>10, StartBecomes
  <2> QED
    BY <1>2, <1>3, <1>4, <2>1, <2>2 DEF Coded!SignInTypeOK
<1>11. ASSUME NEW v \in Verifiers, Coded!FindCode(v)
       PROVE  Coded!SignInTypeOK'
  <2>1. UNCHANGED <<codes, asking, failures, signIns>>
    BY <1>11 DEF Coded!FindCode
  <2>2. verifying' \in [Verifiers -> Coded!Verifications \cup {None}]
          /\ wrong' \in {wrong, wrong + 1}
    BY <1>9, <1>11, FindBecomes
  <2> QED
    BY <1>2, <1>3, <1>4, <2>1, <2>2 DEF Coded!SignInTypeOK
<1>12. ASSUME NEW v \in Verifiers, Coded!AcceptCode(v)
       PROVE  Coded!SignInTypeOK'
  <2>1. UNCHANGED asking /\ failures' = 0 /\ wrong' = 0
    BY <1>12 DEF Coded!AcceptCode
  <2>2. /\ codes' \in [CodeIds -> Coded!Codes \cup {None}]
        /\ \A d \in CodeIds : Coded!Exists(d) => Coded!Exists(d)'
        /\ verifying' = [verifying EXCEPT ![v] = None]
    BY <1>12, AcceptBecomes
  <2>3. PICK c \in CodeIds : signIns' = [signIns EXCEPT ![c] = @ + 1]
    BY <1>12, AcceptBecomes
  <2>4. signIns' \in [CodeIds -> Nat]
    BY <2>3 DEF Coded!SignInTypeOK
  <2>5. verifying' \in [Verifiers -> Coded!Verifications \cup {None}]
    BY <1>9, <2>2
  <2>6. failures' \in 0..MaxFailures /\ wrong' \in Nat /\ Sends'
    BY <1>2, <2>1, <2>2
  <2> QED
    BY <1>3, <2>1, <2>2, <2>4, <2>5, <2>6 DEF Coded!SignInTypeOK
<1>13. ASSUME NEW v \in Verifiers, Coded!CountFailure(v) \/ Coded!VerifierDies(v)
       PROVE  Coded!SignInTypeOK'
  <2>1. UNCHANGED <<codes, asking, wrong, signIns>> /\ verifying' = [verifying EXCEPT ![v] = None]
    BY <1>13 DEF Coded!CountFailure, Coded!VerifierDies
  <2>2. failures' \in 0..MaxFailures
    <3>1. CASE Coded!CountFailure(v)
      <4>1. verifying[v].seen \in 0..MaxFailures
        BY <3>1 DEF Coded!CountFailure, Coded!At, Coded!SignInTypeOK, Coded!Verifications
      <4>2. \A seen \in 0..MaxFailures : Coded!Recorded(seen) \in 0..MaxFailures
        BY DEF Coded!Recorded
      <4> QED
        BY <3>1, <4>1, <4>2 DEF Coded!CountFailure
    <3>2. CASE Coded!VerifierDies(v)
      BY <3>2 DEF Coded!VerifierDies, Coded!SignInTypeOK
    <3> QED
      BY <1>13, <3>1, <3>2
  <2> QED
    BY <1>2, <1>3, <1>4, <1>9, <2>1, <2>2 DEF Coded!SignInTypeOK
<1>14. ASSUME NEW c \in CodeIds, Coded!GrowOlder(c)
       PROVE  Coded!SignInTypeOK'
  <2>1. UNCHANGED <<asking, verifying, failures, wrong, signIns>>
    BY <1>14 DEF Coded!GrowOlder
  <2>2. /\ codes' \in [CodeIds -> Coded!Codes \cup {None}]
        /\ \A d \in CodeIds : Coded!Exists(d) => Coded!Exists(d)'
    BY <1>14, OlderBecomes
  <2> QED
    BY <1>2, <1>3, <2>1, <2>2 DEF Coded!SignInTypeOK
<1>15. CASE Coded!ForgetFailures \/ UNCHANGED signInVars
  <2>1. /\ UNCHANGED <<codes, asking, verifying, signIns>>
        /\ failures' \in {failures, 0} /\ wrong' \in {wrong, 0}
    BY <1>15 DEF Coded!ForgetFailures, signInVars
  <2> QED
    BY <1>2, <1>3, <1>4, <2>1 DEF Coded!SignInTypeOK
<1> QED
  BY <1>5, <1>6, <1>7, <1>8, <1>10, <1>11, <1>12, <1>13, <1>14, <1>15, SignInSteps

(* A verification goes on or ends, and the others stay as they are. *)
LEMMA OtherVerifiers ==
  ASSUME Coded!SignInTypeOK, NEW v \in Verifiers, NEW n,
         verifying' = [verifying EXCEPT ![v] = n]
  PROVE  verifying'[v] = n /\ \A u \in Verifiers \ {v} : verifying'[u] = verifying[u]
BY DEF Coded!SignInTypeOK

LEMMA OtherAskers ==
  ASSUME Coded!SignInTypeOK, NEW r \in Askers, NEW n, asking' = [asking EXCEPT ![r] = n]
  PROVE  asking'[r] = n /\ \A q \in Askers \ {r} : asking'[q] = asking[q]
BY DEF Coded!SignInTypeOK

(* Only a verification that holds a row consumes it, or a request that found *)
(* nobody holding it (otp.py, select_for_update and the UPDATEs).            *)
LEMMA LocksHeldStep ==
  ASSUME SignInAssumption, Coded!SignInTypeOK, LocksHeld, [Coded!SignInNext]_signInVars
  PROVE  LocksHeld'
<1> USE CodeRows
<1> DEFINE Counted == \A c \in CodeIds :
             signIns[c] = 0 \/ (signIns[c] = 1 /\ Coded!Exists(c) /\ ~Coded!Open(c))
           Apart == \A u, v \in Verifiers :
             verifying[u] # None /\ verifying[v] # None /\ verifying[u].locked # None
             /\ verifying[u].locked = verifying[v].locked => u = v
           Accepting == \A v \in Verifiers : Coded!At(v, "accept") =>
             verifying[v].locked = verifying[v].code /\ Coded!Open(verifying[v].code)
<1>0. LocksHeld <=> Apart /\ Accepting /\ Counted
  BY DEF LocksHeld
<1>1. LocksHeld' <=> Apart' /\ Accepting' /\ Counted'
  BY DEF LocksHeld
(* Rows change while the verifications stand still. *)
<1>2. ASSUME UNCHANGED <<verifying, signIns>>, NEW closed \in SUBSET CodeIds,
             \A c \in closed : ~Coded!Held(c),
             \A c \in CodeIds : Coded!Exists(c) =>
               Coded!Exists(c)' /\ (Coded!Open(c)' <=> Coded!Open(c) /\ c \notin closed)
      PROVE  LocksHeld'
  <2>1. Counted'
    <3> SUFFICES ASSUME NEW c \in CodeIds
                 PROVE  signIns'[c] = 0 \/ (signIns'[c] = 1 /\ Coded!Exists(c)' /\ ~Coded!Open(c)')
      OBVIOUS
    <3> QED
      BY <1>0, <1>2
  <2>2. Apart'
    BY <1>0, <1>2
  <2>3. Accepting'
    <3> SUFFICES ASSUME NEW v \in Verifiers, Coded!At(v, "accept")'
                 PROVE  /\ verifying'[v].locked = verifying'[v].code
                        /\ Coded!Open(verifying[v].code)'
      BY <1>2
    <3>1. Coded!At(v, "accept")
      BY <1>2 DEF Coded!At
    <3>2. PICK c \in CodeIds : c = verifying[v].code /\ c = verifying[v].locked /\ Coded!Open(c)
      BY <1>0, <3>1 DEF Coded!At, Coded!SignInTypeOK, Coded!Verifications
    <3>3. Coded!Held(c)
      BY <3>1, <3>2 DEF Coded!Held, Coded!At
    <3>4. Coded!Open(c)'
      BY <1>2, <3>2, <3>3 DEF Coded!Open
    <3> QED
      BY <1>2, <3>2, <3>4 DEF Coded!Open, Coded!Exists
  <2> QED
    BY <1>1, <2>1, <2>2, <2>3
<1>3. ASSUME UNCHANGED <<verifying, signIns>>,
             \A c \in CodeIds : Coded!Exists(c) =>
               Coded!Exists(c)' /\ (Coded!Open(c)' <=> Coded!Open(c))
      PROVE  LocksHeld'
  <2>1. PICK closed \in SUBSET CodeIds : closed = {}
    OBVIOUS
  <2> QED
    BY <1>2, <1>3, <2>1
<1>4. ASSUME UNCHANGED <<verifying, signIns, codes>>
      PROVE  LocksHeld'
  BY <1>3, <1>4 DEF Coded!Exists, Coded!Open
<1>5. ASSUME NEW r \in Askers, Coded!CloseOpen(r)
      PROVE  LocksHeld'
  <2>1. PICK closed \in SUBSET CodeIds : closed = {c \in CodeIds : Coded!Open(c)}
    OBVIOUS
  <2>2. \A c \in closed : ~Coded!Held(c)
    BY <1>5, <2>1 DEF Coded!CloseOpen
  <2>3. \A c \in CodeIds : Coded!Exists(c) =>
          Coded!Exists(c)' /\ (Coded!Open(c)' <=> Coded!Open(c) /\ c \notin closed)
    BY <1>5, <2>1, CloseBecomes
  <2> QED
    BY <1>2, <1>5, <2>2, <2>3 DEF Coded!CloseOpen
<1>6. ASSUME NEW r \in Askers, NEW c \in CodeIds, Coded!CreateCode(r, c)
      PROVE  LocksHeld'
  <2>1. \A d \in CodeIds : Coded!Exists(d) =>
          Coded!Exists(d)' /\ (Coded!Open(d)' <=> Coded!Open(d))
    BY <1>6, CreateBecomes
  <2> QED
    BY <1>3, <1>6, <2>1 DEF Coded!CreateCode
<1>7. ASSUME NEW r \in Askers, Coded!SendCode(r)
      PROVE  LocksHeld'
  <2>1. PICK closed \in SUBSET CodeIds :
          /\ \A c \in closed : ~Coded!Held(c)
          /\ \A c \in CodeIds : /\ Coded!Exists(c)' <=> Coded!Exists(c)
                                /\ Coded!Open(c)' <=> Coded!Open(c) /\ c \notin closed
    BY <1>7, SendBecomes
  <2> QED
    BY <1>2, <1>7, <2>1 DEF Coded!SendCode
<1>8. ASSUME NEW c \in CodeIds, Coded!GrowOlder(c)
      PROVE  LocksHeld'
  <2>1. \A d \in CodeIds : /\ Coded!Exists(d)' <=> Coded!Exists(d)
                           /\ Coded!Open(d)' <=> Coded!Open(d)
    BY <1>8, OlderBecomes
  <2> QED
    BY <1>3, <1>8, <2>1 DEF Coded!GrowOlder
(* A verification takes no row, or one that nobody holds. *)
<1>9. ASSUME NEW v \in Verifiers, NEW n \in Coded!Verifications \cup {None},
             verifying' = [verifying EXCEPT ![v] = n], UNCHANGED <<signIns, codes>>,
             \/ n = None
             \/ n.locked = None /\ n.step # "accept"
             \/ /\ n.locked = n.code /\ ~Coded!Held(n.code)
                /\ n.step = "accept" => Coded!Open(n.code)
      PROVE  LocksHeld'
  <2>1. verifying'[v] = n /\ \A u \in Verifiers \ {v} : verifying'[u] = verifying[u]
    BY <1>9, OtherVerifiers
  <2>2. Counted'
    BY <1>0, <1>9 DEF Coded!Exists, Coded!Open
  <2>3. Apart'
    <3> SUFFICES ASSUME NEW u \in Verifiers, NEW w \in Verifiers, u # w,
                        verifying'[u] # None, verifying'[w] # None, verifying'[u].locked # None,
                        verifying'[u].locked = verifying'[w].locked
                 PROVE  FALSE
      OBVIOUS
    <3>1. u = v \/ w = v
      BY <1>0, <2>1
    <3> QED
      BY <1>9, <2>1, <3>1 DEF Coded!Held
  <2>4. Accepting'
    <3> SUFFICES ASSUME NEW u \in Verifiers, Coded!At(u, "accept")'
                 PROVE  /\ verifying'[u].locked = verifying'[u].code
                        /\ Coded!Open(verifying[u].code)'
      BY <1>9
    <3>1. verifying'[u].locked = verifying'[u].code /\ Coded!Open(verifying'[u].code)
      BY <1>0, <1>9, <2>1 DEF Coded!At
    <3> QED
      BY <1>9, <3>1 DEF Coded!Open, Coded!Exists
  <2> QED
    BY <1>1, <2>2, <2>3, <2>4
<1>10. ASSUME NEW v \in Verifiers, NEW c \in CodeIds, NEW right \in BOOLEAN,
              Coded!StartVerify(v, c, right)
       PROVE  LocksHeld'
  <2>1. PICK n \in Coded!Verifications :
          verifying' = [verifying EXCEPT ![v] = n] /\ n.step = "find" /\ n.locked = None
    BY <1>10, StartBecomes
  <2> QED
    BY <1>9, <1>10, <2>1 DEF Coded!StartVerify
<1>11. ASSUME NEW v \in Verifiers, Coded!FindCode(v)
       PROVE  LocksHeld'
  <2>1. PICK n \in Coded!Verifications :
          /\ verifying' = [verifying EXCEPT ![v] = n] /\ n.code = verifying[v].code
          /\ \/ n.step = "accept" /\ n.locked = n.code /\ Coded!Open(n.code) /\ wrong' = wrong
             \/ /\ n.step = "count" /\ n.seen = failures /\ n.locked \in {n.code, None}
                /\ wrong' \in {wrong, wrong + 1}
    BY <1>11, FindBecomes
  <2>2. ~Coded!Held(n.code)
    BY <1>11, <2>1, FindBecomes
  <2> QED
    BY <1>9, <1>11, <2>1, <2>2 DEF Coded!FindCode
<1>12. ASSUME NEW v \in Verifiers, Coded!CountFailure(v) \/ Coded!VerifierDies(v)
       PROVE  LocksHeld'
  BY <1>9, <1>12 DEF Coded!CountFailure, Coded!VerifierDies
<1>13. ASSUME NEW v \in Verifiers, Coded!AcceptCode(v)
       PROVE  LocksHeld'
  <2>1. PICK c \in CodeIds :
          /\ c = verifying[v].code /\ c = verifying[v].locked /\ Coded!Open(c)
          /\ signIns' = [signIns EXCEPT ![c] = @ + 1]
          /\ \A d \in CodeIds : /\ Coded!Exists(d)' <=> Coded!Exists(d)
                                /\ Coded!Open(d)' <=> Coded!Open(d) /\ d # c
    BY <1>13, AcceptBecomes
  <2>2. verifying[v] # None /\ verifying' = [verifying EXCEPT ![v] = None]
    BY <1>13, AcceptBecomes
  <2>3. verifying'[v] = None /\ \A u \in Verifiers \ {v} : verifying'[u] = verifying[u]
    BY <2>2, OtherVerifiers
  <2>4. Counted'
    <3> SUFFICES ASSUME NEW d \in CodeIds
                 PROVE  signIns'[d] = 0 \/ (signIns'[d] = 1 /\ Coded!Exists(d)' /\ ~Coded!Open(d)')
      OBVIOUS
    <3>1. CASE d = c
      <4>1. signIns[c] = 0 /\ signIns'[c] = 1
        BY <1>0, <2>1 DEF Coded!SignInTypeOK
      <4> QED
        BY <2>1, <3>1, <4>1 DEF Coded!Open
    <3>2. CASE d # c
      BY <1>0, <2>1, <3>2 DEF Coded!SignInTypeOK
    <3> QED
      BY <3>1, <3>2
  <2>5. Apart'
    BY <1>0, <2>3
  <2>6. Accepting'
    <3> SUFFICES ASSUME NEW u \in Verifiers, Coded!At(u, "accept")'
                 PROVE  /\ verifying'[u].locked = verifying'[u].code
                        /\ codes'[verifying'[u].code] # None
                        /\ ~codes'[verifying'[u].code].consumed
      BY DEF Coded!Open, Coded!Exists
    <3>1. u # v /\ verifying'[u] = verifying[u] /\ Coded!At(u, "accept")
      BY <2>3 DEF Coded!At
    <3>2. PICK d \in CodeIds : d = verifying[u].code /\ d = verifying[u].locked /\ Coded!Open(d)
      BY <1>0, <3>1 DEF Coded!At, Coded!SignInTypeOK, Coded!Verifications
    <3>3. d # c
      BY <1>0, <2>1, <2>2, <3>1, <3>2 DEF Coded!At
    <3>4. Coded!Open(d)'
      BY <2>1, <3>2, <3>3
    <3> QED
      BY <3>1, <3>2, <3>4 DEF Coded!Open, Coded!Exists
  <2> QED
    BY <1>1, <2>4, <2>5, <2>6
<1>14. ASSUME NEW r \in Askers, Coded!Ask(r)
       PROVE  LocksHeld'
  BY <1>4, <1>14 DEF Coded!Ask
<1>15. CASE Coded!ForgetFailures \/ UNCHANGED signInVars
  BY <1>4, <1>15 DEF Coded!ForgetFailures, signInVars
<1> QED
  BY <1>5, <1>6, <1>7, <1>8, <1>10, <1>11, <1>12, <1>13, <1>14, <1>15, SignInSteps

(* Requests that do not overlap create a code when none is open. *)
LEMMA ClosedFirstStep ==
  ASSUME SignInAssumption, Coded!SignInTypeOK, LocksHeld, ClosedFirst,
         [Coded!SignInNext]_signInVars
  PROVE  ClosedFirst'
<1> USE CodeRows
<1>1. CASE "ask" \in overlapped'
  BY <1>1 DEF ClosedFirst
<1>2. CASE "ask" \notin overlapped'
  <2>1. ASSUME "ask" \notin overlapped, UNCHANGED asking,
               \A c \in CodeIds : Coded!Open(c)' => Coded!Open(c)
        PROVE  ClosedFirst'
    BY <2>1 DEF ClosedFirst
  <2>2. ASSUME "ask" \notin overlapped, UNCHANGED <<asking, codes>>
        PROVE  ClosedFirst'
    BY <2>1, <2>2 DEF Coded!Open, Coded!Exists
(* One request goes on, and no code is open when it goes on to create one.   *)
  <2>3. ASSUME "ask" \notin overlapped, NEW r \in Askers, NEW n \in Coded!Asks \cup {None},
               asking' = [asking EXCEPT ![r] = n],
               asking[r] # None \/ \A q \in Askers : asking[q] = None,
               n # None /\ n.step = "create" => \A c \in CodeIds : ~Coded!Open(c)',
               \A c, d \in CodeIds : Coded!Open(c)' /\ Coded!Open(d)' => c = d
        PROVE  ClosedFirst'
    <3>1. asking'[r] = n /\ \A q \in Askers \ {r} : asking'[q] = asking[q]
      BY <2>3, OtherAskers
    <3>2. \A q \in Askers \ {r} : asking[q] = None
      BY <2>3 DEF ClosedFirst
    <3> QED
      BY <2>3, <3>1, <3>2 DEF ClosedFirst
  <2>4. ASSUME NEW r \in Askers, Coded!Ask(r)
        PROVE  ClosedFirst'
    <3>1. "ask" \notin overlapped /\ \A q \in Askers : asking[q] = None
      BY <1>2, <2>4, AskBecomes
    <3>2. PICK n \in Coded!Asks : asking' = [asking EXCEPT ![r] = n] /\ n.step = "close"
      BY <2>4, AskBecomes
    <3>3. \A c, d \in CodeIds : Coded!Open(c)' /\ Coded!Open(d)' => c = d
      BY <2>4, <3>1 DEF Coded!Ask, ClosedFirst, Coded!Open, Coded!Exists
    <3> QED
      BY <2>3, <3>1, <3>2, <3>3
  <2>5. ASSUME NEW r \in Askers, Coded!CloseOpen(r)
        PROVE  ClosedFirst'
    <3>1. "ask" \notin overlapped
      BY <1>2, <2>5 DEF Coded!CloseOpen
    <3>2. PICK n \in Coded!Asks : asking' = [asking EXCEPT ![r] = n] /\ n.step = "create"
      BY <2>5, CloseBecomes
    <3>3. asking[r] # None /\ \A c \in CodeIds : ~Coded!Open(c)'
      BY <2>5, CloseBecomes
    <3> QED
      BY <2>3, <3>1, <3>2, <3>3
  <2>6. ASSUME NEW r \in Askers, NEW c \in CodeIds, Coded!CreateCode(r, c)
        PROVE  ClosedFirst'
    <3>1. "ask" \notin overlapped /\ asking[r] # None /\ asking[r].step = "create"
      BY <1>2, <2>6 DEF Coded!CreateCode
    <3>2. PICK n \in Coded!Asks :
            asking' = [asking EXCEPT ![r] = n] /\ n.step = "send" /\ n.code = c
      BY <2>6, CreateBecomes
    <3>3. \A d \in CodeIds \ {c} : ~Coded!Open(d)'
      BY <2>6, <3>1, CreateBecomes DEF ClosedFirst
    <3> QED
      BY <2>3, <3>1, <3>2, <3>3
  <2>7. ASSUME NEW r \in Askers, Coded!SendCode(r)
        PROVE  ClosedFirst'
    <3>1. "ask" \notin overlapped /\ asking[r] # None /\ asking' = [asking EXCEPT ![r] = None]
      BY <1>2, <2>7 DEF Coded!SendCode
    <3>2. \A c \in CodeIds : Coded!Open(c)' => Coded!Open(c)
      BY <2>7, SendBecomes
    <3>3. \A c, d \in CodeIds : Coded!Open(c)' /\ Coded!Open(d)' => c = d
      BY <3>1, <3>2 DEF ClosedFirst
    <3> QED
      BY <2>3, <3>1, <3>3
  <2>8. ASSUME NEW v \in Verifiers, Coded!AcceptCode(v)
        PROVE  ClosedFirst'
    <3>1. "ask" \notin overlapped /\ UNCHANGED asking
      BY <1>2, <2>8 DEF Coded!AcceptCode
    <3>2. \A c \in CodeIds : Coded!Open(c)' => Coded!Open(c)
      BY <2>8, AcceptBecomes
    <3> QED
      BY <2>1, <3>1, <3>2
  <2>9. ASSUME NEW c \in CodeIds, Coded!GrowOlder(c)
        PROVE  ClosedFirst'
    <3>1. "ask" \notin overlapped /\ UNCHANGED asking
      BY <1>2, <2>9 DEF Coded!GrowOlder
    <3>2. \A d \in CodeIds : Coded!Open(d)' => Coded!Open(d)
      BY <2>9, OlderBecomes
    <3> QED
      BY <2>1, <3>1, <3>2
  <2>10. ASSUME NEW v \in Verifiers, NEW c \in CodeIds, NEW right \in BOOLEAN,
                Coded!StartVerify(v, c, right)
         PROVE  ClosedFirst'
    <3>1. "ask" \notin overlapped
      BY <1>2, <2>10, StartBecomes
    <3> QED
      BY <2>2, <2>10, <3>1 DEF Coded!StartVerify
  <2>11. ASSUME NEW v \in Verifiers,
                Coded!FindCode(v) \/ Coded!CountFailure(v) \/ Coded!VerifierDies(v)
         PROVE  ClosedFirst'
    <3>1. "ask" \notin overlapped /\ UNCHANGED <<asking, codes>>
      BY <1>2, <2>11 DEF Coded!FindCode, Coded!CountFailure, Coded!VerifierDies
    <3> QED
      BY <2>2, <3>1
  <2>12. CASE Coded!ForgetFailures \/ UNCHANGED signInVars
    BY <1>2, <2>2, <2>12 DEF Coded!ForgetFailures, signInVars
  <2> QED
    BY <2>4, <2>5, <2>6, <2>7, <2>8, <2>9, <2>10, <2>11, <2>12, SignInSteps
<1> QED
  BY <1>1, <1>2

(* Verifications that do not overlap count every wrong code.                 *)
LEMMA FailuresCountedStep ==
  ASSUME SignInAssumption, Coded!SignInTypeOK, LocksHeld, FailuresCounted,
         [Coded!SignInNext]_signInVars
  PROVE  FailuresCounted'
<1> USE CodeRows
<1>1. CASE "verify" \in overlapped'
  BY <1>1 DEF FailuresCounted
<1>2. CASE "verify" \notin overlapped'
  <2>0. failures \in 0..MaxFailures /\ wrong \in Nat /\ MaxFailures \in Nat
    BY DEF Coded!SignInTypeOK
  <2>1. ASSUME "verify" \notin overlapped, UNCHANGED <<verifying, failures, wrong>>
        PROVE  FailuresCounted'
    BY <2>1 DEF FailuresCounted, Coded!At
(* The only verification goes on or ends. *)
  <2>2. ASSUME "verify" \notin overlapped, NEW v \in Verifiers,
               NEW n \in Coded!Verifications \cup {None}, verifying' = [verifying EXCEPT ![v] = n],
               \A u \in Verifiers \ {v} : verifying[u] = None,
               \/ n = None /\ wrong' <= failures'
               \/ /\ n # None
                  /\ n.step = "find" => failures' < MaxFailures
                  /\ n.step = "count" => n.seen < MaxFailures /\ wrong' <= n.seen + 1
                  /\ n.step # "count" => wrong' <= failures'
        PROVE  FailuresCounted'
    <3>1. verifying'[v] = n /\ \A u \in Verifiers \ {v} : verifying'[u] = None
      BY <2>2, OtherVerifiers
    <3>2. \A u, w \in Verifiers : verifying'[u] # None /\ verifying'[w] # None => u = w
      BY <3>1
    <3>3. \A u \in Verifiers : Coded!At(u, "find")' => failures' < MaxFailures
      BY <2>2, <3>1 DEF Coded!At
    <3>4. \A u \in Verifiers : Coded!At(u, "count")' =>
            verifying'[u].seen < MaxFailures /\ wrong' <= verifying'[u].seen + 1
      BY <2>2, <3>1 DEF Coded!At
    <3>5. (\A u \in Verifiers : ~Coded!At(u, "count")') => wrong' <= failures'
      BY <2>2, <3>1 DEF Coded!At
    <3> QED
      BY <3>2, <3>3, <3>4, <3>5 DEF FailuresCounted
  <2>3. ASSUME "verify" \notin overlapped, NEW v \in Verifiers, verifying[v] # None
        PROVE  /\ \A u \in Verifiers \ {v} : verifying[u] = None
               /\ verifying[v].step # "count" => wrong <= failures
    BY <2>3 DEF FailuresCounted, Coded!At
  <2>4. ASSUME NEW v \in Verifiers, NEW c \in CodeIds, NEW right \in BOOLEAN,
               Coded!StartVerify(v, c, right)
        PROVE  FailuresCounted'
    <3>1. "verify" \notin overlapped /\ \A u \in Verifiers : verifying[u] = None
      BY <1>2, <2>4, StartBecomes
    <3>2. PICK n \in Coded!Verifications : verifying' = [verifying EXCEPT ![v] = n]
                 /\ n.step = "find"
      BY <2>4, StartBecomes
    <3>3. wrong <= failures /\ failures < MaxFailures /\ UNCHANGED <<wrong, failures>>
      BY <2>4, <3>1 DEF FailuresCounted, Coded!At, Coded!StartVerify
    <3> QED
      BY <2>2, <3>1, <3>2, <3>3
  <2>5. ASSUME NEW v \in Verifiers, Coded!FindCode(v)
        PROVE  FailuresCounted'
    <3>1. PICK n \in Coded!Verifications :
            /\ verifying' = [verifying EXCEPT ![v] = n]
            /\ \/ n.step = "accept" /\ wrong' = wrong
               \/ n.step = "count" /\ n.seen = failures /\ wrong' \in {wrong, wrong + 1}
      BY <2>5, FindBecomes
    <3>2. /\ "verify" \notin overlapped /\ verifying[v] # None /\ UNCHANGED failures
          /\ verifying[v].step = "find"
      BY <1>2, <2>5 DEF Coded!FindCode, Coded!At
    <3>3. wrong <= failures /\ failures < MaxFailures
            /\ \A u \in Verifiers \ {v} : verifying[u] = None
      BY <2>3, <3>2 DEF FailuresCounted, Coded!At
    <3>4. n.step = "count" => n.seen < MaxFailures /\ wrong' <= n.seen + 1
      BY <2>0, <3>1, <3>3
    <3>5. n.step # "count" => n.step # "find" /\ wrong' <= failures'
      BY <3>1, <3>2, <3>3
    <3> QED
      BY <2>2, <3>1, <3>2, <3>3, <3>4, <3>5
  <2>6. ASSUME NEW v \in Verifiers, Coded!AcceptCode(v)
        PROVE  FailuresCounted'
    <3>1. /\ "verify" \notin overlapped /\ verifying[v] # None /\ wrong' = 0 /\ failures' = 0
          /\ verifying' = [verifying EXCEPT ![v] = None]
      BY <1>2, <2>6 DEF Coded!AcceptCode, Coded!At
    <3>2. wrong' <= failures' /\ \A u \in Verifiers \ {v} : verifying[u] = None
      BY <2>3, <3>1
    <3> QED
      BY <2>2, <3>1, <3>2
  <2>7. ASSUME NEW v \in Verifiers, Coded!CountFailure(v)
        PROVE  FailuresCounted'
    <3>1. /\ "verify" \notin overlapped /\ verifying[v] # None /\ UNCHANGED wrong
          /\ verifying' = [verifying EXCEPT ![v] = None] /\ Coded!At(v, "count")
          /\ failures' = Coded!Recorded(verifying[v].seen)
      BY <1>2, <2>7 DEF Coded!CountFailure, Coded!At
    <3>2. verifying[v].seen < MaxFailures /\ wrong <= verifying[v].seen + 1
      BY <3>1 DEF FailuresCounted
    <3>3. wrong' <= failures'
      BY <3>1, <3>2 DEF Coded!Recorded
    <3> QED
      BY <2>2, <2>3, <3>1, <3>3
  <2>8. ASSUME NEW v \in Verifiers, Coded!VerifierDies(v)
        PROVE  FailuresCounted'
    <3>1. /\ "verify" \notin overlapped /\ verifying[v] # None /\ UNCHANGED <<wrong, failures>>
          /\ verifying' = [verifying EXCEPT ![v] = None] /\ ~Coded!At(v, "count")
      BY <1>2, <2>8 DEF Coded!VerifierDies
    <3>2. wrong <= failures
      BY <2>3, <3>1 DEF Coded!At
    <3> QED
      BY <2>2, <2>3, <3>1, <3>2
  <2>9. CASE Coded!ForgetFailures
    <3>1. /\ "verify" \notin overlapped /\ UNCHANGED verifying
          /\ failures' = 0 /\ wrong' = 0 /\ failures > 0
      BY <1>2, <2>9 DEF Coded!ForgetFailures
    <3>2. \A u \in Verifiers : Coded!At(u, "count")' =>
            verifying'[u].seen < MaxFailures /\ wrong' <= verifying'[u].seen + 1
      <4>1. ASSUME NEW u \in Verifiers, Coded!At(u, "count")'
            PROVE  verifying[u].seen < MaxFailures /\ 0 <= verifying[u].seen + 1
        <5>1. Coded!At(u, "count")
          BY <3>1, <4>1 DEF Coded!At
        <5>2. verifying[u].seen < MaxFailures /\ verifying[u].seen \in 0..MaxFailures
          BY <3>1, <5>1 DEF FailuresCounted, Coded!At, Coded!SignInTypeOK, Coded!Verifications
        <5> QED
          BY <5>2
      <4> QED
        BY <3>1, <4>1
    <3>3. failures' < MaxFailures /\ wrong' <= failures'
      BY <2>0, <3>1
    <3>4. \A u, w \in Verifiers : verifying'[u] # None /\ verifying'[w] # None => u = w
      BY <3>1 DEF FailuresCounted
    <3> QED
      BY <3>2, <3>3, <3>4 DEF FailuresCounted
  <2>10. ASSUME NEW r \in Askers, Coded!Ask(r)
         PROVE  FailuresCounted'
    <3>1. "verify" \notin overlapped
      BY <1>2, <2>10, AskBecomes
    <3> QED
      BY <2>1, <2>10, <3>1 DEF Coded!Ask
  <2>11. ASSUME NEW r \in Askers, Coded!CloseOpen(r) \/ Coded!SendCode(r)
                                \/ \E c \in CodeIds : Coded!CreateCode(r, c)
         PROVE  FailuresCounted'
    BY <1>2, <2>1, <2>11 DEF Coded!CloseOpen, Coded!SendCode, Coded!CreateCode
  <2>12. ASSUME NEW c \in CodeIds, Coded!GrowOlder(c)
         PROVE  FailuresCounted'
    BY <1>2, <2>1, <2>12 DEF Coded!GrowOlder
  <2>13. CASE UNCHANGED signInVars
    BY <1>2, <2>1, <2>13 DEF signInVars
  <2> QED
    BY <2>4, <2>5, <2>6, <2>7, <2>8, <2>9, <2>10, <2>11, <2>12, <2>13, SignInSteps
<1> QED
  BY <1>1, <1>2

LEMMA SignInInvInit ==
  ASSUME SignInAssumption, Coded!SignInInit
  PROVE  SignInInv
<1> USE CodeRows
<1>1. Coded!SignInTypeOK
  BY DEF Coded!SignInInit, Coded!SignInTypeOK
<1>2. LocksHeld
  BY DEF Coded!SignInInit, LocksHeld, Coded!At
<1>3. ClosedFirst
  BY DEF Coded!SignInInit, ClosedFirst, Coded!Open, Coded!Exists
<1>4. FailuresCounted
  BY DEF Coded!SignInInit, FailuresCounted, Coded!At
<1> QED
  BY <1>1, <1>2, <1>3, <1>4 DEF SignInInv

LEMMA SignInInvStep ==
  ASSUME SignInAssumption, SignInInv, [Coded!SignInNext]_signInVars
  PROVE  SignInInv'
BY SignInTyped, LocksHeldStep, ClosedFirstStep, FailuresCountedStep DEF SignInInv

LEMMA SignInInvHolds ==
  ASSUME SignInAssumption, SignInInv
  PROVE  Coded!CodesHold
<1> USE CodeRows DEF SignInInv
<1>1. Coded!SignsInOnce
  BY DEF LocksHeld, Coded!SignsInOnce
<1>2. Coded!OneOpenCode
  <2>1. CASE "ask" \in overlapped
    BY <2>1 DEF Coded!OneOpenCode
  <2>2. CASE "ask" \notin overlapped
    <3>1. \A c, d \in {x \in CodeIds : Coded!Open(x)} : c = d
      BY <2>2 DEF ClosedFirst
    <3>2. Cardinality({x \in CodeIds : Coded!Open(x)}) <= 1
      BY <3>1, AtMostOne
    <3> QED
      BY <3>2 DEF Coded!OneOpenCode, Coded!Cardinality, Cardinality
  <2> QED
    BY <2>1, <2>2
<1>3. Coded!WrongCodesCounted
  <2>1. CASE "verify" \in overlapped
    BY <2>1 DEF Coded!WrongCodesCounted
  <2>2. CASE "verify" \notin overlapped
    <3>1. failures \in 0..MaxFailures /\ wrong \in Nat
      BY DEF Coded!SignInTypeOK
    <3>2. CASE \E v \in Verifiers : Coded!At(v, "count")
      <4>1. PICK v \in Verifiers : Coded!At(v, "count")
        BY <3>2
      <4>2. /\ verifying[v].seen \in 0..MaxFailures /\ verifying[v].seen < MaxFailures
            /\ wrong <= verifying[v].seen + 1
        BY <2>2, <4>1 DEF FailuresCounted, Coded!At, Coded!SignInTypeOK, Coded!Verifications
      <4>3. wrong <= MaxFailures
        BY <3>1, <4>2
      <4> QED
        BY <4>3 DEF Coded!WrongCodesCounted
    <3>3. CASE ~\E v \in Verifiers : Coded!At(v, "count")
      <4>1. wrong <= failures
        BY <2>2, <3>3 DEF FailuresCounted
      <4>2. wrong <= MaxFailures
        BY <3>1, <4>1
      <4> QED
        BY <4>2 DEF Coded!WrongCodesCounted
    <3> QED
      BY <3>2, <3>3
  <2> QED
    BY <2>1, <2>2
<1> QED
  BY <1>1, <1>2, <1>3 DEF Coded!CodesHold

-----------------------------------------------------------------------------
(* Sessions.  The steps, and what each makes of its request and its token.   *)
LEMMA SessionSteps ==
  ASSUME [Session!SessionsNext]_sessionVars
  PROVE  \/ \E t \in Tokens : Session!Login(t)
         \/ \E t \in Tokens : Session!Logout(t)
         \/ \E r \in Clients, t \in Tokens : Session!StartRefresh(r, t)
         \/ \E r \in Clients, t \in Tokens : Session!Issue(r, t)
         \/ \E r \in Clients, k \in Links : Session!StartReset(r, k)
         \/ \E r \in Clients : Session!Refuse(r)
         \/ \E r \in Clients : Session!StartChange(r)
         \/ \E r \in Clients : Session!SavePassword(r)
         \/ \E r \in Clients : Session!ClientDies(r)
         \/ \E k \in Links : Session!SendLink(k)
         \/ UNCHANGED sessionVars
BY DEF Session!SessionsNext

LEMMA SessionRows ==
  ASSUME SessionsAssumption
  PROVE  /\ None \notin Tokens /\ None \notin Links /\ None \notin Nat
         /\ None \notin Session!TokenRows /\ None \notin Session!Refreshes
         /\ None \notin Session!Changes
BY DEF SessionsAssumption, Session!SessionsConstants

(* The request r becomes n. *)
Requested(r, n) == clients' = [clients EXCEPT ![r] = n]

LEMMA OtherClients ==
  ASSUME Session!SessionsTypeOK, NEW r \in Clients,
         NEW n \in Session!Refreshes \cup Session!Changes \cup {None}, Requested(r, n)
  PROVE  /\ clients'[r] = n /\ \A q \in Clients \ {r} : clients'[q] = clients[q]
         /\ clients' \in [Clients -> Session!Refreshes \cup Session!Changes \cup {None}]
BY DEF Session!SessionsTypeOK, Requested

LEMMA OtherTokens ==
  ASSUME Session!SessionsTypeOK, NEW t \in Tokens, NEW n \in Session!TokenRows,
         tokens' = [tokens EXCEPT ![t] = n]
  PROVE  /\ tokens'[t] = n /\ \A u \in Tokens \ {t} : tokens'[u] = tokens[u]
         /\ tokens' \in [Tokens -> Session!TokenRows \cup {None}]
BY DEF Session!SessionsTypeOK

(* What the proofs about Sessions need beside its properties.               *)

Refresher(r) == clients[r] # None /\ clients[r].step \in {"refuse", "issue"}

RefreshesFor(r, login) == Refresher(r) /\ tokens[clients[r].of].login = login

Changer(r) == clients[r] # None /\ clients[r].step = "save"

(* Refresh requests, and logins that ended, have tokens. *)
LoginsIssued ==
  /\ \A t \in Tokens : Session!Issued(t) => Session!Issued(tokens[t].login)
  /\ \A r \in Clients : Refresher(r) => Session!Issued(clients[r].of)
  /\ \A login \in ended : Session!Issued(login)

Good(t, login) == Session!Live(t) /\ tokens[t].login = login

(* While one refresh at a time runs for a login, the token that it refuses   *)
(* is the only good one, and none is good before it issues the next.         *)
InTurn(login) ==
  /\ \A t, u \in Tokens : Good(t, login) /\ Good(u, login) => t = u
  /\ \A q, r \in Clients : RefreshesFor(q, login) /\ RefreshesFor(r, login) => q = r
  /\ \A r \in Clients, t \in Tokens : RefreshesFor(r, login) /\ Good(t, login) =>
       clients[r].step = "refuse" /\ clients[r].of = t
  /\ login \in ended =>
       /\ \A t \in Tokens : ~Good(t, login)
       /\ \A r \in Clients : ~RefreshesFor(r, login)

TokensInTurn == \A login \in Tokens \ crowded : InTurn(login)

(* While one change of the password at a time runs, the password it found is *)
(* the one there is, and a link that was used is made for an earlier one.    *)
PasswordsInTurn ==
  \/ late
  \/ /\ missed = {}
     /\ \A q, r \in Clients : Changer(q) /\ Changer(r) => q = r
     /\ \A r \in Clients : Changer(r) =>
          /\ clients[r].found = password
          /\ clients[r].of \in Links => links[clients[r].of] = password
     /\ \A k \in Links : uses[k] = 0 \/ (uses[k] = 1 /\ links[k] \in Nat /\ links[k] < password)

SessionsInv == Session!SessionsTypeOK /\ LoginsIssued /\ TokensInTurn /\ PasswordsInTurn

LEMMA RefresherRow ==
  ASSUME Session!SessionsTypeOK, NEW r \in Clients, Refresher(r)
  PROVE  clients[r] \in Session!Refreshes /\ clients[r].of \in Tokens
BY DEF Session!SessionsTypeOK, Refresher, Session!Refreshes, Session!Changes

LEMMA TokenRow ==
  ASSUME Session!SessionsTypeOK, NEW t \in Tokens, Session!Issued(t)
  PROVE  tokens[t] \in Session!TokenRows /\ tokens[t].login \in Tokens
BY DEF Session!SessionsTypeOK, Session!Issued, Session!TokenRows

LEMMA LoginBecomes ==
  ASSUME NEW t \in Tokens, Session!Login(t)
  PROVE  /\ ~Session!Issued(t)
         /\ \E n \in Session!TokenRows :
              tokens' = [tokens EXCEPT ![t] = n] /\ n.login = t /\ n.live
<1> DEFINE n == [login |-> t, live |-> TRUE]
<1>1. n \in Session!TokenRows /\ n.login = t /\ n.live
  BY DEF Session!TokenRows
<1>2. tokens' = [tokens EXCEPT ![t] = n]
  BY DEF Session!Login
<1> HIDE DEF n
<1> QED
  BY <1>1, <1>2 DEF Session!Login

LEMMA RefusedBecomes ==
  ASSUME Session!SessionsTypeOK, NEW t \in Tokens, Session!Issued(t),
         tokens' = Session!Refused(t)
  PROVE  \E n \in Session!TokenRows :
           tokens' = [tokens EXCEPT ![t] = n] /\ n.login = tokens[t].login /\ ~n.live
<1> DEFINE n == [tokens[t] EXCEPT !.live = FALSE]
<1>1. n \in Session!TokenRows /\ n.login = tokens[t].login /\ ~n.live
  BY TokenRow DEF Session!TokenRows
<1>2. tokens' = [tokens EXCEPT ![t] = n]
  BY DEF Session!Refused
<1> HIDE DEF n
<1> QED
  BY <1>1, <1>2

LEMMA StartRefreshBecomes ==
  ASSUME NEW r \in Clients, NEW t \in Tokens, Session!StartRefresh(r, t)
  PROVE  /\ clients[r] = None /\ Session!Live(t)
         /\ \E n \in Session!Refreshes : Requested(r, n) /\ n.step = "refuse" /\ n.of = t
<1> DEFINE n == [step |-> "refuse", of |-> t]
<1>1. n \in Session!Refreshes /\ n.step = "refuse" /\ n.of = t
  BY DEF Session!Refreshes
<1>2. Requested(r, n)
  BY DEF Session!StartRefresh, Requested
<1> HIDE DEF n
<1> QED
  BY <1>1, <1>2 DEF Session!StartRefresh

LEMMA RefuseBecomes ==
  ASSUME Session!SessionsTypeOK, LoginsIssued, NEW r \in Clients, Session!Refuse(r)
  PROVE  /\ Refresher(r) /\ clients[r].of \in Tokens
         /\ \E n \in Session!Refreshes :
              Requested(r, n) /\ n.step = "issue" /\ n.of = clients[r].of
         /\ \E n \in Session!TokenRows :
              /\ tokens' = [tokens EXCEPT ![clients[r].of] = n]
              /\ n.login = tokens[clients[r].of].login /\ ~n.live
<1>1. Refresher(r)
  BY DEF Session!Refuse, Refresher
<1>2. clients[r] \in Session!Refreshes /\ clients[r].of \in Tokens /\ Session!Issued(clients[r].of)
  BY <1>1, RefresherRow DEF LoginsIssued
<1> DEFINE n == [clients[r] EXCEPT !.step = "issue"]
<1>3. n \in Session!Refreshes /\ n.step = "issue" /\ n.of = clients[r].of
  BY <1>2 DEF Session!Refreshes
<1>4. Requested(r, n)
  BY DEF Session!Refuse, Requested
<1> HIDE DEF n
<1>5. \E m \in Session!Refreshes : Requested(r, m) /\ m.step = "issue" /\ m.of = clients[r].of
  BY <1>3, <1>4
<1>6. tokens' = Session!Refused(clients[r].of)
  BY DEF Session!Refuse
<1>7. PICK t \in Tokens : t = clients[r].of
  BY <1>2
<1>8. \E m \in Session!TokenRows :
        tokens' = [tokens EXCEPT ![t] = m] /\ m.login = tokens[t].login /\ ~m.live
  BY <1>2, <1>6, <1>7, RefusedBecomes
<1> QED
  BY <1>1, <1>2, <1>5, <1>7, <1>8

LEMMA IssueBecomes ==
  ASSUME Session!SessionsTypeOK, LoginsIssued, NEW r \in Clients, NEW t \in Tokens,
         Session!Issue(r, t)
  PROVE  /\ Refresher(r) /\ clients[r].step = "issue" /\ ~Session!Issued(t)
         /\ Requested(r, None)
         /\ clients[r].of \in Tokens /\ Session!Issued(clients[r].of)
         /\ \E n \in Session!TokenRows :
              /\ tokens' = [tokens EXCEPT ![t] = n]
              /\ n.login = tokens[clients[r].of].login /\ n.live
<1>1. Refresher(r)
  BY DEF Session!Issue, Refresher
<1>2. clients[r].of \in Tokens /\ Session!Issued(clients[r].of)
  BY <1>1, RefresherRow DEF LoginsIssued
<1> DEFINE n == [login |-> tokens[clients[r].of].login, live |-> TRUE]
<1>3. n \in Session!TokenRows /\ n.login = tokens[clients[r].of].login /\ n.live
  BY <1>2, TokenRow DEF Session!TokenRows
<1>4. tokens' = [tokens EXCEPT ![t] = n]
  BY DEF Session!Issue
<1> HIDE DEF n
<1> QED
  BY <1>1, <1>2, <1>3, <1>4 DEF Session!Issue, Requested

(* StartReset and StartChange, which look at the password as it is. *)
LEMMA StartChangeBecomes ==
  ASSUME Session!SessionsTypeOK, NEW r \in Clients,
         Session!StartChange(r) \/ \E k \in Links : Session!StartReset(r, k)
  PROVE  /\ clients[r] = None
         /\ \E n \in Session!Changes :
              /\ Requested(r, n) /\ n.step = "save" /\ n.found = password
              /\ n.of \in Links => links[n.of] = password
         /\ late' \in BOOLEAN /\ (late' \/ ~(late \/ Session!Changing))
         /\ UNCHANGED <<password, tokens, links, ended, crowded, uses, missed>>
<1>1. ASSUME NEW k \in Links \cup {None},
             clients' = [clients EXCEPT ![r] = [step |-> "save", of |-> k, found |-> password]],
             k \in Links => links[k] = password
      PROVE  \E n \in Session!Changes :
               /\ Requested(r, n) /\ n.step = "save" /\ n.found = password
               /\ n.of \in Links => links[n.of] = password
  <2> DEFINE n == [step |-> "save", of |-> k, found |-> password]
  <2>1. n \in Session!Changes /\ n.step = "save" /\ n.found = password /\ n.of = k
    BY DEF Session!Changes, Session!SessionsTypeOK
  <2>2. Requested(r, n)
    BY <1>1 DEF Requested
  <2> HIDE DEF n
  <2> QED
    BY <1>1, <2>1, <2>2
<1>2. CASE Session!StartChange(r)
  <2>1. None \notin Links
    BY SessionRows, SessionsAssumption
  <2> QED
    BY <1>1, <1>2, <2>1 DEF Session!StartChange, Session!SessionsTypeOK
<1>3. ASSUME NEW k \in Links, Session!StartReset(r, k)
      PROVE  /\ clients[r] = None
             /\ \E n \in Session!Changes :
                  /\ Requested(r, n) /\ n.step = "save" /\ n.found = password
                  /\ n.of \in Links => links[n.of] = password
             /\ late' \in BOOLEAN /\ (late' \/ ~(late \/ Session!Changing))
             /\ UNCHANGED <<password, tokens, links, ended, crowded, uses, missed>>
  BY <1>1, <1>3 DEF Session!StartReset, Session!LinkFits, Session!SessionsTypeOK
<1> QED
  BY <1>2, <1>3

LEMMA SessionsTyped ==
  ASSUME SessionsAssumption, Session!SessionsTypeOK, LoginsIssued,
         [Session!SessionsNext]_sessionVars
  PROVE  Session!SessionsTypeOK'
<1> USE SessionRows
<1>1. ASSUME NEW t \in Tokens, Session!Login(t)
      PROVE  Session!SessionsTypeOK'
  <2>1. tokens' \in [Tokens -> Session!TokenRows \cup {None}]
    BY <1>1, LoginBecomes, OtherTokens
  <2> QED
    BY <1>1, <2>1 DEF Session!Login, Session!SessionsTypeOK
<1>2. ASSUME NEW t \in Tokens, Session!Logout(t)
      PROVE  Session!SessionsTypeOK'
  <2>1. Session!Issued(t) /\ tokens[t].login \in Tokens
    BY <1>2, TokenRow DEF Session!Logout, Session!Live
  <2>2. tokens' \in [Tokens -> Session!TokenRows \cup {None}]
    BY <1>2, <2>1, RefusedBecomes, OtherTokens DEF Session!Logout
  <2> QED
    BY <1>2, <2>1, <2>2 DEF Session!Logout, Session!SessionsTypeOK
<1>3. ASSUME NEW r \in Clients, NEW t \in Tokens, Session!StartRefresh(r, t)
      PROVE  Session!SessionsTypeOK'
  <2>1. clients' \in [Clients -> Session!Refreshes \cup Session!Changes \cup {None}]
    BY <1>3, StartRefreshBecomes, OtherClients
  <2>2. tokens[t].login \in Tokens
    BY <1>3, TokenRow DEF Session!StartRefresh, Session!Live
  <2> QED
    BY <1>3, <2>1, <2>2 DEF Session!StartRefresh, Session!SessionsTypeOK
<1>4. ASSUME NEW r \in Clients, NEW t \in Tokens, Session!Issue(r, t)
      PROVE  Session!SessionsTypeOK'
  <2>1. clients' \in [Clients -> Session!Refreshes \cup Session!Changes \cup {None}]
    BY <1>4, IssueBecomes, OtherClients
  <2>2. tokens' \in [Tokens -> Session!TokenRows \cup {None}]
    BY <1>4, IssueBecomes, OtherTokens
  <2> QED
    BY <1>4, <2>1, <2>2 DEF Session!Issue, Session!SessionsTypeOK
<1>5. ASSUME NEW r \in Clients, Session!Refuse(r)
      PROVE  Session!SessionsTypeOK'
  <2>1. clients' \in [Clients -> Session!Refreshes \cup Session!Changes \cup {None}]
    BY <1>5, RefuseBecomes, OtherClients
  <2>2. PICK t \in Tokens : t = clients[r].of
    BY <1>5, RefuseBecomes
  <2>3. tokens' \in [Tokens -> Session!TokenRows \cup {None}]
    BY <1>5, <2>2, RefuseBecomes, OtherTokens
  <2> QED
    BY <1>5, <2>1, <2>3 DEF Session!Refuse, Session!SessionsTypeOK
<1>6. ASSUME NEW r \in Clients,
             Session!StartChange(r) \/ \E k \in Links : Session!StartReset(r, k)
      PROVE  Session!SessionsTypeOK'
  <2>1. clients' \in [Clients -> Session!Refreshes \cup Session!Changes \cup {None}]
    BY <1>6, StartChangeBecomes, OtherClients
  <2>2. late' \in BOOLEAN /\ UNCHANGED <<password, tokens, links, ended, crowded, uses, missed>>
    BY <1>6, StartChangeBecomes
  <2> QED
    BY <2>1, <2>2 DEF Session!SessionsTypeOK
<1>7. ASSUME NEW r \in Clients, Session!SavePassword(r)
      PROVE  Session!SessionsTypeOK'
  <2>1. Requested(r, None)
    BY <1>7 DEF Session!SavePassword, Requested
  <2>2. clients' \in [Clients -> Session!Refreshes \cup Session!Changes \cup {None}]
    BY <2>1, OtherClients
  <2>3. password' \in Nat
    BY <1>7 DEF Session!SavePassword, Session!NextPassword, Session!SessionsTypeOK
  <2>4. uses' \in [Links -> Nat]
    BY <1>7 DEF Session!SavePassword, Session!SessionsTypeOK
  <2>5. missed' \subseteq Links
    BY <1>7 DEF Session!SavePassword, Session!SessionsTypeOK
  <2> QED
    BY <1>7, <2>2, <2>3, <2>4, <2>5 DEF Session!SavePassword, Session!SessionsTypeOK
<1>8. ASSUME NEW r \in Clients, Session!ClientDies(r)
      PROVE  Session!SessionsTypeOK'
  <2>1. Requested(r, None)
    BY <1>8 DEF Session!ClientDies, Requested
  <2>2. clients' \in [Clients -> Session!Refreshes \cup Session!Changes \cup {None}]
    BY <2>1, OtherClients
  <2> QED
    BY <1>8, <2>2 DEF Session!ClientDies, Session!SessionsTypeOK
<1>9. ASSUME NEW k \in Links, Session!SendLink(k)
      PROVE  Session!SessionsTypeOK'
  BY <1>9 DEF Session!SendLink, Session!SessionsTypeOK
<1>10. CASE UNCHANGED sessionVars
  BY <1>10 DEF sessionVars, Session!SessionsTypeOK
<1> QED
  BY <1>1, <1>2, <1>3, <1>4, <1>5, <1>6, <1>7, <1>8, <1>9, <1>10, SessionSteps

(* A token is written: it is issued and keeps its login, or is a new one.    *)
LEMMA TokenWritten ==
  ASSUME SessionsAssumption, Session!SessionsTypeOK, NEW t \in Tokens,
         NEW n \in Session!TokenRows, tokens' = [tokens EXCEPT ![t] = n]
  PROVE  /\ Session!Issued(t)' /\ tokens'[t].login = n.login /\ (Session!Live(t)' <=> n.live)
         /\ \A u \in Tokens \ {t} :
              /\ Session!Issued(u)' <=> Session!Issued(u)
              /\ Session!Live(u)' <=> Session!Live(u)
              /\ tokens'[u] = tokens[u]
<1>1. tokens'[t] = n /\ \A u \in Tokens \ {t} : tokens'[u] = tokens[u]
  BY OtherTokens
<1>2. n # None
  BY SessionRows
<1> QED
  BY <1>1, <1>2 DEF Session!Issued, Session!Live

(* The token that is written belongs to a login that is issued. *)
LEMMA LoginsKept ==
  ASSUME SessionsAssumption, Session!SessionsTypeOK, LoginsIssued,
         NEW t \in Tokens, NEW n \in Session!TokenRows, tokens' = [tokens EXCEPT ![t] = n],
         NEW m \in Tokens, n.login = m, m = t \/ Session!Issued(m)
  PROVE  /\ \A u \in Tokens : Session!Issued(u) => Session!Issued(u)'
         /\ \A u \in Tokens : Session!Issued(u)' =>
              \E l \in Tokens : tokens'[u].login = l /\ Session!Issued(l)'
<1>1. \A u \in Tokens : Session!Issued(u) => Session!Issued(u)'
  BY TokenWritten
<1>2. tokens'[t].login = m /\ Session!Issued(m)'
  <2>1. Session!Issued(t)' /\ tokens'[t].login = m
    BY TokenWritten
  <2> QED
    BY <1>1, <2>1
<1>3. ASSUME NEW u \in Tokens \ {t}, Session!Issued(u)'
      PROVE  \E l \in Tokens : tokens'[u].login = l /\ Session!Issued(l)'
  <2>1. Session!Issued(u) /\ tokens'[u] = tokens[u]
    BY <1>3, TokenWritten
  <2>2. PICK l \in Tokens : tokens[u].login = l /\ Session!Issued(l)
    BY <2>1, TokenRow DEF LoginsIssued
  <2>3. tokens'[u].login = l
    BY <2>1, <2>2
  <2>4. Session!Issued(l)'
    BY <1>1, <2>2
  <2> QED
    BY <2>3, <2>4
<1> QED
  BY <1>1, <1>2, <1>3

LEMMA LoginsIssuedStep ==
  ASSUME SessionsAssumption, Session!SessionsTypeOK, LoginsIssued,
         [Session!SessionsNext]_sessionVars
  PROVE  LoginsIssued'
<1> USE SessionRows
(* No step takes a token back; a new one, a new request or an ended login    *)
(* has its token.                                                            *)
<1>1. ASSUME \A t \in Tokens : Session!Issued(t) => Session!Issued(t)',
             \A t \in Tokens : Session!Issued(t)' =>
               \E l \in Tokens : tokens'[t].login = l /\ Session!Issued(l)',
             \A r \in Clients : Refresher(r)' =>
               \E t \in Tokens : clients'[r].of = t /\ Session!Issued(t)',
             \A l \in ended' : Session!Issued(l)'
      PROVE  LoginsIssued'
  BY <1>1 DEF LoginsIssued, Session!Issued
<1>2. \A t \in Tokens : Session!Issued(t) =>
        \E l \in Tokens : tokens[t].login = l /\ Session!Issued(l)
  BY TokenRow DEF LoginsIssued
<1>3. \A r \in Clients : Refresher(r) =>
        \E t \in Tokens : clients[r].of = t /\ Session!Issued(t)
  BY RefresherRow DEF LoginsIssued
<1>4. \A l \in ended : l \in Tokens /\ Session!Issued(l)
  BY DEF LoginsIssued, Session!SessionsTypeOK
<1>5. ASSUME UNCHANGED clients
      PROVE  \A r \in Clients : Refresher(r)' => Refresher(r) /\ clients'[r] = clients[r]
  BY <1>5 DEF Refresher
<1>6. ASSUME UNCHANGED tokens
      PROVE  \A t \in Tokens : Session!Issued(t)' <=> Session!Issued(t)
  BY <1>6 DEF Session!Issued
<1>7. ASSUME NEW r \in Clients, NEW n \in Session!Refreshes \cup Session!Changes \cup {None},
             Requested(r, n), UNCHANGED <<tokens, ended>>,
             \/ n \notin Session!Refreshes
             \/ \E t \in Tokens : n.of = t /\ Session!Issued(t)
      PROVE  LoginsIssued'
  <2>1. clients'[r] = n /\ \A q \in Clients \ {r} : clients'[q] = clients[q]
    BY <1>7, OtherClients
  <2>2. n \in Session!Changes => n.step = "save"
    BY DEF Session!Changes
  <2>3. \A q \in Clients : Refresher(q)' =>
          \E t \in Tokens : clients'[q].of = t /\ Session!Issued(t)
    BY <1>3, <1>7, <2>1, <2>2 DEF Refresher
  <2> QED
    BY <1>1, <1>2, <1>4, <1>6, <1>7, <2>3
<1>8. ASSUME NEW t \in Tokens, Session!Login(t)
      PROVE  LoginsIssued'
  <2>1. PICK n \in Session!TokenRows :
          tokens' = [tokens EXCEPT ![t] = n] /\ n.login = t /\ n.live
    BY <1>8, LoginBecomes
  <2>2. UNCHANGED <<clients, ended>>
    BY <1>8 DEF Session!Login
  <2>3. \A u \in Tokens : Session!Issued(u) => Session!Issued(u)'
    BY <2>1, TokenWritten
  <2>4. \A u \in Tokens : Session!Issued(u)' =>
          \E l \in Tokens : tokens'[u].login = l /\ Session!Issued(l)'
    BY <2>1, LoginsKept
  <2> QED
    BY <1>1, <1>3, <1>4, <1>5, <2>2, <2>3, <2>4
<1>9. ASSUME NEW t \in Tokens, Session!Logout(t)
      PROVE  LoginsIssued'
  <2>1. Session!Issued(t) /\ UNCHANGED clients /\ ended' = ended \cup {tokens[t].login}
    BY <1>9 DEF Session!Logout, Session!Live
  <2>2. PICK n \in Session!TokenRows :
          tokens' = [tokens EXCEPT ![t] = n] /\ n.login = tokens[t].login /\ ~n.live
    BY <1>9, <2>1, RefusedBecomes DEF Session!Logout
  <2>3. \A u \in Tokens : Session!Issued(u) => Session!Issued(u)'
    BY <2>2, TokenWritten
  <2>4. \A u \in Tokens : Session!Issued(u)' =>
          \E l \in Tokens : tokens'[u].login = l /\ Session!Issued(l)'
    BY <1>2, <2>1, <2>2, LoginsKept
  <2>5. \A l \in ended' : Session!Issued(l)'
    BY <1>2, <1>4, <2>1, <2>3
  <2> QED
    BY <1>1, <1>3, <1>5, <2>1, <2>3, <2>4, <2>5
<1>10. ASSUME NEW r \in Clients, NEW t \in Tokens, Session!StartRefresh(r, t)
       PROVE  LoginsIssued'
  <2>1. PICK n \in Session!Refreshes : Requested(r, n) /\ n.of = t
    BY <1>10, StartRefreshBecomes
  <2> QED
    BY <1>7, <1>10, <2>1 DEF Session!StartRefresh, Session!Live
<1>11. ASSUME NEW r \in Clients, NEW t \in Tokens, Session!Issue(r, t)
       PROVE  LoginsIssued'
  <2>1. PICK u \in Tokens : u = clients[r].of /\ Session!Issued(u)
    BY <1>11, IssueBecomes
  <2>2. PICK n \in Session!TokenRows :
          tokens' = [tokens EXCEPT ![t] = n] /\ n.login = tokens[u].login /\ n.live
    BY <1>11, <2>1, IssueBecomes
  <2>3. Requested(r, None) /\ UNCHANGED ended
    BY <1>11, IssueBecomes DEF Session!Issue
  <2>4. clients'[r] = None /\ \A q \in Clients \ {r} : clients'[q] = clients[q]
    BY <2>3, OtherClients
  <2>5. \A v \in Tokens : Session!Issued(v) => Session!Issued(v)'
    BY <2>2, TokenWritten
  <2>6. \A v \in Tokens : Session!Issued(v)' =>
          \E l \in Tokens : tokens'[v].login = l /\ Session!Issued(l)'
    BY <1>2, <2>1, <2>2, LoginsKept
  <2>7. \A q \in Clients : Refresher(q)' =>
          \E v \in Tokens : clients'[q].of = v /\ Session!Issued(v)'
    BY <1>3, <2>4, <2>5 DEF Refresher
  <2> QED
    BY <1>1, <1>4, <2>3, <2>5, <2>6, <2>7
<1>12. ASSUME NEW r \in Clients, Session!Refuse(r)
       PROVE  LoginsIssued'
  <2>1. PICK u \in Tokens : u = clients[r].of /\ Session!Issued(u) /\ Refresher(r)
    BY <1>3, <1>12, RefuseBecomes
  <2>2. PICK n \in Session!TokenRows :
          tokens' = [tokens EXCEPT ![u] = n] /\ n.login = tokens[u].login /\ ~n.live
    BY <1>12, <2>1, RefuseBecomes
  <2>3. PICK m \in Session!Refreshes : Requested(r, m) /\ m.of = u
    BY <1>12, <2>1, RefuseBecomes
  <2>4. clients'[r] = m /\ \A q \in Clients \ {r} : clients'[q] = clients[q]
    BY <2>3, OtherClients
  <2>5. \A v \in Tokens : Session!Issued(v) => Session!Issued(v)'
    BY <2>2, TokenWritten
  <2>6. \A v \in Tokens : Session!Issued(v)' =>
          \E l \in Tokens : tokens'[v].login = l /\ Session!Issued(l)'
    BY <1>2, <2>1, <2>2, LoginsKept
  <2>7. \A q \in Clients : Refresher(q)' =>
          \E v \in Tokens : clients'[q].of = v /\ Session!Issued(v)'
    BY <1>3, <2>1, <2>3, <2>4, <2>5 DEF Refresher
  <2> QED
    BY <1>1, <1>4, <1>12, <2>5, <2>6, <2>7 DEF Session!Refuse
<1>13. ASSUME NEW r \in Clients,
             Session!StartChange(r) \/ \E k \in Links : Session!StartReset(r, k)
       PROVE  LoginsIssued'
  <2>1. PICK n \in Session!Changes : Requested(r, n) /\ n.step = "save"
    BY <1>13, StartChangeBecomes
  <2>2. n \notin Session!Refreshes
    BY <2>1 DEF Session!Refreshes
  <2>3. UNCHANGED <<tokens, ended>>
    BY <1>13, StartChangeBecomes
  <2> QED
    BY <1>7, <2>1, <2>2, <2>3
<1>14. ASSUME NEW r \in Clients, Session!SavePassword(r) \/ Session!ClientDies(r)
       PROVE  LoginsIssued'
  <2>1. Requested(r, None) /\ UNCHANGED <<tokens, ended>>
    BY <1>14 DEF Session!SavePassword, Session!ClientDies, Requested
  <2> QED
    BY <1>7, <2>1
<1>15. CASE (\E k \in Links : Session!SendLink(k)) \/ UNCHANGED sessionVars
  <2>1. UNCHANGED <<tokens, clients, ended>>
    BY <1>15 DEF Session!SendLink, sessionVars
  <2> QED
    BY <1>1, <1>2, <1>3, <1>4, <1>5, <1>6, <2>1
<1> QED
  BY <1>8, <1>9, <1>10, <1>11, <1>12, <1>13, <1>14, <1>15, SessionSteps

(* The tokens and refreshes of a login are some of what they were. *)
LEMMA InTurnKept ==
  ASSUME NEW login, InTurn(login),
         \A t \in Tokens : Good(t, login)' => Good(t, login),
         \A r \in Clients : RefreshesFor(r, login)' =>
           RefreshesFor(r, login) /\ clients'[r] = clients[r],
         login \in ended' => login \in ended
  PROVE  InTurn(login)'
BY DEF InTurn

(* Refreshes for one login run one after the other, and so do its tokens     *)
(* (RefreshView.post, LogoutView.post).                                      *)
LEMMA TokensInTurnStep ==
  ASSUME SessionsAssumption, Session!SessionsTypeOK, LoginsIssued, TokensInTurn,
         [Session!SessionsNext]_sessionVars
  PROVE  TokensInTurn'
<1> USE SessionRows
<1> SUFFICES ASSUME NEW login \in Tokens \ crowded'
             PROVE  InTurn(login)'
  BY DEF TokensInTurn, Session!SessionsTypeOK
(* What other logins keep when a token is written. *)
<1>1. ASSUME NEW t \in Tokens, NEW n \in Session!TokenRows,
             tokens' = [tokens EXCEPT ![t] = n],
             Session!Issued(t) => n.login = tokens[t].login
      PROVE  /\ \A u \in Tokens \ {t} : Good(u, login)' <=> Good(u, login)
             /\ Good(t, login)' <=> n.live /\ n.login = login
             /\ \A r \in Clients : Refresher(r) /\ clients'[r] = clients[r] =>
                  (RefreshesFor(r, login)' <=> RefreshesFor(r, login))
  <2>1. \A r \in Clients : Refresher(r) => clients[r].of \in Tokens /\ Session!Issued(clients[r].of)
    BY RefresherRow DEF LoginsIssued
  <2>2. \A u \in Tokens : Session!Issued(u) => tokens'[u].login = tokens[u].login
    BY <1>1, TokenWritten
  <2>3. \A u \in Tokens \ {t} : Good(u, login)' <=> Good(u, login)
    <3>1. \A u \in Tokens \ {t} : (Session!Live(u)' <=> Session!Live(u)) /\ tokens'[u] = tokens[u]
      BY <1>1, TokenWritten
    <3> QED
      BY <3>1 DEF Good
  <2>4. Good(t, login)' <=> n.live /\ n.login = login
    <3>1. (Session!Live(t)' <=> n.live) /\ tokens'[t].login = n.login
      BY <1>1, TokenWritten
    <3> QED
      BY <3>1 DEF Good
  <2>5. \A r \in Clients : Refresher(r) /\ clients'[r] = clients[r] =>
          (RefreshesFor(r, login)' <=> RefreshesFor(r, login))
    BY <2>1, <2>2 DEF RefreshesFor, Refresher
  <2> QED
    BY <2>3, <2>4, <2>5
<1>2. ASSUME UNCHANGED <<tokens, ended, crowded>>,
             \A r \in Clients : Refresher(r)' => Refresher(r) /\ clients'[r] = clients[r]
      PROVE  InTurn(login)'
  <2>1. InTurn(login)
    BY <1>2 DEF TokensInTurn
  <2>2. \A t \in Tokens : Good(t, login)' => Good(t, login)
    BY <1>2 DEF Good, Session!Live, Session!Issued
  <2>3. \A r \in Clients : RefreshesFor(r, login)' =>
          RefreshesFor(r, login) /\ clients'[r] = clients[r]
    BY <1>2 DEF RefreshesFor
  <2> QED
    BY <1>2, <2>1, <2>2, <2>3, InTurnKept
<1>3. ASSUME NEW t \in Tokens, Session!Login(t)
      PROVE  InTurn(login)'
  <2>1. PICK n \in Session!TokenRows :
          tokens' = [tokens EXCEPT ![t] = n] /\ n.login = t /\ n.live
    BY <1>3, LoginBecomes
  <2>2. ~Session!Issued(t) /\ UNCHANGED <<clients, ended, crowded>>
    BY <1>3 DEF Session!Login
  <2>3. InTurn(login)
    BY <2>2 DEF TokensInTurn
  <2>4. \A r \in Clients : RefreshesFor(r, login)' =>
          RefreshesFor(r, login) /\ clients'[r] = clients[r]
    BY <1>1, <2>1, <2>2 DEF RefreshesFor, Refresher
  <2>5. CASE login # t
    <3>1. \A u \in Tokens : Good(u, login)' => Good(u, login)
      BY <1>1, <2>1, <2>2, <2>5
    <3> QED
      BY <2>2, <2>3, <2>4, <3>1, InTurnKept
  <2>6. CASE login = t
    <3>1. \A u \in Tokens : ~Good(u, login)
      BY <2>2, <2>6 DEF LoginsIssued, Good, Session!Live
    <3>2. \A r \in Clients : ~RefreshesFor(r, login)
      BY <2>2, <2>6, RefresherRow DEF LoginsIssued, RefreshesFor
    <3>3. login \notin ended'
      BY <2>2, <2>6 DEF LoginsIssued
    <3>4. \A u \in Tokens : Good(u, login)' => u = t
      BY <1>1, <2>1, <2>2, <3>1
    <3>5. \A r \in Clients : ~RefreshesFor(r, login)'
      BY <2>4, <3>2
    <3> QED
      BY <3>3, <3>4, <3>5 DEF InTurn
  <2> QED
    BY <2>5, <2>6
<1>4. ASSUME NEW t \in Tokens, Session!Logout(t)
      PROVE  InTurn(login)'
  <2>1. Session!Issued(t) /\ Session!Live(t) /\ UNCHANGED clients
    BY <1>4 DEF Session!Logout, Session!Live
  <2>2. PICK n \in Session!TokenRows :
          tokens' = [tokens EXCEPT ![t] = n] /\ n.login = tokens[t].login /\ ~n.live
    BY <1>4, <2>1, RefusedBecomes DEF Session!Logout
  <2>3. InTurn(login)
    BY <1>4 DEF Session!Logout, TokensInTurn
  <2>4. \A r \in Clients : RefreshesFor(r, login)' =>
          RefreshesFor(r, login) /\ clients'[r] = clients[r]
    BY <1>1, <2>1, <2>2 DEF RefreshesFor, Refresher
  <2>5. \A u \in Tokens : Good(u, login)' => Good(u, login) /\ u # t
    BY <1>1, <2>2
  <2>6. CASE tokens[t].login # login
    <3>1. login \in ended' => login \in ended
      BY <1>4, <2>6 DEF Session!Logout
    <3> QED
      BY <2>3, <2>4, <2>5, <3>1, InTurnKept
  <2>7. CASE tokens[t].login = login
    <3>1. \A r \in Clients : ~RefreshesFor(r, login)
      BY <1>4, <2>7 DEF Session!Logout, Session!Refreshing, RefreshesFor, Refresher
    <3>2. \A u \in Tokens : ~Good(u, login)'
      BY <2>1, <2>3, <2>5, <2>7 DEF InTurn, Good
    <3> QED
      BY <2>4, <3>1, <3>2 DEF InTurn
  <2> QED
    BY <2>6, <2>7
<1>5. ASSUME NEW r \in Clients, NEW t \in Tokens, Session!StartRefresh(r, t)
      PROVE  InTurn(login)'
  <2>1. PICK n \in Session!Refreshes : Requested(r, n) /\ n.step = "refuse" /\ n.of = t
    BY <1>5, StartRefreshBecomes
  <2>2. clients'[r] = n /\ \A q \in Clients \ {r} : clients'[q] = clients[q]
    BY <2>1, OtherClients
  <2>3. /\ clients[r] = None /\ Session!Live(t) /\ UNCHANGED <<tokens, ended>>
        /\ InTurn(login)
    BY <1>5 DEF Session!StartRefresh, TokensInTurn
  <2>4. \A u \in Tokens : Good(u, login)' <=> Good(u, login)
    BY <2>3 DEF Good, Session!Live, Session!Issued
  <2>5. \A q \in Clients \ {r} :
          RefreshesFor(q, login)' <=> RefreshesFor(q, login)
    BY <2>2, <2>3 DEF RefreshesFor, Refresher
  <2>6. CASE tokens[t].login # login
    <3>1. ~RefreshesFor(r, login)'
      BY <2>1, <2>2, <2>3, <2>6 DEF RefreshesFor
    <3>2. \A q \in Clients : RefreshesFor(q, login)' =>
            RefreshesFor(q, login) /\ clients'[q] = clients[q]
      BY <2>2, <2>5, <3>1
    <3> QED
      BY <2>3, <2>4, <3>2, InTurnKept
  <2>7. CASE tokens[t].login = login
    <3>1. \A q \in Clients : ~RefreshesFor(q, login)
      BY <1>5, <2>7 DEF Session!StartRefresh, Session!Refreshing, RefreshesFor, Refresher
    <3>2. \A q \in Clients : RefreshesFor(q, login)' => q = r
      BY <2>5, <3>1
    <3>3. Good(t, login)
      BY <2>3, <2>7 DEF Good
    <3>4. \A u \in Tokens : Good(u, login)' => u = t
      BY <2>3, <2>4, <3>3 DEF InTurn
    <3>5. login \notin ended'
      BY <2>3, <3>3 DEF InTurn
    <3> QED
      BY <2>1, <2>2, <3>2, <3>4, <3>5 DEF InTurn
  <2> QED
    BY <2>6, <2>7
<1>6. ASSUME NEW r \in Clients, Session!Refuse(r)
      PROVE  InTurn(login)'
  <2>1. PICK t \in Tokens : t = clients[r].of /\ Session!Issued(t) /\ Refresher(r)
    BY <1>6, RefuseBecomes DEF LoginsIssued
  <2>2. PICK n \in Session!TokenRows :
          tokens' = [tokens EXCEPT ![t] = n] /\ n.login = tokens[t].login /\ ~n.live
    BY <1>6, <2>1, RefuseBecomes
  <2>3. PICK m \in Session!Refreshes : Requested(r, m) /\ m.step = "issue" /\ m.of = t
    BY <1>6, <2>1, RefuseBecomes
  <2>4. clients'[r] = m /\ \A q \in Clients \ {r} : clients'[q] = clients[q]
    BY <2>3, OtherClients
  <2>5. InTurn(login) /\ UNCHANGED ended
    BY <1>6 DEF Session!Refuse, TokensInTurn
  <2>6. \A u \in Tokens : Good(u, login)' => Good(u, login) /\ u # t
    BY <1>1, <2>2
  <2>7. \A q \in Clients \ {r} : RefreshesFor(q, login)' => RefreshesFor(q, login)
    BY <1>1, <2>2, <2>4 DEF RefreshesFor, Refresher
  <2>8. tokens'[t].login = tokens[t].login
    BY <2>2, TokenWritten
  <2>9. RefreshesFor(r, login)' => RefreshesFor(r, login)
    BY <2>1, <2>3, <2>4, <2>8 DEF RefreshesFor
  <2>10. CASE tokens[t].login # login
    <3>1. ~RefreshesFor(r, login)
      BY <2>1, <2>10 DEF RefreshesFor
    <3> QED
      BY <2>4, <2>5, <2>6, <2>7, <2>9, <3>1, InTurnKept
  <2>11. CASE tokens[t].login = login
    <3>1. RefreshesFor(r, login)
      BY <2>1, <2>11 DEF RefreshesFor
    <3>2. \A u \in Tokens : ~Good(u, login)'
      BY <2>1, <2>5, <2>6, <3>1 DEF InTurn
    <3>3. \A q \in Clients : RefreshesFor(q, login)' => q = r
      BY <2>5, <2>7, <3>1 DEF InTurn
    <3>4. login \notin ended'
      BY <2>5, <3>1 DEF InTurn
    <3> QED
      BY <3>2, <3>3, <3>4 DEF InTurn
  <2> QED
    BY <2>10, <2>11
<1>7. ASSUME NEW r \in Clients, NEW t \in Tokens, Session!Issue(r, t)
      PROVE  InTurn(login)'
  <2>1. PICK u \in Tokens : u = clients[r].of /\ Session!Issued(u)
    BY <1>7, IssueBecomes
  <2>2. PICK n \in Session!TokenRows :
          tokens' = [tokens EXCEPT ![t] = n] /\ n.login = tokens[u].login /\ n.live
    BY <1>7, <2>1, IssueBecomes
  <2>3. /\ Refresher(r) /\ clients[r].step = "issue" /\ ~Session!Issued(t)
        /\ Requested(r, None)
    BY <1>7, IssueBecomes
  <2>4. clients'[r] = None /\ \A q \in Clients \ {r} : clients'[q] = clients[q]
    BY <2>3, OtherClients
  <2>5. InTurn(login) /\ UNCHANGED ended
    BY <1>7 DEF Session!Issue, TokensInTurn
  <2>6. \A q \in Clients : RefreshesFor(q, login)' =>
          q # r /\ RefreshesFor(q, login) /\ clients'[q] = clients[q]
    BY <1>1, <2>2, <2>3, <2>4 DEF RefreshesFor, Refresher
  <2>7. CASE tokens[u].login # login
    <3>1. \A v \in Tokens : Good(v, login)' => Good(v, login)
      BY <1>1, <2>2, <2>3, <2>7
    <3> QED
      BY <2>5, <2>6, <3>1, InTurnKept
  <2>8. CASE tokens[u].login = login
    <3>1. RefreshesFor(r, login)
      BY <2>1, <2>3, <2>8 DEF RefreshesFor
    <3>2. \A v \in Tokens : ~Good(v, login)
      BY <2>3, <2>5, <3>1 DEF InTurn
    <3>3. \A v \in Tokens : Good(v, login)' => v = t
      BY <1>1, <2>2, <2>3, <3>2
    <3>4. \A q \in Clients : ~RefreshesFor(q, login)'
      BY <2>5, <2>6, <3>1 DEF InTurn
    <3>5. login \notin ended'
      BY <2>5, <3>1 DEF InTurn
    <3> QED
      BY <3>3, <3>4, <3>5 DEF InTurn
  <2> QED
    BY <2>7, <2>8
<1>8. ASSUME NEW r \in Clients, NEW n \in Session!Changes \cup {None}, Requested(r, n)
      PROVE  \A q \in Clients : Refresher(q)' => Refresher(q) /\ clients'[q] = clients[q]
  <2>1. clients'[r] = n /\ \A q \in Clients \ {r} : clients'[q] = clients[q]
    BY <1>8, OtherClients
  <2>2. n # None => n.step = "save"
    BY DEF Session!Changes
  <2> QED
    BY <2>1, <2>2 DEF Refresher
<1>9. ASSUME NEW r \in Clients,
             Session!StartChange(r) \/ \E k \in Links : Session!StartReset(r, k)
      PROVE  InTurn(login)'
  <2>1. UNCHANGED <<tokens, ended, crowded>> /\ \E n \in Session!Changes : Requested(r, n)
    BY <1>9, StartChangeBecomes
  <2> QED
    BY <1>2, <1>8, <2>1
<1>10. ASSUME NEW r \in Clients, Session!SavePassword(r) \/ Session!ClientDies(r)
       PROVE  InTurn(login)'
  <2>1. Requested(r, None) /\ UNCHANGED <<tokens, ended, crowded>>
    BY <1>10 DEF Session!SavePassword, Session!ClientDies, Requested
  <2> QED
    BY <1>2, <1>8, <2>1
<1>11. CASE (\E k \in Links : Session!SendLink(k)) \/ UNCHANGED sessionVars
  <2>1. UNCHANGED <<tokens, clients, ended, crowded>>
    BY <1>11 DEF Session!SendLink, sessionVars
  <2> QED
    BY <1>2, <2>1 DEF Refresher
<1> QED
  BY <1>3, <1>4, <1>5, <1>6, <1>7, <1>9, <1>10, <1>11, SessionSteps

(* One change of the password at a time: the one under way found the         *)
(* password there is, and no link fits once it was used                      *)
(* (ConfirmPasswordResetView.post, ChangePasswordView.post).                 *)
LEMMA PasswordsInTurnStep ==
  ASSUME SessionsAssumption, Session!SessionsTypeOK, LoginsIssued,
         PasswordsInTurn, [Session!SessionsNext]_sessionVars
  PROVE  PasswordsInTurn'
<1> USE SessionRows
(* The changes under way are some of those there were. *)
<1>1. ASSUME UNCHANGED <<password, links, uses, missed, late>>,
             \A r \in Clients : Changer(r)' => Changer(r) /\ clients'[r] = clients[r]
      PROVE  PasswordsInTurn'
  BY <1>1 DEF PasswordsInTurn
<1>2. ASSUME NEW r \in Clients, NEW n \in Session!Refreshes \cup {None}, Requested(r, n)
      PROVE  \A q \in Clients : Changer(q)' =>
               q # r /\ Changer(q) /\ clients'[q] = clients[q]
  <2>1. clients'[r] = n /\ \A q \in Clients \ {r} : clients'[q] = clients[q]
    BY <1>2, OtherClients
  <2>2. n # None => n.step # "save"
    BY DEF Session!Refreshes
  <2> QED
    BY <2>1, <2>2 DEF Changer
<1>3. ASSUME NEW r \in Clients, NEW n \in Session!Refreshes \cup {None}, Requested(r, n),
             UNCHANGED <<password, links, uses, missed, late>>
      PROVE  PasswordsInTurn'
  BY <1>1, <1>2, <1>3
<1>4. ASSUME NEW t \in Tokens, Session!Login(t) \/ Session!Logout(t)
      PROVE  PasswordsInTurn'
  BY <1>1, <1>4 DEF Session!Login, Session!Logout, Changer
<1>5. ASSUME NEW r \in Clients, NEW t \in Tokens, Session!StartRefresh(r, t)
      PROVE  PasswordsInTurn'
  BY <1>3, <1>5, StartRefreshBecomes DEF Session!StartRefresh
<1>6. ASSUME NEW r \in Clients, NEW t \in Tokens, Session!Issue(r, t)
      PROVE  PasswordsInTurn'
  BY <1>3, <1>6, IssueBecomes DEF Session!Issue
<1>7. ASSUME NEW r \in Clients, Session!Refuse(r)
      PROVE  PasswordsInTurn'
  BY <1>3, <1>7, RefuseBecomes DEF Session!Refuse
<1>8. ASSUME NEW r \in Clients, Session!ClientDies(r)
      PROVE  PasswordsInTurn'
  BY <1>3, <1>8 DEF Session!ClientDies, Requested
<1>9. CASE UNCHANGED sessionVars
  BY <1>1, <1>9 DEF sessionVars, Changer
<1>10. ASSUME NEW k \in Links, Session!SendLink(k)
       PROVE  PasswordsInTurn'
  <2>1. /\ links[k] = None /\ links'[k] = password
        /\ \A l \in Links \ {k} : links'[l] = links[l]
    BY <1>10 DEF Session!SendLink, Session!SessionsTypeOK
  <2>2. /\ UNCHANGED <<password, clients, uses, missed, late>>
        /\ \A r \in Clients : Changer(r)' <=> Changer(r)
    BY <1>10 DEF Session!SendLink, Changer
  <2>3. SUFFICES ASSUME ~late
                 PROVE  PasswordsInTurn'
    BY <2>2 DEF PasswordsInTurn
  <2>4. \A r \in Clients : Changer(r)' => clients'[r].of # k
    <3>1. \A r \in Clients : Changer(r) /\ clients[r].of = k => links[k] = password
      BY <2>3 DEF PasswordsInTurn
    <3>2. links[k] # password
      BY <2>1 DEF Session!SessionsTypeOK
    <3> QED
      BY <2>2, <3>1, <3>2
  <2>5. uses[k] = 0
    BY <2>1, <2>3 DEF PasswordsInTurn
  <2>6. \A r \in Clients : Changer(r)' =>
          /\ clients'[r].found = password'
          /\ clients'[r].of \in Links => links'[clients'[r].of] = password'
    BY <2>1, <2>2, <2>3, <2>4 DEF PasswordsInTurn
  <2>7. \A l \in Links : uses'[l] = 0
          \/ (uses'[l] = 1 /\ links'[l] \in Nat /\ links'[l] < password')
    BY <2>1, <2>2, <2>3, <2>5 DEF PasswordsInTurn
  <2> QED
    BY <2>2, <2>3, <2>6, <2>7 DEF PasswordsInTurn
<1>11. ASSUME NEW r \in Clients,
              Session!StartChange(r) \/ \E k \in Links : Session!StartReset(r, k)
       PROVE  PasswordsInTurn'
  <2>1. PICK n \in Session!Changes :
          /\ Requested(r, n) /\ n.step = "save" /\ n.found = password
          /\ n.of \in Links => links[n.of] = password
    BY <1>11, StartChangeBecomes
  <2>2. clients'[r] = n /\ \A q \in Clients \ {r} : clients'[q] = clients[q]
    BY <2>1, OtherClients
  <2>3. /\ late' \in BOOLEAN /\ (late' \/ ~(late \/ Session!Changing))
        /\ UNCHANGED <<password, links, uses, missed>>
    BY <1>11, StartChangeBecomes
  <2>4. SUFFICES ASSUME ~late'
                 PROVE  PasswordsInTurn'
    BY DEF PasswordsInTurn
  <2>5. ~late /\ \A q \in Clients : ~Changer(q)
    BY <2>3, <2>4 DEF Session!Changing, Changer
  <2>6. \A q \in Clients : Changer(q)' => q = r
    BY <2>2, <2>5 DEF Changer
  <2> QED
    BY <2>1, <2>2, <2>3, <2>5, <2>6 DEF PasswordsInTurn
<1>12. ASSUME NEW r \in Clients, Session!SavePassword(r)
       PROVE  PasswordsInTurn'
  <2>1. Requested(r, None) /\ UNCHANGED <<links, late>> /\ Changer(r)
    BY <1>12 DEF Session!SavePassword, Requested, Changer
  <2>2. SUFFICES ASSUME ~late
                 PROVE  PasswordsInTurn'
    BY <2>1 DEF PasswordsInTurn
  <2>3. /\ missed = {} /\ \A q \in Clients : Changer(q) => q = r
        /\ clients[r].found = password
        /\ clients[r].of \in Links => links[clients[r].of] = password
    BY <2>1, <2>2 DEF PasswordsInTurn
  <2>4. \A q \in Clients : ~Changer(q)'
    BY <1>2, <2>1, <2>3
  <2>5. missed' = {}
    BY <1>12, <2>3 DEF Session!SavePassword
  <2>6. password \in Nat /\ password' = password + 1
    BY <1>12 DEF Session!SavePassword, Session!NextPassword, Session!SessionsTypeOK
  <2>7. ASSUME NEW k \in Links
        PROVE  uses'[k] = 0 \/ (uses'[k] = 1 /\ links'[k] \in Nat /\ links'[k] < password')
    <3>1. CASE clients[r].of = k
      <4>1. links[k] = password /\ uses[k] = 0
        BY <2>2, <2>3, <2>6, <3>1 DEF PasswordsInTurn
      <4>2. uses' = [uses EXCEPT ![k] = @ + 1]
        BY <1>12, <3>1 DEF Session!SavePassword
      <4>3. uses'[k] = 1
        BY <4>1, <4>2 DEF Session!SessionsTypeOK
      <4> QED
        BY <2>1, <2>6, <4>1, <4>3
    <3>2. CASE clients[r].of # k
      <4>1. uses'[k] = uses[k]
        BY <1>12, <3>2 DEF Session!SavePassword, Session!SessionsTypeOK
      <4>2. uses[k] = 0 \/ (uses[k] = 1 /\ links[k] \in Nat /\ links[k] < password)
        BY <2>2 DEF PasswordsInTurn
      <4> QED
        BY <2>1, <2>6, <4>1, <4>2
    <3> QED
      BY <3>1, <3>2
  <2> QED
    BY <2>4, <2>5, <2>7 DEF PasswordsInTurn
<1> QED
  BY <1>4, <1>5, <1>6, <1>7, <1>8, <1>9, <1>10, <1>11, <1>12, SessionSteps

LEMMA SessionsInvInit ==
  ASSUME SessionsAssumption, Session!SessionsInit
  PROVE  SessionsInv
<1> USE SessionRows DEF Session!SessionsInit
<1>1. Session!SessionsTypeOK
  BY DEF Session!SessionsTypeOK
<1>2. \A r \in Clients : ~Refresher(r) /\ ~Changer(r)
  BY DEF Refresher, Changer
<1>3. \A t \in Tokens : ~Session!Issued(t)
  BY DEF Session!Issued
<1>4. LoginsIssued
  BY <1>2, <1>3 DEF LoginsIssued
<1>5. TokensInTurn
  BY <1>2, <1>3 DEF TokensInTurn, InTurn, Good, Session!Live,
                    RefreshesFor
<1>6. PasswordsInTurn
  BY <1>2 DEF PasswordsInTurn
<1> QED
  BY <1>1, <1>4, <1>5, <1>6 DEF SessionsInv

LEMMA SessionsInvStep ==
  ASSUME SessionsAssumption, SessionsInv, [Session!SessionsNext]_sessionVars
  PROVE  SessionsInv'
BY SessionsTyped, LoginsIssuedStep, TokensInTurnStep, PasswordsInTurnStep DEF SessionsInv

LEMMA SessionsInvHolds ==
  ASSUME SessionsAssumption, SessionsInv
  PROVE  Session!SessionsHold
<1>1. ASSUME NEW login \in Tokens \ crowded
      PROVE  Session!Cardinality({t \in Tokens : Session!Live(t) /\ tokens[t].login = login})
               <= (IF login \in ended THEN 0 ELSE 1)
  <2> DEFINE good == {t \in Tokens : Session!Live(t) /\ tokens[t].login = login}
  <2>1. InTurn(login)
    BY DEF SessionsInv, TokensInTurn
  <2>2. \A t, u \in good : t = u
    BY <2>1 DEF InTurn, Good
  <2>3. login \in ended => good = {}
    BY <2>1 DEF InTurn, Good
  <2>4. Session!Cardinality(good) = Cardinality(good)
    BY DEF Session!Cardinality, Cardinality
  <2> HIDE DEF good
  <2>5. Cardinality(good) <= 1
    BY <2>2, AtMostOne
  <2>6. login \in ended => Cardinality(good) = 0
    BY <2>3, FS_EmptySet
  <2>7. Session!Cardinality(good) <= (IF login \in ended THEN 0 ELSE 1)
    BY <2>4, <2>5, <2>6
  <2> QED
    BY <2>7 DEF good
<1>2. Session!OneTokenPerLogin
  BY <1>1 DEF Session!OneTokenPerLogin
<1>3. Session!LinksWorkOnce
  BY SessionRows DEF Session!LinksWorkOnce, SessionsInv, PasswordsInTurn
<1> QED
  BY <1>2, <1>3 DEF Session!SessionsHold

-----------------------------------------------------------------------------
(* The one-time passwords and the sessions in the steps of MCTeam. *)
CodesAndSessionsPart ==
  /\ part = "codes" => SignInInv
  /\ part = "sessions" => SessionsInv

(* A code signs in once, one code is open and wrong codes are counted; a     *)
(* login has one good token and a link sets the password once                *)
(* (src/apps/core/auth_views.py).                                            *)
THEOREM PeopleCodesAndSessionsHold == TeamSpec => []CodesAndSessionsHold
<1>1. TeamInit => CodesAndSessionsPart
  BY SignInInvInit, SessionsInvInit, SignInAssumption, SessionsAssumption
     DEF TeamInit, CodesAndSessionsPart
<1>2. CodesAndSessionsPart /\ [TeamNext]_teamVars => CodesAndSessionsPart'
  <2>1. ASSUME CodesAndSessionsPart, [TeamNext]_teamVars, part' = "codes"
        PROVE  SignInInv'
    <3>1. part = "codes" /\ [Coded!SignInNext]_signInVars
      BY <2>1 DEF TeamNext, teamVars, peopleVars
    <3> QED
      BY <2>1, <3>1, SignInAssumption, SignInInvStep DEF CodesAndSessionsPart
  <2>2. ASSUME CodesAndSessionsPart, [TeamNext]_teamVars, part' = "sessions"
        PROVE  SessionsInv'
    <3>1. part = "sessions" /\ [Session!SessionsNext]_sessionVars
      BY <2>2 DEF TeamNext, teamVars, peopleVars
    <3> QED
      BY <2>2, <3>1, SessionsAssumption, SessionsInvStep DEF CodesAndSessionsPart
  <2> QED
    BY <2>1, <2>2 DEF CodesAndSessionsPart
<1>3. CodesAndSessionsPart => CodesAndSessionsHold
  BY SignInInvHolds, SessionsInvHolds, SignInAssumption, SessionsAssumption
     DEF CodesAndSessionsPart, CodesAndSessionsHold
<1> QED
  BY <1>1, <1>2, <1>3, PTL DEF TeamSpec

-----------------------------------------------------------------------------
(* PlatformBilling.  What the company pays, and what a payment adds to it.   *)
LEMMA BillingRows ==
  ASSUME BillingAssumption
  PROVE  /\ IsFiniteSet(Requests) /\ MaxPrice \in Nat /\ MaxMonth \in Nat
         /\ None \notin Nat /\ None \notin Billing!Companies /\ None \notin Billing!Months
         /\ Billing!NoPayment \notin Billing!Payments
BY DEF BillingAssumption, Billing!BillingConstants, Billing!IsFiniteSet, IsFiniteSet,
       Billing!Months, Billing!NoPayment, Billing!Payments

Paid(m) == Total([k \in Requests |-> payment[k].amount], {k \in Requests : payment[k].charge = m})

LEMMA BillingTotals ==
  ASSUME NEW m
  PROVE  Billing!PaidOn(m) = Paid(m) /\ Billing!PaidOn(m)' = Paid(m)'
BY DEF Billing!PaidOn, Billing!Total, Billing!Units, Billing!Cardinality,
       Paid, Total, Units, Cardinality

LEMMA PaymentRow ==
  ASSUME BillingAssumption, Billing!TypeOK, NEW k \in Requests
  PROVE  /\ payment[k].amount \in 0..MaxPrice
         /\ payment[k].charge \in Billing!Months \cup {None}
         /\ payment[k] = Billing!NoPayment => payment[k].charge = None /\ payment[k].amount = 0
<1>1. payment[k] \in Billing!Payments \cup {Billing!NoPayment}
  BY DEF Billing!TypeOK
<1>2. MaxPrice \in Nat
  BY BillingRows
<1>3. CASE payment[k] \in Billing!Payments
  BY <1>2, <1>3, BillingRows DEF Billing!Payments
<1>4. CASE payment[k] = Billing!NoPayment
  BY <1>2, <1>4 DEF Billing!NoPayment
<1> QED
  BY <1>1, <1>3, <1>4

LEMMA PaidTyped ==
  ASSUME BillingAssumption, Billing!TypeOK, NEW m \in Billing!Months
  PROVE  Paid(m) \in Nat
<1> DEFINE amount == [k \in Requests |-> payment[k].amount]
           S == {k \in Requests : payment[k].charge = m}
<1>1. IsFiniteSet(S)
  BY BillingRows, FS_Subset
<1>2. \A k \in S : amount[k] \in 0..MaxPrice
  BY PaymentRow
<1>3. MaxPrice \in Nat
  BY BillingRows
<1> HIDE DEF amount, S
<1>4. Total(amount, S) \in Nat
  BY <1>1, <1>2, <1>3, TotalType
<1> QED
  BY <1>4 DEF Paid, amount, S

(* A payment is entered: what is paid on its month grows by it. *)
LEMMA PaymentEntered ==
  ASSUME BillingAssumption, Billing!TypeOK, NEW k \in Requests, NEW n \in 1..MaxPrice,
         NEW c \in Billing!Months \cup {None}, NEW row \in Billing!Payments,
         row.amount = n, row.charge = c, payment[k] = Billing!NoPayment,
         payment' = [payment EXCEPT ![k] = row], NEW m \in Billing!Months
  PROVE  Paid(m)' = IF m = c THEN Paid(m) + n ELSE Paid(m)
<1>1. payment'[k] = row /\ \A j \in Requests \ {k} : payment'[j] = payment[j]
  BY DEF Billing!TypeOK
<1>2. /\ MaxPrice \in Nat /\ IsFiniteSet(Requests) /\ None \notin Billing!Months
  BY BillingRows
<1>3. payment[k].charge = None
  BY PaymentRow
<1> DEFINE f == [j \in Requests |-> payment[j].amount]
           g == [j \in Requests |-> payment'[j].amount]
           S == {j \in Requests : payment[j].charge = m}
           T == {j \in Requests : payment'[j].charge = m}
<1>4. k \notin S /\ S \subseteq Requests
  BY <1>2, <1>3
<1>5. \A j \in S : g[j] = f[j]
  BY <1>1, <1>4
<1>6. IF m = c THEN T = S \cup {k} ELSE T = S
  BY <1>1, <1>4
<1>7. g[k] = n
  BY <1>1
<1>8. \A j \in S \cup {k} : g[j] \in 0..MaxPrice
  <2>1. \A j \in S : f[j] \in 0..MaxPrice
    BY PaymentRow
  <2> QED
    BY <1>2, <1>5, <1>7, <2>1
<1>9. IsFiniteSet(S)
  BY <1>2, <1>4, FS_Subset
<1>10. Paid(m) = Total(f, S) /\ Paid(m)' = Total(g, T)
  BY DEF Paid
<1> HIDE DEF f, g, S, T
<1>11. Total(g, S) = Total(f, S)
  BY <1>5, TotalCongruence
<1>12. Total(g, S \cup {k}) = Total(g, S) + g[k]
  BY <1>2, <1>4, <1>8, <1>9, TotalAdd
<1> QED
  BY <1>6, <1>7, <1>10, <1>11, <1>12

(* The charges for a company whose agreement was in force, or is from now on. *)
LEMMA ChargesMade ==
  ASSUME BillingAssumption, Billing!TypeOK, Billing!ChargesWereAgreed,
         NEW c \in Billing!Companies, charge' = Billing!ChargesFor(c),
         now' = now, agreements \subseteq agreements', Billing!Agreed(c) \subseteq agreements'
  PROVE  /\ charge' \in [Billing!Months -> 0..MaxPrice]
         /\ \A m \in Billing!Months : charge[m] <= charge'[m]
            /\ (charge[m] # 0 => charge'[m] = charge[m])
         /\ Billing!ChargesWereAgreed'
<1>1. /\ charge \in [Billing!Months -> 0..MaxPrice] /\ c.price \in 0..MaxPrice
      /\ c.start \in Nat \cup {None} /\ MaxPrice \in Nat
  BY BillingRows DEF Billing!TypeOK, Billing!Companies
<1>2. ASSUME NEW m \in Billing!Months
      PROVE  charge'[m] = IF m \in Billing!Due(c) /\ charge[m] = 0 THEN c.price ELSE charge[m]
  BY DEF Billing!ChargesFor
<1>3. charge' \in [Billing!Months -> 0..MaxPrice]
  BY <1>1 DEF Billing!ChargesFor
<1>4. \A m \in Billing!Months : charge[m] <= charge'[m] /\ (charge[m] # 0 => charge'[m] = charge[m])
  BY <1>1, <1>2
<1>5. ASSUME NEW m \in Billing!Months, charge'[m] # 0
      PROVE  m <= now /\ \E a \in agreements' : a.price = charge'[m] /\ a.start <= m
  <2>1. CASE m \in Billing!Due(c) /\ charge[m] = 0
    <3>1. charge'[m] = c.price /\ c.start # None /\ c.start <= m /\ m <= now
      BY <1>2, <2>1 DEF Billing!Due
    <3>2. [price |-> c.price, start |-> c.start] \in agreements'
      BY <3>1 DEF Billing!Agreed
    <3> QED
      BY <3>1, <3>2
  <2>2. CASE ~(m \in Billing!Due(c) /\ charge[m] = 0)
    <3>1. charge'[m] = charge[m]
      BY <1>2, <2>2
    <3> QED
      BY <1>5, <3>1 DEF Billing!ChargesWereAgreed
  <2> QED
    BY <2>1, <2>2
<1> QED
  BY <1>3, <1>4, <1>5 DEF Billing!ChargesWereAgreed

LEMMA CompanyConfigured ==
  ASSUME BillingAssumption, now \in Nat, NEW mode \in Billing!Modes, NEW price \in 0..MaxPrice,
         NEW start \in Nat \cup {None}, NEW new \in BOOLEAN, Billing!Valid(mode, price, start)
  PROVE  Billing!Configured(mode, price, start, new) \in Billing!Companies
<1>1. mode = "paid" => start \in Nat
  BY DEF Billing!Valid
<1>2. mode = "paid" => Billing!Later(start, now + 1) \in Nat
  BY <1>1 DEF Billing!Later
<1> QED
  BY <1>1, <1>2 DEF Billing!Configured, Billing!Companies

LEMMA AgreedTyped ==
  ASSUME BillingAssumption, NEW c \in Billing!Companies
  PROVE  \A a \in Billing!Agreed(c) : a.price \in 0..MaxPrice /\ a.start \in Nat
BY DEF Billing!Agreed, Billing!Companies

(* What the proofs about PlatformBilling need beside its properties: the    *)
(* agreement that a page has read was in force.                             *)

AgreementsKept ==
  /\ Billing!Agreed(company) \subseteq agreements
  /\ \A v \in Views : view[v] # None => Billing!Agreed(view[v]) \subseteq agreements

BillingInv == Billing!ChargesAgreedAndPaidOnce /\ AgreementsKept

LEMMA BillingInvInit ==
  ASSUME BillingAssumption, Billing!Init
  PROVE  BillingInv
<1> USE BillingRows
<1>1. /\ now = 0 /\ charge = [m \in Billing!Months |-> 0] /\ agreements = Billing!Agreed(company)
      /\ payment = [k \in Requests |-> Billing!NoPayment] /\ view = [v \in Views |-> None]
  BY DEF Billing!Init
<1>2. company \in Billing!Companies
  <2>1. PICK mode \in Billing!Modes, price \in 0..MaxPrice, start \in Billing!Months \cup {None} :
          Billing!Valid(mode, price, start)
            /\ company = Billing!Configured(mode, price, start, TRUE)
    BY DEF Billing!Init
  <2>2. start \in Nat \cup {None} /\ now \in Nat
    BY <1>1 DEF Billing!Months
  <2> QED
    BY <2>1, <2>2, CompanyConfigured
<1>3. Billing!TypeOK
  BY <1>1, <1>2, AgreedTyped DEF Billing!TypeOK, Billing!Months
<1>4. Billing!ChargesWereAgreed /\ AgreementsKept
  BY <1>1 DEF Billing!ChargesWereAgreed, AgreementsKept
<1>5. ASSUME NEW m \in Billing!Months
      PROVE  Billing!PaidOn(m) <= charge[m]
  <2>1. {k \in Requests : payment[k].charge = m} = {}
    BY <1>1 DEF Billing!NoPayment
  <2>2. Paid(m) = 0
    BY <2>1, TotalEmpty DEF Paid
  <2> QED
    BY <1>1, <2>2, BillingTotals
<1> QED
  BY <1>3, <1>4, <1>5 DEF BillingInv, Billing!ChargesAgreedAndPaidOnce, Billing!ChargesNotOverpaid

(* The steps that enter no payment: charges may be made, and not lowered.    *)
LEMMA ChargesOnly ==
  ASSUME BillingAssumption, Billing!TypeOK, Billing!ChargesNotOverpaid, UNCHANGED payment,
         charge' \in [Billing!Months -> 0..MaxPrice],
         \A m \in Billing!Months : charge[m] <= charge'[m]
  PROVE  Billing!ChargesNotOverpaid'
<1>1. ASSUME NEW m \in Billing!Months
      PROVE  Billing!PaidOn(m)' <= charge'[m]
  <2>1. Paid(m)' = Paid(m)
    BY DEF Paid
  <2>2. Paid(m) <= charge[m] /\ charge[m] <= charge'[m]
    BY BillingTotals DEF Billing!ChargesNotOverpaid
  <2>3. Billing!PaidOn(m)' = Paid(m)'
    BY BillingTotals
  <2>4. Paid(m) \in Nat /\ charge[m] \in Nat /\ charge'[m] \in Nat
    BY PaidTyped, BillingRows DEF Billing!TypeOK
  <2> QED
    BY <2>1, <2>2, <2>3, <2>4
<1> QED
  BY <1>1 DEF Billing!ChargesNotOverpaid

LEMMA BillingInvStep ==
  ASSUME BillingAssumption, BillingInv, [Billing!Next]_billingVars
  PROVE  BillingInv'
<1> USE BillingRows
<1>1. /\ Billing!TypeOK /\ Billing!ChargesWereAgreed /\ Billing!ChargesNotOverpaid
      /\ AgreementsKept /\ company \in Billing!Companies /\ now \in Billing!Months
  BY DEF BillingInv, Billing!ChargesAgreedAndPaidOnce, Billing!TypeOK
<1>2. \A m \in Billing!Months : charge[m] \in Nat
  BY <1>1 DEF Billing!TypeOK
<1>3. CASE Billing!NextMonth
  <2>1. now' \in Billing!Months /\ now <= now'
          /\ UNCHANGED <<company, charge, payment, view, agreements>>
    BY <1>1, <1>3 DEF Billing!NextMonth, Billing!Months
  <2>2. Billing!TypeOK'
    BY <1>1, <2>1 DEF Billing!TypeOK
  <2>3. Billing!ChargesWereAgreed'
    <3>1. ASSUME NEW m \in Billing!Months, m <= now
          PROVE  m <= now'
      BY <1>1, <2>1, <3>1 DEF Billing!Months
    <3> QED
      BY <1>1, <2>1, <3>1 DEF Billing!ChargesWereAgreed
  <2>4. Billing!ChargesNotOverpaid'
    BY <1>1, <1>2, <2>1, ChargesOnly DEF Billing!TypeOK
  <2> QED
    BY <1>1, <2>1, <2>2, <2>3, <2>4
       DEF BillingInv, Billing!ChargesAgreedAndPaidOnce, AgreementsKept, Billing!Agreed
<1>4. CASE Billing!Patch
  <2>1. PICK mode \in Billing!Modes, price \in 0..MaxPrice,
             start \in Billing!Months \cup {None, company.start} :
          LET c == Billing!Configured(mode, price, start, FALSE)
          IN  /\ Billing!Valid(mode, price, start)
              /\ company' = c /\ charge' = Billing!ChargesFor(c)
              /\ agreements' = agreements \cup Billing!Agreed(c)
              /\ UNCHANGED <<now, payment, view>>
    BY <1>4 DEF Billing!Patch
  <2> DEFINE d == Billing!Configured(mode, price, start, FALSE)
  <2>2. /\ Billing!Valid(mode, price, start) /\ company' = d /\ charge' = Billing!ChargesFor(d)
        /\ agreements' = agreements \cup Billing!Agreed(d) /\ UNCHANGED <<now, payment, view>>
    BY <2>1
  <2>3. d \in Billing!Companies
    <3>1. start \in Nat \cup {None} /\ now \in Nat
      BY <1>1 DEF Billing!Months, Billing!Companies
    <3> QED
      BY <2>2, <3>1, CompanyConfigured
  <2> HIDE DEF d
  <2>4. /\ charge' \in [Billing!Months -> 0..MaxPrice] /\ Billing!ChargesWereAgreed'
        /\ \A m \in Billing!Months : charge[m] <= charge'[m]
    BY <1>1, <2>2, <2>3, ChargesMade
  <2>5. Billing!TypeOK'
    BY <1>1, <2>2, <2>3, <2>4, AgreedTyped DEF Billing!TypeOK
  <2>6. Billing!ChargesNotOverpaid'
    BY <1>1, <2>2, <2>4, ChargesOnly
  <2>7. AgreementsKept'
    BY <1>1, <2>2 DEF AgreementsKept, Billing!Agreed
  <2> QED
    BY <2>4, <2>5, <2>6, <2>7 DEF BillingInv, Billing!ChargesAgreedAndPaidOnce
<1>5. ASSUME NEW v \in Views, Billing!ReadCompany(v)
      PROVE  BillingInv'
  <2>1. view' = [view EXCEPT ![v] = company]
          /\ UNCHANGED <<now, company, charge, payment, agreements>>
    BY <1>5 DEF Billing!ReadCompany
  <2>2. Billing!TypeOK'
    BY <1>1, <2>1 DEF Billing!TypeOK
  <2>3. Billing!ChargesWereAgreed'
    BY <1>1, <2>1 DEF Billing!ChargesWereAgreed
  <2>4. Billing!ChargesNotOverpaid'
    BY <1>1, <1>2, <2>1, ChargesOnly DEF Billing!TypeOK
  <2>5. AgreementsKept'
    BY <1>1, <2>1 DEF AgreementsKept, Billing!Agreed, Billing!TypeOK
  <2> QED
    BY <2>2, <2>3, <2>4, <2>5 DEF BillingInv, Billing!ChargesAgreedAndPaidOnce
(* The charges of a page, and of a payment, are those of a company that is,  *)
(* or was, in force.                                                         *)
<1>6. ASSUME NEW v \in Views, Billing!ShowBilling(v)
      PROVE  BillingInv'
  <2>1. /\ view[v] # None /\ charge' = Billing!ChargesFor(view[v])
        /\ view' = [view EXCEPT ![v] = None] /\ UNCHANGED <<now, company, payment, agreements>>
    BY <1>6 DEF Billing!ShowBilling
  <2>2. PICK c \in Billing!Companies : c = view[v] /\ Billing!Agreed(c) \subseteq agreements
    BY <1>1, <2>1 DEF Billing!TypeOK, AgreementsKept
  <2>3. /\ charge' \in [Billing!Months -> 0..MaxPrice] /\ Billing!ChargesWereAgreed'
        /\ \A m \in Billing!Months : charge[m] <= charge'[m]
    BY <1>1, <2>1, <2>2, ChargesMade
  <2>4. Billing!TypeOK'
    BY <1>1, <2>1, <2>3 DEF Billing!TypeOK
  <2>5. Billing!ChargesNotOverpaid'
    BY <1>1, <2>1, <2>3, ChargesOnly
  <2>6. AgreementsKept'
    BY <1>1, <2>1 DEF AgreementsKept, Billing!Agreed, Billing!TypeOK
  <2> QED
    BY <2>3, <2>4, <2>5, <2>6 DEF BillingInv, Billing!ChargesAgreedAndPaidOnce
<1>7. ASSUME charge' = Billing!ChargesFor(company), UNCHANGED <<now, company, view, agreements>>
      PROVE  /\ charge' \in [Billing!Months -> 0..MaxPrice] /\ Billing!ChargesWereAgreed'
             /\ \A m \in Billing!Months :
                  charge[m] <= charge'[m] /\ (charge[m] # 0 => charge'[m] = charge[m])
             /\ AgreementsKept'
  <2>1. Billing!Agreed(company) \subseteq agreements
    BY <1>1 DEF AgreementsKept
  <2>2. PICK c \in Billing!Companies : c = company
    BY <1>1
  <2>3. /\ charge' \in [Billing!Months -> 0..MaxPrice] /\ Billing!ChargesWereAgreed'
        /\ \A m \in Billing!Months :
             charge[m] <= charge'[m] /\ (charge[m] # 0 => charge'[m] = charge[m])
    BY <1>1, <1>7, <2>1, <2>2, ChargesMade
  <2>4. AgreementsKept'
    BY <1>1, <1>7 DEF AgreementsKept, Billing!Agreed
  <2> QED
    BY <2>3, <2>4
<1>8. ASSUME NEW k \in Requests, Billing!PayAgain(k)
      PROVE  BillingInv'
  <2>1. charge' = Billing!ChargesFor(company)
          /\ UNCHANGED <<now, company, payment, view, agreements>>
    BY <1>8 DEF Billing!PayAgain
  <2>2. Billing!TypeOK'
    BY <1>1, <1>7, <2>1 DEF Billing!TypeOK
  <2>3. Billing!ChargesNotOverpaid'
    BY <1>1, <1>7, <2>1, ChargesOnly
  <2> QED
    BY <1>7, <2>1, <2>2, <2>3 DEF BillingInv, Billing!ChargesAgreedAndPaidOnce
<1>9. ASSUME NEW k \in Requests, NEW n \in 1..MaxPrice, NEW c \in Billing!Months \cup {None},
             NEW f \in References \cup {None}, Billing!Pay(k, n, c, f)
      PROVE  BillingInv'
  <2> DEFINE row == [amount |-> n, charge |-> c, reference |-> f]
  <2>1. /\ payment[k] = Billing!NoPayment /\ payment' = [payment EXCEPT ![k] = row]
        /\ charge' = Billing!ChargesFor(company) /\ UNCHANGED <<now, company, view, agreements>>
        /\ c # None => charge[c] # 0 /\ n + Billing!PaidOn(c) <= charge[c]
    BY <1>9 DEF Billing!Pay
  <2>2. row \in Billing!Payments /\ row.amount = n /\ row.charge = c
    BY DEF Billing!Payments
  <2> HIDE DEF row
  <2>3. Billing!TypeOK'
    BY <1>1, <1>7, <2>1, <2>2 DEF Billing!TypeOK
  <2>4. ASSUME NEW m \in Billing!Months
        PROVE  Billing!PaidOn(m)' <= charge'[m]
    <3>1. PICK p \in Billing!Payments :
            p.amount = n /\ p.charge = c /\ payment' = [payment EXCEPT ![k] = p]
      BY <2>1, <2>2
    <3>6. Paid(m)' = IF m = c THEN Paid(m) + n ELSE Paid(m)
      <4>1. /\ BillingAssumption /\ Billing!TypeOK /\ k \in Requests /\ n \in 1..MaxPrice
            /\ c \in Billing!Months \cup {None} /\ p \in Billing!Payments
            /\ p.amount = n /\ p.charge = c /\ payment[k] = Billing!NoPayment
            /\ payment' = [payment EXCEPT ![k] = p] /\ m \in Billing!Months
        BY <1>1, <2>1, <3>1
      <4> QED
        BY <4>1, PaymentEntered
    <3>2. Paid(m) \in Nat /\ charge[m] \in Nat /\ charge'[m] \in Nat /\ n \in Nat
      BY <1>1, <1>2, <1>7, <2>1, PaidTyped
    <3>3. charge[m] <= charge'[m] /\ Billing!PaidOn(m)' = Paid(m)' /\ Paid(m) <= charge[m]
      BY <1>1, <1>7, <2>1, BillingTotals DEF Billing!ChargesNotOverpaid
    <3>4. CASE m = c
      <4>1. n + Paid(m) <= charge[m]
        BY <2>1, <3>4, BillingTotals
      <4> QED
        BY <3>6, <3>2, <3>3, <3>4, <4>1
    <3>5. CASE m # c
      BY <3>6, <3>2, <3>3, <3>5
    <3> QED
      BY <3>4, <3>5
  <2> QED
    BY <1>7, <2>1, <2>3, <2>4
       DEF BillingInv, Billing!ChargesAgreedAndPaidOnce, Billing!ChargesNotOverpaid
<1>10. CASE UNCHANGED billingVars
  <2>1. UNCHANGED <<now, company, charge, payment, view, agreements>>
    BY <1>10 DEF billingVars
  <2>2. Billing!TypeOK' /\ AgreementsKept' /\ Billing!ChargesWereAgreed'
    BY <1>1, <2>1 DEF Billing!TypeOK, AgreementsKept, Billing!Agreed, Billing!ChargesWereAgreed
  <2>3. Billing!ChargesNotOverpaid'
    BY <1>1, <1>2, <2>1, ChargesOnly DEF Billing!TypeOK
  <2> QED
    BY <2>2, <2>3 DEF BillingInv, Billing!ChargesAgreedAndPaidOnce
<1> QED
  BY <1>3, <1>4, <1>5, <1>6, <1>8, <1>9, <1>10 DEF Billing!Next

(* The books of what a company owes, in the steps of MCTeam. *)
BillingPart == part = "billing" => BillingInv

(* A month is charged at the price of an agreement that reached it, and is   *)
(* not paid for more than once (src/apps/reference_erp/platform_views.py).          *)
THEOREM PeopleChargesAgreedAndPaidOnce == TeamSpec => []ChargesAgreedAndPaidOnce
<1>1. TeamInit => BillingPart
  BY BillingInvInit, BillingAssumption DEF TeamInit, BillingPart
<1>2. BillingPart /\ [TeamNext]_teamVars => BillingPart'
  <2> SUFFICES ASSUME BillingPart, [TeamNext]_teamVars, part' = "billing"
               PROVE  BillingInv'
    BY DEF BillingPart
  <2>1. part = "billing" /\ [Billing!Next]_billingVars
    BY DEF TeamNext, teamVars, companyVars
  <2>2. BillingInv
    BY <2>1 DEF BillingPart
  <2> QED
    BY <2>1, <2>2, BillingAssumption, BillingInvStep
<1>3. BillingPart => ChargesAgreedAndPaidOnce
  BY DEF BillingPart, BillingInv, ChargesAgreedAndPaidOnce
<1> QED
  BY <1>1, <1>2, <1>3, PTL DEF TeamSpec

-----------------------------------------------------------------------------
(* Team with every other door open.  The proofs of TeamProofs hold for the   *)
(* open company as they stand: it is another instance of the same module.    *)
OpenTeam == INSTANCE TeamProofs WITH
  People <- Strangers, Invitations <- Letters, MaxLinks <- OpenLinks,
  Doors <- {"sign-up", "mail", "platform"}, Roles <- {"co-owner"},
  member <- openMember, roles <- openRoles, assigned <- openAssigned,
  invitation <- openInvitation, message <- openMessage,
  following <- openFollowing, signing <- openSigning

OpenDoorsInv == OpenTeam!SingleRoles /\ OpenTeam!MessagesInv
OpenDoorsPart == part = "doors" => OpenDoorsInv

LEMMA OpenTeamAssumption == OpenAssumption => OpenTeam!TeamAssumption
BY DEF OpenAssumption, Open!TeamAssumption, OpenTeam!TeamAssumption,
       Open!IsFiniteSet, OpenTeam!IsFiniteSet

LEMMA OpenInit == OpenAssumption /\ Open!Init => OpenDoorsInv
<1>1. Open!Init => OpenTeam!Init
  BY DEF Open!Init, OpenTeam!Init, Open!Admin, OpenTeam!Admin, Open!NoMember, OpenTeam!NoMember,
     Open!Absent, OpenTeam!Absent
<1> QED
  BY <1>1, OpenTeamAssumption, OpenTeam!MessagesInit, OpenTeam!SingleRolesInit DEF OpenDoorsInv

LEMMA OpenStep ==
  ASSUME [Open!Next]_openVars
  PROVE  [OpenTeam!Next]_(OpenTeam!vars)
BY DEF openVars,
        Open!Next, OpenTeam!Next, Open!vars, OpenTeam!vars, Open!Invite,
        OpenTeam!Invite, Open!Resend, OpenTeam!Resend, Open!Revoke,
        OpenTeam!Revoke, Open!Expire, OpenTeam!Expire, Open!PickMessage,
        OpenTeam!PickMessage, Open!DeliverMessage, OpenTeam!DeliverMessage,
        Open!Follow, OpenTeam!Follow, Open!Accept, OpenTeam!Accept,
        Open!LeaveLink, OpenTeam!LeaveLink, Open!ChangeRole,
        OpenTeam!ChangeRole, Open!Toggle, OpenTeam!Toggle, Open!ReplaceAdmin,
        OpenTeam!ReplaceAdmin, Open!CountSeats, OpenTeam!CountSeats,
        Open!SignUp, OpenTeam!SignUp, Open!AcceptMail, OpenTeam!AcceptMail,
        Open!SendLink, OpenTeam!SendLink, Open!Withdraw, OpenTeam!Withdraw,
        Open!Leads, OpenTeam!Leads, Open!Granted, OpenTeam!Granted,
        Open!Ensured, OpenTeam!Ensured, Open!Join, OpenTeam!Join, Open!SeatFree,
        OpenTeam!SeatFree, Open!Active, OpenTeam!Active, Open!Cardinality,
        OpenTeam!Cardinality, Open!Absent, OpenTeam!Absent, Open!Admin,
        OpenTeam!Admin, Open!memberVars, OpenTeam!memberVars

LEMMA OpenDoorsStep ==
  ASSUME OpenAssumption, OpenDoorsInv, [Open!Next]_openVars
  PROVE  OpenDoorsInv'
<1>1. OpenTeam!TeamAssumption /\ [OpenTeam!Next]_(OpenTeam!vars)
  BY OpenTeamAssumption, OpenStep
<1>2. OpenTeam!RowsTyped /\ OpenTeam!SingleRoles /\ OpenTeam!MessagesInv
  BY DEF OpenDoorsInv, OpenTeam!MessagesInv
<1>3. OpenTeam!RowsTyped'
  BY <1>1, <1>2, OpenTeam!RowsStep
<1>4. OpenTeam!SingleRoles'
  BY <1>1, <1>2, OpenTeam!SingleRolesStep
<1>5. OpenTeam!MessagesTyped' /\ OpenTeam!QueuedLinkCurrent'
  BY <1>1, <1>2, OpenTeam!MessagesStep
<1> QED
  BY <1>3, <1>4, <1>5 DEF OpenDoorsInv, OpenTeam!MessagesInv

LEMMA OpenDoorsInvHolds ==
  ASSUME OpenAssumption, OpenDoorsInv
  PROVE  Open!OneRoleEach /\ Open!QueuedLinkCurrent
<1>1. OpenTeam!OneRoleEach
  BY OpenTeamAssumption, OpenTeam!SingleRolesCounted DEF OpenDoorsInv
<1>2. Open!OneRoleEach
  BY <1>1 DEF Open!OneRoleEach, OpenTeam!OneRoleEach, Open!Cardinality, OpenTeam!Cardinality
<1>3. Open!QueuedLinkCurrent
  BY DEF OpenDoorsInv, OpenTeam!MessagesInv, OpenTeam!QueuedLinkCurrent, Open!QueuedLinkCurrent
<1> QED
  BY <1>2, <1>3

(* Through whatever door people come in, a person has one role at most, and  *)
(* no link that was replaced or revoked waits in the queue.                  *)
THEOREM PeopleOpenDoorsKept == TeamSpec => []OpenDoorsKept
<1>1. TeamInit => OpenDoorsPart
  BY OpenInit, OpenAssumption DEF TeamInit, OpenDoorsPart
<1>2. OpenDoorsPart /\ [TeamNext]_teamVars => OpenDoorsPart'
  <2> SUFFICES ASSUME OpenDoorsPart, [TeamNext]_teamVars, part' = "doors"
               PROVE  OpenDoorsInv'
    BY DEF OpenDoorsPart
  <2>1. part = "doors" /\ [Open!Next]_openVars
    BY DEF TeamNext, teamVars, companyVars
  <2>2. OpenDoorsInv
    BY <2>1 DEF OpenDoorsPart
  <2> QED
    BY <2>1, <2>2, OpenAssumption, OpenDoorsStep
<1>3. OpenDoorsPart => OpenDoorsKept
  BY OpenDoorsInvHolds, OpenAssumption DEF OpenDoorsPart, OpenDoorsKept
<1> QED
  BY <1>1, <1>2, <1>3, PTL DEF TeamSpec

=============================================================================
