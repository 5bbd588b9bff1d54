----------------------------- MODULE PaidSignup -----------------------------
(***************************************************************************)
(* The paid sign-up (src/apps/core/onboard_views.py): a form becomes an      *)
(* order of the payment provider, the buyer pays it, and a second request    *)
(* names the payment and makes the owner, his company and its subscription.  *)
(* That request is one transaction; the welcome mail leaves in the middle of *)
(* it.  A request that inserts a unique value waits for the transaction that *)
(* has inserted the same one, and fails when that commits.                   *)
(*                                                                         *)
(* A request always names a payment.  It may name the order as well, under    *)
(* whose id the subscription is then kept, or else under that of the payment; *)
(* and it may carry the signature of the two.  The code looks at a signature *)
(* that is sent and takes a request without one at its word.  The form can be *)
(* filled in again before it is sent, or sent twice.  Left out: the Google id *)
(* that it may name (module Accounts), and the tokens.                       *)
(***************************************************************************)
EXTENDS Naturals, FiniteSets, FiniteSetsExt

CONSTANTS
  OrderIds,     \* orders of the payment provider
  Forms,        \* what people fill in: e-mail address, phone and full name
  Proofs,       \* requests that prove a payment and can be under way at once
  MaxOthers,    \* bound on the accounts that are made elsewhere
  None

VARIABLES
  offers,       \* what the form of each order said, and whether it is paid
  accounts,     \* committed users: address, phone and user name
  proofs,       \* what each request under way has inserted
  companies,    \* how many companies each id has founded
  welcomed,     \* history: ids under which a welcome mail has left
  lost,         \* history: ids with a request that died after their mail left
  refused,      \* history: ids under which the form of their order was refused
  raced         \* history: ids with a request beside another of the same full name

signupVars == <<offers, accounts, proofs, companies, welcomed, lost, refused, raced>>

(* What a subscription is kept under: the id of an order or of its payment. *)
Keys == OrderIds \X {"order", "payment"}
OrderOf(k) == k[1]

SignupInit ==
  /\ offers = [o \in OrderIds |-> None]
  /\ accounts = {}
  /\ proofs = [q \in Proofs |-> None]
  /\ companies = [k \in Keys |-> 0]
  /\ welcomed = {} /\ lost = {} /\ refused = {} /\ raced = {}

AddressTaken(e) == \E a \in accounts : a.email = e
PhoneTaken(p) == p # None /\ \E a \in accounts : a.phone = p

(* The user name is the full name and the first number that makes it free. *)
FreeName(n) ==
  <<n, Min({k \in 0 .. Cardinality(accounts) : \A a \in accounts : a.name # <<n, k>>})>>
Others(q) == {r \in Proofs \ {q} : proofs[r] # None}
Namesakes(q, f) == {r \in Others(q) : proofs[r].form.name = f.name}

-----------------------------------------------------------------------------
(* RazorpayOnboardOrderView.post. *)
Offer(o, f) ==
  /\ offers[o] = None
  /\ ~AddressTaken(f.email) /\ ~PhoneTaken(f.phone)
  /\ offers' = [offers EXCEPT ![o] = [form |-> f, paid |-> FALSE]]
  /\ UNCHANGED <<accounts, proofs, companies, welcomed, lost, refused, raced>>

(* The buyer pays; the provider signs the payment of the order. *)
Pay(o) ==
  /\ offers[o] # None /\ ~offers[o].paid
  /\ offers' = [offers EXCEPT ![o].paid = TRUE]
  /\ UNCHANGED <<accounts, proofs, companies, welcomed, lost, refused, raced>>

(* _verify_razorpay_signature: a signature is of an order and its payment.   *)
Verified(k) == k \in OrderIds \X {"order"} /\ offers[OrderOf(k)].paid

(* Only a refusal of what the order's own form said is remembered. *)
Refused(k, f) == IF f = offers[OrderOf(k)].form THEN refused \cup {k} ELSE refused

(* RazorpayOnboardVerifyView.post: an address that has an account is refused, *)
(* the phone is not looked at; the user name is one that nobody has.         *)
Prove(q, k, f, signed) ==
  /\ proofs[q] = None /\ offers[OrderOf(k)] # None
  /\ signed => Verified(k)
  /\ IF AddressTaken(f.email)
     THEN /\ refused' = Refused(k, f)
          /\ UNCHANGED <<proofs, raced>>
     ELSE /\ proofs' = [proofs EXCEPT ![q] =
               [key |-> k, form |-> f, name |-> FreeName(f.name), step |-> "user"]]
          /\ raced' = raced \cup UNION {{k, proofs[r].key} : r \in Namesakes(q, f)}
          /\ UNCHANGED refused
  /\ UNCHANGED <<offers, accounts, companies, welcomed, lost>>

At(q, step) == proofs[q] # None /\ proofs[q].step = step
User(r) == [email |-> r.form.email, phone |-> r.form.phone, name |-> r.name]
Clash(a, b) == a.email = b.email \/ a.phone = b.phone \/ a.name = b.name

RollBack(q) ==
  /\ proofs' = [proofs EXCEPT ![q] = None]
  /\ refused' = Refused(proofs[q].key, proofs[q].form)
  /\ UNCHANGED <<offers, accounts, companies, welcomed, lost, raced>>

AddUser(q) ==
  /\ At(q, "user")
  /\ \A r \in Others(q) : At(r, "user") \/ ~Clash(User(proofs[q]), User(proofs[r]))
  /\ IF \E a \in accounts : Clash(User(proofs[q]), a)
     THEN RollBack(q)
     ELSE /\ proofs' = [proofs EXCEPT ![q].step = "subscription"]
          /\ UNCHANGED <<offers, accounts, companies, welcomed, lost, refused, raced>>

(* TenantSubscription.razorpay_subscription_id is the id, and unique.        *)
SameKey(q, r) == proofs[q].key = proofs[r].key

AddSubscription(q) ==
  /\ At(q, "subscription")
  /\ \A r \in Others(q) : proofs[r].step \in {"user", "subscription"} \/ ~SameKey(q, r)
  /\ IF companies[proofs[q].key] > 0
     THEN RollBack(q)
     ELSE /\ proofs' = [proofs EXCEPT ![q].step = "mail"]
          /\ UNCHANGED <<offers, accounts, companies, welcomed, lost, refused, raced>>

(* A mail that cannot be sent is only logged. *)
Welcome(q) ==
  /\ At(q, "mail")
  /\ proofs' = [proofs EXCEPT ![q].step = "commit"]
  /\ \/ welcomed' = welcomed \cup {proofs[q].key}
     \/ UNCHANGED welcomed
  /\ UNCHANGED <<offers, accounts, companies, lost, refused, raced>>

Commit(q) ==
  LET r == proofs[q] IN
  /\ At(q, "commit")
  /\ accounts' = accounts \cup {User(r)}
  /\ companies' = [companies EXCEPT ![r.key] = @ + 1]
  /\ proofs' = [proofs EXCEPT ![q] = None]
  /\ UNCHANGED <<offers, welcomed, lost, refused, raced>>

ProofDies(q) ==
  /\ proofs[q] # None
  /\ proofs' = [proofs EXCEPT ![q] = None]
  /\ lost' = lost \cup ({proofs[q].key} \cap welcomed)
  /\ UNCHANGED <<offers, accounts, companies, welcomed, refused, raced>>

(* Somebody makes an account elsewhere, under a name of his own. *)
JoinElsewhere(e, p) ==
  /\ Cardinality({a \in accounts : a.name = None}) < MaxOthers
  /\ ~AddressTaken(e) /\ ~PhoneTaken(p)
  /\ \A q \in Proofs : proofs[q] # None => proofs[q].step = "user"
                       \/ (proofs[q].form.email # e /\ proofs[q].form.phone # p)
  /\ accounts' = accounts \cup {[email |-> e, phone |-> p, name |-> None]}
  /\ UNCHANGED <<offers, proofs, companies, welcomed, lost, refused, raced>>

SignupNext ==
  \/ \E o \in OrderIds : Pay(o) \/ \E f \in Forms : Offer(o, f)
  \/ \E q \in Proofs :
       \/ \E k \in Keys, f \in Forms, signed \in BOOLEAN : Prove(q, k, f, signed)
       \/ AddUser(q) \/ AddSubscription(q) \/ Welcome(q) \/ Commit(q) \/ ProofDies(q)
  \/ \E f \in Forms : JoinElsewhere(f.email, f.phone) \/ JoinElsewhere(f.email, None)

-----------------------------------------------------------------------------
(* An id of the provider founds one company, however often it is proved, by  *)
(* whatever forms and in requests that overlap: an order and its payment,     *)
(* which have an id each, no more than one each.                             *)
KeyFoundsOnce == \A k \in Keys : companies[k] <= 1

(* "Your organization workspace ... has been successfully created and        *)
(* activated" (onboard_views.py:370): who is told so has a company, unless   *)
(* the request died between the mail and the commit.                        *)
WelcomeIsTrue ==
  \A k \in welcomed : companies[k] = 1 \/ k \in lost
                      \/ \E q \in Proofs : At(q, "commit") /\ proofs[q].key = k

(* A buyer who sends the form of his order is refused only if he has his      *)
(* company under that id, if his address or phone is that of an account, or  *)
(* if a namesake's request overlapped with his.                             *)
PaidIsServed ==
  \A k \in refused : companies[k] = 1 \/ k \in raced
                     \/ \E a \in accounts : a.email = offers[OrderOf(k)].form.email
                                            \/ a.phone = offers[OrderOf(k)].form.phone

PaidSignupHolds == KeyFoundsOnce /\ WelcomeIsTrue /\ PaidIsServed

-----------------------------------------------------------------------------
(* The rows, and what is assumed of the constants.                          *)
Names == {f.name : f \in Forms} \X Nat
OfferRows == [form : Forms, paid : BOOLEAN]
ProofRows == [key : Keys, form : Forms, name : Names,
              step : {"user", "subscription", "mail", "commit"}]
SignupConstants == None \notin OfferRows /\ None \notin ProofRows /\ None \notin Names

Subscribed(q) == At(q, "mail") \/ At(q, "commit")

=============================================================================
