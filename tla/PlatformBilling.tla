-------------------------- MODULE PlatformBilling ---------------------------
(***************************************************************************)
(* What the platform charges one company, and what it has been paid         *)
(* (src/apps/reference_erp/platform_views.py): the agreement with the       *)
(* company, a charge for each month of it, and payments entered by hand.    *)
(*                                                                         *)
(* Nothing creates charges when a month begins.  They are created when      *)
(* somebody looks at the billing: the payment and the agreement handlers    *)
(* do so under the company's row lock, the two pages that show billing read *)
(* the company without a lock and create charges from what they read.       *)
(*                                                                         *)
(* Time is counted in months; free days are a month.                        *)
(*                                                                         *)
(* Definitions commented "Mutant:" are mistakes for the properties to find. *)
(***************************************************************************)
EXTENDS Naturals, FiniteSets, Quantities

CONSTANTS
  Views,        \* requests for a billing page that can be under way at once
  Requests,     \* request ids of payments
  References,   \* payment references
  MaxPrice,     \* bound on prices and amounts
  MaxMonth,     \* bound on time
  None

VARIABLES
  now,          \* the current month
  company,      \* status, trial end, complimentary access, price and billing
                \*   start of the company
  charge,       \* amount charged for each month, 0 if the month has no charge
  payment,      \* amount, charge and reference of the payment of each request
  view,         \* the company as each billing page has read it
  agreements    \* history: the priced agreements that ever were in force

vars == <<now, company, charge, payment, view, agreements>>

-----------------------------------------------------------------------------
Months == 0..MaxMonth
Modes == {"trial", "complimentary", "paid", "suspended"}
Companies == [status : {"trial", "active", "suspended"}, trialEnds : Nat \cup {None},
              complimentary : BOOLEAN, price : 0..MaxPrice, start : Nat \cup {None}]
NoPayment == [amount |-> 0, charge |-> None, reference |-> None]
Payments == [amount : 1..MaxPrice, charge : Months \cup {None},
             reference : References \cup {None}]

InTrial(c) == c.status = "trial" /\ now < c.trialEnds

(* The larger of two months. *)
Later(a, b) == IF a < b THEN b ELSE a

(* configure_tenant; a company that is new gets free days in any case. *)
Configured(mode, price, start, new) ==
  LET trial == mode = "trial" \/ (new /\ mode = "paid")
  IN  [status |-> IF trial THEN "trial"
                  ELSE IF mode = "suspended" THEN "suspended" ELSE "active",
       trialEnds |-> IF trial THEN now + 1 ELSE None,
       complimentary |-> mode = "complimentary",
       price |-> price,
       start |-> IF mode # "paid" THEN None
                 ELSE IF new THEN Later(start, now + 1) ELSE start]

(* TenantInput: a paid agreement has a price and a start; a start that is   *)
(* given for another mode is dropped, so that here none is given.           *)
Valid(mode, price, start) ==
  IF mode = "paid" THEN price > 0 /\ start # None ELSE start = None

Agreed(c) == IF c.start = None THEN {} ELSE {[price |-> c.price, start |-> c.start]}

(* Mutant: the months of a billing period are counted from the beginning.   *)
DueFromZero(c) ==
  IF InTrial(c) \/ c.complimentary \/ c.start = None \/ c.price = 0 THEN {}
  ELSE 0..now

(* The months that ensure_charges sees to, for a company read as c. *)
Due(c) ==
  IF InTrial(c) \/ c.complimentary \/ c.start = None \/ c.price = 0 THEN {}
  ELSE {m \in Months : c.start <= m /\ m <= now}

(* ensure_charges: get_or_create for every due month. *)
ChargesFor(c) ==
  [m \in Months |-> IF m \in Due(c) /\ charge[m] = 0 THEN c.price ELSE charge[m]]

Init ==
  /\ now = 0
  /\ charge = [m \in Months |-> 0]
  /\ payment = [k \in Requests |-> NoPayment]
  /\ view = [v \in Views |-> None]
  /\ \E mode \in Modes, price \in 0..MaxPrice, start \in Months \cup {None} :
       /\ Valid(mode, price, start)
       /\ company = Configured(mode, price, start, TRUE)
  /\ agreements = Agreed(company)

-----------------------------------------------------------------------------
NextMonth ==
  /\ now < MaxMonth
  /\ now' = now + 1
  /\ UNCHANGED <<company, charge, payment, view, agreements>>

(* PlatformTenantDetailView.patch: a new agreement, in which fields that    *)
(* are not given keep their value; the charges then due are created.        *)
Patch ==
  \E mode \in Modes, price \in 0..MaxPrice, start \in Months \cup {None, company.start} :
    LET c == Configured(mode, price, start, FALSE)
    IN  /\ Valid(mode, price, start)
        /\ company' = c
        /\ charge' = ChargesFor(c)
        /\ agreements' = agreements \cup Agreed(c)
        /\ UNCHANGED <<now, payment, view>>

(* A billing page reads the company, and creates the charges later: each    *)
(* with a get_or_create of its own, here together in one step.              *)
ReadCompany(v) ==
  /\ view[v] = None
  /\ view' = [view EXCEPT ![v] = company]
  /\ UNCHANGED <<now, company, charge, payment, agreements>>

ShowBilling(v) ==
  /\ view[v] # None
  /\ charge' = ChargesFor(view[v])
  /\ view' = [view EXCEPT ![v] = None]
  /\ UNCHANGED <<now, company, payment, agreements>>

PaidOn(m) ==
  Total([k \in Requests |-> payment[k].amount], {k \in Requests : payment[k].charge = m})

(* PlatformPaymentView.post: a request id is used once; the amount is on    *)
(* account or within what is outstanding on a charge.                       *)
Pay(k, n, m, f) ==
  /\ payment[k] = NoPayment
  /\ \A j \in Requests : f # None => payment[j].reference # f
  /\ m # None => charge[m] # 0 /\ n + PaidOn(m) <= charge[m]
  /\ payment' = [payment EXCEPT ![k] = [amount |-> n, charge |-> m, reference |-> f]]
  /\ charge' = ChargesFor(company)
  /\ UNCHANGED <<now, company, view, agreements>>

(* The same request again: the payment is not entered again, but the        *)
(* billing is shown.                                                        *)
PayAgain(k) ==
  /\ payment[k] # NoPayment
  /\ charge' = ChargesFor(company)
  /\ UNCHANGED <<now, company, payment, view, agreements>>

Next ==
  \/ NextMonth
  \/ Patch
  \/ \E v \in Views : ReadCompany(v) \/ ShowBilling(v)
  \/ \E k \in Requests, n \in 1..MaxPrice, m \in Months \cup {None},
        f \in References \cup {None} : Pay(k, n, m, f)
  \/ \E k \in Requests : PayAgain(k)

Spec == Init /\ [][Next]_vars

-----------------------------------------------------------------------------
TypeOK ==
  /\ now \in Months
  /\ company \in Companies
  /\ charge \in [Months -> 0..MaxPrice]
  /\ payment \in [Requests -> Payments \cup {NoPayment}]
  /\ view \in [Views -> Companies \cup {None}]
  /\ \A a \in agreements : a.price \in 0..MaxPrice /\ a.start \in Nat

(* A month is charged only if an agreement that reached it was in force at  *)
(* some time, and at the price of such an agreement, although pages create  *)
(* charges from a company they read earlier.                                *)
ChargesWereAgreed ==
  \A m \in Months : charge[m] # 0 =>
    m <= now /\ \E a \in agreements : a.price = charge[m] /\ a.start <= m

(* Payments never exceed the charge they are entered for. *)
ChargesNotOverpaid ==
  \A m \in Months : PaidOn(m) <= charge[m]

(* Both: the books of what a company owes. *)
ChargesAgreedAndPaidOnce == TypeOK /\ ChargesWereAgreed /\ ChargesNotOverpaid

-----------------------------------------------------------------------------
(* The rows, and what is assumed of the constants.                          *)
BillingConstants ==
  /\ IsFiniteSet(Requests) /\ MaxPrice \in Nat /\ MaxMonth \in Nat
  /\ None \notin Nat \cup Companies

=============================================================================
