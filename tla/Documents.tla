------------------------------ MODULE Documents ------------------------------
(***************************************************************************)
(* The commercial documents of the ERP (src/apps/erp/services.py, views.py, *)
(* serializers.py): quotations, orders, dispatches, invoices, credit notes, *)
(* and the purchase side; their approvals, conversions and payments.        *)
(*                                                                         *)
(* A command locks the company's row, reads the document again and compares *)
(* its version with the one the user saw, so it is one step here, taken     *)
(* when it succeeds.  Archiving takes no lock: it reads the document, and   *)
(* later writes the whole row back.                                         *)
(*                                                                         *)
(* A document has one line, priced one money unit per unit of quantity, for *)
(* one customer or supplier.  What a posting does to stock is left out, and *)
(* so are the checks that can only refuse it (closed periods, missing       *)
(* warehouses, a supplier's bill number used twice).                        *)
(*                                                                         *)
(* Definitions commented "Mutant:" are mistakes for the properties to find. *)
(***************************************************************************)
EXTENDS Integers, FiniteSets, Quantities

CONSTANTS
  Docs, Approvals, Payments,   \* ids of documents, approvals and payments
  Created,      \* kinds of documents that are entered by hand
  MaxEntered,   \* bound on the documents entered by hand
  MaxQty,       \* bound on the quantity of a line
  Threshold,    \* amount from which a document needs an approval
  Steps,        \* number of approvers one after another
  MaxVersion,   \* bound: a document of this version is not edited any more
  None

Kinds == {"quotation", "sales_order", "requisition", "purchase_order", "goods_receipt",
          "dispatch", "invoice", "supplier_bill", "credit_note", "supplier_return"}

ASSUME DocumentsAssumption ==
  /\ IsFiniteSet(Docs) /\ IsFiniteSet(Payments) /\ None \notin Docs
  /\ Created \subseteq Kinds
  /\ MaxQty \in Nat \ {0} /\ Steps \in Nat \ {0} /\ MaxVersion \in Nat
  /\ Threshold \in Nat /\ MaxEntered \in Nat

VARIABLES
  doc,        \* the documents
  revenue,    \* sum of the revenue facts recorded for each document
  approval,   \* the approvals
  payment,    \* what each payment settles of each document, and its status
  archiving   \* the row that an archive request has read and will write back

vars == <<doc, revenue, approval, payment, archiving>>

-----------------------------------------------------------------------------
Statuses == {"draft", "pending_approval", "approved", "issued", "accepted", "confirmed",
             "posted", "partially_received", "received", "cancelled", "void"}
Locked == {"posted", "finalized", "issued", "confirmed", "approved", "pending_approval",
           "accepted"}
Convertible == {"confirmed", "posted", "accepted", "issued", "partially_received", "received"}
Conversions ==
  {<<"quotation", "sales_order">>, <<"sales_order", "dispatch">>, <<"sales_order", "invoice">>,
   <<"requisition", "purchase_order">>, <<"purchase_order", "goods_receipt">>,
   <<"purchase_order", "supplier_bill">>, <<"goods_receipt", "supplier_bill">>,
   <<"goods_receipt", "supplier_return">>, <<"dispatch", "invoice">>,
   <<"invoice", "credit_note">>}

(* The status a document of each kind has once it is posted. *)
PostedAs(kind) ==
  CASE kind \in {"quotation", "purchase_order"} -> "issued"
    [] kind \in {"sales_order", "requisition"} -> "confirmed"
    [] OTHER -> "posted"

Qty == 1..MaxQty
NoDoc == [kind |-> None, status |-> "none", qty |-> 0, source |-> None, order |-> None,
          paid |-> 0, version |-> 0, archived |-> FALSE]
NoApproval == [doc |-> None, version |-> 0, amount |-> 0, step |-> 0, status |-> "none"]
NoPayment == [status |-> "none", of |-> [d \in Docs |-> 0]]

Draft(kind, n, source, order) ==
  [kind |-> kind, status |-> "draft", qty |-> n, source |-> source, order |-> order,
   paid |-> 0, version |-> 1, archived |-> FALSE]

Exists(d) == doc[d] # NoDoc /\ ~doc[d].archived
Derived(d) == {e \in Docs : doc[e] # NoDoc /\ doc[e].source = d}
Live(D) == {d \in D : doc[d].status \notin {"cancelled", "void"}}
QtyOf(D) == Total([d \in Docs |-> doc[d].qty], D)
OfKind(D, kind) == {d \in D : doc[d].kind = kind}

(* source_remaining and invoice_remaining. *)
Remaining(s, kind) == doc[s].qty - QtyOf(Live(OfKind(Derived(s), kind)))
InvoicesOf(o) == {d \in Docs : doc[d].kind = "invoice" /\ doc[d].order = o}
NotInvoiced(o) == doc[o].qty - QtyOf(Live(InvoicesOf(o)))

(* What credit notes that were posted take off an invoice. *)
Credits(d) == QtyOf({e \in OfKind(Derived(d), "credit_note") : doc[e].status = "posted"})

(* The order line that a document drawn from s goes back to. *)
Origin(s) == IF doc[s].kind = "sales_order" THEN s ELSE doc[s].order

Touched(d, status) ==
  [doc EXCEPT ![d].status = status, ![d].version = @ + 1]

Init ==
  /\ doc = [d \in Docs |-> NoDoc]
  /\ revenue = [d \in Docs |-> 0]
  /\ approval = [a \in Approvals |-> NoApproval]
  /\ payment = [p \in Payments |-> NoPayment]
  /\ archiving = None

-----------------------------------------------------------------------------
Create(d, kind, n) ==
  /\ doc[d] = NoDoc
  /\ Cardinality({e \in Docs : doc[e] # NoDoc /\ doc[e].source = None}) < MaxEntered
  /\ doc' = [doc EXCEPT ![d] = Draft(kind, n, None, None)]
  /\ UNCHANGED <<revenue, approval, payment, archiving>>

(* Mutant: an approved document can be edited. *)
EditApproved(d, n) ==
  /\ Exists(d) /\ doc[d].status \notin Locked \ {"approved"}
  /\ doc[d].version < MaxVersion
  /\ n # doc[d].qty /\ doc[d].source = None /\ Derived(d) = {}
  /\ doc' = [doc EXCEPT ![d].qty = n, ![d].version = @ + 1]
  /\ UNCHANGED <<revenue, approval, payment, archiving>>

(* update.  The line of a document drawn from another one is fixed, and so  *)
(* is one that others are drawn from; what else can be edited (update,      *)
(* receive_quantities) is left out.                                         *)
Edit(d, n) ==
  /\ Exists(d) /\ doc[d].status \notin Locked
  /\ doc[d].version < MaxVersion
  /\ n # doc[d].qty /\ doc[d].source = None /\ Derived(d) = {}
  /\ doc' = [doc EXCEPT ![d].qty = n, ![d].version = @ + 1]
  /\ UNCHANGED <<revenue, approval, payment, archiving>>

(* destroy: a plain read, *)
StartArchive(d) ==
  /\ archiving = None
  /\ Exists(d) /\ doc[d].status \notin Locked
  /\ archiving' = [of |-> d, row |-> doc[d]]
  /\ UNCHANGED <<doc, revenue, approval, payment>>

(* and then the whole row, whatever happened to it since.  (The line is a   *)
(* row of its own, and stays.)                                              *)
FinishArchive ==
  /\ archiving # None
  /\ doc' = [doc EXCEPT ![archiving.of] =
       [archiving.row EXCEPT !.status = "cancelled", !.archived = TRUE, !.version = @ + 1,
                             !.qty = doc[archiving.of].qty]]
  /\ archiving' = None
  /\ UNCHANGED <<revenue, approval, payment>>

-----------------------------------------------------------------------------
(* approval_for, when a rule asks for one. *)
NeedsApproval(d) == doc[d].status = "draft" /\ doc[d].qty >= Threshold

Submit(d, a) ==
  /\ Exists(d) /\ NeedsApproval(d)
  /\ approval[a] = NoApproval
  /\ approval' = [approval EXCEPT ![a] =
       [doc |-> d, version |-> doc[d].version + 1, amount |-> doc[d].qty, step |-> 1,
        status |-> "pending"]]
  /\ doc' = Touched(d, "pending_approval")
  /\ UNCHANGED <<revenue, payment, archiving>>

Approve(a) ==
  LET d == approval[a].doc
  IN  /\ approval[a].status = "pending"
      /\ doc[d].version = approval[a].version
      /\ IF approval[a].step < Steps
         THEN /\ approval' = [approval EXCEPT ![a].step = @ + 1]
              /\ UNCHANGED doc
         ELSE /\ approval' = [approval EXCEPT ![a].status = "approved"]
              /\ doc' = Touched(d, "approved")
      /\ UNCHANGED <<revenue, payment, archiving>>

Reject(a) ==
  /\ approval[a].status = "pending"
  /\ doc[approval[a].doc].version = approval[a].version
  /\ approval' = [approval EXCEPT ![a].status = "rejected"]
  /\ doc' = Touched(approval[a].doc, "draft")
  /\ UNCHANGED <<revenue, payment, archiving>>

(* A goods receipt that is posted moves its purchase order on. *)
Received(d) ==
  LET s == doc[d].source
  IN  IF doc[d].kind = "goods_receipt" /\ s # None
      THEN [Touched(d, "posted") EXCEPT
              ![s].status = IF Remaining(s, "goods_receipt") <= 0
                            THEN "received" ELSE "partially_received",
              ![s].version = @ + 1]
      ELSE Touched(d, PostedAs(doc[d].kind))

(* The revenue fact of a document that is posted. *)
Recognized(d) ==
  CASE doc[d].kind = "invoice" -> doc[d].qty
    [] doc[d].kind = "credit_note" -> 0 - doc[d].qty
    [] OTHER -> 0

(* post_document, when no approval is asked for. *)
Post(d) ==
  /\ Exists(d)
  /\ doc[d].status \in {"draft", "approved"} /\ ~NeedsApproval(d)
  /\ doc[d].kind \in {"credit_note", "supplier_return"} => doc[d].source # None
  /\ doc' = Received(d)
  /\ revenue' = [revenue EXCEPT ![d] = @ + Recognized(d)]
  /\ UNCHANGED <<approval, payment, archiving>>

-----------------------------------------------------------------------------
AcceptQuotation(d) ==
  /\ Exists(d) /\ doc[d].kind = "quotation" /\ doc[d].status = "issued"
  /\ doc' = Touched(d, "accepted")
  /\ UNCHANGED <<revenue, approval, payment, archiving>>

(* A new draft with the same line, which refers to the old quotation. *)
ReviseQuotation(d, e) ==
  /\ Exists(d) /\ doc[d].kind = "quotation" /\ doc[d].status # "draft"
  /\ OfKind(Derived(d), "sales_order") = {}
  /\ doc[e] = NoDoc
  /\ doc' = [doc EXCEPT ![e] = Draft("quotation", doc[d].qty, d, None)]
  /\ UNCHANGED <<revenue, approval, payment, archiving>>

Drawable(s, kind) ==
  /\ Exists(s)
  /\ <<doc[s].kind, kind>> \in Conversions
  /\ doc[s].status \in Convertible
  /\ doc[s].kind = "quotation" => doc[s].status = "accepted"

(* Mutant: what dispatches were invoiced is not counted. *)
ConvertByLine(s, kind, n, d) ==
  /\ Drawable(s, kind)
  /\ kind = "sales_order" =>
       \A e \in OfKind(Derived(s), kind) : doc[e].status = "cancelled"
  /\ n <= Remaining(s, kind)
  /\ doc[d] = NoDoc
  /\ doc' = [doc EXCEPT ![d] = Draft(kind, n, s, Origin(s))]
  /\ UNCHANGED <<revenue, approval, payment, archiving>>

(* convert_document *)
Convert(s, kind, n, d) ==
  /\ Drawable(s, kind)
  /\ kind = "sales_order" =>
       \A e \in OfKind(Derived(s), kind) : doc[e].status = "cancelled"
  /\ n <= Remaining(s, kind)
  /\ kind = "invoice" /\ Origin(s) # None => n <= NotInvoiced(Origin(s))
  /\ doc[d] = NoDoc
  /\ doc' = [doc EXCEPT ![d] = Draft(kind, n, s, Origin(s))]
  /\ UNCHANGED <<revenue, approval, payment, archiving>>

(* Mutant: an invoice with credit notes can be voided. *)
VoidCredited(d) ==
  /\ Exists(d) /\ doc[d].kind = "invoice" /\ doc[d].status = "posted"
  /\ doc[d].paid = 0
  /\ doc' = Touched(d, "void")
  /\ revenue' = [revenue EXCEPT ![d] = @ - doc[d].qty]
  /\ UNCHANGED <<approval, payment, archiving>>

Void(d) ==
  /\ Exists(d) /\ doc[d].kind = "invoice" /\ doc[d].status = "posted"
  /\ doc[d].paid = 0 /\ Derived(d) = {}
  /\ doc' = Touched(d, "void")
  /\ revenue' = [revenue EXCEPT ![d] = @ - doc[d].qty]
  /\ UNCHANGED <<approval, payment, archiving>>

-----------------------------------------------------------------------------
(* What is left to settle of a posted invoice or bill. *)
OpenAmount(d) == doc[d].qty - Credits(d) - doc[d].paid

(* record_payment: amounts for some documents of one side. *)
RecordPayment(p, kind, amounts) ==
  /\ payment[p] = NoPayment
  /\ \E d \in Docs : amounts[d] > 0
  /\ \A d \in Docs : amounts[d] > 0 =>
       /\ doc[d].kind = kind /\ doc[d].status = "posted"
       /\ amounts[d] <= OpenAmount(d)
  /\ payment' = [payment EXCEPT ![p] = [status |-> "posted", of |-> amounts]]
  /\ doc' = [d \in Docs |->
       IF amounts[d] > 0
       THEN [doc[d] EXCEPT !.paid = @ + amounts[d], !.version = @ + 1] ELSE doc[d]]
  /\ UNCHANGED <<revenue, approval, archiving>>

VoidPayment(p) ==
  /\ payment[p].status = "posted"
  /\ payment' = [payment EXCEPT ![p].status = "void"]
  /\ doc' = [d \in Docs |->
       IF payment[p].of[d] > 0
       THEN [doc[d] EXCEPT !.paid = @ - payment[p].of[d], !.version = @ + 1] ELSE doc[d]]
  /\ UNCHANGED <<revenue, approval, archiving>>

Amounts == [Docs -> 0..MaxQty]

Next ==
  \/ \E d \in Docs, n \in Qty : (\E kind \in Created : Create(d, kind, n)) \/ Edit(d, n)
  \/ \E d \in Docs : StartArchive(d) \/ Post(d) \/ AcceptQuotation(d) \/ Void(d)
  \/ FinishArchive
  \/ \E d \in Docs, a \in Approvals : Submit(d, a)
  \/ \E a \in Approvals : Approve(a) \/ Reject(a)
  \/ \E d, e \in Docs : ReviseQuotation(d, e)
  \/ \E s, d \in Docs, kind \in Kinds, n \in Qty : Convert(s, kind, n, d)
  \/ \E p \in Payments, kind \in {"invoice", "supplier_bill"}, f \in Amounts : RecordPayment(p, kind, f)
  \/ \E p \in Payments : VoidPayment(p)

Spec == Init /\ [][Next]_vars

-----------------------------------------------------------------------------
Rows == [kind : Kinds, status : Statuses, qty : Qty, source : Docs \cup {None},
         order : Docs \cup {None}, paid : Int, version : Nat, archived : BOOLEAN]

TypeOK ==
  /\ doc \in [Docs -> Rows \cup {NoDoc}]
  /\ revenue \in [Docs -> Int]
  /\ approval \in [Approvals ->
       [doc : Docs, version : Nat, amount : Qty, step : 1..Steps,
        status : {"pending", "approved", "rejected"}] \cup {NoApproval}]
  /\ payment \in [Payments -> [status : {"none", "posted", "void"}, of : Amounts]]
  /\ archiving \in [of : Docs, row : Rows] \cup {None}

Kept(D) == {d \in Live(D) : ~doc[d].archived}

(* Documents drawn from one line never add up to more than the line, drafts *)
(* included: what is dispatched of an order, received of a purchase,        *)
(* credited of an invoice or returned of a receipt.  However it is drawn,   *)
(* directly or by way of dispatches, an order is not invoiced beyond what   *)
(* was ordered.                                                             *)
LinesNotOverdrawn ==
  /\ \A s \in Docs, kind \in Kinds :
       <<doc[s].kind, kind>> \in Conversions =>
         QtyOf(Kept(OfKind(Derived(s), kind))) <= doc[s].qty
  /\ \A o \in Docs :
       doc[o].kind = "sales_order" => QtyOf(Kept(InvoicesOf(o))) <= doc[o].qty

(* Once it is posted, a document carries the amount that was approved, and  *)
(* above the threshold one was: editing between asking, approval and        *)
(* posting cannot slip in.                                                  *)
PostedAsApproved ==
  \A d \in Docs :
    LET approved == {a \in Approvals : approval[a].doc = d /\ approval[a].status = "approved"}
    IN  Exists(d) /\ doc[d].status \notin {"draft", "pending_approval", "void"} =>
          /\ \A a \in approved : approval[a].amount = doc[d].qty
          /\ doc[d].qty >= Threshold => approved # {}

(* The revenue recorded for the invoices of an order and their credit notes *)
(* lies between nothing and the order, although invoices are voided and     *)
(* credited in any order.                                                   *)
RevenueWithinOrder ==
  \A o \in Docs : doc[o].kind = "sales_order" =>
    LET invoices == {d \in InvoicesOf(o) : Exists(d)}
        credits == {e \in Docs : Exists(e) /\ doc[e].kind = "credit_note" /\ doc[e].source \in invoices}
        booked == Total(revenue, invoices) - Total([e \in Docs |-> 0 - revenue[e]], credits)
    IN  0 <= booked /\ booked <= doc[o].qty

(* The amount paid of a document is what payments that stand settle of it,  *)
(* and a voided invoice has none.                                           *)
PaidIsSettled ==
  \A d \in Docs : Exists(d) =>
    /\ doc[d].paid = Total([p \in Payments |-> payment[p].of[d]],
                           {p \in Payments : payment[p].status = "posted"})
    /\ doc[d].status = "void" => doc[d].paid = 0

(* Both at once: what an order brings in and what is paid of it agree with  *)
(* the documents and payments that stand.                                   *)
InvoicesAddUp == TypeOK /\ RevenueWithinOrder /\ PaidIsSettled

(* What the archive view answers: posted records cannot be archived.  A     *)
(* record that was archived has no revenue on the books.                    *)
PostedNeverArchived ==
  \A d \in Docs : doc[d].archived => revenue[d] = 0

=============================================================================
