----------------------------- MODULE Workspace ------------------------------
(***************************************************************************)
(* The order-to-cash commands of the workspace engine: leads, quotations,   *)
(* sales orders, production jobs, dispatches, invoices and payments         *)
(* (src/apps/reference_erp/engine.py, function apply).  One action is one   *)
(* accepted command; a command that raises DomainError changes nothing and  *)
(* is a step that the guard forbids.  The view runs every command under the *)
(* company's row lock, so commands do not interleave here; the lock, the    *)
(* receipts and the rollback are module Commands.                           *)
(*                                                                         *)
(* This is the engine of a company without the inventory entitlement.  With *)
(* the entitlement, dispatch and job completion also move stock: module     *)
(* WorkspaceStock adds that to the same actions.                            *)
(*                                                                         *)
(* Data that no property reads is abstracted: the dispatch rows of an order *)
(* are kept as the quantity they add up to and the payments of an invoice   *)
(* as their sum (rows are only ever added), gross amounts are the constant  *)
(* Amount, and a lead that has a customer is a lead.                        *)
(*                                                                         *)
(* A workspace begins with what the importer copied from the legacy         *)
(* documents, once: rows of every status, with no regard for one another.   *)
(* Much of what the commands see to is therefore true only of Own orders.   *)
(*                                                                         *)
(* A definition commented "Mutant:" is what a plausible mistake would make  *)
(* of the one after it.  No specification uses it; it serves to see that    *)
(* the properties notice the mistake.                                       *)
(***************************************************************************)
EXTENDS Naturals, FiniteSets, Quantities

CONSTANTS
  Leads, Quotes, Orders, Jobs, Invoices,  \* ids that rows can be given
  Imported,    \* those of them whose rows are brought over from the legacy
               \*   documents, but for jobs
  MaxQty,      \* the largest quantity and the largest amount that the
  MaxAmount,   \*   input checks numeric and money let through
  Amount,      \* gross amount of each order and of each imported invoice
  Progress,    \* the progress percentages that are reported
  None         \* no row

ASSUME RowsAssumption ==
  /\ IsFiniteSet(Jobs) /\ IsFiniteSet(Orders) /\ IsFiniteSet(Invoices)
  /\ Imported \subseteq Leads \cup Quotes \cup Orders \cup Invoices
  /\ None \notin Leads \cup Quotes \cup Orders
ASSUME BoundsAssumption == MaxQty \in Nat \ {0} /\ MaxAmount \in Nat \ {0}
ASSUME AmountAssumption == Amount \in [Orders \cup (Invoices \cap Imported) -> 1..MaxAmount]
ASSUME ProgressAssumption == {0, 100} \subseteq Progress /\ Progress \subseteq 0..100

VARIABLES
  lead,      \* sales stage of each opportunity
  quote,     \* status and lead of each quotation
  order,     \* status, quantity, quotation and lead of each sales order
  job,       \* order, status and progress of each production job
  jobQty,    \* quantity of each production job
  shipped,   \* quantity dispatched so far, per order
  invoice,   \* the order each invoice bills
  paid       \* the payments received on each invoice

vars == <<lead, quote, order, job, jobQty, shipped, invoice, paid>>
salesVars == <<lead, quote>>
jobVars == <<job, jobQty>>
billVars == <<invoice, paid>>

-----------------------------------------------------------------------------
OpenStages == {"New", "Qualified", "Quotation sent", "Negotiation", "Lost"}
Stages == OpenStages \cup {"Won"}
QuoteStatuses == {"Draft", "Sent", "Issued", "Accepted", "Rejected", "Expired"}
OrderStatuses == {"Draft", "Confirmed", "In production", "Ready to dispatch",
                  "Partially dispatched", "Dispatched", "Completed", "Cancelled"}
ReportedStatuses == {"Pending", "In Progress", "On Hold", "Completed"}
JobStatuses == ReportedStatuses \cup {"Cancelled"}

(* The id is not in use: no row has been added under it yet. *)
NoQuote == [status |-> "Absent", lead |-> None]
NoOrder == [status |-> "Absent", qty |-> 0, quote |-> None, lead |-> None]
NoJob == [order |-> None, status |-> "Absent", progress |-> 0, imported |-> FALSE]

QuoteRows == [status : QuoteStatuses, lead : Leads \cup {None}]
OrderRows == [status : OrderStatuses, qty : 1..MaxQty,
              quote : Quotes \cup {None}, lead : Leads \cup {None}]
JobRows == [order : Orders, status : JobStatuses, progress : Progress, imported : BOOLEAN]

(* The orders taken here.  An imported job is a job of an imported order.   *)
Own == Orders \ Imported

(* What the importer makes of the legacy documents.  Issued stands for the  *)
(* quotation statuses it keeps by name; an order comes from an accepted     *)
(* quotation; a job has no quantity of its own and counts as the whole of   *)
(* its order (job_quantity).                                                *)
ImportedQuotes == [status : {"Draft", "Sent", "Issued", "Accepted"}, lead : {None}]
ImportedOrders == [status : {"Confirmed", "Completed", "Cancelled"}, qty : 1..MaxQty,
                   quote : (Quotes \cap Imported) \cup {None}, lead : {None}]
ImportedJobs == [order : Orders \cap Imported, status : {"Pending", "In Progress", "Completed"},
                 progress : {0, 100}, imported : {TRUE}]

ImportedSales ==
  /\ lead \in [Leads -> {"New", "Won", "Absent"}]
  /\ \A l \in Leads : l \in Imported <=> lead[l] # "Absent"
  /\ quote \in [Quotes -> ImportedQuotes \cup {NoQuote}]
  /\ \A q \in Quotes : q \in Imported <=> quote[q] # NoQuote
  /\ order \in [Orders -> ImportedOrders \cup {NoOrder}]
  /\ \A o \in Orders :
       /\ o \in Imported <=> order[o] # NoOrder
       /\ order[o].quote # None => quote[order[o].quote].status = "Accepted"

ImportedWork ==
  /\ job \in [Jobs -> ImportedJobs \cup {NoJob}]
  /\ \A j \in Jobs : job[j].status = "Completed" <=> job[j].progress = 100
  /\ jobQty = [j \in Jobs |-> IF job[j] = NoJob THEN 0 ELSE order[job[j].order].qty]
  /\ shipped \in [Orders -> 0..MaxQty]
  /\ \A o \in Own : shipped[o] = 0

ImportedBills ==
  /\ invoice \in [Invoices -> (Orders \cap Imported) \cup {None}]
  /\ \A i \in Invoices : i \in Imported <=> invoice[i] # None
  /\ paid \in [Invoices -> 0..MaxAmount]
  /\ \A i \in Invoices : paid[i] <= IF i \in Imported THEN Amount[i] ELSE 0

Init == ImportedSales /\ ImportedWork /\ ImportedBills

-----------------------------------------------------------------------------
JobsOf(o) == {j \in Jobs : job[j].order = o}
LiveJobs(o) == {j \in JobsOf(o) : job[j].status # "Cancelled"}
CompletedJobs(o) == {j \in JobsOf(o) : job[j].status = "Completed"}

PlannedQty(o) == Total(jobQty, LiveJobs(o))
CompletedQty(o) == Total(jobQty, CompletedJobs(o))

LeadFound(l) == l \in Leads => lead[l] # "Absent"
Exists(o) == order[o].status # "Absent"
Invoiced(o) == \E i \in Invoices : invoice[i] = o
Gross(i) == IF i \in Imported THEN Amount[i] ELSE Amount[invoice[i]]

(* Mutant: progress reported on a pending job does not begin the order. *)
SyncedStatusByStatus(o, jb, jq) ==
  LET live == {j \in Jobs : jb[j].order = o /\ jb[j].status # "Cancelled"}
      ready == live # {} /\ \A j \in live : jb[j].status = "Completed"
  IN  IF order[o].status \notin {"Confirmed", "In production", "Ready to dispatch"}
      THEN order[o].status
      ELSE IF ready THEN "Ready to dispatch"
      ELSE IF \E j \in live : jb[j].status # "Pending" THEN "In production"
      ELSE "Confirmed"

(* sync_order: the status of o that follows from its jobs jb with           *)
(* quantities jq, unless shipping or cancellation has already decided it.   *)
SyncedStatus(o, jb, jq) ==
  LET live == {j \in Jobs : jb[j].order = o /\ jb[j].status # "Cancelled"}
      ready == /\ live # {}
               /\ Total(jq, live) = order[o].qty
               /\ \A j \in live : jb[j].status = "Completed"
      begun == \E j \in live : jb[j].status # "Pending" \/ jb[j].progress # 0
  IN  IF order[o].status \notin {"Confirmed", "In production", "Ready to dispatch"}
      THEN order[o].status
      ELSE IF ready THEN "Ready to dispatch"
      ELSE IF begun THEN "In production"
      ELSE "Confirmed"

(* add(state, 'jobs', ...): job j is a new pending job of n units of o. *)
AddJobRow(j, o, n) ==
  /\ job[j] = NoJob
  /\ job' = [job EXCEPT ![j] = [order |-> o, status |-> "Pending", progress |-> 0,
                               imported |-> FALSE]]
  /\ jobQty' = [jobQty EXCEPT ![j] = n]

(* initial_job: an order without any job gets one for its whole quantity. *)
InitialJob(o, n, j) ==
  \/ JobsOf(o) = {} /\ AddJobRow(j, o, n)
  \/ JobsOf(o) # {} /\ UNCHANGED jobVars

(* A confirmed order wins the opportunity it is linked to. *)
WinLead(l) ==
  lead' = [k \in Leads |-> IF k = l THEN "Won" ELSE lead[k]]

-----------------------------------------------------------------------------
NewLead(l, s) ==
  /\ lead[l] = "Absent"
  /\ lead' = [lead EXCEPT ![l] = s]
  /\ UNCHANGED <<quote, order, jobVars, shipped, billVars>>

UpdateLead(l, s) ==
  /\ lead[l] # "Absent"
  /\ s = "Won" => \E o \in Orders : /\ order[o].lead = l
                                    /\ order[o].status \notin {"Draft", "Cancelled"}
  /\ lead' = [lead EXCEPT ![l] = s]
  /\ UNCHANGED <<quote, order, jobVars, shipped, billVars>>

NewQuote(q, l) ==
  /\ quote[q] = NoQuote
  /\ LeadFound(l)
  /\ quote' = [quote EXCEPT ![q] = [status |-> "Draft", lead |-> l]]
  /\ UNCHANGED <<lead, order, jobVars, shipped, billVars>>

(* quote-mark-sent also moves the linked opportunity, whatever its stage. *)
SendQuote(q) ==
  /\ quote[q].status = "Draft"
  /\ quote' = [quote EXCEPT ![q].status = "Sent"]
  /\ lead' = [l \in Leads |-> IF l = quote[q].lead THEN "Quotation sent" ELSE lead[l]]
  /\ UNCHANGED <<order, jobVars, shipped, billVars>>

CloseQuote(q, s) ==
  /\ quote[q].status \in {"Draft", "Sent"}
  /\ quote' = [quote EXCEPT ![q].status = s]
  /\ UNCHANGED <<lead, order, jobVars, shipped, billVars>>

(* Mutant: only the status guards against a second conversion, and it is    *)
(* left as it was.                                                          *)
ConvertQuoteAgain(q, o, n, j) ==
  /\ quote[q].status \in {"Draft", "Sent"}
  /\ order[o] = NoOrder
  /\ order' = [order EXCEPT ![o] = [status |-> "Confirmed", qty |-> n,
                                    quote |-> q, lead |-> quote[q].lead]]
  /\ InitialJob(o, n, j)
  /\ WinLead(quote[q].lead)
  /\ UNCHANGED <<quote, shipped, billVars>>

ConvertQuote(q, o, n, j) ==
  /\ quote[q].status \in {"Draft", "Sent"}
  /\ \A p \in Orders : order[p].quote # q
  /\ order[o] = NoOrder
  /\ order' = [order EXCEPT ![o] = [status |-> "Confirmed", qty |-> n,
                                    quote |-> q, lead |-> quote[q].lead]]
  /\ quote' = [quote EXCEPT ![q].status = "Accepted"]
  /\ InitialJob(o, n, j)
  /\ WinLead(quote[q].lead)
  /\ UNCHANGED <<shipped, billVars>>

NewDraftOrder(o, n, l) ==
  /\ order[o] = NoOrder
  /\ LeadFound(l)
  /\ order' = [order EXCEPT ![o] = [status |-> "Draft", qty |-> n,
                                    quote |-> None, lead |-> l]]
  /\ UNCHANGED <<salesVars, jobVars, shipped, billVars>>

NewConfirmedOrder(o, n, l, j) ==
  /\ order[o] = NoOrder
  /\ LeadFound(l)
  /\ order' = [order EXCEPT ![o] = [status |-> "Confirmed", qty |-> n,
                                    quote |-> None, lead |-> l]]
  /\ InitialJob(o, n, j)
  /\ WinLead(l)
  /\ UNCHANGED <<quote, shipped, billVars>>

(* Mutant: any order can be confirmed. *)
ConfirmAnyOrder(o, j) ==
  /\ Exists(o)
  /\ order' = [order EXCEPT ![o].status = "Confirmed"]
  /\ InitialJob(o, order[o].qty, j)
  /\ WinLead(order[o].lead)
  /\ UNCHANGED <<quote, shipped, billVars>>

(* order-confirm may be repeated on a confirmed order. *)
ConfirmOrder(o, j) ==
  /\ order[o].status \in {"Draft", "Confirmed"}
  /\ order' = [order EXCEPT ![o].status = "Confirmed"]
  /\ InitialJob(o, order[o].qty, j)
  /\ WinLead(order[o].lead)
  /\ UNCHANGED <<quote, shipped, billVars>>

(* Mutant: billed orders can be cancelled. *)
CancelBilledOrder(o) ==
  /\ order[o].status \in {"Draft", "Confirmed"}
  /\ \A j \in JobsOf(o) : job[j].progress = 0 /\ job[j].status \in {"Pending", "Cancelled"}
  /\ shipped[o] = 0
  /\ order' = [order EXCEPT ![o].status = "Cancelled"]
  /\ job' = [j \in Jobs |-> IF j \in JobsOf(o)
                            THEN [job[j] EXCEPT !.status = "Cancelled"] ELSE job[j]]
  /\ UNCHANGED <<salesVars, jobQty, shipped, billVars>>

CancelOrder(o) ==
  /\ order[o].status \in {"Draft", "Confirmed"}
  /\ \A j \in JobsOf(o) : /\ job[j].progress = 0
                          /\ job[j].status \in {"Pending", "Cancelled"}
  /\ shipped[o] = 0
  /\ ~Invoiced(o)
  /\ order' = [order EXCEPT ![o].status = "Cancelled"]
  /\ job' = [j \in Jobs |-> IF j \in JobsOf(o)
                            THEN [job[j] EXCEPT !.status = "Cancelled"] ELSE job[j]]
  /\ UNCHANGED <<salesVars, jobQty, shipped, billVars>>

-----------------------------------------------------------------------------
AddJob(o, j, n) ==
  /\ order[o].status \in {"Confirmed", "In production"}
  /\ PlannedQty(o) + n <= order[o].qty
  /\ AddJobRow(j, o, n)
  /\ order' = [order EXCEPT ![o].status = SyncedStatus(o, job', jobQty')]
  /\ UNCHANGED <<salesVars, shipped, billVars>>

(* Mutant: the split job keeps its quantity. *)
SplitJobCopying(j, k, n) ==
  /\ job[j].status = "Pending" /\ job[j].progress = 0
  /\ order[job[j].order].status \in {"Confirmed", "In production"}
  /\ n <= jobQty[j] - 1
  /\ job[k] = NoJob
  /\ jobQty' = [jobQty EXCEPT ![k] = n]
  /\ job' = [job EXCEPT ![k] = job[j]]
  /\ order' = [order EXCEPT ![job[j].order].status =
                              SyncedStatus(job[j].order, job', jobQty')]
  /\ UNCHANGED <<salesVars, shipped, billVars>>

(* job-split moves n units of the pending job j to a new job k. *)
SplitJob(j, k, n) ==
  /\ job[j].status = "Pending"
  /\ job[j].progress = 0
  /\ order[job[j].order].status \in {"Confirmed", "In production"}
  /\ n <= jobQty[j] - 1
  /\ job[k] = NoJob
  /\ jobQty' = [jobQty EXCEPT ![j] = @ - n, ![k] = n]
  /\ job' = [job EXCEPT ![k] = job[j]]
  /\ order' = [order EXCEPT ![job[j].order].status =
                              SyncedStatus(job[j].order, job', jobQty')]
  /\ UNCHANGED <<salesVars, shipped, billVars>>

(* job-update: reporting Completed or 100 percent closes the job. *)
UpdateJob(j, s, p) ==
  LET done == s = "Completed" \/ p = 100
      o == job[j].order
  IN  /\ job[j].status \notin {"Absent", "Completed", "Cancelled"}
      /\ order[o].status # "Cancelled"
      /\ job' = [job EXCEPT ![j].status = IF done THEN "Completed" ELSE s,
                            ![j].progress = IF done THEN 100 ELSE p]
      /\ order' = [order EXCEPT ![o].status = SyncedStatus(o, job', jobQty)]
      /\ UNCHANGED <<salesVars, jobQty, shipped, billVars>>

-----------------------------------------------------------------------------
(* Mutant: the last dispatch overlooks that the order is invoiced. *)
DispatchNeverCompletes(o, n) ==
  /\ Exists(o)
  /\ shipped[o] + n <= order[o].qty
  /\ shipped[o] + n <= CompletedQty(o)
  /\ shipped' = [shipped EXCEPT ![o] = @ + n]
  /\ order' = [order EXCEPT ![o].status =
                 IF shipped[o] + n < order[o].qty THEN "Partially dispatched"
                 ELSE "Dispatched"]
  /\ UNCHANGED <<salesVars, jobVars, billVars>>

Dispatch(o, n) ==
  /\ Exists(o)
  /\ shipped[o] + n <= order[o].qty
  /\ shipped[o] + n <= CompletedQty(o)
  /\ shipped' = [shipped EXCEPT ![o] = @ + n]
  /\ order' = [order EXCEPT ![o].status =
                 IF shipped[o] + n < order[o].qty THEN "Partially dispatched"
                 ELSE IF Invoiced(o) THEN "Completed" ELSE "Dispatched"]
  /\ UNCHANGED <<salesVars, jobVars, billVars>>

(* Mutant: billed again by another of the three commands. *)
CreateInvoiceAgain(o, i) ==
  /\ Exists(o)
  /\ order[o].status \notin {"Draft", "Cancelled"}
  /\ invoice[i] = None
  /\ invoice' = [invoice EXCEPT ![i] = o]
  /\ order' = IF shipped[o] = order[o].qty
              THEN [order EXCEPT ![o].status = "Completed"] ELSE order
  /\ UNCHANGED <<salesVars, jobVars, shipped, paid>>

(* invoice, invoice-from-order and dispatch-invoice all end in              *)
(* create_invoice; the last one only names the order by one of its          *)
(* dispatches.                                                              *)
CreateInvoice(o, i) ==
  /\ Exists(o)
  /\ order[o].status \notin {"Draft", "Cancelled"}
  /\ ~Invoiced(o)
  /\ invoice[i] = None
  /\ invoice' = [invoice EXCEPT ![i] = o]
  /\ order' = IF shipped[o] = order[o].qty
              THEN [order EXCEPT ![o].status = "Completed"] ELSE order
  /\ UNCHANGED <<salesVars, jobVars, shipped, paid>>

(* Mutant: earlier payments are not counted. *)
RecordPaymentUncounted(i, a) ==
  /\ invoice[i] # None
  /\ a <= Gross(i)
  /\ paid' = [paid EXCEPT ![i] = @ + a]
  /\ UNCHANGED <<salesVars, order, jobVars, shipped, invoice>>

RecordPayment(i, a) ==
  /\ invoice[i] # None
  /\ a <= Gross(i) - paid[i]
  /\ paid' = [paid EXCEPT ![i] = @ + a]
  /\ UNCHANGED <<salesVars, order, jobVars, shipped, invoice>>

-----------------------------------------------------------------------------
Qty == 1..MaxQty
LeadRef == Leads \cup {None}

SalesStep ==
  \/ \E l \in Leads : \E s \in OpenStages : NewLead(l, s)
  \/ \E l \in Leads : \E s \in Stages : UpdateLead(l, s)
  \/ \E q \in Quotes : \E l \in LeadRef : NewQuote(q, l)
  \/ \E q \in Quotes : SendQuote(q)
  \/ \E q \in Quotes : \E s \in {"Rejected", "Expired"} : CloseQuote(q, s)
  \/ \E q \in Quotes, o \in Orders, n \in Qty, j \in Jobs : ConvertQuote(q, o, n, j)
  \/ \E o \in Orders, n \in Qty, l \in LeadRef : NewDraftOrder(o, n, l)
  \/ \E o \in Orders, n \in Qty, l \in LeadRef, j \in Jobs : NewConfirmedOrder(o, n, l, j)
  \/ \E o \in Orders, j \in Jobs : ConfirmOrder(o, j)
  \/ \E o \in Orders : CancelOrder(o)

ProductionStep ==
  \/ \E o \in Orders, j \in Jobs, n \in Qty : AddJob(o, j, n)
  \/ \E j, k \in Jobs : \E n \in Qty : SplitJob(j, k, n)
  \/ \E j \in Jobs : \E s \in ReportedStatuses : \E p \in Progress : UpdateJob(j, s, p)

BillingStep ==
  \/ \E o \in Orders, n \in Qty : Dispatch(o, n)
  \/ \E o \in Orders, i \in Invoices : CreateInvoice(o, i)
  \/ \E i \in Invoices : \E a \in 1..MaxAmount : RecordPayment(i, a)

Next == SalesStep \/ ProductionStep \/ BillingStep

Spec == Init /\ [][Next]_vars

-----------------------------------------------------------------------------
(* Every variable holds rows of its collection or absent ones. *)
TypeOK ==
  /\ lead \in [Leads -> Stages \cup {"Absent"}]
  /\ quote \in [Quotes -> QuoteRows \cup {NoQuote}]
  /\ order \in [Orders -> OrderRows \cup {NoOrder}]
  /\ job \in [Jobs -> JobRows \cup {NoJob}]
  /\ jobQty \in [Jobs -> 0..MaxQty]
  /\ shipped \in [Orders -> 0..MaxQty]
  /\ invoice \in [Invoices -> Orders \cup {None}]
  /\ paid \in [Invoices -> 0..MaxAmount]

Underway(o) == order[o].status \notin {"Absent", "Draft", "Cancelled"}

(* Of an order taken here goods leave only after they are made, and no more *)
(* is made or planned than was ordered, however jobs were added, split,     *)
(* reported and dispatched in between.                                      *)
QuantityChain ==
  \A o \in Own : /\ shipped[o] <= CompletedQty(o)
                 /\ CompletedQty(o) <= PlannedQty(o)
                 /\ PlannedQty(o) <= order[o].qty

(* Splitting loses nothing: the jobs of an order that was confirmed here    *)
(* always add up to the order.                                              *)
WholeOrderPlanned ==
  \A o \in Own : Underway(o) => PlannedQty(o) = order[o].qty

(* Both: from the order to the truck no piece is lost, made twice or        *)
(* invented.                                                                *)
NoPieceLost == QuantityChain /\ WholeOrderPlanned

(* The shipping statuses say what was shipped and billed, also of an        *)
(* imported order.  Of one taken here Completed is exactly shipped in full  *)
(* and invoiced, in whichever order they happened; the importer gives it    *)
(* to an order by the status of the document alone.                         *)
StatusFollowsShipping ==
  \A o \in Orders : Exists(o) =>
    /\ order[o].status = "Dispatched" => shipped[o] = order[o].qty /\ ~Invoiced(o)
    /\ order[o].status = "Partially dispatched" => shipped[o] \in 1..(order[o].qty - 1)
    /\ o \in Own =>
         /\ shipped[o] = order[o].qty =>
              order[o].status = IF Invoiced(o) THEN "Completed" ELSE "Dispatched"
         /\ shipped[o] \in 1..(order[o].qty - 1) => order[o].status = "Partially dispatched"
         /\ order[o].status = "Completed" => shipped[o] = order[o].qty /\ Invoiced(o)

(* Until shipping starts, the status says how far the jobs are: an order in *)
(* production has a begun job, and a ready one has only completed jobs that *)
(* cover it, also when the jobs were imported.  Of an order taken here      *)
(* neither is said too late: a confirmed one has no begun job, and one in   *)
(* production is not all made.                                              *)
StatusFollowsJobs ==
  \A o \in Orders :
    LET begun == {j \in LiveJobs(o) : job[j].status # "Pending" \/ job[j].progress # 0}
    IN  /\ order[o].status = "In production" => begun # {}
        /\ order[o].status = "Ready to dispatch" =>
             LiveJobs(o) = CompletedJobs(o) /\ CompletedQty(o) = order[o].qty
        /\ o \in Own =>
             /\ order[o].status = "Confirmed" => begun = {}
             /\ order[o].status = "In production" => CompletedQty(o) < order[o].qty

(* Both: the stored status of an order says what happened to it. *)
StatusTruthful == StatusFollowsShipping /\ StatusFollowsJobs

(* A cancelled order was never worked on, shipped or billed, and never will *)
(* be: its jobs are kept, all of them cancelled.                            *)
CancelledIsInert ==
  \A o \in Own : order[o].status = "Cancelled" =>
    shipped[o] = 0 /\ ~Invoiced(o) /\ LiveJobs(o) = {}

(* No invoice, imported or not, is paid twice over.  Three commands create  *)
(* invoices, yet none bills an order that is billed already, be it by an    *)
(* imported invoice, or one that is a draft or is or will be cancelled.     *)
BilledOnce ==
  \A i \in Invoices : invoice[i] # None =>
    /\ paid[i] <= Gross(i)
    /\ i \notin Imported =>
         /\ Underway(invoice[i])
         /\ \A k \in Invoices : invoice[k] = invoice[i] => k = i

(* A quotation becomes an order once: what an order came out of is          *)
(* accepted, a quotation made here is not accepted without an order, and no *)
(* order taken here shares its quotation with another, an imported one      *)
(* included.                                                                *)
QuoteConvertedOnce ==
  \A q \in Quotes :
    LET made == {o \in Orders : order[o].quote = q}
    IN  /\ made # {} => quote[q].status = "Accepted"
        /\ q \notin Imported /\ quote[q].status = "Accepted" => made # {}
        /\ \A o, p \in made : o = p \/ {o, p} \subseteq Imported

(* An order confirmed here is never stuck: until it is completed some       *)
(* command that brings it forward is accepted.                              *)
NeverStuck ==
  \A o \in Own : Underway(o) /\ order[o].status # "Completed" =>
    \/ ~Invoiced(o)
    \/ shipped[o] < CompletedQty(o)
    \/ \E j \in JobsOf(o) : job[j].status \notin {"Completed", "Cancelled"}

(* An order never goes back: once shipping started it is in a shipping      *)
(* status for good, and a cancelled or completed order that was taken here  *)
(* stays that.  An opportunity becomes won only together with, or after, a  *)
(* linked order that is confirmed and not cancelled.                        *)
Shipping == {"Partially dispatched", "Dispatched", "Completed"}
NothingGoesBack ==
  [][/\ \A o \in Orders :
          /\ order[o].status \in Shipping => order'[o].status \in Shipping
          /\ o \in Own /\ order[o].status \in {"Completed", "Cancelled"} => order'[o] = order[o]
          /\ Underway(o) => order'[o].status \notin {"Draft", "Absent"}
          /\ shipped[o] <= shipped'[o]
     /\ \A l \in Leads : lead[l] # "Won" /\ lead'[l] = "Won" =>
          \E o \in Orders : /\ order'[o].lead = l
                            /\ order'[o].status \notin {"Draft", "Cancelled"}]_vars

-----------------------------------------------------------------------------
(* Of the orders taken here the commands implement the promise of module    *)
(* Fulfilment: what is made is the quantity of the completed jobs, so       *)
(* splitting, assigning and reporting jobs can neither make nor lose goods. *)
Promise == INSTANCE Fulfilment WITH
  Orders <- Own,
  phase <- [o \in Own |-> IF Underway(o) THEN "agreed"
                          ELSE IF order[o].status = "Cancelled" THEN "dropped"
                          ELSE "offered"],
  ordered <- [o \in Own |-> IF Underway(o) THEN order[o].qty ELSE 0],
  made <- [o \in Own |-> CompletedQty(o)],
  sent <- [o \in Own |-> shipped[o]],
  billed <- [o \in Own |-> Invoiced(o)],
  received <- [o \in Own |-> Total(paid, {i \in Invoices : invoice[i] = o})]
ImplementsFulfilment == Promise!Spec

=============================================================================
