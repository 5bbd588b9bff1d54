-------------------------- MODULE WorkspaceProofs ---------------------------
(***************************************************************************)
(* Proofs about modules Workspace and WorkspaceStock, for any sets of rows, *)
(* any bounds and any amounts: first the quantities, cancellation and       *)
(* billing (WorkspaceInv), over these the stored statuses and quotations    *)
(* (StatusInv), that the commands implement module Fulfilment, and last the *)
(* stock of an entitled company (StockInv) and the moves that explain it.   *)
(***************************************************************************)
EXTENDS WorkspaceStock, QuantityTheorems

(* Jobs belong to orders that were confirmed at some time. *)
JobsHaveOrders ==
  \A j \in Jobs : job[j] # NoJob =>
    order[job[j].order].status \notin {"Absent", "Draft"}

(* Imported invoices bill imported orders. *)
ImportsAreBilled ==
  \A i \in Invoices \cap Imported : invoice[i] \in Orders \cap Imported

(* Payments are recorded on invoices only. *)
PaymentsHaveInvoices ==
  \A i \in Invoices : invoice[i] = None => paid[i] = 0

(* The inductive invariant. *)
WorkspaceInv ==
  /\ TypeOK
  /\ JobsHaveOrders
  /\ QuantityChain
  /\ WholeOrderPlanned
  /\ CancelledIsInert
  /\ ImportsAreBilled
  /\ BilledOnce
  /\ PaymentsHaveInvoices

(* The rows of a job or an order that is there. *)
LEMMA RowTypes ==
  ASSUME TypeOK
  PROVE  /\ \A j \in Jobs : job[j].status # "Absent" => job[j] \in JobRows
         /\ \A o \in Orders : Exists(o) => order[o] \in OrderRows
         /\ \A q \in Quotes : quote[q].status # "Absent" => quote[q] \in QuoteRows
         /\ \A j \in Jobs, o \in Orders : job[j].order = o => job[j] \in JobRows
BY RowsAssumption DEF TypeOK, Exists, NoJob, NoOrder, NoQuote

(* sync_order keeps the status of an order or gives it one of three. *)
LEMMA SyncedStatusType ==
  ASSUME NEW o, NEW jb, NEW jq
  PROVE  \/ SyncedStatus(o, jb, jq) = order[o].status
         \/ SyncedStatus(o, jb, jq) \in {"Confirmed", "In production", "Ready to dispatch"}
BY DEF SyncedStatus

(* What there is to begin with: of the orders taken here nothing, and of    *)
(* the imported rows what the importer makes.                               *)
LEMMA ImportedRows ==
  ASSUME Init
  PROVE  /\ \A o \in Own : order[o] = NoOrder /\ shipped[o] = 0
         /\ \A o \in Orders \cap Imported : order[o] \in ImportedOrders
         /\ \A j \in Jobs : job[j] # NoJob =>
              job[j] \in ImportedJobs /\ jobQty[j] = order[job[j].order].qty
         /\ \A j \in Jobs : job[j] = NoJob => jobQty[j] = 0
         /\ \A i \in Invoices : paid[i] \in 0..MaxAmount
         /\ \A i \in Invoices \cap Imported :
              invoice[i] \in Orders \cap Imported /\ paid[i] <= Amount[i]
         /\ \A i \in Invoices \ Imported : invoice[i] = None /\ paid[i] = 0
<1>1. \A o \in Own : order[o] = NoOrder /\ shipped[o] = 0
  BY DEF Init, ImportedSales, ImportedWork, Own
<1>2. \A o \in Orders \cap Imported : order[o] \in ImportedOrders
  BY DEF Init, ImportedSales
<1>3. /\ \A j \in Jobs : job[j] # NoJob =>
           job[j] \in ImportedJobs /\ jobQty[j] = order[job[j].order].qty
      /\ \A j \in Jobs : job[j] = NoJob => jobQty[j] = 0
  BY DEF Init, ImportedWork
<1>4. /\ \A i \in Invoices \cap Imported :
           invoice[i] \in Orders \cap Imported /\ paid[i] <= Amount[i]
      /\ \A i \in Invoices \ Imported : invoice[i] = None /\ paid[i] <= 0
      /\ \A i \in Invoices : paid[i] \in 0..MaxAmount
  BY DEF Init, ImportedBills
<1>5. \A i \in Invoices \ Imported : paid[i] = 0
  BY <1>4, BoundsAssumption
<1>6. QED
  BY <1>1, <1>2, <1>3, <1>4, <1>5

LEMMA InitTyped == Init => TypeOK
<1> SUFFICES ASSUME Init
             PROVE  TypeOK
  OBVIOUS
<1>1. ImportedOrders \subseteq OrderRows
  BY DEF ImportedOrders, OrderRows, OrderStatuses
<1>2. order \in [Orders -> OrderRows \cup {NoOrder}]
  BY <1>1 DEF Init, ImportedSales
<1>3. ImportedQuotes \subseteq QuoteRows
  BY DEF ImportedQuotes, QuoteRows, QuoteStatuses
<1>4. /\ quote \in [Quotes -> QuoteRows \cup {NoQuote}]
      /\ lead \in [Leads -> Stages \cup {"Absent"}]
  BY <1>3 DEF Init, ImportedSales, Stages, OpenStages
<1>5. ImportedJobs \subseteq JobRows
  BY ProgressAssumption DEF ImportedJobs, JobRows, JobStatuses, ReportedStatuses
<1>6. job \in [Jobs -> JobRows \cup {NoJob}]
  BY <1>5 DEF Init, ImportedWork
<1>7. jobQty \in [Jobs -> 0..MaxQty]
  <2>1. jobQty = [j \in Jobs |-> IF job[j] = NoJob THEN 0 ELSE order[job[j].order].qty]
    BY DEF Init, ImportedWork
  <2>2. ASSUME NEW j \in Jobs
        PROVE  jobQty[j] \in 0..MaxQty
    <3>1. CASE job[j] = NoJob
      BY <2>1, <3>1, BoundsAssumption
    <3>2. CASE job[j] # NoJob
      <4>1. job[j].order \in Orders \cap Imported
        BY <3>2, ImportedRows DEF ImportedJobs
      <4>2. order[job[j].order] \in ImportedOrders
        BY <4>1, ImportedRows
      <4>3. order[job[j].order].qty \in 1..MaxQty
        BY <4>2 DEF ImportedOrders
      <4>4. QED
        BY <2>1, <3>2, <4>3, BoundsAssumption
    <3>3. QED
      BY <3>1, <3>2
  <2>3. QED
    BY <2>1, <2>2
<1>8. /\ shipped \in [Orders -> 0..MaxQty]
      /\ invoice \in [Invoices -> Orders \cup {None}]
      /\ paid \in [Invoices -> 0..MaxAmount]
  BY DEF Init, ImportedWork, ImportedBills
<1>9. QED
  BY <1>2, <1>4, <1>6, <1>7, <1>8 DEF TypeOK

(* The row that a status change leaves behind. *)
LEMMA StatusChange ==
  ASSUME TypeOK, NEW o \in Orders, Exists(o), NEW s \in OrderStatuses
  PROVE  [order EXCEPT ![o].status = s] \in [Orders -> OrderRows \cup {NoOrder}]
BY RowTypes DEF TypeOK, OrderRows

LEMMA StatusWritten ==
  ASSUME TypeOK, NEW o \in Orders, Exists(o), NEW s,
         order' = [order EXCEPT ![o].status = s]
  PROVE  /\ order'[o].status = s
         /\ \A p \in Orders \ {o} : order'[p] = order[p]
<1>1. order[o] \in OrderRows
  BY RowTypes
<1>2. QED
  BY <1>1 DEF TypeOK, OrderRows

LEMMA AddJobRowTyped ==
  ASSUME TypeOK, NEW j \in Jobs, NEW o \in Orders, NEW n \in Qty, AddJobRow(j, o, n)
  PROVE  /\ job' \in [Jobs -> JobRows \cup {NoJob}]
         /\ jobQty' \in [Jobs -> 0..MaxQty]
<1>1. [order |-> o, status |-> "Pending", progress |-> 0, imported |-> FALSE] \in JobRows
  BY ProgressAssumption DEF JobRows, JobStatuses, ReportedStatuses
<1>2. n \in 0..MaxQty
  BY BoundsAssumption DEF Qty
<1>3. QED
  BY <1>1, <1>2 DEF AddJobRow, TypeOK

LEMMA InitialJobTyped ==
  ASSUME TypeOK, NEW j \in Jobs, NEW o \in Orders, NEW n \in Qty, InitialJob(o, n, j)
  PROVE  /\ job' \in [Jobs -> JobRows \cup {NoJob}]
         /\ jobQty' \in [Jobs -> 0..MaxQty]
BY AddJobRowTyped DEF InitialJob, jobVars, TypeOK

LEMMA WinLeadTyped ==
  ASSUME TypeOK, NEW l, WinLead(l)
  PROVE  lead' \in [Leads -> Stages \cup {"Absent"}]
BY DEF WinLead, TypeOK, Stages

(* Every sales command keeps the rows well-formed. *)
LEMMA SalesTyped == TypeOK /\ SalesStep => TypeOK'
<1> SUFFICES ASSUME TypeOK, SalesStep
             PROVE  TypeOK'
  OBVIOUS
<1> USE DEF salesVars, jobVars, billVars, LeadRef
<1>1. ASSUME NEW l \in Leads, NEW s \in Stages, NewLead(l, s) \/ UpdateLead(l, s)
      PROVE  TypeOK'
  BY <1>1 DEF NewLead, UpdateLead, TypeOK
<1>2. ASSUME NEW q \in Quotes, NEW l \in LeadRef, NewQuote(q, l)
      PROVE  TypeOK'
  BY <1>2 DEF NewQuote, TypeOK, QuoteRows, QuoteStatuses
<1>3. ASSUME NEW q \in Quotes, SendQuote(q)
      PROVE  TypeOK'
  <2>1. [quote EXCEPT ![q].status = "Sent"] \in [Quotes -> QuoteRows \cup {NoQuote}]
    BY <1>3, RowTypes DEF SendQuote, TypeOK, QuoteRows, QuoteStatuses
  <2>2. lead' \in [Leads -> Stages \cup {"Absent"}]
    BY <1>3 DEF SendQuote, TypeOK, Stages, OpenStages
  <2>3. QED
    BY <1>3, <2>1, <2>2 DEF SendQuote, TypeOK
<1>4. ASSUME NEW q \in Quotes, NEW s \in {"Rejected", "Expired"}, CloseQuote(q, s)
      PROVE  TypeOK'
  <2>1. [quote EXCEPT ![q].status = s] \in [Quotes -> QuoteRows \cup {NoQuote}]
    BY <1>4, RowTypes DEF CloseQuote, TypeOK, QuoteRows, QuoteStatuses
  <2>2. QED
    BY <1>4, <2>1 DEF CloseQuote, TypeOK
<1>5. ASSUME NEW q \in Quotes, NEW o \in Orders, NEW n \in Qty, NEW j \in Jobs,
             ConvertQuote(q, o, n, j)
      PROVE  TypeOK'
  <2>1. quote[q] \in QuoteRows
    BY <1>5, RowTypes DEF ConvertQuote
  <2>2. [quote EXCEPT ![q].status = "Accepted"] \in [Quotes -> QuoteRows \cup {NoQuote}]
    BY <2>1 DEF TypeOK, QuoteRows, QuoteStatuses
  <2>3. [status |-> "Confirmed", qty |-> n, quote |-> q, lead |-> quote[q].lead] \in OrderRows
    BY <2>1 DEF QuoteRows, OrderRows, OrderStatuses, Qty
  <2>4. QED
    BY <1>5, <2>2, <2>3, InitialJobTyped, WinLeadTyped DEF ConvertQuote, TypeOK
<1>6. ASSUME NEW o \in Orders, NEW n \in Qty, NEW l \in LeadRef, NewDraftOrder(o, n, l)
      PROVE  TypeOK'
  <2>1. [status |-> "Draft", qty |-> n, quote |-> None, lead |-> l] \in OrderRows
    BY DEF OrderRows, OrderStatuses, Qty
  <2>2. QED
    BY <1>6, <2>1 DEF NewDraftOrder, TypeOK
<1>7. ASSUME NEW o \in Orders, NEW n \in Qty, NEW l \in LeadRef, NEW j \in Jobs,
             NewConfirmedOrder(o, n, l, j)
      PROVE  TypeOK'
  <2>1. [status |-> "Confirmed", qty |-> n, quote |-> None, lead |-> l] \in OrderRows
    BY DEF OrderRows, OrderStatuses, Qty
  <2>2. QED
    BY <1>7, <2>1, InitialJobTyped, WinLeadTyped DEF NewConfirmedOrder, TypeOK
<1>8. ASSUME NEW o \in Orders, NEW j \in Jobs, ConfirmOrder(o, j)
      PROVE  TypeOK'
  <2>1. Exists(o) /\ order[o].qty \in Qty
    BY <1>8, RowTypes DEF ConfirmOrder, Exists, OrderRows, Qty
  <2>2. order' \in [Orders -> OrderRows \cup {NoOrder}]
    BY <1>8, <2>1, StatusChange DEF ConfirmOrder, OrderStatuses
  <2>3. QED
    BY <1>8, <2>1, <2>2, InitialJobTyped, WinLeadTyped DEF ConfirmOrder, TypeOK
<1>9. ASSUME NEW o \in Orders, CancelOrder(o)
      PROVE  TypeOK'
  <2>1. order' \in [Orders -> OrderRows \cup {NoOrder}]
    BY <1>9, StatusChange DEF CancelOrder, Exists, OrderStatuses
  <2>2. \A j \in JobsOf(o) : [job[j] EXCEPT !.status = "Cancelled"] \in JobRows
    BY RowTypes DEF JobsOf, JobRows, JobStatuses
  <2>3. job' \in [Jobs -> JobRows \cup {NoJob}]
    BY <1>9, <2>2 DEF CancelOrder, TypeOK
  <2>4. QED
    BY <1>9, <2>1, <2>3 DEF CancelOrder, TypeOK
<1>10. OpenStages \subseteq Stages
  BY DEF Stages
<1>11. QED
  BY <1>1, <1>2, <1>3, <1>4, <1>5, <1>6, <1>7, <1>8, <1>9, <1>10 DEF SalesStep

(* sync_order writes a status into an order that is there. *)
LEMMA SyncTyped ==
  ASSUME TypeOK, NEW o \in Orders, Exists(o), NEW jb, NEW jq,
         order' = [order EXCEPT ![o].status = SyncedStatus(o, jb, jq)]
  PROVE  order' \in [Orders -> OrderRows \cup {NoOrder}]
<1>1. SyncedStatus(o, jb, jq) \in OrderStatuses
  BY SyncedStatusType, RowTypes DEF OrderRows, OrderStatuses
<1>2. QED
  BY <1>1, StatusChange

LEMMA ProductionTyped == TypeOK /\ JobsHaveOrders /\ ProductionStep => TypeOK'
<1> SUFFICES ASSUME TypeOK, JobsHaveOrders, ProductionStep
             PROVE  TypeOK'
  OBVIOUS
<1> USE DEF salesVars, jobVars, billVars
<1>1. ASSUME NEW o \in Orders, NEW j \in Jobs, NEW n \in Qty, AddJob(o, j, n)
      PROVE  TypeOK'
  <2>1. order' \in [Orders -> OrderRows \cup {NoOrder}]
    BY <1>1, SyncTyped DEF AddJob, Exists
  <2>2. QED
    BY <1>1, <2>1, AddJobRowTyped DEF AddJob, TypeOK
<1>2. ASSUME NEW j \in Jobs, NEW k \in Jobs, NEW n \in Qty, SplitJob(j, k, n)
      PROVE  TypeOK'
  <2>1. job[j] \in JobRows
    BY <1>2, RowTypes DEF SplitJob
  <2>2. order' \in [Orders -> OrderRows \cup {NoOrder}]
    BY <1>2, <2>1, SyncTyped DEF SplitJob, Exists, JobRows
  <2>3. job' \in [Jobs -> JobRows \cup {NoJob}]
    BY <1>2, <2>1 DEF SplitJob, TypeOK
  <2>4. jobQty' \in [Jobs -> 0..MaxQty]
    <3>1. jobQty[j] \in 0..MaxQty /\ n \in 1..MaxQty /\ n <= jobQty[j] - 1
      BY <1>2 DEF SplitJob, TypeOK, Qty
    <3>2. jobQty[j] - n \in 0..MaxQty /\ n \in 0..MaxQty
      BY <3>1, BoundsAssumption
    <3>3. QED
      BY <1>2, <3>2 DEF SplitJob, TypeOK
  <2>5. QED
    BY <1>2, <2>2, <2>3, <2>4 DEF SplitJob, TypeOK
<1>3. ASSUME NEW j \in Jobs, NEW s \in ReportedStatuses, NEW p \in Progress,
             UpdateJob(j, s, p)
      PROVE  TypeOK'
  <2>1. job[j] \in JobRows
    BY <1>3, RowTypes DEF UpdateJob
  <2>2. Exists(job[j].order)
    BY <1>3, <2>1 DEF UpdateJob, JobsHaveOrders, NoJob, JobRows, Exists
  <2>3. order' \in [Orders -> OrderRows \cup {NoOrder}]
    <3>1. job[j].order \in Orders
      BY <2>1 DEF JobRows
    <3>2. order' = [order EXCEPT ![job[j].order].status =
                                   SyncedStatus(job[j].order, job', jobQty)]
      BY <1>3 DEF UpdateJob
    <3>3. QED
      BY <2>2, <3>1, <3>2, SyncTyped
  <2>4. job' \in [Jobs -> JobRows \cup {NoJob}]
    <3> DEFINE done == s = "Completed" \/ p = 100
               row == [job[j] EXCEPT !.status = IF done THEN "Completed" ELSE s,
                                     !.progress = IF done THEN 100 ELSE p]
    <3>1. row \in JobRows
      <4>1. (IF done THEN "Completed" ELSE s) \in JobStatuses
        BY DEF JobStatuses, ReportedStatuses
      <4>2. (IF done THEN 100 ELSE p) \in Progress
        BY ProgressAssumption
      <4> HIDE DEF done
      <4>3. QED
        BY <2>1, <4>1, <4>2 DEF JobRows
    <3>2. job' = [job EXCEPT ![j] = row]
      BY <1>3 DEF UpdateJob
    <3>3. QED
      BY <3>1, <3>2 DEF TypeOK
  <2>5. QED
    BY <1>3, <2>3, <2>4 DEF UpdateJob, TypeOK
<1>4. QED
  BY <1>1, <1>2, <1>3 DEF ProductionStep

LEMMA BillingTyped == TypeOK /\ BillingStep => TypeOK'
<1> SUFFICES ASSUME TypeOK, BillingStep
             PROVE  TypeOK'
  OBVIOUS
<1> USE DEF salesVars, jobVars, billVars
<1>1. ASSUME NEW o \in Orders, NEW n \in Qty, Dispatch(o, n)
      PROVE  TypeOK'
  <2>1. order' \in [Orders -> OrderRows \cup {NoOrder}]
    BY <1>1, StatusChange DEF Dispatch, OrderStatuses
  <2>2. shipped[o] + n \in 0..MaxQty
    <3>1. order[o].qty \in 1..MaxQty
      BY <1>1, RowTypes DEF Dispatch, OrderRows
    <3>2. shipped[o] \in 0..MaxQty /\ n \in 1..MaxQty /\ shipped[o] + n <= order[o].qty
      BY <1>1 DEF Dispatch, TypeOK, Qty
    <3>3. QED
      BY <3>1, <3>2, BoundsAssumption
  <2>3. QED
    BY <1>1, <2>1, <2>2 DEF Dispatch, TypeOK
<1>2. ASSUME NEW o \in Orders, NEW i \in Invoices, CreateInvoice(o, i)
      PROVE  TypeOK'
  <2>1. order' \in [Orders -> OrderRows \cup {NoOrder}]
    BY <1>2, StatusChange DEF CreateInvoice, OrderStatuses, TypeOK
  <2>2. QED
    BY <1>2, <2>1 DEF CreateInvoice, TypeOK
<1>3. ASSUME NEW i \in Invoices, NEW a \in 1..MaxAmount, RecordPayment(i, a)
      PROVE  TypeOK'
  <2>1. Gross(i) \in 1..MaxAmount /\ paid[i] \in 0..MaxAmount
    BY <1>3, AmountAssumption DEF RecordPayment, TypeOK, Gross
  <2>2. paid[i] + a \in 0..MaxAmount
    BY <1>3, <2>1, BoundsAssumption DEF RecordPayment
  <2>3. QED
    BY <1>3, <2>2 DEF RecordPayment, TypeOK
<1>4. QED
  BY <1>1, <1>2, <1>3 DEF BillingStep

LEMMA TypedStep == TypeOK /\ JobsHaveOrders /\ [Next]_vars => TypeOK'
<1>1. TypeOK /\ UNCHANGED vars => TypeOK'
  BY DEF TypeOK, vars, salesVars, jobVars, billVars
<1>2. QED
  BY <1>1, SalesTyped, ProductionTyped, BillingTyped DEF Next

-----------------------------------------------------------------------------
(* What the steps do to orders and jobs, where they agree.                  *)

(* Steps that concern neither orders nor jobs nor shipping nor billing. *)
Quiet == UNCHANGED <<order, job, jobQty, shipped, invoice>>

(* A new confirmed order, a converted quotation or a confirmed draft. *)
Confirming(o, n, j) ==
  /\ order[o].status \in {"Absent", "Draft", "Confirmed"}
  /\ Exists(o) => n = order[o].qty
  /\ order'[o].status = "Confirmed"
  /\ order'[o].qty = n
  /\ \A p \in Orders \ {o} : order'[p] = order[p]
  /\ InitialJob(o, n, j)
  /\ UNCHANGED <<shipped, invoice, paid>>

LEMMA StepKinds ==
  ASSUME TypeOK, [Next]_vars
  PROVE  \/ Quiet
         \/ \E o \in Orders, n \in Qty, l \in LeadRef : NewDraftOrder(o, n, l)
         \/ \E o \in Orders, n \in Qty, j \in Jobs : Confirming(o, n, j)
         \/ \E o \in Orders : CancelOrder(o)
         \/ \E o \in Orders, j \in Jobs, n \in Qty : AddJob(o, j, n)
         \/ \E j, k \in Jobs : \E n \in Qty : SplitJob(j, k, n)
         \/ \E j \in Jobs : \E s \in ReportedStatuses : \E p \in Progress : UpdateJob(j, s, p)
         \/ \E o \in Orders, n \in Qty : Dispatch(o, n)
         \/ \E o \in Orders, i \in Invoices : CreateInvoice(o, i)
<1> USE DEF salesVars, jobVars, billVars
<1>1. UNCHANGED vars => Quiet
  BY DEF vars, Quiet
<1>2. \A l \in Leads, s \in Stages : NewLead(l, s) \/ UpdateLead(l, s) => Quiet
  BY DEF NewLead, UpdateLead, Quiet
<1>3. \A q \in Quotes : \/ \E l \in LeadRef : NewQuote(q, l)
                        \/ SendQuote(q)
                        \/ \E s \in {"Rejected", "Expired"} : CloseQuote(q, s)
                        => Quiet
  BY DEF NewQuote, SendQuote, CloseQuote, Quiet
<1>4. \A q \in Quotes, o \in Orders, n \in Qty, j \in Jobs :
        ConvertQuote(q, o, n, j) => Confirming(o, n, j)
  BY DEF ConvertQuote, Confirming, TypeOK, NoOrder, Exists
<1>5. \A o \in Orders, n \in Qty, l \in LeadRef, j \in Jobs :
        NewConfirmedOrder(o, n, l, j) => Confirming(o, n, j)
  BY DEF NewConfirmedOrder, Confirming, TypeOK, NoOrder, Exists
<1>6. \A o \in Orders, j \in Jobs :
        ConfirmOrder(o, j) => \E n \in Qty : Confirming(o, n, j)
  <2> SUFFICES ASSUME NEW o \in Orders, NEW j \in Jobs, ConfirmOrder(o, j)
               PROVE  \E n \in Qty : Confirming(o, n, j)
    OBVIOUS
  <2>1. Exists(o) /\ order[o] \in OrderRows
    BY RowTypes DEF ConfirmOrder, Exists
  <2>2. order[o].qty \in Qty
    BY <2>1 DEF OrderRows, Qty
  <2>3. order'[o].status = "Confirmed" /\ order'[o].qty = order[o].qty
    BY <2>1 DEF ConfirmOrder, TypeOK, OrderRows
  <2>4. Confirming(o, order[o].qty, j)
    BY <2>1, <2>3 DEF ConfirmOrder, Confirming, TypeOK
  <2>5. QED
    BY <2>2, <2>4
<1>7. \A i \in Invoices, a \in 1..MaxAmount : RecordPayment(i, a) => Quiet
  BY DEF RecordPayment, Quiet
<1>8. OpenStages \subseteq Stages
  BY DEF Stages
<1>9. CASE SalesStep
  BY <1>2, <1>3, <1>4, <1>5, <1>6, <1>8, <1>9 DEF SalesStep
<1>10. CASE ProductionStep
  BY <1>10 DEF ProductionStep
<1>11. CASE BillingStep
  BY <1>7, <1>11 DEF BillingStep
<1>12. QED
  BY <1>1, <1>9, <1>10, <1>11 DEF Next

(* The job that a confirmation adds, if it adds one. *)
LEMMA InitialJobEffect ==
  ASSUME TypeOK, NEW o \in Orders, NEW n, NEW j \in Jobs, InitialJob(o, n, j)
  PROVE  \A k \in Jobs : \/ job'[k] = job[k]
                         \/ /\ k = j
                            /\ job[k] = NoJob
                            /\ job'[k] = [order |-> o, status |-> "Pending", progress |-> 0,
                                          imported |-> FALSE]
BY DEF InitialJob, AddJobRow, jobVars, TypeOK

(* Jobs stay with their order, and a new job belongs to an order that its   *)
(* command leaves confirmed or in production.                               *)
LEMMA JobsStay ==
  ASSUME TypeOK, JobsHaveOrders, [Next]_vars, NEW j \in Jobs
  PROVE  /\ job[j] # NoJob => job'[j].order = job[j].order
         /\ job[j] = NoJob /\ job'[j] # NoJob =>
              /\ job'[j].order \in Orders
              /\ order'[job'[j].order].status \notin {"Absent", "Draft"}
<1> DEFINE Goal == /\ job[j] # NoJob => job'[j].order = job[j].order
                   /\ job[j] = NoJob /\ job'[j] # NoJob =>
                        /\ job'[j].order \in Orders
                        /\ order'[job'[j].order].status \notin {"Absent", "Draft"}
<1> USE DEF salesVars, jobVars, billVars
<1>1. Quiet => Goal
  BY DEF Quiet
<1>2. \A o \in Orders, n \in Qty, l \in LeadRef : NewDraftOrder(o, n, l) => Goal
  BY DEF NewDraftOrder
<1>3. ASSUME NEW o \in Orders, NEW n \in Qty, NEW k \in Jobs, Confirming(o, n, k)
      PROVE  Goal
  <2>1. InitialJob(o, n, k) /\ order'[o].status = "Confirmed"
    BY <1>3 DEF Confirming
  <2>2. \/ job'[j] = job[j]
        \/ /\ job[j] = NoJob
           /\ job'[j] = [order |-> o, status |-> "Pending", progress |-> 0, imported |-> FALSE]
    BY <2>1, InitialJobEffect
  <2>3. QED
    BY <2>1, <2>2
<1>4. ASSUME NEW o \in Orders, CancelOrder(o)
      PROVE  Goal
  <2>1. CASE j \in JobsOf(o)
    <3>1. job[j] \in JobRows
      BY <2>1, RowTypes DEF JobsOf
    <3>2. job'[j] = [job[j] EXCEPT !.status = "Cancelled"]
      BY <1>4, <2>1 DEF CancelOrder
    <3>3. job[j] # NoJob
      BY <2>1, RowsAssumption DEF JobsOf, NoJob
    <3>4. job'[j].order = job[j].order
      BY <3>1, <3>2 DEF JobRows
    <3>5. QED
      BY <3>3, <3>4
  <2>2. CASE j \notin JobsOf(o)
    BY <1>4, <2>2 DEF CancelOrder
  <2>3. QED
    BY <2>1, <2>2
<1>5. ASSUME NEW o \in Orders, NEW k \in Jobs, NEW n \in Qty, AddJob(o, k, n)
      PROVE  Goal
  <2>1. order'[o].status \notin {"Absent", "Draft"}
    <3>1. order' = [order EXCEPT ![o].status = SyncedStatus(o, job', jobQty')]
      BY <1>5 DEF AddJob
    <3>2. order'[o].status = SyncedStatus(o, job', jobQty')
      BY <3>1, RowTypes DEF TypeOK, OrderRows, NoOrder
    <3>3. order[o].status \in {"Confirmed", "In production"}
      BY <1>5 DEF AddJob
    <3>4. \/ SyncedStatus(o, job', jobQty') = order[o].status
          \/ SyncedStatus(o, job', jobQty') \in {"Confirmed", "In production", "Ready to dispatch"}
      BY SyncedStatusType
    <3>5. QED
      BY <3>2, <3>3, <3>4
  <2>2. QED
    BY <1>5, <2>1 DEF AddJob, AddJobRow, TypeOK
<1>6. ASSUME NEW i \in Jobs, NEW k \in Jobs, NEW n \in Qty, SplitJob(i, k, n)
      PROVE  Goal
  <2> DEFINE o == job[i].order
  <2>1. job[i] \in JobRows /\ o \in Orders
    BY <1>6, RowTypes DEF SplitJob, JobRows
  <2>2. order'[o].status \notin {"Absent", "Draft"}
    <3>1. order' = [order EXCEPT ![o].status = SyncedStatus(o, job', jobQty')]
      BY <1>6 DEF SplitJob
    <3>2. order'[o].status = SyncedStatus(o, job', jobQty')
      BY <2>1, <3>1, RowTypes DEF TypeOK, OrderRows, NoOrder
    <3>3. order[o].status \in {"Confirmed", "In production"}
      BY <1>6 DEF SplitJob
    <3>4. \/ SyncedStatus(o, job', jobQty') = order[o].status
          \/ SyncedStatus(o, job', jobQty') \in {"Confirmed", "In production", "Ready to dispatch"}
      BY SyncedStatusType
    <3>5. QED
      BY <3>2, <3>3, <3>4
  <2>3. QED
    BY <1>6, <2>1, <2>2 DEF SplitJob, TypeOK
<1>7. ASSUME NEW i \in Jobs, NEW s \in ReportedStatuses, NEW p \in Progress,
             UpdateJob(i, s, p)
      PROVE  Goal
  <2>1. job[i] # NoJob
    BY <1>7 DEF UpdateJob, NoJob
  <2>2. job'[j].order = job[j].order /\ (j # i => job'[j] = job[j])
    BY <1>7 DEF UpdateJob, TypeOK, JobRows, NoJob
  <2>3. QED
    BY <2>1, <2>2
<1>8. \A o \in Orders, n \in Qty : Dispatch(o, n) => Goal
  BY DEF Dispatch
<1>9. \A o \in Orders, i \in Invoices : CreateInvoice(o, i) => Goal
  BY DEF CreateInvoice
<1>10. QED
  BY <1>1, <1>2, <1>3, <1>4, <1>5, <1>6, <1>7, <1>8, <1>9, StepKinds

(* An order that is there keeps its quantity and never goes back to a       *)
(* draft; one that is under way stays so unless it is cancelled.            *)
LEMMA OrdersAdvance ==
  ASSUME TypeOK, JobsHaveOrders, [Next]_vars, NEW o \in Orders, Exists(o)
  PROVE  /\ order'[o].qty = order[o].qty
         /\ order[o].status # "Draft" => order'[o].status \notin {"Absent", "Draft"}
         /\ Underway(o) => Underway(o)' \/ CancelOrder(o)
<1> DEFINE Goal == /\ order'[o].qty = order[o].qty
                   /\ order[o].status # "Draft" => order'[o].status \notin {"Absent", "Draft"}
                   /\ Underway(o) => Underway(o)' \/ CancelOrder(o)
           Kept == order'[o] = order[o]
           Moved(s) == order'[o] = [order[o] EXCEPT !.status = s]
<1> USE DEF Exists, Underway
<1>1. order[o] \in OrderRows
  BY RowTypes
<1>2. Kept => Goal
  BY <1>1 DEF OrderRows, OrderStatuses
<1>3. \A s : Moved(s) /\ s \notin {"Absent", "Draft", "Cancelled"} => Goal
  BY <1>1 DEF OrderRows
<1>4. ASSUME NEW jb, NEW jq, Moved(SyncedStatus(o, jb, jq))
      PROVE  Goal
  <2> DEFINE s == SyncedStatus(o, jb, jq)
  <2>1. order'[o].status = s /\ order'[o].qty = order[o].qty
    BY <1>1, <1>4 DEF OrderRows
  <2>2. s = order[o].status \/ s \in {"Confirmed", "In production", "Ready to dispatch"}
    BY SyncedStatusType
  <2> HIDE DEF s
  <2>3. QED
    BY <2>1, <2>2
<1>5. Quiet => Kept
  BY DEF Quiet
<1>6. \A p \in Orders, n \in Qty, l \in LeadRef : NewDraftOrder(p, n, l) => Kept
  BY DEF NewDraftOrder, TypeOK, NoOrder
<1>7. ASSUME NEW p \in Orders, NEW n \in Qty, NEW j \in Jobs, Confirming(p, n, j)
      PROVE  Goal
  <2>1. CASE p = o
    BY <1>1, <1>7, <2>1 DEF Confirming
  <2>2. CASE p # o
    BY <1>2, <1>7, <2>2 DEF Confirming
  <2>3. QED
    BY <2>1, <2>2
<1>8. ASSUME NEW p \in Orders, CancelOrder(p)
      PROVE  Goal
  <2>1. order' = [order EXCEPT ![p].status = "Cancelled"]
    BY <1>8 DEF CancelOrder
  <2>2. CASE p = o
    <3>1. Moved("Cancelled")
      BY <2>1, <2>2 DEF TypeOK
    <3>2. QED
      BY <1>1, <1>8, <2>2, <3>1 DEF OrderRows
  <2>3. CASE p # o
    BY <1>2, <2>1, <2>3 DEF TypeOK
  <2>4. QED
    BY <2>2, <2>3
<1>9. ASSUME NEW p \in Orders, NEW jb, NEW jq,
             order' = [order EXCEPT ![p].status = SyncedStatus(p, jb, jq)]
      PROVE  Goal
  <2>1. p = o => Moved(SyncedStatus(o, jb, jq))
    BY <1>9 DEF TypeOK
  <2>2. p # o => Kept
    BY <1>9 DEF TypeOK
  <2>3. QED
    BY <1>2, <1>4, <2>1, <2>2
<1>10. ASSUME NEW p \in Orders, NEW j \in Jobs, NEW n \in Qty, AddJob(p, j, n)
       PROVE  Goal
  BY <1>9, <1>10 DEF AddJob
<1>11. ASSUME NEW j \in Jobs, NEW k \in Jobs, NEW n \in Qty, SplitJob(j, k, n)
       PROVE  Goal
  <2>1. job[j].order \in Orders
    BY <1>11, RowTypes DEF SplitJob, JobRows
  <2>2. order' = [order EXCEPT ![job[j].order].status =
                                 SyncedStatus(job[j].order, job', jobQty')]
    BY <1>11 DEF SplitJob
  <2>3. QED
    BY <1>9, <2>1, <2>2
<1>12. ASSUME NEW j \in Jobs, NEW s \in ReportedStatuses, NEW p \in Progress,
              UpdateJob(j, s, p)
       PROVE  Goal
  <2>1. job[j].order \in Orders
    BY <1>12, RowTypes DEF UpdateJob, JobRows
  <2>2. order' = [order EXCEPT ![job[j].order].status =
                                 SyncedStatus(job[j].order, job', jobQty)]
    BY <1>12 DEF UpdateJob
  <2>3. QED
    BY <1>9, <2>1, <2>2
<1>13. ASSUME NEW p \in Orders, NEW n \in Qty, Dispatch(p, n)
       PROVE  Goal
  <2>1. PICK s \in {"Partially dispatched", "Completed", "Dispatched"} :
          order' = [order EXCEPT ![p].status = s]
    BY <1>13 DEF Dispatch
  <2>2. p = o => Moved(s)
    BY <2>1 DEF TypeOK
  <2>3. p # o => Kept
    BY <2>1 DEF TypeOK
  <2>4. QED
    BY <1>2, <1>3, <2>2, <2>3
<1>14. ASSUME NEW p \in Orders, NEW i \in Invoices, CreateInvoice(p, i)
       PROVE  Goal
  <2>1. \/ order' = [order EXCEPT ![p].status = "Completed"]
        \/ order' = order
    BY <1>14 DEF CreateInvoice
  <2>2. p = o => Moved("Completed") \/ Kept
    BY <2>1 DEF TypeOK
  <2>3. p # o => Kept
    BY <2>1 DEF TypeOK
  <2>4. QED
    BY <1>2, <1>3, <2>2, <2>3
<1>15. QED
  BY <1>2, <1>5, <1>6, <1>7, <1>8, <1>10, <1>11, <1>12, <1>13, <1>14, StepKinds

LEMMA JobsHaveOrdersStep ==
  TypeOK /\ JobsHaveOrders /\ [Next]_vars => JobsHaveOrders'
<1> SUFFICES ASSUME TypeOK, JobsHaveOrders, [Next]_vars,
                    NEW j \in Jobs, job'[j] # NoJob
             PROVE  order'[job'[j].order].status \notin {"Absent", "Draft"}
  BY DEF JobsHaveOrders, NoJob
<1>1. CASE job[j] = NoJob
  BY <1>1, JobsStay
<1>2. CASE job[j] # NoJob
  <2>1. job[j].order \in Orders /\ job'[j].order = job[j].order
    BY <1>2, JobsStay DEF TypeOK, JobRows
  <2>2. order[job[j].order].status \notin {"Absent", "Draft"}
    BY <1>2 DEF JobsHaveOrders
  <2>3. QED
    BY <2>1, <2>2, OrdersAdvance DEF Exists
<1>3. QED
  BY <1>1, <1>2

-----------------------------------------------------------------------------
(* Totals of jobs.                                                          *)

LEMMA JobTotals ==
  ASSUME TypeOK, NEW o \in Orders
  PROVE  /\ IsFiniteSet(LiveJobs(o))
         /\ IsFiniteSet(CompletedJobs(o))
         /\ CompletedJobs(o) \subseteq LiveJobs(o)
         /\ LiveJobs(o) \subseteq Jobs
         /\ PlannedQty(o) \in Nat
         /\ CompletedQty(o) \in Nat
         /\ CompletedQty(o) <= PlannedQty(o)
<1>1. /\ CompletedJobs(o) \subseteq LiveJobs(o)
      /\ LiveJobs(o) \subseteq Jobs
  BY DEF LiveJobs, CompletedJobs, JobsOf
<1>2. /\ IsFiniteSet(LiveJobs(o))
      /\ IsFiniteSet(CompletedJobs(o))
  BY <1>1, RowsAssumption, FS_Subset
<1>3. \A j \in LiveJobs(o) : jobQty[j] \in 0..MaxQty
  BY <1>1 DEF TypeOK
<1>4. MaxQty \in Nat
  BY BoundsAssumption
<1>5. PlannedQty(o) \in Nat
  BY <1>2, <1>3, <1>4, TotalType DEF PlannedQty
<1>6. CompletedQty(o) \in Nat
  BY <1>1, <1>2, <1>3, <1>4, TotalType DEF CompletedQty
<1>7. CompletedQty(o) <= PlannedQty(o)
  BY <1>1, <1>2, <1>3, <1>4, TotalSubset DEF PlannedQty, CompletedQty
<1>8. QED
  BY <1>1, <1>2, <1>5, <1>6, <1>7

(* The same after a step that keeps the rows well-formed. *)
LEMMA JobTotalsPrimed ==
  ASSUME TypeOK', NEW o \in Orders
  PROVE  CompletedQty(o)' <= PlannedQty(o)'
<1>1. /\ CompletedJobs(o)' \subseteq LiveJobs(o)'
      /\ LiveJobs(o)' \subseteq Jobs
  BY DEF LiveJobs, CompletedJobs, JobsOf
<1>2. IsFiniteSet(LiveJobs(o)')
  BY <1>1, RowsAssumption, FS_Subset
<1>3. \A j \in LiveJobs(o)' : jobQty'[j] \in 0..MaxQty
  BY <1>1 DEF TypeOK
<1>4. MaxQty \in Nat
  BY BoundsAssumption
<1>5. Total(jobQty', CompletedJobs(o)') <= Total(jobQty', LiveJobs(o)')
  BY <1>1, <1>2, <1>3, <1>4, TotalSubset
<1>6. QED
  BY <1>5 DEF PlannedQty, CompletedQty

(* A new job adds its quantity to what is planned of its order.             *)
LEMMA AddedTotals ==
  ASSUME TypeOK, NEW o \in Orders, NEW j \in Jobs, NEW n \in Qty,
         AddJobRow(j, o, n), NEW p \in Orders
  PROVE  /\ PlannedQty(p)' = IF p = o THEN PlannedQty(p) + n ELSE PlannedQty(p)
         /\ CompletedQty(p)' = CompletedQty(p)
         /\ p # o => LiveJobs(p)' = LiveJobs(p)
<1>1. /\ job[j] = NoJob
      /\ job' = [job EXCEPT ![j] = [order |-> o, status |-> "Pending", progress |-> 0,
                                    imported |-> FALSE]]
      /\ jobQty' = [jobQty EXCEPT ![j] = n]
  BY DEF AddJobRow
<1>2. /\ job'[j].order = o /\ job'[j].status = "Pending" /\ jobQty'[j] = n
      /\ \A k \in Jobs \ {j} : job'[k] = job[k] /\ jobQty'[k] = jobQty[k]
      /\ job[j].order \notin Orders
  BY <1>1, RowsAssumption DEF TypeOK, NoJob
<1>3. /\ j \notin LiveJobs(p) /\ j \notin CompletedJobs(p)
      /\ CompletedJobs(p)' = CompletedJobs(p)
      /\ LiveJobs(p)' = IF p = o THEN LiveJobs(p) \cup {j} ELSE LiveJobs(p)
  BY <1>2 DEF LiveJobs, CompletedJobs, JobsOf
<1>4. CompletedQty(p)' = CompletedQty(p)
  <2>1. \A k \in CompletedJobs(p) : jobQty'[k] = jobQty[k]
    BY <1>2, <1>3 DEF CompletedJobs, JobsOf
  <2>2. Total(jobQty', CompletedJobs(p)) = Total(jobQty, CompletedJobs(p))
    BY <2>1, TotalCongruence
  <2>3. QED
    BY <1>3, <2>2 DEF CompletedQty
<1>5. Total(jobQty', LiveJobs(p)) = PlannedQty(p)
  <2>1. \A k \in LiveJobs(p) : jobQty'[k] = jobQty[k]
    BY <1>2, <1>3 DEF LiveJobs, JobsOf
  <2>2. QED
    BY <2>1, TotalCongruence DEF PlannedQty
<1>6. CASE p # o
  BY <1>3, <1>4, <1>5, <1>6 DEF PlannedQty
<1>7. CASE p = o
  <2>1. \A k \in LiveJobs(p) \cup {j} : jobQty'[k] \in 0..MaxQty
    BY <1>2, <1>3, BoundsAssumption DEF LiveJobs, JobsOf, TypeOK, Qty
  <2>2. MaxQty \in Nat
    BY BoundsAssumption
  <2>3. Total(jobQty', LiveJobs(p) \cup {j}) = Total(jobQty', LiveJobs(p)) + jobQty'[j]
    BY <1>3, <2>1, <2>2, JobTotals, TotalAdd
  <2>4. QED
    BY <1>2, <1>3, <1>4, <1>5, <1>7, <2>3 DEF PlannedQty
<1>8. QED
  BY <1>3, <1>6, <1>7

(* Splitting moves units between two live jobs of one order.                *)
LEMMA SplitTotals ==
  ASSUME TypeOK, NEW j \in Jobs, NEW k \in Jobs, NEW n \in Qty, SplitJob(j, k, n),
         NEW o \in Orders
  PROVE  /\ PlannedQty(o)' = PlannedQty(o)
         /\ CompletedQty(o)' = CompletedQty(o)
         /\ job[j].order # o => LiveJobs(o)' = LiveJobs(o)
<1>1. /\ job[j].status = "Pending" /\ job[k] = NoJob
      /\ job' = [job EXCEPT ![k] = job[j]]
      /\ jobQty' = [jobQty EXCEPT ![j] = @ - n, ![k] = n]
      /\ n <= jobQty[j] - 1
  BY DEF SplitJob
<1>2. k # j /\ job[k].order \notin Orders
  BY <1>1, RowsAssumption DEF NoJob
<1>3. /\ job'[k] = job[j] /\ jobQty'[k] = n /\ jobQty'[j] = jobQty[j] - n
      /\ \A i \in Jobs \ {k} : job'[i] = job[i]
      /\ \A i \in Jobs \ {j, k} : jobQty'[i] = jobQty[i]
  BY <1>1, <1>2 DEF TypeOK
<1>4. /\ k \notin LiveJobs(o) /\ k \notin CompletedJobs(o) /\ j \notin CompletedJobs(o)
      /\ CompletedJobs(o)' = CompletedJobs(o)
      /\ LiveJobs(o)' = IF j \in LiveJobs(o) THEN LiveJobs(o) \cup {k} ELSE LiveJobs(o)
  BY <1>1, <1>2, <1>3 DEF LiveJobs, CompletedJobs, JobsOf
<1>5. /\ LiveJobs(o) \subseteq Jobs /\ IsFiniteSet(LiveJobs(o))
      /\ CompletedJobs(o) \subseteq Jobs
  BY JobTotals
<1>6. CompletedQty(o)' = CompletedQty(o)
  <2>1. \A i \in CompletedJobs(o) : jobQty'[i] = jobQty[i]
    BY <1>3, <1>4, <1>5
  <2>2. Total(jobQty', CompletedJobs(o)) = Total(jobQty, CompletedJobs(o))
    BY <2>1, TotalCongruence
  <2>3. QED
    BY <1>4, <2>2 DEF CompletedQty
<1>7. ASSUME j \notin LiveJobs(o)
      PROVE  PlannedQty(o)' = PlannedQty(o)
  <2>1. \A i \in LiveJobs(o) : jobQty'[i] = jobQty[i]
    BY <1>3, <1>4, <1>5, <1>7
  <2>2. Total(jobQty', LiveJobs(o)) = Total(jobQty, LiveJobs(o))
    BY <2>1, TotalCongruence
  <2>3. QED
    BY <1>4, <1>6, <1>7, <2>2 DEF PlannedQty
<1>8. ASSUME j \in LiveJobs(o)
      PROVE  PlannedQty(o)' = PlannedQty(o)
  <2> DEFINE L == LiveJobs(o)
             rest == L \ {j}
  <2>1. /\ MaxQty \in Nat
        /\ n \in 0..MaxQty /\ jobQty[j] \in 0..MaxQty /\ jobQty[j] - n \in 0..MaxQty
    <3>1. n \in 1..MaxQty /\ jobQty[j] \in 0..MaxQty /\ MaxQty \in Nat
      BY BoundsAssumption DEF TypeOK, Qty
    <3>2. QED
      BY <1>1, <3>1
  <2>2. \A i \in L : jobQty[i] \in 0..MaxQty
    BY <1>5 DEF TypeOK
  <2>3. \A i \in L \cup {k} : jobQty'[i] \in 0..MaxQty
    <3>1. ASSUME NEW i \in L \cup {k}
          PROVE  jobQty'[i] \in 0..MaxQty
      <4>1. CASE i \in {j, k}
        BY <1>2, <1>3, <2>1, <4>1
      <4>2. CASE i \notin {j, k}
        BY <1>3, <1>5, <2>2, <4>2
      <4>3. QED
        BY <4>1, <4>2
    <3>2. QED
      BY <3>1
  <2>12. MaxQty \in Nat
    BY <2>1
  <2>4. Total(jobQty', L \cup {k}) = Total(jobQty', L) + jobQty'[k]
    BY <1>4, <1>5, <2>3, <2>12, TotalAdd
  <2>5. \A i \in L : jobQty'[i] \in 0..MaxQty
    BY <2>3
  <2>6. Total(jobQty', L) = Total(jobQty', rest) + jobQty'[j]
    BY <1>5, <1>8, <2>5, <2>12, TotalRemove
  <2>7. Total(jobQty, L) = Total(jobQty, rest) + jobQty[j]
    BY <1>5, <1>8, <2>1, <2>2, TotalRemove
  <2>8. Total(jobQty', rest) = Total(jobQty, rest)
    <3>1. \A i \in rest : jobQty'[i] = jobQty[i]
      BY <1>3, <1>4, <1>5
    <3>2. QED
      BY <3>1, TotalCongruence
  <2>9. Total(jobQty, rest) \in Nat
    <3>1. IsFiniteSet(rest)
      BY <1>5, FS_Subset
    <3>2. QED
      BY <2>1, <2>2, <3>1, TotalType
  <2>10. Total(jobQty', L \cup {k}) = Total(jobQty, L)
    BY <1>3, <2>1, <2>4, <2>6, <2>7, <2>8, <2>9
  <2>11. QED
    BY <1>4, <1>6, <1>8, <2>10 DEF PlannedQty
<1>9. ASSUME job[j].order # o
      PROVE  LiveJobs(o)' = LiveJobs(o)
  <2>1. j \notin LiveJobs(o)
    BY <1>9 DEF LiveJobs, JobsOf
  <2>2. QED
    BY <1>4, <2>1
<1>10. QED
  BY <1>6, <1>7, <1>8, <1>9

(* A report keeps every live job live; it may complete one more.            *)
LEMMA UpdateTotals ==
  ASSUME TypeOK, NEW j \in Jobs, NEW s \in ReportedStatuses, NEW p \in Progress,
         UpdateJob(j, s, p), TypeOK', NEW o \in Orders
  PROVE  /\ PlannedQty(o)' = PlannedQty(o)
         /\ CompletedQty(o) <= CompletedQty(o)'
         /\ CompletedQty(o)' \in Nat
         /\ LiveJobs(o)' = LiveJobs(o)
<1>1. job[j] \in JobRows
  BY RowTypes DEF UpdateJob
<1>2. /\ job'[j].order = job[j].order /\ job'[j].status # "Cancelled"
      /\ job[j].status \notin {"Completed", "Cancelled"}
      /\ \A k \in Jobs \ {j} : job'[k] = job[k]
      /\ jobQty' = jobQty
  BY <1>1 DEF UpdateJob, TypeOK, JobRows, ReportedStatuses, jobVars
<1>3. /\ LiveJobs(o)' = LiveJobs(o)
      /\ CompletedJobs(o) \subseteq CompletedJobs(o)'
  BY <1>2 DEF LiveJobs, CompletedJobs, JobsOf
<1>4. PlannedQty(o)' = PlannedQty(o)
  BY <1>2, <1>3 DEF PlannedQty
<1>5. CompletedQty(o) <= CompletedQty(o)' /\ CompletedQty(o)' \in Nat
  <2>1. CompletedJobs(o)' \subseteq Jobs
    BY DEF CompletedJobs, JobsOf
  <2>2. IsFiniteSet(CompletedJobs(o)')
    BY <2>1, RowsAssumption, FS_Subset
  <2>3. \A k \in CompletedJobs(o)' : jobQty[k] \in 0..MaxQty
    BY <2>1 DEF TypeOK
  <2>4. MaxQty \in Nat
    BY BoundsAssumption
  <2>5. Total(jobQty, CompletedJobs(o)) <= Total(jobQty, CompletedJobs(o)')
    BY <1>3, <2>2, <2>3, <2>4, TotalSubset
  <2>6. Total(jobQty, CompletedJobs(o)') \in Nat
    BY <2>2, <2>3, <2>4, TotalType
  <2>7. QED
    BY <1>2, <2>5, <2>6 DEF CompletedQty
<1>6. QED
  BY <1>3, <1>4, <1>5

(* A cancelled order has no live job left; other orders keep theirs.        *)
LEMMA CancelTotals ==
  ASSUME TypeOK, NEW o \in Orders, CancelOrder(o), NEW p \in Orders
  PROVE  /\ p = o => /\ PlannedQty(p)' = 0 /\ CompletedQty(p)' = 0
                     /\ LiveJobs(p)' = {}
         /\ p # o => /\ PlannedQty(p)' = PlannedQty(p)
                     /\ CompletedQty(p)' = CompletedQty(p)
                     /\ LiveJobs(p)' = LiveJobs(p)
<1>1. /\ jobQty' = jobQty
      /\ job' = [j \in Jobs |-> IF j \in JobsOf(o)
                                THEN [job[j] EXCEPT !.status = "Cancelled"] ELSE job[j]]
  BY DEF CancelOrder
<1>2. ASSUME NEW j \in JobsOf(o)
      PROVE  job'[j].order = o /\ job'[j].status = "Cancelled"
  <2>1. j \in Jobs /\ job[j].order = o
    BY DEF JobsOf
  <2>2. job[j] \in JobRows
    BY <2>1, RowTypes
  <2>3. QED
    BY <1>1, <2>1, <2>2 DEF JobRows
<1>3. \A j \in Jobs \ JobsOf(o) : job'[j] = job[j]
  BY <1>1
<1>4. CASE p = o
  <2>1. LiveJobs(p)' = {} /\ CompletedJobs(p)' = {}
    BY <1>2, <1>3, <1>4 DEF LiveJobs, CompletedJobs, JobsOf
  <2>2. QED
    BY <1>4, <2>1, TotalEmpty DEF PlannedQty, CompletedQty
<1>5. CASE p # o
  <2>1. LiveJobs(p)' = LiveJobs(p) /\ CompletedJobs(p)' = CompletedJobs(p)
    BY <1>2, <1>3, <1>5 DEF LiveJobs, CompletedJobs, JobsOf
  <2>2. QED
    BY <1>1, <1>5, <2>1 DEF PlannedQty, CompletedQty
<1>6. QED
  BY <1>4, <1>5

-----------------------------------------------------------------------------
(* What a step does to the numbers of one order taken here, whichever step  *)
(* it is.                                                                   *)
Numbers(o) ==
  /\ PlannedQty(o)' <= order'[o].qty
  /\ shipped'[o] <= CompletedQty(o)'
  /\ Underway(o)' => PlannedQty(o)' = order'[o].qty

(* Steps that leave what is planned of an order alone, and complete no      *)
(* fewer pieces of it, keep its numbers if they ship no more of it.         *)
LEMMA NumbersKept ==
  ASSUME WorkspaceInv, NEW o \in Own,
         order'[o].qty = order[o].qty,
         Underway(o)' => Underway(o),
         PlannedQty(o)' = PlannedQty(o),
         CompletedQty(o)' \in Nat,
         CompletedQty(o) <= CompletedQty(o)',
         shipped'[o] = shipped[o]
  PROVE  Numbers(o)
<1>1. /\ PlannedQty(o) <= order[o].qty
      /\ shipped[o] <= CompletedQty(o)
  BY DEF WorkspaceInv, QuantityChain
<1>2. Underway(o)' => PlannedQty(o) = order[o].qty
  BY DEF WorkspaceInv, WholeOrderPlanned
<1>3. /\ CompletedQty(o) \in Nat /\ shipped[o] \in Nat
  BY JobTotals DEF WorkspaceInv, TypeOK, Own
<1>4. QED
  BY <1>1, <1>2, <1>3 DEF Numbers

(* Nothing is made of an order that is not under way.                       *)
LEMMA IdleOrders ==
  ASSUME WorkspaceInv, NEW o \in Own, ~Underway(o)
  PROVE  LiveJobs(o) = {} /\ CompletedQty(o) = 0 /\ PlannedQty(o) = 0
<1>0. o \in Orders
  BY DEF Own
<1>1. LiveJobs(o) = {}
  <2>1. CASE order[o].status = "Cancelled"
    BY <2>1 DEF WorkspaceInv, CancelledIsInert
  <2>2. CASE order[o].status # "Cancelled"
    <3>1. \A j \in Jobs : job[j].order # o
      BY <1>0, <2>2, RowsAssumption DEF Underway, WorkspaceInv, JobsHaveOrders, NoJob
    <3>2. QED
      BY <3>1 DEF LiveJobs, JobsOf
  <2>3. QED
    BY <2>1, <2>2
<1>2. CompletedJobs(o) = {}
  BY <1>0, <1>1, JobTotals DEF WorkspaceInv
<1>3. QED
  BY <1>1, <1>2, TotalEmpty DEF CompletedQty, PlannedQty

(* The numbers of every order taken here survive every step. *)
LEMMA NumbersStep ==
  ASSUME WorkspaceInv, [Next]_vars, TypeOK', NEW o \in Own
  PROVE  Numbers(o)
<1> USE DEF salesVars, jobVars, billVars, WorkspaceInv
<1>0. o \in Orders
  BY DEF Own
<1> USE <1>0
<1>1. /\ PlannedQty(o) \in Nat
      /\ CompletedQty(o) \in Nat
      /\ shipped[o] \in Nat
  BY JobTotals DEF TypeOK
<1>2. ASSUME UNCHANGED <<jobVars>>
      PROVE  PlannedQty(o)' = PlannedQty(o) /\ CompletedQty(o)' = CompletedQty(o)
  BY <1>2 DEF PlannedQty, CompletedQty, LiveJobs, CompletedJobs, JobsOf
<1>3. ASSUME order'[o] = order[o], UNCHANGED <<jobVars>>, shipped'[o] = shipped[o]
      PROVE  Numbers(o)
  BY <1>1, <1>2, <1>3, NumbersKept DEF Underway
<1>4. CASE Quiet
  BY <1>3, <1>4 DEF Quiet
<1>5. ASSUME NEW p \in Orders, NEW n \in Qty, NEW l \in LeadRef, NewDraftOrder(p, n, l)
      PROVE  Numbers(o)
  <2>1. CASE p # o
    BY <1>3, <1>5, <2>1 DEF NewDraftOrder
  <2>2. CASE p = o
    <3>1. ~Underway(o) /\ ~Underway(o)' /\ order'[o].qty = n
      BY <1>5, <2>2 DEF NewDraftOrder, Underway, NoOrder, TypeOK
    <3>2. PlannedQty(o)' = 0 /\ CompletedQty(o)' = CompletedQty(o) /\ shipped' = shipped
      BY <1>2, <1>5, <3>1, IdleOrders DEF NewDraftOrder
    <3>3. shipped[o] <= CompletedQty(o)
      BY DEF QuantityChain
    <3>4. QED
      BY <3>1, <3>2, <3>3, BoundsAssumption DEF Numbers, Qty
  <2>3. QED
    BY <2>1, <2>2
<1>6. ASSUME NEW p \in Orders, NEW n \in Qty, NEW j \in Jobs, Confirming(p, n, j)
      PROVE  Numbers(o)
  <2>1. /\ InitialJob(p, n, j) /\ shipped' = shipped
        /\ p # o => order'[o] = order[o]
        /\ order'[p].qty = n /\ (Exists(p) => n = order[p].qty)
    BY <1>6 DEF Confirming
  <2>2. CASE UNCHANGED jobVars /\ p = o /\ JobsOf(o) # {}
    <3>1. Underway(o)
      <4>1. PICK k \in Jobs : job[k].order = o
        BY <2>2 DEF JobsOf
      <4>2. order[o].status \in {"Confirmed"}
        BY <1>6, <2>2, <4>1, RowsAssumption DEF Confirming, JobsHaveOrders, NoJob
      <4>3. QED
        BY <4>2 DEF Underway
    <3>2. order'[o].qty = order[o].qty
      BY <2>1, <2>2, <3>1 DEF Underway, Exists
    <3>3. QED
      BY <1>1, <1>2, <2>1, <2>2, <3>1, <3>2, NumbersKept
  <2>3. CASE UNCHANGED jobVars /\ p # o
    BY <1>3, <2>1, <2>3
  <2>4. CASE AddJobRow(j, p, n) /\ JobsOf(p) = {}
    <3>1. /\ PlannedQty(o)' = IF o = p THEN PlannedQty(o) + n ELSE PlannedQty(o)
          /\ CompletedQty(o)' = CompletedQty(o)
      BY <2>4, AddedTotals
    <3>2. CASE o # p
      BY <1>1, <2>1, <3>1, <3>2, NumbersKept DEF Underway
    <3>3. CASE o = p
      <4>1. LiveJobs(o) = {}
        BY <2>4, <3>3 DEF LiveJobs
      <4>2. PlannedQty(o) = 0
        BY <4>1, TotalEmpty DEF PlannedQty
      <4>3. PlannedQty(o)' = n
        BY <3>1, <3>3, <4>2 DEF Qty
      <4>4. shipped'[o] <= CompletedQty(o)'
        BY <2>1, <3>1 DEF QuantityChain
      <4>5. n <= n
        BY DEF Qty
      <4>6. QED
        BY <2>1, <3>3, <4>3, <4>4, <4>5 DEF Numbers
    <3>4. QED
      BY <3>2, <3>3
  <2>5. QED
    BY <2>1, <2>2, <2>3, <2>4 DEF InitialJob
<1>7. ASSUME NEW p \in Orders, CancelOrder(p)
      PROVE  Numbers(o)
  <2>1. CASE p # o
    <3>1. order'[o] = order[o] /\ shipped' = shipped
      BY <1>7, <2>1 DEF CancelOrder, TypeOK
    <3>2. QED
      BY <1>1, <1>7, <2>1, <3>1, CancelTotals, NumbersKept DEF Underway
  <2>2. CASE p = o
    <3>1. PlannedQty(o)' = 0 /\ CompletedQty(o)' = 0 /\ shipped'[o] = 0
      BY <1>7, <2>2, CancelTotals DEF CancelOrder
    <3>2. order[o] \in OrderRows
      BY <1>7, <2>2, RowTypes DEF CancelOrder, Exists
    <3>3. order'[o].status = "Cancelled" /\ order'[o].qty = order[o].qty
      BY <1>7, <2>2, <3>2 DEF CancelOrder, TypeOK, OrderRows
    <3>4. order[o].qty \in Nat
      BY <3>2 DEF OrderRows
    <3>5. QED
      BY <3>1, <3>3, <3>4 DEF Numbers, Underway
  <2>3. QED
    BY <2>1, <2>2
<1>8. ASSUME NEW p \in Orders, NEW j \in Jobs, NEW n \in Qty, AddJob(p, j, n)
      PROVE  Numbers(o)
  <2>1. /\ PlannedQty(o)' = IF o = p THEN PlannedQty(o) + n ELSE PlannedQty(o)
        /\ CompletedQty(o)' = CompletedQty(o)
    BY <1>8, AddedTotals DEF AddJob
  <2>2. shipped' = shipped
    BY <1>8 DEF AddJob
  <2>3. CASE o # p
    <3>1. order'[o] = order[o]
      BY <1>8, <2>3 DEF AddJob, TypeOK
    <3>2. QED
      BY <1>1, <2>1, <2>2, <2>3, <3>1, NumbersKept DEF Underway
  <2>4. CASE o = p
    <3>1. /\ Underway(o) /\ Exists(o)
          /\ PlannedQty(o) + n <= order[o].qty
      BY <1>8, <2>4 DEF AddJob, Underway, Exists
    <3>2. PlannedQty(o) = order[o].qty
      BY <3>1 DEF WholeOrderPlanned
    <3>3. n \in Nat /\ n >= 1
      BY BoundsAssumption DEF Qty
    <3>4. QED
      BY <1>1, <3>1, <3>2, <3>3
  <2>5. QED
    BY <2>3, <2>4
<1>9. ASSUME NEW j \in Jobs, NEW k \in Jobs, NEW n \in Qty, SplitJob(j, k, n)
      PROVE  Numbers(o)
  <2> DEFINE p == job[j].order
  <2>1. p \in Orders
    BY <1>9, RowTypes DEF SplitJob, JobRows
  <2>2. Underway(p)
    BY <1>9 DEF SplitJob, Underway
  <2>3. order' = [order EXCEPT ![p].status = SyncedStatus(p, job', jobQty')]
    BY <1>9 DEF SplitJob
  <2>4. /\ order'[o].qty = order[o].qty
        /\ Underway(o)' => Underway(o)
    <3>1. CASE o = p
      BY <2>2, <3>1, OrdersAdvance DEF Underway, Exists
    <3>2. CASE o # p
      BY <2>3, <3>2 DEF Underway, TypeOK
    <3>3. QED
      BY <3>1, <3>2
  <2>5. shipped' = shipped
    BY <1>9 DEF SplitJob
  <2>6. PlannedQty(o)' = PlannedQty(o) /\ CompletedQty(o)' = CompletedQty(o)
    BY <1>9, SplitTotals
  <2>7. QED
    BY <1>1, <2>4, <2>5, <2>6, NumbersKept
<1>10. ASSUME NEW j \in Jobs, NEW s \in ReportedStatuses, NEW q \in Progress,
              UpdateJob(j, s, q)
       PROVE  Numbers(o)
  <2> DEFINE p == job[j].order
  <2>1. job[j] \in JobRows /\ p \in Orders
    BY <1>10, RowTypes DEF UpdateJob, JobRows
  <2>2. Underway(p)
    BY <1>10, <2>1 DEF UpdateJob, Underway, JobsHaveOrders, NoJob, JobRows
  <2>3. order' = [order EXCEPT ![p].status = SyncedStatus(p, job', jobQty)]
    BY <1>10 DEF UpdateJob
  <2>4. /\ order'[o].qty = order[o].qty
        /\ Underway(o)' => Underway(o)
    <3>1. CASE o = p
      BY <2>2, <3>1, OrdersAdvance DEF Underway, Exists
    <3>2. CASE o # p
      BY <2>3, <3>2 DEF Underway, TypeOK
    <3>3. QED
      BY <3>1, <3>2
  <2>5. shipped' = shipped
    BY <1>10 DEF UpdateJob
  <2>6. /\ PlannedQty(o)' = PlannedQty(o)
        /\ CompletedQty(o) <= CompletedQty(o)'
        /\ CompletedQty(o)' \in Nat
    BY <1>10, UpdateTotals
  <2>7. QED
    BY <2>4, <2>5, <2>6, NumbersKept
<1>11. ASSUME NEW p \in Orders, NEW n \in Qty, Dispatch(p, n)
       PROVE  Numbers(o)
  <2>1. PlannedQty(o)' = PlannedQty(o) /\ CompletedQty(o)' = CompletedQty(o)
    BY <1>2, <1>11 DEF Dispatch
  <2>2. CASE p # o
    <3>1. order'[o] = order[o] /\ shipped'[o] = shipped[o]
      BY <1>11, <2>2 DEF Dispatch, TypeOK
    <3>2. QED
      BY <1>1, <2>1, <3>1, NumbersKept DEF Underway
  <2>3. CASE p = o
    <3>1. shipped'[o] <= CompletedQty(o)
      BY <1>11, <2>3 DEF Dispatch, TypeOK
    <3>2. Underway(o)
      <4>1. CompletedQty(o) # 0
        <5>1. shipped[o] + n <= CompletedQty(o)
          BY <1>11, <2>3 DEF Dispatch
        <5>2. n \in Nat /\ n >= 1
          BY BoundsAssumption DEF Qty
        <5>3. QED
          BY <1>1, <5>1, <5>2
      <4>2. QED
        BY <4>1, IdleOrders
    <3>3. order'[o].qty = order[o].qty
      BY <3>2, OrdersAdvance DEF Underway, Exists
    <3>4. PlannedQty(o) <= order[o].qty /\ PlannedQty(o) = order[o].qty
      BY <3>2 DEF QuantityChain, WholeOrderPlanned
    <3>5. QED
      BY <2>1, <3>1, <3>3, <3>4 DEF Numbers
  <2>4. QED
    BY <2>2, <2>3
<1>12. ASSUME NEW p \in Orders, NEW i \in Invoices, CreateInvoice(p, i)
       PROVE  Numbers(o)
  <2>1. PlannedQty(o)' = PlannedQty(o) /\ CompletedQty(o)' = CompletedQty(o)
    BY <1>2, <1>12 DEF CreateInvoice
  <2>2. shipped' = shipped
    BY <1>12 DEF CreateInvoice
  <2>3. CASE p # o
    <3>1. order'[o] = order[o]
      BY <1>12, <2>3 DEF CreateInvoice, TypeOK
    <3>2. QED
      BY <1>1, <2>1, <2>2, <3>1, NumbersKept DEF Underway
  <2>4. CASE p = o
    <3>1. Underway(o) /\ Exists(o)
      BY <1>12, <2>4 DEF CreateInvoice, Underway, Exists
    <3>2. order'[o].qty = order[o].qty
      BY <3>1, OrdersAdvance
    <3>3. QED
      BY <1>1, <2>1, <2>2, <3>1, <3>2, NumbersKept
  <2>5. QED
    BY <2>3, <2>4
<1>13. QED
  BY <1>4, <1>5, <1>6, <1>7, <1>8, <1>9, <1>10, <1>11, <1>12, StepKinds

-----------------------------------------------------------------------------
(* A cancelled order stays as it was cancelled: jobs, dispatches and        *)
(* invoices are refused for it.                                             *)
LEMMA CancelledStep ==
  ASSUME WorkspaceInv, [Next]_vars, TypeOK', NEW o \in Own,
         order'[o].status = "Cancelled"
  PROVE  shipped'[o] = 0 /\ ~Invoiced(o)' /\ LiveJobs(o)' = {}
<1>0. o \in Orders
  BY DEF Own
<1> USE <1>0
<1> DEFINE Goal == shipped'[o] = 0 /\ ~Invoiced(o)' /\ LiveJobs(o)' = {}
<1> USE DEF salesVars, jobVars, billVars, WorkspaceInv
<1>1. order[o].status = "Cancelled" =>
        shipped[o] = 0 /\ ~Invoiced(o) /\ LiveJobs(o) = {}
  BY DEF CancelledIsInert
<1>2. ASSUME order[o].status = "Cancelled", UNCHANGED <<jobVars, shipped, invoice>>
      PROVE  Goal
  BY <1>1, <1>2 DEF Invoiced, LiveJobs, JobsOf
<1>3. CASE Quiet
  BY <1>2, <1>3 DEF Quiet
<1>4. ASSUME NEW p \in Orders, NEW n \in Qty, NEW l \in LeadRef, NewDraftOrder(p, n, l)
      PROVE  Goal
  BY <1>2, <1>4 DEF NewDraftOrder, TypeOK
<1>5. ASSUME NEW p \in Orders, NEW n \in Qty, NEW j \in Jobs, Confirming(p, n, j)
      PROVE  Goal
  <2>1. p # o /\ order[o].status = "Cancelled" /\ UNCHANGED <<shipped, invoice>>
    BY <1>5 DEF Confirming
  <2>2. InitialJob(p, n, j)
    BY <1>5 DEF Confirming
  <2>3. LiveJobs(o)' = LiveJobs(o)
    BY <2>1, <2>2, AddedTotals DEF InitialJob, LiveJobs, JobsOf
  <2>4. QED
    BY <1>1, <2>1, <2>3 DEF Invoiced
<1>6. ASSUME NEW p \in Orders, CancelOrder(p)
      PROVE  Goal
  <2>1. CASE p = o
    <3>1. shipped'[o] = 0 /\ ~Invoiced(o)'
      BY <1>6, <2>1 DEF CancelOrder, Invoiced
    <3>2. LiveJobs(o)' = {}
      BY <1>6, <2>1, CancelTotals
    <3>3. QED
      BY <3>1, <3>2
  <2>2. CASE p # o
    <3>1. order[o].status = "Cancelled" /\ UNCHANGED <<shipped, invoice>>
      BY <1>6, <2>2 DEF CancelOrder, TypeOK
    <3>2. LiveJobs(o)' = LiveJobs(o)
      BY <1>6, <2>2, CancelTotals
    <3>3. QED
      BY <1>1, <3>1, <3>2 DEF Invoiced
  <2>3. QED
    BY <2>1, <2>2
<1>7. ASSUME NEW p \in Orders, NEW j \in Jobs, NEW n \in Qty, AddJob(p, j, n)
      PROVE  Goal
  <2>1. order' = [order EXCEPT ![p].status = SyncedStatus(p, job', jobQty')]
    BY <1>7 DEF AddJob
  <2>2. p # o
    <3>1. order[p].status \in {"Confirmed", "In production"}
      BY <1>7 DEF AddJob
    <3>2. order'[p].status = SyncedStatus(p, job', jobQty')
      BY <2>1, <3>1, StatusWritten DEF Exists
    <3>3. QED
      BY <3>1, <3>2, SyncedStatusType
  <2>3. order[o].status = "Cancelled" /\ UNCHANGED <<shipped, invoice>>
    BY <1>7, <2>1, <2>2 DEF AddJob, TypeOK
  <2>4. LiveJobs(o)' = LiveJobs(o)
    BY <1>7, <2>2, AddedTotals DEF AddJob
  <2>5. QED
    BY <1>1, <2>3, <2>4 DEF Invoiced
<1>8. ASSUME NEW j \in Jobs, NEW k \in Jobs, NEW n \in Qty, SplitJob(j, k, n)
      PROVE  Goal
  <2> DEFINE p == job[j].order
  <2>1. p \in Orders
    BY <1>8, RowTypes DEF SplitJob, JobRows
  <2>2. order' = [order EXCEPT ![p].status = SyncedStatus(p, job', jobQty')]
    BY <1>8 DEF SplitJob
  <2>3. p # o
    <3>1. order[p].status \in {"Confirmed", "In production"}
      BY <1>8 DEF SplitJob
    <3>2. order'[p].status = SyncedStatus(p, job', jobQty')
      BY <2>1, <2>2, <3>1, StatusWritten DEF Exists
    <3>3. QED
      BY <3>1, <3>2, SyncedStatusType
  <2>4. order[o].status = "Cancelled" /\ UNCHANGED <<shipped, invoice>>
    BY <1>8, <2>2, <2>3 DEF SplitJob, TypeOK
  <2>5. LiveJobs(o)' = LiveJobs(o)
    BY <1>8, <2>3, SplitTotals
  <2>6. QED
    BY <1>1, <2>4, <2>5 DEF Invoiced
<1>9. ASSUME NEW j \in Jobs, NEW s \in ReportedStatuses, NEW q \in Progress,
             UpdateJob(j, s, q)
      PROVE  Goal
  <2> DEFINE p == job[j].order
  <2>1. job[j] \in JobRows /\ p \in Orders
    BY <1>9, RowTypes DEF UpdateJob, JobRows
  <2>2. order' = [order EXCEPT ![p].status = SyncedStatus(p, job', jobQty)]
    BY <1>9 DEF UpdateJob
  <2>3. order[p].status # "Cancelled"
    BY <1>9 DEF UpdateJob
  <2>4. p # o
    <3>1. order'[p].status = SyncedStatus(p, job', jobQty)
      BY <2>1, <2>2 DEF TypeOK, OrderRows, NoOrder
    <3>2. QED
      BY <2>3, <3>1, SyncedStatusType
  <2>5. order[o].status = "Cancelled" /\ UNCHANGED <<shipped, invoice>>
    BY <1>9, <2>2, <2>4 DEF UpdateJob, TypeOK
  <2>6. LiveJobs(o)' = LiveJobs(o)
    BY <1>9, UpdateTotals
  <2>7. QED
    BY <1>1, <2>5, <2>6 DEF Invoiced
<1>10. ASSUME NEW p \in Orders, NEW n \in Qty, Dispatch(p, n)
       PROVE  Goal
  <2>1. order'[p].status # "Cancelled"
    <3>1. PICK s \in {"Partially dispatched", "Completed", "Dispatched"} :
            order' = [order EXCEPT ![p].status = s]
      BY <1>10 DEF Dispatch
    <3>2. QED
      BY <1>10, <3>1, StatusWritten DEF Dispatch
  <2>2. order[o].status = "Cancelled" /\ shipped'[o] = shipped[o] /\ UNCHANGED <<jobVars, invoice>>
    BY <1>10, <2>1 DEF Dispatch, TypeOK
  <2>3. QED
    BY <1>1, <2>2 DEF Invoiced, LiveJobs, JobsOf
<1>11. ASSUME NEW p \in Orders, NEW i \in Invoices, CreateInvoice(p, i)
       PROVE  Goal
  <2>1. p # o
    BY <1>11 DEF CreateInvoice, TypeOK, OrderRows, NoOrder
  <2>2. order[o].status = "Cancelled"
    BY <1>11, <2>1 DEF CreateInvoice, TypeOK
  <2>3. UNCHANGED <<jobVars, shipped>> /\ ~Invoiced(o)'
    BY <1>1, <1>11, <2>1, <2>2 DEF CreateInvoice, Invoiced, TypeOK
  <2>4. QED
    BY <1>1, <2>2, <2>3 DEF LiveJobs, JobsOf
<1>12. QED
  BY <1>3, <1>4, <1>5, <1>6, <1>7, <1>8, <1>9, <1>10, <1>11, StepKinds

LEMMA BillingSteps ==
  ASSUME [Next]_vars
  PROVE  \/ UNCHANGED <<invoice, paid>>
         \/ \E o \in Orders, i \in Invoices : CreateInvoice(o, i)
         \/ \E i \in Invoices : \E a \in 1..MaxAmount : RecordPayment(i, a)
<1>1. CASE UNCHANGED vars
  BY <1>1 DEF vars, billVars
<1>2. CASE SalesStep
  BY <1>2 DEF SalesStep, NewLead, UpdateLead, NewQuote, SendQuote, CloseQuote,
              ConvertQuote, NewDraftOrder, NewConfirmedOrder, ConfirmOrder,
              CancelOrder, billVars
<1>3. CASE ProductionStep
  BY <1>3 DEF ProductionStep, AddJob, SplitJob, UpdateJob, billVars
<1>4. CASE BillingStep
  BY <1>4 DEF BillingStep, Dispatch, billVars
<1>5. QED
  BY <1>1, <1>2, <1>3, <1>4 DEF Next

(* An invoice made here bills an order that is under way and stays the only *)
(* one; no invoice is paid beyond its amount.                               *)
LEMMA BilledOnceStep ==
  WorkspaceInv /\ [Next]_vars => BilledOnce' /\ PaymentsHaveInvoices' /\ ImportsAreBilled'
<1> SUFFICES ASSUME WorkspaceInv, [Next]_vars
             PROVE  BilledOnce' /\ PaymentsHaveInvoices' /\ ImportsAreBilled'
  OBVIOUS
<1> USE DEF WorkspaceInv
<1> DEFINE Bills == /\ \A i \in Invoices : invoice'[i] \in Orders \cup {None}
                    /\ \A i \in Invoices \cap Imported : invoice'[i] \in Orders \cap Imported
                    /\ \A i \in Invoices \ Imported, k \in Invoices :
                         invoice'[i] # None /\ invoice'[k] = invoice'[i] => k = i
                    /\ \A i \in Invoices : invoice'[i] = None => paid'[i] = 0
                    /\ \A i \in Invoices : invoice'[i] # None => paid'[i] <= Gross(i)'
                    /\ \A i \in Invoices \ Imported : invoice'[i] # None =>
                         Underway(invoice'[i]) /\ ~CancelOrder(invoice'[i])
<1>1. /\ \A i \in Invoices : invoice[i] \in Orders \cup {None}
      /\ \A i \in Invoices \cap Imported : invoice[i] \in Orders \cap Imported
      /\ \A i \in Invoices : paid[i] \in 0..MaxAmount
      /\ \A i \in Invoices \ Imported, k \in Invoices :
           invoice[i] # None /\ invoice[k] = invoice[i] => k = i
      /\ \A i \in Invoices : invoice[i] # None => paid[i] <= Gross(i)
      /\ \A i \in Invoices \ Imported : invoice[i] # None =>
           Underway(invoice[i]) /\ ~CancelOrder(invoice[i])
      /\ \A i \in Invoices : invoice[i] = None => paid[i] = 0
  BY DEF TypeOK, BilledOnce, CancelOrder, Invoiced, PaymentsHaveInvoices, ImportsAreBilled
<1>2. UNCHANGED <<invoice, paid>> => Bills
  BY <1>1 DEF Gross
<1>3. ASSUME NEW o \in Orders, NEW i \in Invoices, CreateInvoice(o, i)
      PROVE  Bills
  <2>1. /\ invoice' = [invoice EXCEPT ![i] = o] /\ paid' = paid
        /\ \A k \in Invoices : invoice[k] # o
        /\ paid[i] = 0 /\ invoice[i] = None
    BY <1>1, <1>3 DEF CreateInvoice, Invoiced
  <2>2. Underway(o)
    BY <1>3 DEF CreateInvoice, Exists, Underway
  <2>3. ~CancelOrder(o)
    BY <1>3, RowsAssumption DEF CreateInvoice, CancelOrder, billVars, TypeOK
  <2>4. i \notin Imported
    BY <1>1, <2>1, RowsAssumption
  <2>5. /\ invoice'[i] = o
        /\ \A k \in Invoices \ {i} : invoice'[k] = invoice[k] /\ Gross(k)' = Gross(k)
        /\ Gross(i)' = Amount[o]
    BY <2>1, <2>4 DEF TypeOK, Gross
  <2>6. paid'[i] <= Gross(i)'
    <3>1. Amount[o] \in Nat
      BY AmountAssumption
    <3>2. QED
      BY <2>1, <2>5, <3>1
  <2>7. QED
    BY <1>1, <2>1, <2>2, <2>3, <2>4, <2>5, <2>6
<1>4. ASSUME NEW i \in Invoices, NEW a \in 1..MaxAmount, RecordPayment(i, a)
      PROVE  Bills
  <2>1. /\ invoice[i] # None /\ invoice' = invoice
        /\ a <= Gross(i) - paid[i]
        /\ paid' = [paid EXCEPT ![i] = @ + a]
    BY <1>4 DEF RecordPayment
  <2>2. Gross(i) \in Nat /\ paid[i] \in Nat /\ a \in Nat
    BY <1>1, <2>1, AmountAssumption DEF Gross
  <2>3. paid'[i] <= Gross(i)
    BY <2>1, <2>2 DEF TypeOK
  <2>4. \A k \in Invoices \ {i} : paid'[k] = paid[k]
    BY <2>1 DEF TypeOK
  <2>5. \A k \in Invoices : Gross(k)' = Gross(k)
    BY <2>1 DEF Gross
  <2>6. QED
    BY <1>1, <2>1, <2>3, <2>4, <2>5
<1>5. Bills
  BY <1>2, <1>3, <1>4, BillingSteps
<1>6. ASSUME NEW i \in Invoices \ Imported, invoice'[i] # None
      PROVE  order'[invoice'[i]].status \notin {"Absent", "Draft", "Cancelled"}
  <2>1. invoice'[i] \in Orders /\ Underway(invoice'[i]) /\ ~CancelOrder(invoice'[i])
    BY <1>5, <1>6
  <2>2. PICK o \in Orders : o = invoice'[i]
    BY <2>1
  <2>3. Underway(o)'
    BY <2>1, <2>2, OrdersAdvance DEF Underway, Exists
  <2>4. QED
    BY <2>2, <2>3 DEF Underway
<1>7. QED
  BY <1>5, <1>6 DEF BilledOnce, PaymentsHaveInvoices, ImportsAreBilled, Underway

-----------------------------------------------------------------------------
(* Of the orders taken here nothing is there to begin with. *)
LEMMA OwnUntouched ==
  ASSUME Init, NEW o \in Own
  PROVE  /\ order[o] = NoOrder /\ shipped[o] = 0
         /\ PlannedQty(o) = 0 /\ CompletedQty(o) = 0
         /\ \A i \in Invoices : invoice[i] # o
<1>1. order[o] = NoOrder /\ shipped[o] = 0
  BY ImportedRows
<1>2. LiveJobs(o) = {} /\ CompletedJobs(o) = {}
  <2>1. \A j \in Jobs : job[j] # NoJob => job[j].order \in Imported
    BY ImportedRows DEF ImportedJobs
  <2>2. QED
    BY <2>1, RowsAssumption DEF LiveJobs, CompletedJobs, JobsOf, NoJob, Own
<1>3. \A i \in Invoices : invoice[i] # o
  BY ImportedRows, RowsAssumption DEF Own
<1>4. QED
  BY <1>1, <1>2, <1>3, TotalEmpty DEF PlannedQty, CompletedQty

LEMMA WorkspaceInit == Init => WorkspaceInv
<1> SUFFICES ASSUME Init
             PROVE  WorkspaceInv
  OBVIOUS
<1>1. TypeOK
  BY InitTyped
<1>2. JobsHaveOrders
  <2> SUFFICES ASSUME NEW j \in Jobs, job[j] # NoJob
               PROVE  order[job[j].order].status \notin {"Absent", "Draft"}
    BY DEF JobsHaveOrders
  <2>1. job[j].order \in Orders \cap Imported
    BY ImportedRows DEF ImportedJobs
  <2>2. order[job[j].order] \in ImportedOrders
    BY <2>1, ImportedRows
  <2>3. QED
    BY <2>2 DEF ImportedOrders
<1>3. QuantityChain /\ WholeOrderPlanned /\ CancelledIsInert
  BY OwnUntouched DEF QuantityChain, WholeOrderPlanned, CancelledIsInert, NoOrder, Underway
<1>4. ImportsAreBilled /\ PaymentsHaveInvoices
  BY ImportedRows, RowsAssumption DEF ImportsAreBilled, PaymentsHaveInvoices
<1>5. BilledOnce
  BY ImportedRows DEF BilledOnce, Gross
<1>6. QED
  BY <1>1, <1>2, <1>3, <1>4, <1>5 DEF WorkspaceInv

LEMMA WorkspaceStep == WorkspaceInv /\ [Next]_vars => WorkspaceInv'
<1> SUFFICES ASSUME WorkspaceInv, [Next]_vars
             PROVE  WorkspaceInv'
  OBVIOUS
<1>1. TypeOK' /\ JobsHaveOrders'
  BY TypedStep, JobsHaveOrdersStep DEF WorkspaceInv
<1>2. BilledOnce' /\ PaymentsHaveInvoices' /\ ImportsAreBilled'
  BY BilledOnceStep
<1>3. CancelledIsInert'
  BY <1>1, CancelledStep DEF CancelledIsInert
<1>4. \A o \in Own : Numbers(o)
  BY <1>1, NumbersStep
<1>5. WholeOrderPlanned'
  BY <1>4 DEF WholeOrderPlanned, Numbers
<1>6. \A o \in Own : CompletedQty(o)' <= PlannedQty(o)'
  BY <1>1, JobTotalsPrimed DEF Own
<1>7. QuantityChain'
  BY <1>4, <1>6 DEF QuantityChain, Numbers
<1>8. QED
  BY <1>1, <1>2, <1>3, <1>5, <1>7 DEF WorkspaceInv

(* The inductive invariant holds throughout. *)
THEOREM WorkspaceInvariance == Spec => []WorkspaceInv
BY WorkspaceInit, WorkspaceStep, PTL DEF Spec

(* Whatever commands are accepted, every row stays well-formed and within   *)
(* the bounds of the input checks.                                          *)
THEOREM WorkspaceTyped == Spec => []TypeOK
BY WorkspaceInvariance, PTL DEF WorkspaceInv

(* Of an order taken here never more is shipped than was made, made than    *)
(* was planned, or planned than was ordered.                                *)
THEOREM WorkspaceQuantityChain == Spec => []QuantityChain
BY WorkspaceInvariance, PTL DEF WorkspaceInv

(* Splitting and reporting jobs never loses a piece of an order that was    *)
(* confirmed here.                                                          *)
THEOREM WorkspaceWholeOrderPlanned == Spec => []WholeOrderPlanned
BY WorkspaceInvariance, PTL DEF WorkspaceInv

(* From an order taken here to the truck no piece is lost, made twice or    *)
(* invented.                                                                *)
THEOREM WorkspaceNoPieceLost == Spec => []NoPieceLost
BY WorkspaceQuantityChain, WorkspaceWholeOrderPlanned, PTL DEF NoPieceLost

(* An order taken here and cancelled is never worked on, shipped or billed. *)
THEOREM WorkspaceCancelledIsInert == Spec => []CancelledIsInert
BY WorkspaceInvariance, PTL DEF WorkspaceInv

(* No invoice is overpaid, and one made here bills an order that was not    *)
(* billed before, by an imported invoice neither, and is not cancelled.     *)
THEOREM WorkspaceBilledOnce == Spec => []BilledOnce
BY WorkspaceInvariance, PTL DEF WorkspaceInv

-----------------------------------------------------------------------------
(* The stored status of an order.                                           *)

Syncable == {"Confirmed", "In production", "Ready to dispatch"}

(* What StatusFollowsShipping says of one order. *)
ShippingShown(o) ==
  /\ order[o].status = "Dispatched" => shipped[o] = order[o].qty /\ ~Invoiced(o)
  /\ order[o].status = "Partially dispatched" => shipped[o] \in 1..(order[o].qty - 1)
  /\ o \in Own =>
       /\ shipped[o] = order[o].qty =>
            order[o].status = IF Invoiced(o) THEN "Completed" ELSE "Dispatched"
       /\ shipped[o] \in 1..(order[o].qty - 1) => order[o].status = "Partially dispatched"
       /\ order[o].status = "Completed" => shipped[o] = order[o].qty /\ Invoiced(o)

LEMMA ShippingShownOfAll ==
  StatusFollowsShipping <=> \A o \in Orders : Exists(o) => ShippingShown(o)
BY DEF StatusFollowsShipping, ShippingShown

(* Nothing has left of an order taken here that is in any other status. *)
LEMMA UnshippedOrders ==
  ASSUME WorkspaceInv, StatusFollowsShipping, NEW o \in Own,
         order[o].status \notin Shipping
  PROVE  shipped[o] = 0
<1>0. o \in Orders
  BY DEF Own
<1>1. /\ shipped[o] \in Nat /\ shipped[o] <= order[o].qty
  <2>1. /\ shipped[o] \in Nat /\ CompletedQty(o) \in Nat /\ PlannedQty(o) \in Nat
        /\ order[o].qty \in Nat
    BY <1>0, JobTotals DEF WorkspaceInv, TypeOK, OrderRows, NoOrder
  <2>2. /\ shipped[o] <= CompletedQty(o) /\ CompletedQty(o) <= PlannedQty(o)
        /\ PlannedQty(o) <= order[o].qty
    BY DEF WorkspaceInv, QuantityChain
  <2>3. QED
    BY <2>1, <2>2
<1>2. CASE Exists(o)
  <2>1. order[o].qty \in Nat
    BY <1>0, <1>2, RowTypes DEF WorkspaceInv, OrderRows
  <2>2. ShippingShown(o)
    BY <1>0, <1>2, ShippingShownOfAll
  <2>3. shipped[o] # order[o].qty /\ shipped[o] \notin 1..(order[o].qty - 1)
    BY <2>2 DEF ShippingShown, Shipping
  <2>4. QED
    BY <1>1, <2>1, <2>3
<1>3. CASE ~Exists(o)
  <2>1. order[o] \in OrderRows \cup {NoOrder}
    BY <1>0 DEF WorkspaceInv, TypeOK
  <2>2. order[o] \notin OrderRows
    BY <1>3 DEF Exists, OrderRows, OrderStatuses
  <2>3. order[o].qty = 0
    BY <2>1, <2>2 DEF NoOrder
  <2>4. QED
    BY <1>1, <2>3
<1>4. QED
  BY <1>2, <1>3

(* An order in no status of shipping, of which, if it was taken here,       *)
(* nothing has left.                                                        *)
LEMMA UnshippedShown ==
  ASSUME NEW o \in Orders, TypeOK', Exists(o)', o \in Own => shipped'[o] = 0,
         order'[o].status \notin Shipping
  PROVE  ShippingShown(o)'
<1>1. order'[o].qty \in 1..MaxQty
  BY DEF TypeOK, Exists, NoOrder, OrderRows
<1>2. o \in Own => shipped'[o] # order'[o].qty /\ shipped'[o] \notin 1..(order'[o].qty - 1)
  BY <1>1
<1>3. QED
  BY <1>2 DEF ShippingShown, Shipping

(* sync_order writes no status of shipping and overwrites none. *)
LEMMA SyncShown ==
  ASSUME WorkspaceInv, StatusFollowsShipping, TypeOK', NEW o \in Orders, Exists(o)',
         NEW p \in Orders, Exists(p), NEW jb, NEW jq,
         order' = [order EXCEPT ![p].status = SyncedStatus(p, jb, jq)],
         UNCHANGED <<shipped, invoice>>
  PROVE  ShippingShown(o)'
<1>1. CASE order'[o] = order[o]
  BY <1>1, ShippingShownOfAll DEF ShippingShown, Exists, Invoiced
<1>2. CASE order'[o] # order[o]
  <2>1. o = p
    BY <1>2, StatusWritten DEF WorkspaceInv
  <2>2. order'[o].status = SyncedStatus(o, jb, jq)
    BY <2>1, StatusWritten DEF WorkspaceInv
  <2>3. order[o].status \in Syncable /\ order'[o].status \in Syncable
    <3>1. SyncedStatus(o, jb, jq) # order[o].status
      BY <1>2, <2>1, <2>2, RowTypes DEF WorkspaceInv, TypeOK, OrderRows
    <3>2. QED
      BY <2>2, <3>1 DEF SyncedStatus, Syncable
  <2>4. o \in Own => shipped[o] = 0
    BY <2>3, UnshippedOrders DEF Syncable, Shipping
  <2>5. QED
    BY <2>3, <2>4, UnshippedShown DEF Syncable, Shipping
<1>3. QED
  BY <1>1, <1>2

LEMMA ShippingStep ==
  ASSUME WorkspaceInv, StatusFollowsShipping, [Next]_vars, TypeOK',
         NEW o \in Orders, Exists(o)'
  PROVE  ShippingShown(o)'
<1> USE DEF salesVars, jobVars, billVars
<1>0. TypeOK
  BY DEF WorkspaceInv
<1>1. ASSUME order'[o] = order[o], shipped'[o] = shipped[o], invoice' = invoice
      PROVE  ShippingShown(o)'
  BY <1>1, ShippingShownOfAll DEF ShippingShown, Exists, Invoiced
<1>2. CASE Quiet
  BY <1>1, <1>2 DEF Quiet
<1>3. ASSUME NEW p \in Orders, NEW n \in Qty, NEW l \in LeadRef, NewDraftOrder(p, n, l)
      PROVE  ShippingShown(o)'
  <2>1. CASE p = o
    <3>1. order[o].status = "Absent" /\ order'[o].status = "Draft"
      BY <1>0, <1>3, <2>1 DEF NewDraftOrder, NoOrder, TypeOK
    <3>2. o \in Own => shipped'[o] = 0
      BY <1>3, <3>1, UnshippedOrders DEF NewDraftOrder, Shipping
    <3>3. QED
      BY <3>1, <3>2, UnshippedShown DEF Shipping
  <2>2. CASE p # o
    BY <1>0, <1>1, <1>3, <2>2 DEF NewDraftOrder, TypeOK
  <2>3. QED
    BY <2>1, <2>2
<1>4. ASSUME NEW p \in Orders, NEW n \in Qty, NEW j \in Jobs, Confirming(p, n, j)
      PROVE  ShippingShown(o)'
  <2>1. CASE p = o
    <3>1. o \in Own => shipped'[o] = 0
      BY <1>4, <2>1, UnshippedOrders DEF Confirming, Shipping
    <3>2. QED
      BY <1>4, <2>1, <3>1, UnshippedShown DEF Confirming, Shipping
  <2>2. CASE p # o
    BY <1>1, <1>4, <2>2 DEF Confirming
  <2>3. QED
    BY <2>1, <2>2
<1>5. ASSUME NEW p \in Orders, CancelOrder(p)
      PROVE  ShippingShown(o)'
  <2>1. CASE p = o
    <3>1. order'[o].status = "Cancelled"
      BY <1>0, <1>5, <2>1, StatusWritten DEF CancelOrder, Exists
    <3>2. QED
      BY <1>5, <2>1, <3>1, UnshippedShown DEF CancelOrder, Shipping
  <2>2. CASE p # o
    BY <1>0, <1>1, <1>5, <2>2 DEF CancelOrder, TypeOK
  <2>3. QED
    BY <2>1, <2>2
<1>6. ASSUME NEW p \in Orders, NEW j \in Jobs, NEW n \in Qty, AddJob(p, j, n)
      PROVE  ShippingShown(o)'
  BY <1>6, SyncShown DEF AddJob, Exists
<1>7. ASSUME NEW j \in Jobs, NEW k \in Jobs, NEW n \in Qty, SplitJob(j, k, n)
      PROVE  ShippingShown(o)'
  <2>1. job[j].order \in Orders /\ Exists(job[j].order)
    BY <1>0, <1>7, RowTypes DEF SplitJob, JobRows, Exists
  <2>2. QED
    BY <1>7, <2>1, SyncShown DEF SplitJob
<1>8. ASSUME NEW j \in Jobs, NEW s \in ReportedStatuses, NEW q \in Progress,
             UpdateJob(j, s, q)
      PROVE  ShippingShown(o)'
  <2>1. job[j] \in JobRows
    BY <1>0, <1>8, RowTypes DEF UpdateJob
  <2>2. job[j].order \in Orders /\ Exists(job[j].order)
    BY <1>8, <2>1 DEF UpdateJob, JobRows, Exists, WorkspaceInv, JobsHaveOrders, NoJob
  <2>3. /\ order' = [order EXCEPT ![job[j].order].status =
                                   SyncedStatus(job[j].order, job', jobQty)]
        /\ UNCHANGED <<shipped, invoice>>
    BY <1>8 DEF UpdateJob
  <2>4. QED
    BY <2>2, <2>3, SyncShown
<1>9. ASSUME NEW p \in Orders, NEW n \in Qty, Dispatch(p, n)
      PROVE  ShippingShown(o)'
  <2>1. CASE p = o
    <3>0. Exists(o) /\ order[o] \in OrderRows
      BY <1>0, <1>9, <2>1, RowTypes DEF Dispatch
    <3>1. /\ order[o].qty \in Nat /\ shipped[o] \in Nat /\ n \in Nat \ {0}
          /\ order'[o].qty = order[o].qty
      <4>1. order'[o].qty = order[o].qty
        BY <1>0, <3>0, OrdersAdvance DEF WorkspaceInv
      <4>2. shipped[o] \in Nat /\ n \in Nat \ {0}
        BY <1>0, <1>9 DEF TypeOK, Qty
      <4>3. order[o].qty \in Nat
        BY <3>0 DEF OrderRows
      <4>4. QED
        BY <4>1, <4>2, <4>3
    <3>2. shipped'[o] = shipped[o] + n /\ shipped[o] + n <= order[o].qty
      BY <1>0, <1>9, <2>1 DEF Dispatch, TypeOK
    <3>3. order'[o].status = IF shipped[o] + n < order[o].qty THEN "Partially dispatched"
                             ELSE IF Invoiced(o) THEN "Completed" ELSE "Dispatched"
      BY <1>0, <1>9, <2>1, StatusWritten DEF Dispatch
    <3>4. Invoiced(o)' = Invoiced(o)
      BY <1>9 DEF Dispatch, Invoiced
    <3>5. CASE shipped[o] + n < order[o].qty
      <4>1. /\ shipped'[o] # order'[o].qty
            /\ shipped'[o] \in 1..(order'[o].qty - 1)
        BY <3>1, <3>2, <3>5
      <4>2. QED
        BY <3>3, <3>5, <4>1 DEF ShippingShown
    <3>6. CASE ~(shipped[o] + n < order[o].qty)
      <4>1. /\ shipped'[o] = order'[o].qty
            /\ shipped'[o] \notin 1..(order'[o].qty - 1)
        BY <3>1, <3>2, <3>6
      <4>2. QED
        BY <3>3, <3>4, <3>6, <4>1 DEF ShippingShown
    <3>7. QED
      BY <3>5, <3>6
  <2>2. CASE p # o
    BY <1>0, <1>1, <1>9, <2>2 DEF Dispatch, TypeOK
  <2>3. QED
    BY <2>1, <2>2
<1>10. ASSUME NEW p \in Orders, NEW i \in Invoices, CreateInvoice(p, i)
       PROVE  ShippingShown(o)'
  <2>0. invoice' = [invoice EXCEPT ![i] = p] /\ invoice[i] = None /\ shipped' = shipped
    BY <1>10 DEF CreateInvoice
  <2>1. CASE p = o
    <3>1. Exists(o) /\ ~Invoiced(o) /\ Invoiced(o)' /\ order'[o].qty = order[o].qty
      BY <1>0, <1>10, <2>0, <2>1 DEF CreateInvoice, Invoiced, TypeOK, OrderRows, NoOrder
    <3>2. ShippingShown(o)
      BY <3>1, ShippingShownOfAll
    <3>3. order'[o].status = IF shipped[o] = order[o].qty THEN "Completed" ELSE order[o].status
      BY <1>0, <1>10, <2>1, <3>1, StatusWritten DEF CreateInvoice
    <3>4. order[o].qty \in 1..MaxQty /\ shipped[o] \in Nat
      BY <1>0, <3>1, RowTypes DEF OrderRows, TypeOK
    <3>5. shipped[o] = order[o].qty => shipped[o] \notin 1..(order[o].qty - 1)
      BY <3>4
    <3>6. QED
      BY <2>0, <3>1, <3>2, <3>3, <3>5 DEF ShippingShown
  <2>2. CASE p # o
    <3>1. order'[o] = order[o]
      BY <1>0, <1>10, <2>2 DEF CreateInvoice, TypeOK
    <3>2. Invoiced(o)' = Invoiced(o)
      <4>1. o # None
        BY RowsAssumption
      <4>2. QED
        BY <1>0, <2>0, <2>2, <4>1 DEF Invoiced, TypeOK
    <3>3. QED
      BY <2>0, <3>1, <3>2, ShippingShownOfAll DEF ShippingShown, Exists
  <2>3. QED
    BY <2>1, <2>2
<1>11. QED
  BY <1>0, <1>2, <1>3, <1>4, <1>5, <1>6, <1>7, <1>8, <1>9, <1>10, StepKinds
-----------------------------------------------------------------------------
(* Every row of a job stands for at least one piece. *)
JobsHaveQty == \A j \in Jobs : job[j] # NoJob => jobQty[j] >= 1

LEMMA JobsHaveQtyStep ==
  ASSUME TypeOK, JobsHaveQty, [Next]_vars
  PROVE  JobsHaveQty'
<1> SUFFICES ASSUME NEW k \in Jobs, job'[k] # NoJob
             PROVE  jobQty'[k] >= 1
  BY DEF JobsHaveQty
<1> USE DEF salesVars, jobVars, billVars
<1>1. ASSUME jobQty'[k] = jobQty[k], job[k] # NoJob
      PROVE  jobQty'[k] >= 1
  BY <1>1 DEF JobsHaveQty
<1>2. \A o, n, j : n \in Qty /\ j \in Jobs /\ AddJobRow(j, o, n) => jobQty'[k] >= 1
  BY BoundsAssumption DEF AddJobRow, TypeOK, JobsHaveQty, Qty
<1>3. Quiet => jobQty'[k] >= 1
  BY <1>1 DEF Quiet
<1>4. \A o \in Orders, n \in Qty, l \in LeadRef : NewDraftOrder(o, n, l) => jobQty'[k] >= 1
  BY <1>1 DEF NewDraftOrder
<1>5. \A o \in Orders, n \in Qty, j \in Jobs : Confirming(o, n, j) => jobQty'[k] >= 1
  BY <1>1, <1>2 DEF Confirming, InitialJob
<1>6. ASSUME NEW o \in Orders, CancelOrder(o)
      PROVE  jobQty'[k] >= 1
  <2>1. job[k] # NoJob
    BY <1>6, RowsAssumption DEF CancelOrder, JobsOf, NoJob
  <2>2. QED
    BY <1>1, <1>6, <2>1 DEF CancelOrder
<1>7. \A o \in Orders, j \in Jobs, n \in Qty : AddJob(o, j, n) => jobQty'[k] >= 1
  BY <1>2 DEF AddJob
<1>8. ASSUME NEW i \in Jobs, NEW j \in Jobs, NEW n \in Qty, SplitJob(i, j, n)
      PROVE  jobQty'[k] >= 1
  <2>0. job[i].status = "Pending" /\ job[j] = NoJob /\ n <= jobQty[i] - 1
    BY <1>8 DEF SplitJob
  <2>1. jobQty[i] \in Nat /\ n \in Nat /\ n >= 1
    BY BoundsAssumption DEF TypeOK, Qty
  <2>2. i # j
    BY <2>0 DEF NoJob
  <2>3. jobQty' = [jobQty EXCEPT ![i] = @ - n, ![j] = n] /\ job' = [job EXCEPT ![j] = job[i]]
    BY <1>8 DEF SplitJob
  <2>4. CASE k = i
    <3>1. jobQty'[k] = jobQty[i] - n
      BY <2>2, <2>3, <2>4 DEF TypeOK
    <3>2. QED
      BY <2>0, <2>1, <3>1
  <2>5. CASE k = j
    <3>1. jobQty'[k] = n
      BY <2>3, <2>5 DEF TypeOK
    <3>2. QED
      BY <2>1, <3>1
  <2>6. CASE k # i /\ k # j
    BY <1>1, <2>3, <2>6 DEF TypeOK
  <2>7. QED
    BY <2>4, <2>5, <2>6
<1>9. ASSUME NEW j \in Jobs, NEW s \in ReportedStatuses, NEW q \in Progress,
             UpdateJob(j, s, q)
      PROVE  jobQty'[k] >= 1
  <2>1. job[j] # NoJob
    BY <1>9 DEF UpdateJob, NoJob
  <2>2. k # j => job'[k] = job[k]
    BY <1>9 DEF UpdateJob, TypeOK
  <2>3. QED
    BY <1>1, <1>9, <2>1, <2>2 DEF UpdateJob
<1>10. \A o \in Orders, n \in Qty : Dispatch(o, n) => jobQty'[k] >= 1
  BY <1>1 DEF Dispatch
<1>11. \A o \in Orders, i \in Invoices : CreateInvoice(o, i) => jobQty'[k] >= 1
  BY <1>1 DEF CreateInvoice
<1>12. QED
  BY <1>3, <1>4, <1>5, <1>6, <1>7, <1>8, <1>9, <1>10, <1>11, StepKinds

(* What StatusFollowsJobs says of one order. *)
Begun(o) == {j \in LiveJobs(o) : job[j].status # "Pending" \/ job[j].progress # 0}
JobsShown(o) ==
  /\ order[o].status = "In production" => Begun(o) # {}
  /\ order[o].status = "Ready to dispatch" =>
       LiveJobs(o) = CompletedJobs(o) /\ CompletedQty(o) = order[o].qty
  /\ o \in Own =>
       /\ order[o].status = "Confirmed" => Begun(o) = {}
       /\ order[o].status = "In production" => CompletedQty(o) < order[o].qty

LEMMA JobsShownOfAll == StatusFollowsJobs <=> \A o \in Orders : JobsShown(o)
BY DEF StatusFollowsJobs, JobsShown, Begun

(* The rows that add up to the whole total are all the rows, because every  *)
(* row counts for something.                                                *)
LEMMA TotalOfAll ==
  ASSUME NEW S, IsFiniteSet(S), NEW R \in SUBSET S, NEW M \in Nat, NEW f,
         \A x \in S : f[x] \in 0..M /\ f[x] >= 1, Total(f, R) = Total(f, S)
  PROVE  R = S
<1>1. SUFFICES ASSUME NEW x \in S, x \notin R
               PROVE  FALSE
  OBVIOUS
<1>2. IsFiniteSet(S \ {x})
  BY FS_Subset
<1>3. Total(f, S) = Total(f, S \ {x}) + f[x]
  BY TotalRemove
<1>4. R \in SUBSET (S \ {x})
  BY <1>1
<1>5. Total(f, R) <= Total(f, S \ {x})
  BY <1>2, <1>4, TotalSubset
<1>6. Total(f, S \ {x}) \in Nat
  BY <1>2, TotalType
<1>7. f[x] >= 1 /\ f[x] \in Nat
  OBVIOUS
<1>8. QED
  BY <1>3, <1>5, <1>6, <1>7

(* sync_order leaves a status that describes the jobs. *)
LEMMA SyncDescribes ==
  ASSUME TypeOK', JobsHaveQty', QuantityChain', NEW p \in Orders,
         order'[p].status = SyncedStatus(p, job', jobQty'),
         order'[p].qty = order[p].qty, order[p].qty \in Nat
  PROVE  JobsShown(p)'
<1> DEFINE live == LiveJobs(p)'
           closed == CompletedJobs(p)'
           ready == /\ live # {}
                    /\ Total(jobQty', live) = order[p].qty
                    /\ \A j \in live : job'[j].status = "Completed"
<1>1. /\ live = {j \in Jobs : job'[j].order = p /\ job'[j].status # "Cancelled"}
      /\ closed = {j \in live : job'[j].status = "Completed"}
  BY DEF LiveJobs, CompletedJobs, JobsOf
<1>2. /\ PlannedQty(p)' = Total(jobQty', live)
      /\ CompletedQty(p)' = Total(jobQty', closed)
      /\ Begun(p)' = {j \in live : job'[j].status # "Pending" \/ job'[j].progress # 0}
  BY DEF PlannedQty, CompletedQty, Begun
<1>3. IsFiniteSet(live) /\ closed \in SUBSET live /\ MaxQty \in Nat
  BY <1>1, FS_Subset, RowsAssumption, BoundsAssumption
<1>4. \A j \in live : jobQty'[j] \in 0..MaxQty /\ jobQty'[j] >= 1
  BY <1>1, RowsAssumption DEF JobsHaveQty, TypeOK, NoJob
<1> HIDE DEF live, closed
<1>5. Total(jobQty', live) \in Nat /\ Total(jobQty', closed) \in Nat
  BY <1>3, <1>4, FS_Subset, TotalType
<1>6. p \in Own => /\ Total(jobQty', closed) <= Total(jobQty', live)
                   /\ Total(jobQty', live) <= order[p].qty
  BY <1>2 DEF QuantityChain
<1>7. SyncedStatus(p, job', jobQty') =
        IF order[p].status \notin Syncable THEN order[p].status
        ELSE IF ready THEN "Ready to dispatch"
        ELSE IF Begun(p)' # {} THEN "In production"
        ELSE "Confirmed"
  BY <1>1, <1>2 DEF SyncedStatus, Syncable
<1>8. CASE order[p].status \notin Syncable
  BY <1>7, <1>8 DEF JobsShown, Syncable
<1>9. CASE order[p].status \in Syncable /\ ready
  <2>1. closed = live
    BY <1>1, <1>9
  <2>2. CompletedQty(p)' = order'[p].qty
    BY <1>2, <1>9, <2>1
  <2>3. order'[p].status = "Ready to dispatch"
    BY <1>7, <1>9
  <2>4. QED
    BY <2>1, <2>2, <2>3 DEF JobsShown, live, closed
<1>10. CASE order[p].status \in Syncable /\ ~ready /\ Begun(p)' # {}
  <2>1. live # {}
    BY <1>2, <1>10
  <2>2. p \in Own => Total(jobQty', closed) # order[p].qty
    <3> SUFFICES ASSUME p \in Own, Total(jobQty', closed) = order[p].qty
                 PROVE  FALSE
      OBVIOUS
    <3>1. Total(jobQty', closed) = Total(jobQty', live)
      BY <1>5, <1>6
    <3>2. closed = live
      BY <1>3, <1>4, <3>1, TotalOfAll
    <3>3. QED
      BY <1>1, <1>10, <2>1, <3>1, <3>2
  <2>3. p \in Own => CompletedQty(p)' < order'[p].qty
    BY <1>2, <1>5, <1>6, <2>2
  <2>4. order'[p].status = "In production"
    BY <1>7, <1>10
  <2>5. QED
    BY <1>10, <2>3, <2>4 DEF JobsShown
<1>11. CASE order[p].status \in Syncable /\ ~ready /\ Begun(p)' = {}
  <2>1. order'[p].status = "Confirmed"
    BY <1>7, <1>11
  <2>2. QED
    BY <1>11, <2>1 DEF JobsShown
<1>12. QED
  BY <1>8, <1>9, <1>10, <1>11

(* Nothing about an order whose row and jobs are left alone changes. *)
LEMMA JobsShownKept ==
  ASSUME NEW o \in Orders, JobsShown(o), order'[o] = order[o],
         \A j \in Jobs : \/ job'[j] = job[j] /\ jobQty'[j] = jobQty[j]
                         \/ job[j].order # o /\ job'[j].order # o
  PROVE  JobsShown(o)'
<1>1. LiveJobs(o)' = LiveJobs(o) /\ CompletedJobs(o)' = CompletedJobs(o)
  BY DEF LiveJobs, CompletedJobs, JobsOf
<1>0. /\ \A j \in LiveJobs(o) : job'[j] = job[j]
      /\ \A j \in CompletedJobs(o) : jobQty'[j] = jobQty[j]
  BY DEF LiveJobs, CompletedJobs, JobsOf
<1>2. Begun(o)' = Begun(o)
  BY <1>0, <1>1 DEF Begun
<1>4. CompletedQty(o)' = CompletedQty(o)
  BY <1>0, <1>1, TotalCongruence DEF CompletedQty
<1>5. QED
  BY <1>1, <1>2, <1>4 DEF JobsShown

LEMMA JobsShownStep ==
  ASSUME WorkspaceInv, JobsHaveQty, StatusFollowsJobs, [Next]_vars,
         TypeOK', JobsHaveQty', QuantityChain', NEW o \in Orders
  PROVE  JobsShown(o)'
<1> USE DEF salesVars, jobVars, billVars
<1>0. TypeOK /\ JobsHaveOrders /\ JobsShown(o)
  BY JobsShownOfAll DEF WorkspaceInv
<1>1. ASSUME order'[o] = order[o], UNCHANGED jobVars
      PROVE  JobsShown(o)'
  BY <1>0, <1>1, JobsShownKept
<1>2. ASSUME order'[o].status \notin Syncable
      PROVE  JobsShown(o)'
  BY <1>2 DEF JobsShown, Syncable
<1>3. Quiet => JobsShown(o)'
  BY <1>1 DEF Quiet
<1>4. ASSUME NEW p \in Orders, NEW n \in Qty, NEW l \in LeadRef, NewDraftOrder(p, n, l)
      PROVE  JobsShown(o)'
  <2>1. CASE p = o
    <3>1. order'[o].status = "Draft"
      BY <1>0, <1>4, <2>1 DEF NewDraftOrder, TypeOK
    <3>2. QED
      BY <1>2, <3>1 DEF Syncable
  <2>2. CASE p # o
    BY <1>0, <1>1, <1>4, <2>2 DEF NewDraftOrder, TypeOK
  <2>3. QED
    BY <2>1, <2>2
<1>5. ASSUME NEW p \in Orders, NEW n \in Qty, NEW k \in Jobs, Confirming(p, n, k)
      PROVE  JobsShown(o)'
  <2>1. \A j \in Jobs : \/ job'[j] = job[j]
                        \/ /\ j = k /\ job[k] = NoJob
                           /\ job'[j] = [order |-> p, status |-> "Pending", progress |-> 0,
                                         imported |-> FALSE]
    BY <1>0, <1>5, InitialJobEffect DEF Confirming
  <2>2. \A j \in Jobs : j # k => jobQty'[j] = jobQty[j]
    BY <1>0, <1>5 DEF Confirming, InitialJob, AddJobRow, TypeOK
  <2>3. CASE p # o
    <3>1. order'[o] = order[o]
      BY <1>5, <2>3 DEF Confirming
    <3>2. job'[k] = job[k] => jobQty'[k] = jobQty[k]
      BY <1>0, <1>5 DEF Confirming, InitialJob, AddJobRow, TypeOK, NoJob
    <3>3. NoJob.order # o
      BY RowsAssumption DEF NoJob
    <3>4. QED
      BY <1>0, <2>1, <2>2, <2>3, <3>1, <3>2, <3>3, JobsShownKept
  <2>4. CASE p = o
    <3>1. order'[o].status = "Confirmed"
      BY <1>5, <2>4 DEF Confirming
    <3>2. ASSUME o \in Own, NEW j \in Jobs, job'[j].order = o, job'[j].status # "Cancelled"
          PROVE  job'[j].status = "Pending" /\ job'[j].progress = 0
      <4>1. CASE job'[j] # job[j]
        BY <2>1, <4>1
      <4>2. CASE job'[j] = job[j]
        <5>1. job[j] # NoJob
          BY <3>2, <4>2, RowsAssumption DEF NoJob
        <5>2. order[o].status = "Confirmed"
          BY <1>0, <1>5, <2>4, <3>2, <4>2, <5>1 DEF Confirming, JobsHaveOrders
        <5>3. Begun(o) = {} /\ j \in LiveJobs(o)
          BY <1>0, <3>2, <4>2, <5>2 DEF JobsShown, LiveJobs, JobsOf
        <5>4. QED
          BY <4>2, <5>3 DEF Begun
      <4>3. QED
        BY <4>1, <4>2
    <3>3. o \in Own => Begun(o)' = {}
      BY <3>2 DEF Begun, LiveJobs, JobsOf
    <3>4. QED
      BY <3>1, <3>3 DEF JobsShown
  <2>5. QED
    BY <2>3, <2>4
<1>6. ASSUME NEW p \in Orders, CancelOrder(p)
      PROVE  JobsShown(o)'
  <2>1. CASE p = o
    <3>1. order'[o].status = "Cancelled"
      BY <1>0, <1>6, <2>1, StatusWritten DEF CancelOrder, Exists
    <3>2. QED
      BY <1>2, <3>1 DEF Syncable
  <2>2. CASE p # o
    <3>1. order'[o] = order[o]
      BY <1>0, <1>6, <2>2 DEF CancelOrder, TypeOK
    <3>2. ASSUME NEW j \in Jobs
          PROVE  \/ job'[j] = job[j] /\ jobQty'[j] = jobQty[j]
                 \/ job[j].order # o /\ job'[j].order # o
      <4>1. CASE j \notin JobsOf(p)
        BY <1>6, <4>1 DEF CancelOrder
      <4>2. CASE j \in JobsOf(p)
        <5>1. job[j] \in JobRows /\ job[j].order = p
          BY <1>0, <4>2, RowTypes DEF JobsOf
        <5>2. job'[j] = [job[j] EXCEPT !.status = "Cancelled"]
          BY <1>6, <4>2 DEF CancelOrder
        <5>3. job'[j].order = p
          BY <5>1, <5>2 DEF JobRows
        <5>4. QED
          BY <2>2, <5>1, <5>3
      <4>3. QED
        BY <4>1, <4>2
    <3>3. QED
      BY <1>0, <3>1, <3>2, JobsShownKept
  <2>3. QED
    BY <2>1, <2>2
<1>7. ASSUME NEW p \in Orders, Exists(p),
             order' = [order EXCEPT ![p].status = SyncedStatus(p, job', jobQty')],
             \A j \in Jobs : \/ job'[j] = job[j] /\ jobQty'[j] = jobQty[j]
                             \/ /\ job[j] = NoJob \/ job[j].order = p
                                /\ job'[j].order = p
      PROVE  JobsShown(o)'
  <2>1. CASE p = o
    <3>1. order'[o].status = SyncedStatus(o, job', jobQty')
      BY <1>0, <1>7, <2>1, StatusWritten
    <3>2. order'[o].qty = order[o].qty
      BY <1>0, <1>7, <2>1, OrdersAdvance
    <3>3. order[o] \in OrderRows
      BY <1>0, <1>7, <2>1, RowTypes
    <3>4. order[o].qty \in Nat
      BY <3>3 DEF OrderRows
    <3>5. QED
      BY <3>1, <3>2, <3>4, SyncDescribes
  <2>2. CASE p # o
    <3>1. order'[o] = order[o]
      BY <1>0, <1>7, <2>2, StatusWritten
    <3>2. NoJob.order # o
      BY RowsAssumption DEF NoJob
    <3>3. \A j \in Jobs : \/ job'[j] = job[j] /\ jobQty'[j] = jobQty[j]
                          \/ job[j].order # o /\ job'[j].order # o
      BY <1>7, <2>2, <3>2
    <3>4. QED
      BY <1>0, <3>1, <3>3, JobsShownKept
  <2>3. QED
    BY <2>1, <2>2
<1>8. ASSUME NEW p \in Orders, NEW k \in Jobs, NEW n \in Qty, AddJob(p, k, n)
      PROVE  JobsShown(o)'
  <2>1. /\ Exists(p)
        /\ order' = [order EXCEPT ![p].status = SyncedStatus(p, job', jobQty')]
        /\ AddJobRow(k, p, n)
    BY <1>8 DEF AddJob, Exists
  <2>2. \A j \in Jobs : \/ job'[j] = job[j] /\ jobQty'[j] = jobQty[j]
                        \/ job[j] = NoJob /\ job'[j].order = p
    BY <1>0, <2>1 DEF AddJobRow, TypeOK
  <2>3. QED
    BY <1>7, <2>1, <2>2
<1>9. ASSUME NEW i \in Jobs, NEW k \in Jobs, NEW n \in Qty, SplitJob(i, k, n)
      PROVE  JobsShown(o)'
  <2>1. job[i].order \in Orders /\ Exists(job[i].order)
    BY <1>0, <1>9, RowTypes DEF SplitJob, JobRows, Exists
  <2>2. /\ order' = [order EXCEPT ![job[i].order].status =
                                   SyncedStatus(job[i].order, job', jobQty')]
        /\ job[k] = NoJob /\ job' = [job EXCEPT ![k] = job[i]]
        /\ jobQty' = [jobQty EXCEPT ![i] = @ - n, ![k] = n]
    BY <1>9 DEF SplitJob
  <2>3. \A j \in Jobs : \/ job'[j] = job[j] /\ jobQty'[j] = jobQty[j]
                        \/ /\ job[j] = NoJob \/ job[j].order = job[i].order
                           /\ job'[j].order = job[i].order
    BY <1>0, <2>2 DEF TypeOK
  <2>4. QED
    BY <1>7, <2>1, <2>2, <2>3
<1>10. ASSUME NEW k \in Jobs, NEW s \in ReportedStatuses, NEW q \in Progress,
              UpdateJob(k, s, q)
       PROVE  JobsShown(o)'
  <2>1. job[k] \in JobRows /\ job[k] # NoJob
    BY <1>0, <1>10, RowTypes DEF UpdateJob, NoJob
  <2>2. job[k].order \in Orders /\ Exists(job[k].order)
    BY <1>0, <2>1 DEF JobRows, Exists, JobsHaveOrders
  <2>3. /\ order' = [order EXCEPT ![job[k].order].status =
                                   SyncedStatus(job[k].order, job', jobQty)]
        /\ jobQty' = jobQty
    BY <1>10 DEF UpdateJob
  <2>4. job'[k].order = job[k].order
    BY <1>0, <2>1, JobsStay
  <2>5. \A j \in Jobs : j # k => job'[j] = job[j]
    BY <1>0, <1>10 DEF UpdateJob, TypeOK
  <2>6. QED
    BY <1>7, <2>2, <2>3, <2>4, <2>5
<1>11. ASSUME NEW p \in Orders, NEW n \in Qty, Dispatch(p, n)
       PROVE  JobsShown(o)'
  <2>1. CASE p = o
    <3>1. order'[o].status \in Shipping
      <4>1. \/ order'[o].status = "Partially dispatched"
            \/ order'[o].status = "Completed" \/ order'[o].status = "Dispatched"
        BY <1>0, <1>11, <2>1, StatusWritten DEF Dispatch
      <4>2. QED
        BY <4>1 DEF Shipping
    <3>2. QED
      BY <1>2, <3>1 DEF Shipping, Syncable
  <2>2. CASE p # o
    BY <1>0, <1>1, <1>11, <2>2 DEF Dispatch, TypeOK
  <2>3. QED
    BY <2>1, <2>2
<1>12. ASSUME NEW p \in Orders, NEW i \in Invoices, CreateInvoice(p, i)
       PROVE  JobsShown(o)'
  <2>1. \/ order'[o] = order[o] \/ order'[o].status = "Completed"
    BY <1>0, <1>12, StatusWritten DEF CreateInvoice
  <2>2. UNCHANGED jobVars
    BY <1>12 DEF CreateInvoice
  <2>3. QED
    BY <1>1, <1>2, <2>1, <2>2 DEF Syncable
<1>13. QED
  BY <1>0, <1>3, <1>4, <1>5, <1>6, <1>8, <1>9, <1>10, <1>11, <1>12, StepKinds

-----------------------------------------------------------------------------
(* Quotations and the orders that came out of them. *)
LEMMA QuotesStep ==
  ASSUME TypeOK, JobsHaveOrders, QuoteConvertedOnce, [Next]_vars
  PROVE  QuoteConvertedOnce'
<1> USE DEF salesVars, jobVars, billVars
<1> DEFINE Made(q) == {o \in Orders : order[o].quote = q}
<1>1. ASSUME \A o \in Orders : order'[o].quote = order[o].quote,
             \A q \in Quotes : quote'[q].status = "Accepted" <=> quote[q].status = "Accepted"
      PROVE  QuoteConvertedOnce'
  BY <1>1 DEF QuoteConvertedOnce
<1>2. ASSUME order' = order,
             \A q \in Quotes : quote'[q].status = "Accepted" <=> quote[q].status = "Accepted"
      PROVE  QuoteConvertedOnce'
  BY <1>1, <1>2
<1>3. ASSUME NEW p \in Orders, NEW s, quote' = quote, Exists(p),
             order' = [order EXCEPT ![p].status = s]
      PROVE  QuoteConvertedOnce'
  <2>1. order[p] \in OrderRows
    BY <1>3, RowTypes
  <2>2. \A o \in Orders : order'[o].quote = order[o].quote
    BY <1>3, <2>1 DEF TypeOK, OrderRows
  <2>3. QED
    BY <1>1, <1>3, <2>2
<1>4. UNCHANGED vars => QuoteConvertedOnce'
  BY <1>2 DEF vars
<1>5. \A l \in Leads : (\E s : NewLead(l, s) \/ UpdateLead(l, s)) => QuoteConvertedOnce'
  BY <1>2 DEF NewLead, UpdateLead
<1>6. ASSUME NEW q \in Quotes, NEW l \in LeadRef, NewQuote(q, l)
      PROVE  QuoteConvertedOnce'
  BY <1>2, <1>6 DEF NewQuote, NoQuote, TypeOK
<1>7. ASSUME NEW q \in Quotes, NEW s, s # "Accepted", quote[q].status \in {"Draft",
             "Sent"},
             quote' = [quote EXCEPT ![q].status = s], order' = order
      PROVE  QuoteConvertedOnce'
  <2>1. quote[q] \in QuoteRows
    BY <1>7, RowTypes
  <2>2. quote'[q].status = s /\ \A r \in Quotes \ {q} : quote'[r] = quote[r]
    BY <1>7, <2>1 DEF TypeOK, QuoteRows
  <2>3. QED
    BY <1>2, <1>7, <2>2
<1>8. \A q \in Quotes : SendQuote(q) => QuoteConvertedOnce'
  BY <1>7 DEF SendQuote
<1>9. \A q \in Quotes, s \in {"Rejected", "Expired"} : CloseQuote(q, s) => QuoteConvertedOnce'
  BY <1>7 DEF CloseQuote
<1>10. ASSUME NEW q \in Quotes, NEW p \in Orders, NEW n \in Qty, NEW j \in Jobs,
              ConvertQuote(q, p, n, j)
       PROVE  QuoteConvertedOnce'
  <2>1. quote[q] \in QuoteRows
    BY <1>10, RowTypes DEF ConvertQuote
  <2>2. quote'[q].status = "Accepted" /\ \A r \in Quotes \ {q} : quote'[r] = quote[r]
    BY <1>10, <2>1 DEF ConvertQuote, TypeOK, QuoteRows
  <2>3. /\ order'[p].quote = q /\ order[p].quote = None
        /\ \A o \in Orders \ {p} : order'[o] = order[o] /\ order[o].quote # q
    BY <1>10 DEF ConvertQuote, TypeOK, NoOrder
  <2>4. \A r \in Quotes \ {q} : Made(r)' = Made(r)
    BY <2>3, RowsAssumption
  <2>5. Made(q)' = {p}
    BY <2>3
  <2>6. QED
    BY <2>2, <2>4, <2>5 DEF QuoteConvertedOnce
<1>11. ASSUME NEW p \in Orders, NEW s, NEW n, NEW l, order[p] = NoOrder, quote' = quote,
              order' = [order EXCEPT ![p] = [status |-> s, qty |-> n,
                                             quote |-> None, lead |-> l]]
       PROVE  QuoteConvertedOnce'
  <2>1. \A o \in Orders : order'[o].quote = order[o].quote
    BY <1>11 DEF TypeOK, NoOrder
  <2>2. QED
    BY <1>1, <1>11, <2>1
<1>12. ASSUME NEW p \in Orders, NEW n \in Qty, NEW l \in LeadRef, NewDraftOrder(p, n, l)
       PROVE  QuoteConvertedOnce'
  <2>1. /\ order[p] = NoOrder /\ quote' = quote
        /\ order' = [order EXCEPT ![p] = [status |-> "Draft", qty |-> n,
                                          quote |-> None, lead |-> l]]
    BY <1>12 DEF NewDraftOrder
  <2>2. QED
    BY <1>11, <2>1
<1>13. ASSUME NEW p \in Orders, NEW n \in Qty, NEW l \in LeadRef, NEW j \in Jobs,
              NewConfirmedOrder(p, n, l, j)
       PROVE  QuoteConvertedOnce'
  <2>1. /\ order[p] = NoOrder /\ quote' = quote
        /\ order' = [order EXCEPT ![p] = [status |-> "Confirmed", qty |-> n,
                                          quote |-> None, lead |-> l]]
    BY <1>13 DEF NewConfirmedOrder
  <2>2. QED
    BY <1>11, <2>1
<1>14. \A o \in Orders, j \in Jobs : ConfirmOrder(o, j) => QuoteConvertedOnce'
  BY <1>3 DEF ConfirmOrder, Exists
<1>15. \A o \in Orders : CancelOrder(o) => QuoteConvertedOnce'
  BY <1>3 DEF CancelOrder, Exists
<1>16. CASE SalesStep
  BY <1>5, <1>6, <1>8, <1>9, <1>10, <1>12, <1>13, <1>14, <1>15, <1>16 DEF SalesStep
<1>17. \A o \in Orders, j \in Jobs, n \in Qty : AddJob(o, j, n) => QuoteConvertedOnce'
  BY <1>3 DEF AddJob, Exists
<1>18. ASSUME NEW j \in Jobs, NEW k \in Jobs, NEW n \in Qty, SplitJob(j, k, n)
       PROVE  QuoteConvertedOnce'
  <2>1. job[j].order \in Orders /\ Exists(job[j].order)
    BY <1>18, RowTypes DEF SplitJob, JobRows, Exists
  <2>2. QED
    BY <1>3, <1>18, <2>1 DEF SplitJob
<1>19. ASSUME NEW j \in Jobs, NEW s \in ReportedStatuses, NEW q \in Progress,
              UpdateJob(j, s, q)
       PROVE  QuoteConvertedOnce'
  <2>1. job[j] \in JobRows /\ job[j] # NoJob
    BY <1>19, RowTypes DEF UpdateJob, NoJob
  <2>2. job[j].order \in Orders /\ Exists(job[j].order)
    BY <2>1 DEF JobRows, Exists, JobsHaveOrders
  <2>3. /\ order' = [order EXCEPT ![job[j].order].status =
                                   SyncedStatus(job[j].order, job', jobQty)]
        /\ quote' = quote
    BY <1>19 DEF UpdateJob
  <2>4. QED
    BY <1>3, <2>2, <2>3
<1>20. CASE ProductionStep
  BY <1>17, <1>18, <1>19, <1>20 DEF ProductionStep
<1>21. \A o \in Orders, n \in Qty : Dispatch(o, n) => QuoteConvertedOnce'
  BY <1>3 DEF Dispatch
<1>22. \A o \in Orders, i \in Invoices : CreateInvoice(o, i) => QuoteConvertedOnce'
  BY <1>2, <1>3 DEF CreateInvoice
<1>23. \A i \in Invoices, a \in 1..MaxAmount : RecordPayment(i, a) => QuoteConvertedOnce'
  BY <1>2 DEF RecordPayment
<1>24. CASE BillingStep
  BY <1>21, <1>22, <1>23, <1>24 DEF BillingStep
<1>25. QED
  BY <1>4, <1>16, <1>20, <1>24 DEF Next

-----------------------------------------------------------------------------
LEMMA SomeCommandAccepted ==
  ASSUME WorkspaceInv, StatusFollowsShipping
  PROVE  NeverStuck
<1> SUFFICES ASSUME NEW o \in Own, Underway(o),
                    order[o].status # "Completed", Invoiced(o),
                    ~(shipped[o] < CompletedQty(o)),
                    \A j \in JobsOf(o) : job[j].status \in {"Completed", "Cancelled"}
             PROVE  FALSE
  BY DEF NeverStuck
<1>1. LiveJobs(o) = CompletedJobs(o)
  BY DEF LiveJobs, CompletedJobs
<1>2. CompletedQty(o) = order[o].qty
  BY <1>1 DEF WorkspaceInv, WholeOrderPlanned, PlannedQty, CompletedQty
<1>3. shipped[o] \in Nat /\ CompletedQty(o) \in Nat /\ shipped[o] <= CompletedQty(o)
  BY JobTotals DEF WorkspaceInv, QuantityChain, TypeOK, Own
<1>4. shipped[o] = order[o].qty
  BY <1>2, <1>3
<1>5. QED
  BY <1>4 DEF StatusFollowsShipping, Exists, Underway, Own

(* Together with the inductive invariant of the quantities, an inductive    *)
(* invariant of the statuses.                                               *)
StatusInv ==
  /\ WorkspaceInv
  /\ JobsHaveQty
  /\ StatusFollowsShipping
  /\ StatusFollowsJobs
  /\ QuoteConvertedOnce

LEMMA StatusInit == Init => StatusInv
<1> SUFFICES ASSUME Init
             PROVE  StatusInv
  OBVIOUS
<1>1. WorkspaceInv
  BY WorkspaceInit
<1>2. JobsHaveQty
  <2> SUFFICES ASSUME NEW j \in Jobs, job[j] # NoJob
               PROVE  jobQty[j] >= 1
    BY DEF JobsHaveQty
  <2>1. job[j].order \in Orders \cap Imported /\ jobQty[j] = order[job[j].order].qty
    BY ImportedRows DEF ImportedJobs
  <2>2. order[job[j].order] \in ImportedOrders
    BY <2>1, ImportedRows
  <2>3. order[job[j].order].qty \in 1..MaxQty
    BY <2>2 DEF ImportedOrders
  <2>4. QED
    BY <2>1, <2>3, BoundsAssumption
<1>3. \A o \in Orders : IF o \in Imported
                        THEN order[o].status \in {"Confirmed", "Completed", "Cancelled"}
                        ELSE order[o].status = "Absent"
  BY ImportedRows DEF ImportedOrders, Own, NoOrder
<1>4. StatusFollowsShipping
  BY <1>3 DEF StatusFollowsShipping, Exists, Own
<1>5. StatusFollowsJobs
  BY <1>3 DEF StatusFollowsJobs, Own
<1>6. QuoteConvertedOnce
  <2>1. \A o \in Orders : order[o].quote # None =>
          o \in Imported /\ quote[order[o].quote].status = "Accepted"
    BY DEF Init, ImportedSales, NoOrder
  <2>2. \A q \in Quotes : q \notin Imported => quote[q].status # "Accepted"
    BY DEF Init, ImportedSales, NoQuote
  <2>3. QED
    BY <2>1, <2>2, RowsAssumption DEF QuoteConvertedOnce
<1>7. QED
  BY <1>1, <1>2, <1>4, <1>5, <1>6 DEF StatusInv

LEMMA StatusStep == StatusInv /\ [Next]_vars => StatusInv'
<1> SUFFICES ASSUME StatusInv, [Next]_vars
             PROVE  StatusInv'
  OBVIOUS
<1>1. WorkspaceInv'
  BY WorkspaceStep DEF StatusInv
<1>2. TypeOK /\ JobsHaveOrders /\ TypeOK' /\ QuantityChain'
  BY <1>1 DEF StatusInv, WorkspaceInv
<1>3. JobsHaveQty'
  BY <1>2, JobsHaveQtyStep DEF StatusInv
<1>4. StatusFollowsShipping'
  <2>1. \A o \in Orders : Exists(o)' => ShippingShown(o)'
    BY <1>2, ShippingStep DEF StatusInv
  <2>2. QED
    BY <2>1 DEF StatusFollowsShipping, ShippingShown, Exists, Invoiced
<1>5. StatusFollowsJobs'
  <2>1. \A o \in Orders : JobsShown(o)'
    BY <1>2, <1>3, JobsShownStep DEF StatusInv
  <2>2. QED
    BY <2>1 DEF StatusFollowsJobs, JobsShown, Begun
<1>6. QuoteConvertedOnce'
  BY <1>2, QuotesStep DEF StatusInv
<1>7. QED
  BY <1>1, <1>3, <1>4, <1>5, <1>6 DEF StatusInv

(* The inductive invariant of the statuses holds throughout. *)
THEOREM WorkspaceStatusInvariance == Spec => []StatusInv
BY StatusInit, StatusStep, PTL DEF Spec

(* The stored status of an order always says how far its jobs, dispatches   *)
(* and invoice are: sync_order and the commands that write a status leave   *)
(* none out of date, and what they write is true of imported orders too.    *)
THEOREM WorkspaceStatusTruthful == Spec => []StatusTruthful
<1>1. StatusInv => StatusTruthful
  BY DEF StatusInv, StatusTruthful
<1>2. QED
  BY <1>1, WorkspaceStatusInvariance, PTL

(* No command makes a second order out of a quotation, be it imported or    *)
(* not, or accepts one without making the order.                            *)
THEOREM WorkspaceQuoteConvertedOnce == Spec => []QuoteConvertedOnce
<1>1. StatusInv => QuoteConvertedOnce
  BY DEF StatusInv
<1>2. QED
  BY <1>1, WorkspaceStatusInvariance, PTL

(* For every order confirmed here that is not completed, apply accepts some *)
(* command that brings it forward.                                          *)
THEOREM WorkspaceNeverStuck == Spec => []NeverStuck
<1>1. StatusInv => NeverStuck
  BY SomeCommandAccepted DEF StatusInv
<1>2. QED
  BY <1>1, WorkspaceStatusInvariance, PTL

-----------------------------------------------------------------------------
(* What NothingGoesBack says of the step taken. *)
OrderAdvances(o) ==
  /\ order[o].status \in Shipping => order'[o].status \in Shipping
  /\ o \in Own /\ order[o].status \in {"Completed", "Cancelled"} => order'[o] = order[o]
  /\ Underway(o) => order'[o].status \notin {"Draft", "Absent"}
  /\ shipped[o] <= shipped'[o]
LeadAdvances(l) ==
  lead[l] # "Won" /\ lead'[l] = "Won" =>
    \E o \in Orders : order'[o].lead = l /\ order'[o].status \notin {"Draft", "Cancelled"}

LEMMA OrderAdvancesStep ==
  ASSUME WorkspaceInv, StatusFollowsShipping, [Next]_vars, TypeOK', NEW o \in Orders
  PROVE  OrderAdvances(o)
<1> USE DEF salesVars, jobVars, billVars
<1>0. TypeOK /\ shipped[o] \in Nat
  BY DEF WorkspaceInv, TypeOK
<1>1. ASSUME order'[o] = order[o], shipped'[o] = shipped[o]
      PROVE  OrderAdvances(o)
  BY <1>0, <1>1 DEF OrderAdvances, Underway
<1>2. ASSUME order[o].status \in {"Absent", "Draft", "Confirmed"},
             order'[o].status \in {"Confirmed", "Cancelled"}, shipped'[o] = shipped[o]
      PROVE  OrderAdvances(o)
  <2>1. shipped[o] <= shipped'[o]
    BY <1>0, <1>2
  <2>2. QED
    BY <1>2, <2>1 DEF OrderAdvances, Shipping
<1>3. ASSUME NEW p \in Orders, Exists(p), NEW jb, NEW jq, shipped' = shipped,
             order' = [order EXCEPT ![p].status = SyncedStatus(p, jb, jq)]
      PROVE  OrderAdvances(o)
  <2>1. CASE order'[o] = order[o]
    BY <1>1, <1>3, <2>1
  <2>2. CASE order'[o] # order[o]
    <3>1. o = p
      BY <1>0, <1>3, <2>2, StatusWritten
    <3>2. order'[o].status = SyncedStatus(o, jb, jq)
      BY <1>0, <1>3, <3>1, StatusWritten
    <3>3. SyncedStatus(o, jb, jq) # order[o].status
      <4>1. order[o] \in OrderRows
        BY <1>0, <1>3, <3>1, RowTypes
      <4>2. order' = [order EXCEPT ![o] = [order[o] EXCEPT !.status = SyncedStatus(o, jb, jq)]]
        BY <1>3, <3>1
      <4>3. QED
        BY <1>0, <2>2, <4>1, <4>2 DEF OrderRows, TypeOK
    <3>4. order[o].status \in Syncable /\ order'[o].status \in Syncable
      BY <3>2, <3>3 DEF SyncedStatus, Syncable
    <3>5. shipped[o] <= shipped'[o]
      BY <1>0, <1>3
    <3>6. QED
      BY <3>4, <3>5 DEF OrderAdvances, Syncable, Shipping
  <2>3. QED
    BY <2>1, <2>2
<1>4. Quiet => OrderAdvances(o)
  BY <1>1 DEF Quiet
<1>5. ASSUME NEW p \in Orders, NEW n \in Qty, NEW l \in LeadRef, NewDraftOrder(p, n, l)
      PROVE  OrderAdvances(o)
  <2>1. CASE p = o
    <3>1. order[o].status = "Absent" /\ shipped' = shipped
      BY <1>5, <2>1 DEF NewDraftOrder, NoOrder
    <3>2. QED
      BY <1>0, <3>1 DEF OrderAdvances, Shipping, Underway
  <2>2. CASE p # o
    BY <1>0, <1>1, <1>5, <2>2 DEF NewDraftOrder, TypeOK
  <2>3. QED
    BY <2>1, <2>2
<1>6. ASSUME NEW p \in Orders, NEW n \in Qty, NEW j \in Jobs, Confirming(p, n, j)
      PROVE  OrderAdvances(o)
  BY <1>1, <1>2, <1>6 DEF Confirming
<1>7. ASSUME NEW p \in Orders, CancelOrder(p)
      PROVE  OrderAdvances(o)
  <2>1. CASE p = o
    <3>1. order'[o].status = "Cancelled"
      BY <1>0, <1>7, <2>1, StatusWritten DEF CancelOrder, Exists
    <3>2. QED
      BY <1>2, <1>7, <2>1, <3>1 DEF CancelOrder
  <2>2. CASE p # o
    BY <1>0, <1>1, <1>7, <2>2 DEF CancelOrder, TypeOK
  <2>3. QED
    BY <2>1, <2>2
<1>8. \A p \in Orders, j \in Jobs, n \in Qty : AddJob(p, j, n) => OrderAdvances(o)
  BY <1>3 DEF AddJob, Exists
<1>9. ASSUME NEW i \in Jobs, NEW k \in Jobs, NEW n \in Qty, SplitJob(i, k, n)
      PROVE  OrderAdvances(o)
  <2>1. job[i].order \in Orders /\ Exists(job[i].order)
    BY <1>0, <1>9, RowTypes DEF SplitJob, JobRows, Exists
  <2>2. QED
    BY <1>3, <1>9, <2>1 DEF SplitJob
<1>10. ASSUME NEW j \in Jobs, NEW s \in ReportedStatuses, NEW q \in Progress,
              UpdateJob(j, s, q)
       PROVE  OrderAdvances(o)
  <2>1. job[j] \in JobRows /\ job[j] # NoJob
    BY <1>0, <1>10, RowTypes DEF UpdateJob, NoJob
  <2>2. job[j].order \in Orders /\ Exists(job[j].order)
    BY <2>1 DEF JobRows, Exists, WorkspaceInv, JobsHaveOrders
  <2>3. /\ order' = [order EXCEPT ![job[j].order].status =
                                   SyncedStatus(job[j].order, job', jobQty)]
        /\ shipped' = shipped
    BY <1>10 DEF UpdateJob
  <2>4. QED
    BY <1>3, <2>2, <2>3
<1>11. ASSUME NEW p \in Orders, NEW n \in Qty, Dispatch(p, n)
       PROVE  OrderAdvances(o)
  <2>1. CASE p = o
    <3>1. /\ Exists(o) /\ shipped'[o] = shipped[o] + n
          /\ shipped[o] + n <= order[o].qty /\ shipped[o] + n <= CompletedQty(o)
      BY <1>0, <1>11, <2>1 DEF Dispatch, TypeOK
    <3>2. n \in Nat /\ n >= 1
      BY BoundsAssumption DEF Qty
    <3>3. order'[o].status \in Shipping
      <4>1. \/ order'[o].status = "Partially dispatched"
            \/ order'[o].status = "Completed" \/ order'[o].status = "Dispatched"
        BY <1>0, <1>11, <2>1, StatusWritten DEF Dispatch
      <4>2. QED
        BY <4>1 DEF Shipping
    <3>4. o \in Own => order[o].status # "Completed"
      <4>1. shipped[o] # order[o].qty
        BY <1>0, <3>1, <3>2
      <4>2. QED
        BY <3>1, <4>1 DEF StatusFollowsShipping
    <3>5. o \in Own => order[o].status # "Cancelled"
      <4>0. CompletedQty(o) \in Nat
        BY <1>0, JobTotals
      <4>1. CompletedQty(o) # 0
        BY <1>0, <3>1, <3>2, <4>0
      <4>2. QED
        BY <4>1, IdleOrders DEF Underway
    <3>6. shipped[o] <= shipped'[o]
      BY <1>0, <3>1, <3>2
    <3>7. QED
      BY <3>3, <3>4, <3>5, <3>6 DEF OrderAdvances, Shipping
  <2>2. CASE p # o
    BY <1>0, <1>1, <1>11, <2>2 DEF Dispatch, TypeOK
  <2>3. QED
    BY <2>1, <2>2
<1>12. ASSUME NEW p \in Orders, NEW i \in Invoices, CreateInvoice(p, i)
       PROVE  OrderAdvances(o)
  <2>1. CASE order'[o] = order[o]
    BY <1>1, <1>12, <2>1 DEF CreateInvoice
  <2>2. CASE order'[o] # order[o]
    <3>1. order'[o].status = "Completed" /\ o = p
      BY <1>0, <1>12, <2>2, StatusWritten DEF CreateInvoice
    <3>2. ~Invoiced(o) /\ Exists(o) /\ order[o].status # "Cancelled" /\ shipped' = shipped
      BY <1>12, <3>1 DEF CreateInvoice
    <3>3. o \in Own => order[o].status # "Completed"
      BY <3>2 DEF StatusFollowsShipping
    <3>4. QED
      BY <1>0, <3>1, <3>2, <3>3 DEF OrderAdvances, Shipping
  <2>3. QED
    BY <2>1, <2>2
<1>13. QED
  BY <1>0, <1>4, <1>5, <1>6, <1>7, <1>8, <1>9, <1>10, <1>11, <1>12, StepKinds

LEMMA LeadAdvancesStep ==
  ASSUME TypeOK, [Next]_vars, NEW l \in Leads
  PROVE  LeadAdvances(l)
<1> USE DEF salesVars, jobVars, billVars
<1>1. ASSUME lead'[l] = lead[l] \/ lead'[l] # "Won"
      PROVE  LeadAdvances(l)
  BY <1>1 DEF LeadAdvances
<1>2. UNCHANGED lead => LeadAdvances(l)
  BY <1>1
<1>3. ASSUME NEW o \in Orders, WinLead(order'[o].lead), order'[o].status = "Confirmed"
      PROVE  LeadAdvances(l)
  BY <1>3 DEF LeadAdvances, WinLead
<1>4. ASSUME NEW k \in Leads, NEW s \in OpenStages, NewLead(k, s)
      PROVE  LeadAdvances(l)
  BY <1>1, <1>4 DEF NewLead, TypeOK, OpenStages
<1>5. ASSUME NEW k \in Leads, NEW s \in Stages, UpdateLead(k, s)
      PROVE  LeadAdvances(l)
  <2>1. CASE s # "Won" \/ k # l
    BY <1>1, <1>5, <2>1 DEF UpdateLead, TypeOK
  <2>2. CASE s = "Won" /\ k = l
    BY <1>5, <2>2 DEF UpdateLead, LeadAdvances
  <2>3. QED
    BY <2>1, <2>2
<1>6. \A q \in Quotes, k \in LeadRef : NewQuote(q, k) => LeadAdvances(l)
  BY <1>2 DEF NewQuote
<1>7. ASSUME NEW q \in Quotes, SendQuote(q)
      PROVE  LeadAdvances(l)
  BY <1>1, <1>7 DEF SendQuote
<1>8. \A q \in Quotes, s \in {"Rejected", "Expired"} : CloseQuote(q, s) => LeadAdvances(l)
  BY <1>2 DEF CloseQuote
<1>9. ASSUME NEW q \in Quotes, NEW o \in Orders, NEW n \in Qty, NEW j \in Jobs,
             ConvertQuote(q, o, n, j)
      PROVE  LeadAdvances(l)
  <2>1. order'[o].lead = quote[q].lead /\ order'[o].status = "Confirmed"
    BY <1>9 DEF ConvertQuote, TypeOK
  <2>2. QED
    BY <1>3, <1>9, <2>1 DEF ConvertQuote
<1>10. \A o \in Orders, n \in Qty, k \in LeadRef : NewDraftOrder(o, n, k) => LeadAdvances(l)
  BY <1>2 DEF NewDraftOrder
<1>11. ASSUME NEW o \in Orders, NEW n \in Qty, NEW k \in LeadRef, NEW j \in Jobs,
              NewConfirmedOrder(o, n, k, j)
       PROVE  LeadAdvances(l)
  <2>1. order'[o].lead = k /\ order'[o].status = "Confirmed"
    BY <1>11 DEF NewConfirmedOrder, TypeOK
  <2>2. QED
    BY <1>3, <1>11, <2>1 DEF NewConfirmedOrder
<1>12. ASSUME NEW o \in Orders, NEW j \in Jobs, ConfirmOrder(o, j)
       PROVE  LeadAdvances(l)
  <2>1. order[o] \in OrderRows /\ order' = [order EXCEPT ![o].status = "Confirmed"]
    BY <1>12, RowTypes DEF ConfirmOrder, Exists
  <2>2. order'[o].lead = order[o].lead /\ order'[o].status = "Confirmed"
    BY <2>1 DEF OrderRows, TypeOK
  <2>3. QED
    BY <1>3, <1>12, <2>2 DEF ConfirmOrder
<1>13. \A o \in Orders : CancelOrder(o) => LeadAdvances(l)
  BY <1>2 DEF CancelOrder
<1>14. CASE SalesStep
  BY <1>4, <1>5, <1>6, <1>7, <1>8, <1>9, <1>10, <1>11, <1>12, <1>13, <1>14 DEF SalesStep
<1>15. CASE ProductionStep
  BY <1>2, <1>15 DEF ProductionStep, AddJob, SplitJob, UpdateJob
<1>16. CASE BillingStep
  BY <1>2, <1>16 DEF BillingStep, Dispatch, CreateInvoice, RecordPayment
<1>17. QED
  BY <1>2, <1>14, <1>15, <1>16 DEF Next, vars

(* No command takes an order back: a shipping status is final, of an order  *)
(* taken here so are a cancellation and a completion, and an opportunity is *)
(* only won by an order that is confirmed.                                  *)
THEOREM WorkspaceNothingGoesBack == Spec => NothingGoesBack
<1>1. StatusInv /\ StatusInv' /\ [Next]_vars =>
        [/\ \A o \in Orders :
             /\ order[o].status \in Shipping => order'[o].status \in Shipping
             /\ o \in Own /\ order[o].status \in {"Completed", "Cancelled"} =>
                  order'[o] = order[o]
             /\ Underway(o) => order'[o].status \notin {"Draft", "Absent"}
             /\ shipped[o] <= shipped'[o]
         /\ \A l \in Leads : lead[l] # "Won" /\ lead'[l] = "Won" =>
             \E o \in Orders : /\ order'[o].lead = l
                               /\ order'[o].status \notin {"Draft", "Cancelled"}]_vars
  <2> SUFFICES ASSUME StatusInv, StatusInv', [Next]_vars
               PROVE  /\ \A o \in Orders : OrderAdvances(o)
                      /\ \A l \in Leads : LeadAdvances(l)
    BY DEF OrderAdvances, LeadAdvances
  <2>1. WorkspaceInv /\ TypeOK /\ TypeOK' /\ StatusFollowsShipping
    BY DEF StatusInv, WorkspaceInv
  <2>2. QED
    BY <2>1, OrderAdvancesStep, LeadAdvancesStep
<1>2. QED
  BY <1>1, WorkspaceStatusInvariance, PTL DEF Spec, NothingGoesBack

-----------------------------------------------------------------------------
(* What module Fulfilment sees of an order that was taken here.             *)
Phase(o) == IF Underway(o) THEN "agreed"
            ELSE IF order[o].status = "Cancelled" THEN "dropped" ELSE "offered"
Ordered(o) == IF Underway(o) THEN order[o].qty ELSE 0
Received(o) == Total(paid, {i \in Invoices : invoice[i] = o})

LEMMA OwnOrders == Own \subseteq Orders
BY DEF Own

(* A step that Fulfilment does not notice on order o. *)
SameTerms(o) == Phase(o)' = Phase(o) /\ Ordered(o)' = Ordered(o)
SameWork(o) == CompletedQty(o)' = CompletedQty(o)
SameShipped(o) == shipped'[o] = shipped[o]
SameBill(o) == Invoiced(o)' <=> Invoiced(o)
SameMoney(o) == Received(o)' = Received(o)

(* The variables of Fulfilment. *)
PhaseBar == [o \in Own |-> Phase(o)]
OrderedBar == [o \in Own |-> Ordered(o)]
MadeBar == [o \in Own |-> CompletedQty(o)]
SentBar == [o \in Own |-> shipped[o]]
BilledBar == [o \in Own |-> Invoiced(o)]
ReceivedBar == [o \in Own |-> Received(o)]

LEMMA SameBars ==
  /\ (\A o \in Own : SameTerms(o)) => PhaseBar' = PhaseBar /\ OrderedBar' = OrderedBar
  /\ (\A o \in Own : SameWork(o)) => MadeBar' = MadeBar
  /\ (\A o \in Own : SameShipped(o)) => SentBar' = SentBar
  /\ (\A o \in Own : SameBill(o)) => BilledBar' = BilledBar
  /\ (\A o \in Own : SameMoney(o)) => ReceivedBar' = ReceivedBar
<1>1. (\A o \in Own : SameTerms(o)) => PhaseBar' = PhaseBar
  BY DEF SameTerms, PhaseBar
<1>2. (\A o \in Own : SameTerms(o)) => OrderedBar' = OrderedBar
  BY DEF SameTerms, OrderedBar
<1>3. (\A o \in Own : SameWork(o)) => MadeBar' = MadeBar
  BY DEF SameWork, MadeBar
<1>4. (\A o \in Own : SameShipped(o)) => SentBar' = SentBar
  BY DEF SameShipped, SentBar
<1>5. (\A o \in Own : SameBill(o)) => BilledBar' = BilledBar
  BY DEF SameBill, BilledBar, Invoiced
<1>6. (\A o \in Own : SameMoney(o)) => ReceivedBar' = ReceivedBar
  BY DEF SameMoney, ReceivedBar
<1>7. QED
  BY <1>1, <1>2, <1>3, <1>4, <1>5, <1>6

(* When it notices nothing on any order, it stutters. *)
LEMMA PromiseStutter ==
  ASSUME TypeOK, TypeOK',
         \A o \in Own : /\ SameTerms(o) /\ SameWork(o) /\ SameShipped(o)
                           /\ SameBill(o) /\ SameMoney(o)
  PROVE  UNCHANGED Promise!vars
<1>1. /\ PhaseBar' = PhaseBar /\ OrderedBar' = OrderedBar
      /\ MadeBar' = MadeBar
      /\ SentBar' = SentBar
      /\ BilledBar' = BilledBar
      /\ ReceivedBar' = ReceivedBar
  BY SameBars
<1>2. QED
  BY <1>1
     DEF Promise!vars, PhaseBar, OrderedBar, MadeBar, SentBar, BilledBar, ReceivedBar,
         Phase, Ordered, Received

(* Each of the following steps on order p is a step of Fulfilment. *)
LEMMA PromiseAgree ==
  ASSUME TypeOK, TypeOK', NEW p \in Own, NEW n \in Qty,
         Phase(p) = "offered", Phase(p)' = "agreed", Ordered(p)' = n,
         \A o \in Own \ {p} : SameTerms(o),
         \A o \in Own : SameWork(o) /\ SameShipped(o) /\ SameBill(o) /\ SameMoney(o)
  PROVE  Promise!Next
<1>1. /\ MadeBar' = MadeBar
      /\ SentBar' = SentBar
      /\ BilledBar' = BilledBar
      /\ ReceivedBar' = ReceivedBar
  BY SameBars
<1>2. PhaseBar[p] = "offered" /\ PhaseBar' = [PhaseBar EXCEPT ![p] = "agreed"]
  BY DEF SameTerms, PhaseBar
<1>3. OrderedBar' = [OrderedBar EXCEPT ![p] = n]
  BY DEF SameTerms, OrderedBar
<1>4. Promise!Agree(p, n)
  BY <1>1, <1>2, <1>3
     DEF Promise!Agree, PhaseBar, OrderedBar, MadeBar, SentBar, BilledBar, ReceivedBar,
         Phase, Ordered, Received
<1>5. QED
  BY <1>4 DEF Promise!Next, Qty

LEMMA PromiseDrop ==
  ASSUME TypeOK, TypeOK', NEW p \in Own,
         Phase(p) \in {"offered", "agreed"}, Phase(p)' = "dropped", Ordered(p)' = 0,
         CompletedQty(p) = 0, ~Invoiced(p),
         \A o \in Own \ {p} : SameTerms(o),
         \A o \in Own : SameWork(o) /\ SameShipped(o) /\ SameBill(o) /\ SameMoney(o)
  PROVE  Promise!Next
<1>1. /\ MadeBar' = MadeBar
      /\ SentBar' = SentBar
      /\ BilledBar' = BilledBar
      /\ ReceivedBar' = ReceivedBar
  BY SameBars
<1>2. PhaseBar[p] \in {"offered", "agreed"} /\ PhaseBar' = [PhaseBar EXCEPT ![p] = "dropped"]
  BY DEF SameTerms, PhaseBar
<1>3. OrderedBar' = [OrderedBar EXCEPT ![p] = 0]
  BY DEF SameTerms, OrderedBar
<1>4. MadeBar[p] = 0
  BY DEF MadeBar
<1>5. ~BilledBar[p]
  BY DEF BilledBar
<1>6. Promise!Drop(p)
  BY <1>1, <1>2, <1>3, <1>4, <1>5
     DEF Promise!Drop, PhaseBar, OrderedBar, MadeBar, SentBar, BilledBar, ReceivedBar,
         Phase, Ordered, Received
<1>7. QED
  BY <1>6 DEF Promise!Next, Qty

LEMMA PromiseMake ==
  ASSUME TypeOK, TypeOK', NEW p \in Own, NEW n \in Qty,
         Phase(p) = "agreed", CompletedQty(p) + n <= Ordered(p),
         CompletedQty(p)' = CompletedQty(p) + n,
         \A o \in Own \ {p} : SameWork(o),
         \A o \in Own : SameTerms(o) /\ SameShipped(o) /\ SameBill(o) /\ SameMoney(o)
  PROVE  Promise!Next
<1>1. /\ PhaseBar' = PhaseBar /\ OrderedBar' = OrderedBar
      /\ SentBar' = SentBar
      /\ BilledBar' = BilledBar
      /\ ReceivedBar' = ReceivedBar
  BY SameBars
<1>2. PhaseBar[p] = "agreed" /\ MadeBar[p] + n <= OrderedBar[p]
  BY DEF PhaseBar, MadeBar, OrderedBar
<1>3. MadeBar' = [MadeBar EXCEPT ![p] = @ + n]
  BY DEF SameWork, MadeBar
<1>4. Promise!Make(p, n)
  BY <1>1, <1>2, <1>3
     DEF Promise!Make, PhaseBar, OrderedBar, MadeBar, SentBar, BilledBar, ReceivedBar,
         Phase, Ordered, Received
<1>5. QED
  BY <1>4 DEF Promise!Next, Qty

LEMMA PromiseShip ==
  ASSUME TypeOK, TypeOK', NEW p \in Own, NEW n \in Qty,
         shipped[p] + n <= CompletedQty(p), shipped' = [shipped EXCEPT ![p] = @ + n],
         \A o \in Own : SameTerms(o) /\ SameWork(o) /\ SameBill(o) /\ SameMoney(o)
  PROVE  Promise!Next
<1>1. /\ PhaseBar' = PhaseBar /\ OrderedBar' = OrderedBar
      /\ MadeBar' = MadeBar
      /\ BilledBar' = BilledBar
      /\ ReceivedBar' = ReceivedBar
  BY SameBars
<1>2. /\ SentBar[p] + n <= MadeBar[p]
      /\ SentBar' = [SentBar EXCEPT ![p] = @ + n]
  BY DEF MadeBar, SentBar, TypeOK, Own
<1>3. Promise!Ship(p, n)
  BY <1>1, <1>2
     DEF Promise!Ship, PhaseBar, OrderedBar, MadeBar, SentBar, BilledBar, ReceivedBar,
         Phase, Ordered, Received
<1>4. QED
  BY <1>3 DEF Promise!Next, Qty

LEMMA PromiseBill ==
  ASSUME TypeOK, TypeOK', NEW p \in Own,
         Phase(p) = "agreed", ~Invoiced(p), Invoiced(p)',
         \A o \in Own \ {p} : SameBill(o),
         \A o \in Own : SameTerms(o) /\ SameWork(o) /\ SameShipped(o) /\ SameMoney(o)
  PROVE  Promise!Next
<1>1. /\ PhaseBar' = PhaseBar /\ OrderedBar' = OrderedBar
      /\ MadeBar' = MadeBar
      /\ SentBar' = SentBar
      /\ ReceivedBar' = ReceivedBar
  BY SameBars
<1>2. PhaseBar[p] = "agreed" /\ ~BilledBar[p]
  BY DEF PhaseBar, BilledBar
<1>3. BilledBar' = [BilledBar EXCEPT ![p] = TRUE]
  BY DEF SameBill, BilledBar, Invoiced
<1>4. Promise!Bill(p)
  BY <1>1, <1>2, <1>3
     DEF Promise!Bill, PhaseBar, OrderedBar, MadeBar, SentBar, BilledBar, ReceivedBar,
         Phase, Ordered, Received
<1>5. QED
  BY <1>4 DEF Promise!Next, Qty

LEMMA PromiseReceive ==
  ASSUME TypeOK, TypeOK', NEW p \in Own, NEW a \in 1..Amount[p],
         Invoiced(p), Received(p) + a <= Amount[p], Received(p)' = Received(p) + a,
         \A o \in Own \ {p} : SameMoney(o),
         \A o \in Own : SameTerms(o) /\ SameWork(o) /\ SameShipped(o) /\ SameBill(o)
  PROVE  Promise!Next
<1>1. /\ PhaseBar' = PhaseBar /\ OrderedBar' = OrderedBar
      /\ MadeBar' = MadeBar
      /\ SentBar' = SentBar
      /\ BilledBar' = BilledBar
  BY SameBars
<1>2. BilledBar[p] /\ ReceivedBar[p] + a <= Amount[p]
  BY DEF BilledBar, ReceivedBar
<1>3. ReceivedBar' = [ReceivedBar EXCEPT ![p] = @ + a]
  BY DEF SameMoney, ReceivedBar
<1>4. Promise!Receive(p, a)
  BY <1>1, <1>2, <1>3
     DEF Promise!Receive, PhaseBar, OrderedBar, MadeBar, SentBar, BilledBar, ReceivedBar,
         Phase, Ordered, Received
<1>5. QED
  BY <1>4 DEF Promise!Next, Qty

(* Only a payment changes what was paid. *)
LEMMA PaidKept ==
  ASSUME [Next]_vars
  PROVE  \/ paid' = paid
         \/ \E i \in Invoices : \E a \in 1..MaxAmount : RecordPayment(i, a)
<1> USE DEF salesVars, jobVars, billVars
<1>1. SalesStep \/ ProductionStep => paid' = paid
  BY DEF SalesStep, ProductionStep, NewLead, UpdateLead, NewQuote, SendQuote, CloseQuote,
         ConvertQuote, NewDraftOrder, NewConfirmedOrder, ConfirmOrder, CancelOrder,
         AddJob, SplitJob, UpdateJob
<1>2. BillingStep => \/ paid' = paid
                    \/ \E i \in Invoices : \E a \in 1..MaxAmount : RecordPayment(i, a)
  BY DEF BillingStep, Dispatch, CreateInvoice
<1>3. QED
  BY <1>1, <1>2 DEF Next, vars

(* An invoice made here is the only one of its order, so what was received  *)
(* for the order was paid on it.                                            *)
LEMMA ReceivedOnInvoice ==
  ASSUME TypeOK, BilledOnce, NEW i \in Invoices \ Imported, invoice[i] # None
  PROVE  Received(invoice[i]) = paid[i]
<1>1. {k \in Invoices : invoice[k] = invoice[i]} = {} \cup {i}
  BY DEF BilledOnce
<1>2. \A k \in {} \cup {i} : paid[k] \in 0..MaxAmount
  BY DEF TypeOK
<1>3. IsFiniteSet({}) /\ MaxAmount \in Nat /\ i \notin {}
  BY FS_EmptySet, BoundsAssumption
<1>4. Total(paid, {} \cup {i}) = Total(paid, {}) + paid[i]
  BY <1>2, <1>3, TotalAdd
<1>5. Total(paid, {}) = 0
  BY TotalEmpty
<1>6. paid[i] \in Nat
  BY <1>2, BoundsAssumption
<1>7. Received(invoice[i]) = Total(paid, {k \in Invoices : invoice[k] = invoice[i]})
  BY DEF Received
<1>8. Received(invoice[i]) = Total(paid, {} \cup {i})
  BY <1>1, <1>7, Zenon
<1>9. Total(paid, {} \cup {i}) = paid[i]
  BY <1>4, <1>5, <1>6
<1>10. QED
  BY <1>8, <1>9

LEMMA PaymentReceives ==
  ASSUME TypeOK, TypeOK', BilledOnce, BilledOnce', ImportsAreBilled, NEW i \in Invoices,
         NEW a \in 1..MaxAmount, RecordPayment(i, a)
  PROVE  Promise!Next \/ UNCHANGED Promise!vars
<1> USE DEF salesVars, jobVars, billVars
<1>2. PICK p \in Orders : p = invoice[i]
  BY DEF RecordPayment, TypeOK
<1>1. /\ p # None /\ a <= Gross(i) - paid[i] /\ paid' = [paid EXCEPT ![i] = @ + a]
      /\ UNCHANGED <<order, job, jobQty, shipped, invoice>>
  BY <1>2 DEF RecordPayment
<1>3. \A o \in Orders \ {p} : SameMoney(o)
  <2> SUFFICES ASSUME NEW o \in Orders \ {p}
               PROVE  Received(o)' = Received(o)
    BY DEF SameMoney
  <2> DEFINE I == {k \in Invoices : invoice[k] = o}
  <2>1. \A k \in I : paid'[k] = paid[k]
    BY <1>1, <1>2 DEF TypeOK
  <2>2. Total(paid', I) = Total(paid, I)
    BY <2>1, TotalCongruence
  <2>3. QED
    BY <1>1, <2>2 DEF Received
<1>4. \A o \in Orders : SameTerms(o) /\ SameWork(o) /\ SameShipped(o) /\ SameBill(o)
  BY <1>1 DEF SameTerms, SameWork, SameShipped, SameBill, Phase, Ordered, Underway,
              CompletedQty, CompletedJobs, JobsOf, Invoiced
<1>5. CASE p \notin Own
  BY <1>3, <1>4, <1>5, OwnOrders, PromiseStutter
<1>6. CASE p \in Own
  <2>1. i \notin Imported /\ Gross(i) = Amount[p]
    BY <1>2, <1>6 DEF ImportsAreBilled, Own, Gross
  <2>2. /\ paid[i] \in Nat /\ a \in Nat /\ a >= 1 /\ Amount[p] \in Nat
    BY AmountAssumption, BoundsAssumption DEF TypeOK
  <2>3. a \in 1..Amount[p]
    BY <1>1, <2>1, <2>2
  <2>4. Received(p) = paid[i]
    BY <1>1, <1>2, <2>1, ReceivedOnInvoice
  <2>5. Received(p)' = paid'[i]
    <3>1. {k \in Invoices : invoice'[k] = p} = {} \cup {i}
      BY <1>1, <1>2, <2>1 DEF BilledOnce
    <3>2. \A k \in {} \cup {i} : paid'[k] \in 0..MaxAmount
      BY DEF TypeOK
    <3>3. IsFiniteSet({}) /\ MaxAmount \in Nat /\ i \notin {}
      BY FS_EmptySet, BoundsAssumption
    <3>4. Total(paid', {} \cup {i}) = Total(paid', {}) + paid'[i]
      BY <3>2, <3>3, TotalAdd
    <3>5. Total(paid', {}) = 0
      BY TotalEmpty
    <3>6. paid'[i] \in Nat
      BY <3>2, BoundsAssumption
    <3>7. Received(p)' = Total(paid', {k \in Invoices : invoice'[k] = p})
      BY <1>1 DEF Received
    <3>8. QED
      BY <3>1, <3>4, <3>5, <3>6, <3>7
  <2>6. paid'[i] = paid[i] + a
    BY <1>1 DEF TypeOK
  <2>7. Received(p) + a <= Amount[p] /\ Received(p)' = Received(p) + a
    BY <1>1, <2>1, <2>2, <2>4, <2>5, <2>6
  <2>8. Invoiced(p)
    BY <1>2 DEF Invoiced
  <2>9. QED
    BY <1>3, <1>4, <1>6, <2>3, <2>7, <2>8, OwnOrders, PromiseReceive
<1>7. QED
  BY <1>5, <1>6

(* A completed job adds its quantity to what is made of its order, a report *)
(* that completes none adds nothing.                                        *)
LEMMA ReportedTotals ==
  ASSUME TypeOK, NEW j \in Jobs, NEW s \in ReportedStatuses, NEW q \in Progress,
         UpdateJob(j, s, q), NEW o \in Orders
  PROVE  CompletedQty(o)' = IF job'[j].status = "Completed" /\ o = job[j].order
                            THEN CompletedQty(o) + jobQty[j] ELSE CompletedQty(o)
<1>1. job[j] \in JobRows
  BY RowTypes DEF UpdateJob
<1>2. /\ job'[j].order = job[j].order
      /\ job[j].status # "Completed"
      /\ \A k \in Jobs \ {j} : job'[k] = job[k]
      /\ jobQty' = jobQty
  BY <1>1 DEF UpdateJob, TypeOK, JobRows, jobVars
<1>3. CompletedJobs(o)' = IF job'[j].status = "Completed" /\ o = job[j].order
                          THEN CompletedJobs(o) \cup {j} ELSE CompletedJobs(o)
  BY <1>2 DEF CompletedJobs, JobsOf
<1>4. Total(jobQty, CompletedJobs(o) \cup {j}) = Total(jobQty, CompletedJobs(o)) + jobQty[j]
  <2>1. IsFiniteSet(CompletedJobs(o)) /\ MaxQty \in Nat
    BY JobTotals, BoundsAssumption
  <2>2. j \notin CompletedJobs(o)
    BY <1>2 DEF CompletedJobs
  <2>3. \A k \in CompletedJobs(o) \cup {j} : jobQty[k] \in 0..MaxQty
    BY DEF CompletedJobs, JobsOf, TypeOK
  <2>4. QED
    BY <2>1, <2>2, <2>3, TotalAdd
<1>5. QED
  BY <1>2, <1>3, <1>4 DEF CompletedQty

LEMMA TermsKept ==
  ASSUME NEW o \in Orders,
         \/ order'[o] = order[o]
         \/ Underway(o) /\ Underway(o)' /\ order'[o].qty = order[o].qty
         \/ order[o].status \in {"Absent", "Draft"} /\ order'[o].status \in {"Absent", "Draft"}
  PROVE  SameTerms(o)
BY DEF SameTerms, Phase, Ordered, Underway

LEMMA BillsKept ==
  ASSUME UNCHANGED <<invoice, paid>>
  PROVE  \A o \in Orders : SameBill(o) /\ SameMoney(o)
BY DEF SameBill, SameMoney, Invoiced, Received

(* sync_order does not change the terms of an order. *)
LEMMA SyncKeepsTerms ==
  ASSUME TypeOK, NEW p \in Orders, Underway(p), NEW jb, NEW jq,
         order' = [order EXCEPT ![p].status = SyncedStatus(p, jb, jq)]
  PROVE  \A o \in Orders : SameTerms(o)
<1>1. Exists(p) /\ order[p] \in OrderRows
  BY RowTypes DEF Underway, Exists
<1>2. /\ order'[p].status = SyncedStatus(p, jb, jq)
      /\ \A o \in Orders \ {p} : order'[o] = order[o]
  BY <1>1, StatusWritten
<1>3. order'[p].qty = order[p].qty
  BY <1>1 DEF TypeOK, OrderRows
<1>4. Underway(p)'
  <2>1. \/ order'[p].status = order[p].status
        \/ order'[p].status \in {"Confirmed", "In production", "Ready to dispatch"}
    BY <1>2, SyncedStatusType
  <2>2. QED
    BY <2>1 DEF Underway
<1>5. QED
  BY <1>2, <1>3, <1>4, TermsKept

LEMMA ConfirmingAgrees ==
  ASSUME StatusInv, TypeOK', NEW p \in Orders, NEW n \in Qty, NEW j \in Jobs,
         Confirming(p, n, j)
  PROVE  Promise!Next \/ UNCHANGED Promise!vars
<1> USE DEF salesVars, jobVars, billVars
<1>0. TypeOK
  BY DEF StatusInv, WorkspaceInv
<1>1. \A o \in Orders : SameWork(o)
  <2>1. CASE AddJobRow(j, p, n)
    BY <1>0, <2>1, AddedTotals DEF SameWork
  <2>2. CASE UNCHANGED jobVars
    BY <2>2 DEF SameWork, CompletedQty, CompletedJobs, JobsOf
  <2>3. QED
    BY <2>1, <2>2 DEF Confirming, InitialJob
<1>2. \A o \in Orders : SameShipped(o) /\ SameBill(o) /\ SameMoney(o)
  BY BillsKept DEF Confirming, SameShipped
<1>3. \A o \in Orders \ {p} : SameTerms(o)
  BY TermsKept DEF Confirming
<1>4. Underway(p)' /\ order'[p].qty = n
  BY DEF Confirming, Underway
<1>5. CASE order[p].status = "Confirmed"
  <2>1. SameTerms(p)
    BY <1>4, <1>5, TermsKept DEF Confirming, Underway, Exists
  <2>2. QED
    BY <1>0, <1>1, <1>2, <1>3, <2>1, OwnOrders, PromiseStutter
<1>6. CASE order[p].status \in {"Absent", "Draft"} /\ p \in Own
  <2>1. Phase(p) = "offered" /\ Phase(p)' = "agreed" /\ Ordered(p)' = n
    BY <1>4, <1>6 DEF Phase, Ordered, Underway
  <2>2. QED
    BY <1>0, <1>1, <1>2, <1>3, <1>6, <2>1, OwnOrders, PromiseAgree
<1>7. CASE p \notin Own
  BY <1>0, <1>1, <1>2, <1>3, <1>7, OwnOrders, PromiseStutter
<1>8. QED
  BY <1>5, <1>6, <1>7 DEF Confirming

LEMMA CancelDrops ==
  ASSUME StatusInv, TypeOK', NEW p \in Orders, CancelOrder(p)
  PROVE  Promise!Next \/ UNCHANGED Promise!vars
<1> USE DEF salesVars, jobVars, billVars
<1>0. TypeOK
  BY DEF StatusInv, WorkspaceInv
<1>1. /\ order'[p].status = "Cancelled"
      /\ \A o \in Orders \ {p} : order'[o] = order[o]
  BY <1>0, StatusWritten DEF CancelOrder, Exists
<1>2. Phase(p) \in {"offered", "agreed"} /\ Phase(p)' = "dropped" /\ Ordered(p)' = 0
  BY <1>1 DEF CancelOrder, Phase, Ordered, Underway
<1>3. CompletedQty(p) = 0
  <2>1. CompletedJobs(p) = {}
    BY DEF CancelOrder, CompletedJobs
  <2>2. QED
    BY <2>1, TotalEmpty DEF CompletedQty
<1>4. \A o \in Orders : SameWork(o)
  BY <1>0, <1>3, CancelTotals DEF SameWork
<1>5. \A o \in Orders : SameShipped(o) /\ SameBill(o) /\ SameMoney(o)
  BY BillsKept DEF CancelOrder, SameShipped
<1>6. \A o \in Orders \ {p} : SameTerms(o)
  BY <1>1, TermsKept
<1>7. CASE p \in Own
  BY <1>0, <1>2, <1>3, <1>4, <1>5, <1>6, <1>7, OwnOrders, PromiseDrop DEF CancelOrder
<1>8. CASE p \notin Own
  BY <1>0, <1>4, <1>5, <1>6, <1>8, OwnOrders, PromiseStutter
<1>9. QED
  BY <1>7, <1>8

LEMMA ReportMakes ==
  ASSUME StatusInv, TypeOK', QuantityChain', NEW j \in Jobs, NEW s \in ReportedStatuses,
         NEW q \in Progress, UpdateJob(j, s, q)
  PROVE  Promise!Next \/ UNCHANGED Promise!vars
<1> USE DEF salesVars, jobVars, billVars
<1>0. TypeOK /\ JobsHaveOrders
  BY DEF StatusInv, WorkspaceInv
<1>1. job[j] \in JobRows /\ job[j] # NoJob
  BY <1>0, RowTypes DEF UpdateJob, NoJob
<1>2. PICK p \in Orders : p = job[j].order
  BY <1>1 DEF JobRows
<1>3. Underway(p)
  BY <1>0, <1>1, <1>2 DEF UpdateJob, Underway, JobsHaveOrders
<1>4. order' = [order EXCEPT ![p].status = SyncedStatus(p, job', jobQty)]
  BY <1>2 DEF UpdateJob
<1>5. \A o \in Orders : SameTerms(o)
  BY <1>0, <1>3, <1>4, SyncKeepsTerms
<1>6. \A o \in Orders : SameShipped(o) /\ SameBill(o) /\ SameMoney(o)
  BY BillsKept DEF UpdateJob, SameShipped
<1>7. CASE job'[j].status # "Completed"
  <2>1. \A o \in Orders : SameWork(o)
    BY <1>0, <1>7, ReportedTotals DEF SameWork
  <2>2. QED
    BY <1>0, <1>5, <1>6, <2>1, OwnOrders, PromiseStutter
<1>8. CASE job'[j].status = "Completed" /\ p \notin Own
  <2>1. \A o \in Own : SameWork(o)
    BY <1>0, <1>2, <1>8, OwnOrders, ReportedTotals DEF SameWork
  <2>2. QED
    BY <1>0, <1>5, <1>6, <2>1, OwnOrders, PromiseStutter
<1>9. CASE job'[j].status = "Completed" /\ p \in Own
  <2>1. /\ CompletedQty(p)' = CompletedQty(p) + jobQty[j]
        /\ \A o \in Orders \ {p} : SameWork(o)
    BY <1>0, <1>2, <1>9, ReportedTotals DEF SameWork
  <2>2. jobQty[j] \in Qty
    <3>1. jobQty[j] \in 0..MaxQty /\ jobQty[j] >= 1
      BY <1>0, <1>1 DEF TypeOK, StatusInv, JobsHaveQty
    <3>2. QED
      BY <3>1 DEF Qty
  <2>3. Phase(p) = "agreed" /\ Ordered(p) = order[p].qty
    BY <1>3 DEF Phase, Ordered
  <2>4. CompletedQty(p)' <= order[p].qty
    <3>1. Exists(p) /\ order[p] \in OrderRows
      BY <1>0, <1>3, RowTypes DEF Underway, Exists
    <3>2. order'[p].qty = order[p].qty
      BY <1>0, <1>4, <3>1 DEF TypeOK, OrderRows
    <3>3. CompletedQty(p)' \in Nat /\ PlannedQty(p)' = PlannedQty(p) /\ PlannedQty(p) \in Nat
      BY <1>0, UpdateTotals, JobTotals
    <3>4. CompletedQty(p)' <= PlannedQty(p)' /\ PlannedQty(p)' <= order'[p].qty
      BY <1>9 DEF QuantityChain
    <3>5. order[p].qty \in Nat
      BY <3>1 DEF OrderRows
    <3>6. QED
      BY <3>2, <3>3, <3>4, <3>5
  <2>5. CompletedQty(p) + jobQty[j] <= Ordered(p)
    BY <2>1, <2>3, <2>4
  <2>6. QED
    BY <1>0, <1>5, <1>6, <2>1, <2>2, <2>3, <2>5, <1>9, OwnOrders, PromiseMake
<1>10. QED
  BY <1>7, <1>8, <1>9

LEMMA DispatchShips ==
  ASSUME StatusInv, TypeOK', NEW p \in Orders, NEW n \in Qty, Dispatch(p, n)
  PROVE  Promise!Next \/ UNCHANGED Promise!vars
<1> USE DEF salesVars, jobVars, billVars
<1>0. TypeOK /\ WorkspaceInv
  BY DEF StatusInv, WorkspaceInv
<1>1. /\ shipped' = [shipped EXCEPT ![p] = @ + n] /\ shipped[p] + n <= CompletedQty(p)
      /\ Exists(p) /\ UNCHANGED <<job, jobQty, invoice, paid>>
  BY DEF Dispatch
<1>2. \A o \in Orders \ {p} : SameTerms(o)
  <2>1. \A o \in Orders \ {p} : order'[o] = order[o]
    BY <1>0, <1>1, StatusWritten DEF Dispatch
  <2>2. QED
    BY <2>1, TermsKept
<1>3. \A o \in Orders : SameWork(o) /\ SameBill(o) /\ SameMoney(o)
  BY <1>1, BillsKept DEF SameWork, CompletedQty, CompletedJobs, JobsOf
<1>4. CASE p \notin Own
  <2>1. \A o \in Orders \ {p} : SameShipped(o)
    BY <1>0, <1>1 DEF SameShipped, TypeOK
  <2>2. QED
    BY <1>0, <1>2, <1>3, <1>4, <2>1, OwnOrders, PromiseStutter
<1>5. CASE p \in Own
  <2>1. Underway(p)
    <3>1. n \in Nat /\ n >= 1 /\ shipped[p] \in Nat /\ CompletedQty(p) \in Nat
      BY <1>0, BoundsAssumption, JobTotals DEF Qty, TypeOK
    <3>2. CompletedQty(p) # 0
      BY <1>1, <3>1
    <3>3. QED
      BY <1>0, <1>5, <3>2, IdleOrders
  <2>2. SameTerms(p)
    <3>1. order[p] \in OrderRows
      BY <1>0, <1>1, RowTypes
    <3>2. \/ order'[p].status = "Partially dispatched"
          \/ order'[p].status = "Completed" \/ order'[p].status = "Dispatched"
      BY <1>0, <1>1, StatusWritten DEF Dispatch
    <3>3. order'[p].qty = order[p].qty
      BY <1>0, <3>1 DEF Dispatch, TypeOK, OrderRows
    <3>4. Underway(p)'
      BY <3>2 DEF Underway
    <3>5. QED
      BY <2>1, <3>3, <3>4, TermsKept
  <2>3. QED
    BY <1>0, <1>1, <1>2, <1>3, <1>5, <2>2, OwnOrders, PromiseShip
<1>6. QED
  BY <1>4, <1>5

LEMMA InvoiceBills ==
  ASSUME StatusInv, TypeOK', NEW p \in Orders, NEW i \in Invoices, CreateInvoice(p, i)
  PROVE  Promise!Next \/ UNCHANGED Promise!vars
<1> USE DEF salesVars, jobVars, billVars
<1>0. TypeOK /\ WorkspaceInv
  BY DEF StatusInv, WorkspaceInv
<1>1. /\ Exists(p) /\ ~Invoiced(p) /\ order[p].status \notin {"Draft", "Cancelled"}
      /\ invoice[i] = None /\ invoice' = [invoice EXCEPT ![i] = p]
      /\ UNCHANGED <<job, jobQty, shipped, paid>>
  BY DEF CreateInvoice
<1>2. /\ invoice'[i] = p
      /\ \A k \in Invoices \ {i} : invoice'[k] = invoice[k]
      /\ \A o \in Orders : o # None
  BY <1>0, <1>1, RowsAssumption DEF TypeOK
<1>3. Underway(p) /\ Phase(p) = "agreed"
  BY <1>1 DEF Underway, Exists, Phase
<1>4. \A o \in Orders : SameTerms(o)
  <2>1. CASE order' = order
    BY <2>1, TermsKept
  <2>2. CASE order' = [order EXCEPT ![p].status = "Completed"]
    <3>1. order[p] \in OrderRows
      BY <1>0, <1>1, RowTypes
    <3>2. order'[p].status = "Completed" /\ order'[p].qty = order[p].qty
      BY <1>0, <2>2, <3>1 DEF TypeOK, OrderRows
    <3>3. \A o \in Orders \ {p} : order'[o] = order[o]
      BY <1>0, <2>2 DEF TypeOK
    <3>4. Underway(p)'
      BY <3>2 DEF Underway
    <3>5. QED
      BY <1>3, <3>2, <3>3, <3>4, TermsKept
  <2>3. QED
    BY <2>1, <2>2 DEF CreateInvoice
<1>5. \A o \in Orders : SameWork(o) /\ SameShipped(o)
  BY <1>1 DEF SameWork, SameShipped, CompletedQty, CompletedJobs, JobsOf
<1>6. Invoiced(p)' /\ \A o \in Orders \ {p} : SameBill(o)
  BY <1>1, <1>2 DEF Invoiced, SameBill
<1>7. \A o \in Orders : SameMoney(o)
  <2> SUFFICES ASSUME NEW o \in Orders
               PROVE  Received(o)' = Received(o)
    BY DEF SameMoney
  <2>1. CASE o # p
    <3>1. {k \in Invoices : invoice'[k] = o} = {k \in Invoices : invoice[k] = o}
      BY <1>1, <1>2, <2>1
    <3>2. QED
      BY <1>1, <3>1 DEF Received
  <2>2. CASE o = p
    <3>1. {k \in Invoices : invoice[k] = o} = {}
      BY <1>1, <2>2 DEF Invoiced
    <3>2. Received(o) = 0
      BY <3>1, TotalEmpty DEF Received
    <3>3. \A k \in {k \in Invoices : invoice'[k] = o} : paid'[k] = 0
      <4>1. \A k \in Invoices : invoice'[k] = o => k = i
        BY <1>2, <3>1
      <4>2. paid'[i] = 0
        BY <1>0, <1>1 DEF WorkspaceInv, PaymentsHaveInvoices
      <4>3. QED
        BY <4>1, <4>2
    <3>4. Total(paid', {k \in Invoices : invoice'[k] = o}) = 0
      BY <3>3, TotalZero
    <3>5. QED
      BY <3>2, <3>4 DEF Received
  <2>3. QED
    BY <2>1, <2>2
<1>8. CASE p \in Own
  BY <1>0, <1>1, <1>3, <1>4, <1>5, <1>6, <1>7, <1>8, OwnOrders, PromiseBill
<1>9. CASE p \notin Own
  BY <1>0, <1>4, <1>5, <1>6, <1>7, <1>9, OwnOrders, PromiseStutter
<1>10. QED
  BY <1>8, <1>9

LEMMA FulfilmentInit == Init => Promise!Init
<1> SUFFICES ASSUME Init
             PROVE  Promise!Init
  OBVIOUS
<1>1. PhaseBar = [o \in Own |-> "offered"] /\ OrderedBar = [o \in Own |-> 0]
  BY OwnUntouched DEF PhaseBar, OrderedBar, Phase, Ordered, Underway, NoOrder
<1>2. MadeBar = [o \in Own |-> 0] /\ SentBar = [o \in Own |-> 0]
  BY OwnUntouched DEF MadeBar, SentBar
<1>3. BilledBar = [o \in Own |-> FALSE]
  <2>1. \A o \in Own : Invoiced(o) = FALSE
    BY OwnUntouched DEF Invoiced
  <2>2. QED
    BY <2>1 DEF BilledBar
<1>4. ReceivedBar = [o \in Own |-> 0]
  <2>1. \A o \in Own : {i \in Invoices : invoice[i] = o} = {}
    BY OwnUntouched
  <2>2. \A o \in Own : Received(o) = 0
    BY <2>1, TotalEmpty DEF Received
  <2>3. QED
    BY <2>2 DEF ReceivedBar
<1>5. QED
  BY <1>1, <1>2, <1>3, <1>4
     DEF Promise!Init, PhaseBar, OrderedBar, MadeBar, SentBar, BilledBar, ReceivedBar,
         Phase, Ordered, Received

LEMMA FulfilmentStep ==
  ASSUME StatusInv, StatusInv', [Next]_vars
  PROVE  Promise!Next \/ UNCHANGED Promise!vars
<1> USE DEF salesVars, jobVars, billVars
<1>0. /\ TypeOK /\ BilledOnce /\ ImportsAreBilled
      /\ TypeOK' /\ QuantityChain' /\ BilledOnce'
  BY DEF StatusInv, WorkspaceInv
<1>1. CASE \E i \in Invoices : \E a \in 1..MaxAmount : RecordPayment(i, a)
  BY <1>0, <1>1, PaymentReceives
<1>2. CASE Quiet /\ paid' = paid
  <2>1. \A o \in Orders : /\ SameTerms(o) /\ SameWork(o) /\ SameShipped(o)
                          /\ SameBill(o) /\ SameMoney(o)
    BY <1>2, TermsKept, BillsKept
       DEF Quiet, SameWork, SameShipped, CompletedQty, CompletedJobs, JobsOf
  <2>2. QED
    BY <1>0, <2>1, OwnOrders, PromiseStutter
<1>3. ASSUME NEW p \in Orders, NEW n \in Qty, NEW l \in LeadRef, NewDraftOrder(p, n, l)
      PROVE  UNCHANGED Promise!vars
  <2>1. /\ order[p].status = "Absent" /\ order'[p].status = "Draft"
        /\ \A o \in Orders \ {p} : order'[o] = order[o]
    BY <1>0, <1>3 DEF NewDraftOrder, NoOrder, TypeOK
  <2>2. \A o \in Orders : SameTerms(o)
    BY <2>1, TermsKept
  <2>3. \A o \in Orders : SameWork(o) /\ SameShipped(o) /\ SameBill(o) /\ SameMoney(o)
    BY <1>3, BillsKept
       DEF NewDraftOrder, SameWork, SameShipped, CompletedQty, CompletedJobs, JobsOf
  <2>4. QED
    BY <1>0, <2>2, <2>3, OwnOrders, PromiseStutter
<1>4. ASSUME NEW p \in Orders, NEW j \in Jobs, NEW n \in Qty, AddJob(p, j, n)
      PROVE  UNCHANGED Promise!vars
  <2>1. Underway(p)
    BY <1>4 DEF AddJob, Underway
  <2>2. \A o \in Orders : SameTerms(o)
    BY <1>0, <1>4, <2>1, SyncKeepsTerms DEF AddJob
  <2>3. \A o \in Orders : SameWork(o)
    BY <1>0, <1>4, AddedTotals DEF AddJob, SameWork
  <2>4. \A o \in Orders : SameShipped(o) /\ SameBill(o) /\ SameMoney(o)
    BY <1>4, BillsKept DEF AddJob, SameShipped
  <2>5. QED
    BY <1>0, <2>2, <2>3, <2>4, OwnOrders, PromiseStutter
<1>5. ASSUME NEW j \in Jobs, NEW k \in Jobs, NEW n \in Qty, SplitJob(j, k, n)
      PROVE  UNCHANGED Promise!vars
  <2>1. job[j].order \in Orders /\ Underway(job[j].order)
    BY <1>0, <1>5, RowTypes DEF SplitJob, JobRows, Underway
  <2>2. order' = [order EXCEPT ![job[j].order].status =
                                 SyncedStatus(job[j].order, job', jobQty')]
    BY <1>5 DEF SplitJob
  <2>3. \A o \in Orders : SameTerms(o)
    BY <1>0, <2>1, <2>2, SyncKeepsTerms
  <2>4. \A o \in Orders : SameWork(o)
    BY <1>0, <1>5, SplitTotals DEF SameWork
  <2>5. \A o \in Orders : SameShipped(o) /\ SameBill(o) /\ SameMoney(o)
    BY <1>5, BillsKept DEF SplitJob, SameShipped
  <2>6. QED
    BY <1>0, <2>3, <2>4, <2>5, OwnOrders, PromiseStutter
<1>6. QED
  BY <1>0, <1>1, <1>2, <1>3, <1>4, <1>5, PaidKept, StepKinds,
     ConfirmingAgrees, CancelDrops, ReportMakes, DispatchShips, InvoiceBills

(* The commands on leads, quotations, orders, jobs, dispatches, invoices    *)
(* and payments implement the promise of module Fulfilment for every order  *)
(* taken here, whatever was imported beside it.                             *)
THEOREM WorkspaceRefines == Spec => ImplementsFulfilment
<1>1. Init => Promise!Init
  BY FulfilmentInit
<1>2. StatusInv /\ StatusInv' /\ [Next]_vars => [Promise!Next]_(Promise!vars)
  BY FulfilmentStep
<1>3. QED
  BY <1>1, <1>2, WorkspaceStatusInvariance, PTL
     DEF Spec, ImplementsFulfilment, Promise!Spec

-----------------------------------------------------------------------------
(* The company that may hold the inventory entitlement (WorkspaceStock).    *)

(* With the stock, every command is still one of the order-to-cash commands *)
(* or leaves their rows alone.                                              *)
LEMMA StockStepKinds == [StockNext]_allVars => [Next]_vars
<1> SUFFICES ASSUME [StockNext]_allVars
             PROVE  [Next]_vars
  OBVIOUS
<1>1. CASE UNCHANGED allVars
  BY <1>1 DEF allVars
<1>2. CASE OtherStep
  BY <1>2 DEF OtherStep, Next, SalesStep, ProductionStep, BillingStep
<1>3. CASE PlanningStep
  BY <1>3 DEF PlanningStep, StockConvert, StockConfirm, StockConfirmDraft, StockSplit,
     Next, SalesStep, ProductionStep
<1>4. CASE MovingStep
  BY <1>4
     DEF MovingStep, StockUpdateJob, StockDispatch, Next, ProductionStep, BillingStep
<1>5. CASE SupplyStep
  BY <1>5 DEF SupplyStep, NewPurchase, Receive, SaveBom, Inspect, AdjustStock, Entitle
<1>6. QED
  BY <1>1, <1>2, <1>3, <1>4, <1>5 DEF StockNext

StockInv == WorkspaceInv /\ LedgerWithinStock

LEMMA MoveStockWithin ==
  ASSUME StockTypeOK, \A i \in Items : moved[i] <= stock[i],
         NEW gain \in [Items -> Nat], NEW use \in [Items -> Nat], MoveStock(gain, use)
  PROVE  /\ stock' \in [Items -> Nat] /\ moved' \in [Items -> Int]
         /\ \A i \in Items : moved'[i] <= stock'[i]
<1>1. CASE entitled
  <2>1. \A i \in Items : /\ gain[i] \in Nat /\ use[i] \in Nat
                         /\ stock[i] \in Nat /\ moved[i] \in Int
    BY DEF StockTypeOK
  <2>2. /\ stock' = [i \in Items |-> IF use[i] > stock[i] + gain[i] THEN 0
                                     ELSE stock[i] + gain[i] - use[i]]
        /\ moved' = [i \in Items |-> moved[i] + gain[i] - use[i]]
    BY <1>1 DEF MoveStock
  <2>3. ASSUME NEW i \in Items
        PROVE  stock'[i] \in Nat /\ moved'[i] \in Int /\ moved'[i] <= stock'[i]
    BY <2>1, <2>2
  <2>4. QED
    BY <2>2, <2>3
<1>2. CASE ~entitled
  BY <1>2 DEF MoveStock, StockTypeOK
<1>3. QED
  BY <1>1, <1>2

LEMMA OnlyTyped ==
  ASSUME NEW item, NEW n \in Nat
  PROVE  /\ Only(item, n) \in [Items -> Nat] /\ NoParts \in [Items -> Nat]
         /\ \A i \in Items : /\ Only(item, n)[i] = IF i = item THEN n ELSE 0
                             /\ NoParts[i] = 0
BY DEF Only, NoParts

LEMMA PlannedParts ==
  ASSUME StockTypeOK, NEW j \in Jobs
  PROVE  [i \in Items |-> planned[j][i] \div Parts] \in [Items -> Nat]
<1>1. \A i \in Items : planned[j][i] \in Nat
  BY DEF StockTypeOK
<1>2. Parts \in Nat /\ Parts > 0
  BY StockAssumption
<1>3. \A i \in Items : planned[j][i] \div Parts \in Nat
  BY <1>1, <1>2
<1>4. QED
  BY <1>3

LEMMA BomTyped ==
  ASSUME StockTypeOK, NEW i \in Items
  PROVE  bom[i] \in [Items -> Nat]
BY StockAssumption DEF StockTypeOK, NoParts

LEMMA PlanTyped ==
  ASSUME StockTypeOK, TypeOK', NEW o \in Orders, PlanMaterials(o)
  PROVE  planned' \in [Jobs -> [Items -> Nat]]
<1>1. \A i \in Items : bom[ItemOf[o]][i] \in Nat
  BY BomTyped, StockAssumption
<1>2. \A j \in Jobs : jobQty'[j] \in Nat
  BY BoundsAssumption DEF TypeOK
<1>3. \A j \in Jobs, i \in Items : bom[ItemOf[o]][i] * jobQty'[j] \in Nat
  BY <1>1, <1>2
<1>4. \A j \in Jobs : planned[j] \in [Items -> Nat]
  BY DEF StockTypeOK
<1>5. QED
  BY <1>3, <1>4 DEF PlanMaterials

LEMMA StockInitial == StockInit => StockInv
<1> SUFFICES ASSUME StockInit
             PROVE  StockInv
  OBVIOUS
<1>1. WorkspaceInv
  BY WorkspaceInit DEF StockInit
<1>2. /\ entitled \in BOOLEAN /\ stock \in [Items -> Nat]
      /\ moved \in [Items -> Int]
      /\ bom \in [Items -> Recipes \cup {NoParts}]
      /\ planned \in [Jobs -> [Items -> Nat]]
      /\ purchase \in [Purchases -> PurchaseRows \cup {NoPurchase}]
  BY StockAssumption DEF StockInit, NoParts
<1>3. \A i \in Items : moved[i] <= stock[i]
  BY StockAssumption DEF StockInit, NoParts
<1>4. QED
  BY <1>1, <1>2, <1>3 DEF StockInv, LedgerWithinStock, StockTypeOK, WorkspaceInv

LEMMA StockStep == StockInv /\ [StockNext]_allVars => StockInv'
<1> SUFFICES ASSUME StockInv, [StockNext]_allVars
             PROVE  StockInv'
  OBVIOUS
<1> DEFINE Typed == /\ entitled' \in BOOLEAN
                    /\ bom' \in [Items -> Recipes \cup {NoParts}]
                    /\ planned' \in [Jobs -> [Items -> Nat]]
                    /\ purchase' \in [Purchases -> PurchaseRows \cup {NoPurchase}]
           Moved == /\ stock' \in [Items -> Nat] /\ moved' \in [Items -> Int]
                    /\ \A i \in Items : moved'[i] <= stock'[i]
<1>1. /\ WorkspaceInv /\ StockTypeOK
      /\ \A i \in Items : moved[i] <= stock[i]
  BY DEF StockInv, LedgerWithinStock
<1>2. WorkspaceInv'
  BY <1>1, StockStepKinds, WorkspaceStep
<1>3. TypeOK'
  BY <1>2 DEF WorkspaceInv
<1>4. \A n \in Qty : n \in Nat
  BY BoundsAssumption DEF Qty
<1>5. ASSUME UNCHANGED stockVars
      PROVE  Typed /\ Moved
  BY <1>1, <1>5 DEF stockVars, StockTypeOK
<1>6. ASSUME PlanningStep /\ UNCHANGED <<entitled, stock, moved, bom, purchase>>
      PROVE  Typed /\ Moved
  <2>1. CASE \E o \in Orders : PlanMaterials(o)
    BY <1>1, <1>3, <1>6, <2>1, PlanTyped DEF StockTypeOK
  <2>2. CASE \E j, k \in Jobs : \E n \in Qty : StockSplit(j, k, n)
    BY <1>1, <1>6, <2>2 DEF StockSplit, StockTypeOK
  <2>3. QED
    BY <1>6, <2>1, <2>2 DEF PlanningStep, StockConvert, StockConfirm, StockConfirmDraft
<1>7. ASSUME MovingStep /\ UNCHANGED <<entitled, bom, planned, purchase>>
      PROVE  Typed /\ Moved
  <2>1. Typed
    BY <1>1, <1>7 DEF StockTypeOK
  <2>2. ASSUME NEW j \in Jobs, NEW s \in ReportedStatuses, NEW p \in Progress,
               StockUpdateJob(j, s, p)
        PROVE  Moved
    <3>1. jobQty[j] \in Nat
      BY <1>1, BoundsAssumption DEF StockTypeOK, TypeOK
    <3>2. Only(ItemOf[job[j].order], jobQty[j]) \in [Items -> Nat]
      BY <3>1, OnlyTyped
    <3>3. CASE job'[j].status = "Completed"
      BY <1>1, <2>2, <3>2, <3>3, PlannedParts, MoveStockWithin DEF StockUpdateJob
    <3>4. CASE job'[j].status # "Completed"
      BY <1>1, <2>2, <3>4 DEF StockUpdateJob, StockTypeOK
    <3>5. QED
      BY <3>3, <3>4
  <2>3. ASSUME NEW o \in Orders, NEW n \in Qty, StockDispatch(o, n)
        PROVE  Moved
    BY <1>1, <1>4, <2>3, OnlyTyped, MoveStockWithin DEF StockDispatch
  <2>4. Moved
    BY <1>7, <2>2, <2>3 DEF MovingStep
  <2>5. QED
    BY <2>1, <2>4
<1>8. ASSUME SupplyStep
      PROVE  Typed /\ Moved
  <2>1. ASSUME NEW p \in Purchases, NEW i \in Items, NEW n \in Qty, NewPurchase(p, i, n)
        PROVE  Typed /\ Moved
    <3>1. [item |-> i, qty |-> n, received |-> 0] \in PurchaseRows
      BY BoundsAssumption DEF PurchaseRows, Qty
    <3>2. QED
      BY <1>1, <2>1, <3>1 DEF NewPurchase, StockTypeOK
  <2>2. ASSUME NEW p \in Purchases, NEW n \in Qty, Receive(p, n)
        PROVE  Typed /\ Moved
    <3>1. purchase[p] \in PurchaseRows \cup {NoPurchase}
      BY <1>1 DEF StockTypeOK
    <3>2. purchase[p] \in PurchaseRows
      BY <1>4, <2>2, <3>1, BoundsAssumption DEF Receive, NoPurchase, Qty
    <3>3. [purchase[p] EXCEPT !.received = @ + n] \in PurchaseRows
      BY <2>2, <3>2, BoundsAssumption DEF Receive, PurchaseRows, Qty
    <3>4. purchase' = [purchase EXCEPT ![p] = [purchase[p] EXCEPT !.received = @ + n]]
      BY <2>2 DEF Receive
    <3>5. purchase' \in [Purchases -> PurchaseRows \cup {NoPurchase}]
      BY <1>1, <3>3, <3>4 DEF StockTypeOK
    <3>6. Moved
      BY <1>1, <1>4, <2>2, OnlyTyped, MoveStockWithin DEF Receive
    <3>7. QED
      BY <1>1, <2>2, <3>5, <3>6 DEF Receive, StockTypeOK
  <2>3. ASSUME NEW i \in Items, NEW r \in Recipes, SaveBom(i, r)
        PROVE  Typed /\ Moved
    BY <1>1, <2>3 DEF SaveBom, StockTypeOK
  <2>4. ASSUME NEW i \in Items, NEW n \in 1..MaxReject, Inspect(i, n)
        PROVE  Typed /\ Moved
    <3>1. n \in Nat
      BY StockAssumption
    <3>2. Moved
      BY <1>1, <2>4, <3>1, OnlyTyped, MoveStockWithin DEF Inspect
    <3>3. QED
      BY <1>1, <2>4, <3>2 DEF Inspect, StockTypeOK
  <2>5. ASSUME NEW i \in Items, NEW d \in Adjustments, AdjustStock(i, d)
        PROVE  Typed /\ Moved
    <3>1. d \in Int
      BY StockAssumption
    <3>2. QED
      BY <1>1, <2>5, <3>1 DEF AdjustStock, StockTypeOK
  <2>6. ASSUME NEW b \in Entitlements, Entitle(b)
        PROVE  Typed /\ Moved
    BY <1>1, <2>6, StockAssumption DEF Entitle, StockTypeOK
  <2>7. QED
    BY <1>8, <2>1, <2>2, <2>3, <2>4, <2>5, <2>6 DEF SupplyStep
<1>9. Typed /\ Moved
  BY <1>1, <1>5, <1>6, <1>7, <1>8 DEF StockNext, allVars, stockVars, StockTypeOK
<1>10. QED
  BY <1>2, <1>3, <1>9 DEF StockInv, LedgerWithinStock, StockTypeOK

THEOREM StockInvariance == StockSpec => []StockInv
BY StockInitial, StockStep, PTL DEF StockSpec

(* However jobs complete, goods are shipped, received, rejected and         *)
(* adjusted, and whenever the entitlement comes and goes, the stock moves   *)
(* of an item never claim more than there is of it.                         *)
THEOREM StockLedgerWithinStock == StockSpec => []LedgerWithinStock
BY StockInvariance, PTL DEF StockInv

-----------------------------------------------------------------------------
(* What the moves of one command are, against what it did.                  *)
OursOf(i) == {o \in Orders : ItemOf[o] = i}
DoneJobs == {j \in Jobs : job[j].status = "Completed"}
MadeOf(i) == Total([o \in Orders |-> CompletedQty(o)], OursOf(i))
BoughtOf(i) == Total([p \in Purchases |-> purchase[p].received],
                     {p \in Purchases : purchase[p].item = i})
ShippedOf(i) == Total(shipped, OursOf(i))
UsedOf(i) == Total([j \in Jobs |-> planned[j][i] \div Parts], DoneJobs)

LEMMA BalanceParts ==
  ASSUME NEW i \in Items
  PROVE  Balance(i) = MadeOf(i) + BoughtOf(i) - ShippedOf(i) - UsedOf(i)
BY DEF Balance, MadeOf, BoughtOf, ShippedOf, UsedOf, OursOf, DoneJobs

LEMMA BalancePartsAfter ==
  ASSUME NEW i \in Items
  PROVE  Balance(i)' = MadeOf(i)' + BoughtOf(i)' - ShippedOf(i)' - UsedOf(i)'
BY DEF Balance, MadeOf, BoughtOf, ShippedOf, UsedOf, OursOf, DoneJobs

LEMMA FiniteRows ==
  ASSUME NEW i
  PROVE  /\ IsFiniteSet(OursOf(i)) /\ OursOf(i) \subseteq Orders
         /\ IsFiniteSet({p \in Purchases : purchase[p].item = i})
         /\ IsFiniteSet(DoneJobs) /\ IsFiniteSet(DoneJobs')
<1>1. /\ OursOf(i) \subseteq Orders
      /\ {p \in Purchases : purchase[p].item = i} \subseteq Purchases
      /\ DoneJobs \subseteq Jobs /\ DoneJobs' \subseteq Jobs
  BY DEF OursOf, DoneJobs
<1>2. QED
  BY <1>1, FS_Subset, RowsAssumption, StockAssumption

(* The quantities that the balance adds up are numbers. *)
LEMMA QuantitiesTyped ==
  ASSUME StockTypeOK
  PROVE  /\ \A o \in Orders : CompletedQty(o) \in Nat /\ shipped[o] \in Nat
         /\ \A p \in Purchases : purchase[p].received \in Nat
         /\ \A j \in Jobs, i \in Items : planned[j][i] \div Parts \in Nat
         /\ \A j \in Jobs : jobQty[j] \in Nat
<1>1. \A o \in Orders : CompletedQty(o) \in Nat /\ shipped[o] \in Nat
  BY JobTotals, BoundsAssumption DEF StockTypeOK, TypeOK
<1>2. \A p \in Purchases : purchase[p].received \in Nat
  <2>1. \A p \in Purchases : purchase[p] \in PurchaseRows \cup {NoPurchase}
    BY DEF StockTypeOK
  <2>2. QED
    BY <2>1, BoundsAssumption DEF PurchaseRows, NoPurchase
<1>3. \A j \in Jobs, i \in Items : planned[j][i] \div Parts \in Nat
  <2>1. \A j \in Jobs, i \in Items : planned[j][i] \in Nat
    BY DEF StockTypeOK
  <2>2. Parts \in Nat /\ Parts > 0
    BY StockAssumption
  <2>3. QED
    BY <2>1, <2>2
<1>4. \A j \in Jobs : jobQty[j] \in Nat
  BY BoundsAssumption DEF StockTypeOK, TypeOK
<1>5. QED
  BY <1>1, <1>2, <1>3, <1>4

(* The same after a step. *)
QuantitiesAreNumbers ==
  /\ \A o \in Orders : CompletedQty(o) \in Nat
  /\ \A p \in Purchases : purchase[p].received \in Nat
LEMMA QuantitiesNumbered == StockTypeOK => QuantitiesAreNumbers
BY QuantitiesTyped DEF QuantitiesAreNumbers

LEMMA QuantitiesTypedAfter ==
  ASSUME StockTypeOK'
  PROVE  /\ \A o \in Orders : CompletedQty(o)' \in Nat
         /\ \A p \in Purchases : purchase'[p].received \in Nat
<1>1. StockTypeOK' => QuantitiesAreNumbers'
  BY QuantitiesNumbered, PTL
<1>2. QED
  BY <1>1 DEF QuantitiesAreNumbers

LEMMA PartsTyped ==
  ASSUME StockTypeOK, NEW i \in Items
  PROVE  MadeOf(i) \in Int /\ BoughtOf(i) \in Int /\ ShippedOf(i) \in Int /\ UsedOf(i) \in Int
<1> DEFINE f == [p \in Orders |-> CompletedQty(p)]
           b == [p \in Purchases |-> purchase[p].received]
           u == [k \in Jobs |-> planned[k][i] \div Parts]
           P == {p \in Purchases : purchase[p].item = i}
<1>1. /\ \A o \in OursOf(i) : f[o] \in Nat /\ shipped[o] \in Nat
      /\ \A p \in P : b[p] \in Nat
      /\ \A j \in DoneJobs : u[j] \in Nat
  BY QuantitiesTyped, FiniteRows DEF DoneJobs
<1>2. IsFiniteSet(OursOf(i)) /\ IsFiniteSet(P) /\ IsFiniteSet(DoneJobs)
  BY FiniteRows
<1>3. /\ Total(f, OursOf(i)) \in Nat /\ Total(b, P) \in Nat
      /\ Total(shipped, OursOf(i)) \in Nat /\ Total(u, DoneJobs) \in Nat
  <2> HIDE DEF f, b, u, P
  <2>1. Total(f, OursOf(i)) \in Nat
    BY <1>1, <1>2, TotalNatural
  <2>2. Total(b, P) \in Nat
    BY <1>1, <1>2, TotalNatural
  <2>3. Total(shipped, OursOf(i)) \in Nat
    BY <1>1, <1>2, TotalNatural
  <2>4. Total(u, DoneJobs) \in Nat
    BY <1>1, <1>2, TotalNatural
  <2>5. QED
    BY <2>1, <2>2, <2>3, <2>4
<1>4. QED
  BY <1>3 DEF MadeOf, BoughtOf, ShippedOf, UsedOf

(* The same after a step. *)
PartsAreNumbers ==
  \A i \in Items : /\ MadeOf(i) \in Int /\ BoughtOf(i) \in Int
                   /\ ShippedOf(i) \in Int /\ UsedOf(i) \in Int
LEMMA PartsNumbered == StockTypeOK => PartsAreNumbers
BY PartsTyped DEF PartsAreNumbers

LEMMA PartsNumberedAfter == StockTypeOK' => PartsAreNumbers'
BY PartsNumbered, PTL

LEMMA PartsTypedAfter ==
  ASSUME StockTypeOK', NEW i \in Items
  PROVE  /\ MadeOf(i)' \in Int /\ BoughtOf(i)' \in Int
         /\ ShippedOf(i)' \in Int /\ UsedOf(i)' \in Int
BY PartsNumberedAfter DEF PartsAreNumbers

(* The step completes no job, and leaves the completed ones alone. *)
NoneDone ==
  /\ DoneJobs' = DoneJobs
  /\ \A j \in DoneJobs : /\ job'[j].order = job[j].order
                         /\ jobQty'[j] = jobQty[j] /\ planned'[j] = planned[j]

LEMMA NoneDoneBalance ==
  ASSUME StockTypeOK, NoneDone, NEW i \in Items
  PROVE  MadeOf(i)' = MadeOf(i) /\ UsedOf(i)' = UsedOf(i)
<1>1. ASSUME NEW o \in Orders
      PROVE  CompletedQty(o)' = CompletedQty(o)
  <2>1. CompletedJobs(o)' = CompletedJobs(o)
    BY DEF NoneDone, DoneJobs, CompletedJobs, JobsOf
  <2>2. \A j \in CompletedJobs(o) : jobQty'[j] = jobQty[j]
    BY DEF NoneDone, DoneJobs, CompletedJobs, JobsOf
  <2>3. QED
    BY <2>1, <2>2, TotalCongruence DEF CompletedQty
<1>2. MadeOf(i)' = MadeOf(i)
  BY <1>1 DEF MadeOf, OursOf
<1>3. \A j \in DoneJobs : [k \in Jobs |-> planned'[k][i] \div Parts][j] =
                            [k \in Jobs |-> planned[k][i] \div Parts][j]
  BY DEF NoneDone, DoneJobs
<1>4. UsedOf(i)' = UsedOf(i)
  BY <1>3, TotalCongruence DEF UsedOf, NoneDone
<1>5. QED
  BY <1>2, <1>4

LEMMA DoneJobsJoin ==
  ASSUME NEW j \in Jobs, job[j].status # "Completed",
         NEW v, \A k \in DoneJobs \cup {j} : v[k] \in Nat
  PROVE  Total(v, DoneJobs \cup {j}) - Total(v, DoneJobs) = v[j]
<1>1. j \notin DoneJobs
  BY DEF DoneJobs
<1>2. IsFiniteSet(DoneJobs)
  BY FiniteRows
<1>3. QED
  BY <1>1, <1>2, TotalJoin

(* A completed job adds its quantity to its order, and its materials to     *)
(* what was used.                                                           *)
LEMMA JobDoneBalance ==
  ASSUME StockTypeOK, StockTypeOK', NEW j \in Jobs, job[j] \in JobRows,
         job[j].status # "Completed", job'[j].status = "Completed",
         job'[j].order = job[j].order, \A k \in Jobs \ {j} : job'[k] = job[k],
         UNCHANGED <<jobQty, planned>>, NEW i \in Items
  PROVE  /\ MadeOf(i)' - MadeOf(i) = Only(ItemOf[job[j].order], jobQty[j])[i]
         /\ UsedOf(i)' - UsedOf(i) = planned[j][i] \div Parts
<1> DEFINE o == job[j].order
           f == [p \in Orders |-> CompletedQty(p)]
           g == [p \in Orders |-> CompletedQty(p)']
           u == [k \in Jobs |-> planned[k][i] \div Parts]
<1>1. o \in Orders
  BY DEF JobRows
<1>2. \A p \in Orders \ {o} : CompletedQty(p)' = CompletedQty(p)
  <2>1. \A p \in Orders \ {o} : CompletedJobs(p)' = CompletedJobs(p)
    BY DEF CompletedJobs, JobsOf
  <2>2. QED
    BY <2>1 DEF CompletedQty
<1>3. CompletedQty(o)' - CompletedQty(o) = jobQty[j]
  <2>1. /\ CompletedJobs(o)' = CompletedJobs(o) \cup {j}
        /\ j \notin CompletedJobs(o)
        /\ CompletedJobs(o) \subseteq Jobs
    BY DEF CompletedJobs, JobsOf
  <2>2. IsFiniteSet(CompletedJobs(o))
    BY <1>1, JobTotals DEF StockTypeOK
  <2>3. \A k \in CompletedJobs(o) \cup {j} : jobQty[k] \in Nat
    BY <2>1, QuantitiesTyped
  <2>4. Total(jobQty, CompletedJobs(o) \cup {j}) - Total(jobQty, CompletedJobs(o)) = jobQty[j]
    <3> DEFINE C == CompletedJobs(o)
    <3>1. j \notin C /\ IsFiniteSet(C) /\ \A k \in C \cup {j} : jobQty[k] \in Nat
      BY <2>1, <2>2, <2>3
    <3> HIDE DEF C
    <3>2. Total(jobQty, C \cup {j}) - Total(jobQty, C) = jobQty[j]
      BY <3>1, TotalJoin
    <3>3. QED
      BY <3>2 DEF C
  <2>5. QED
    BY <2>1, <2>4 DEF CompletedQty
<1>4. \A p \in Orders : CompletedQty(p) \in Nat /\ CompletedQty(p)' \in Nat
  <2>1. \A p \in Orders : CompletedQty(p) \in Nat
    BY QuantitiesTyped
  <2>2. jobQty[j] \in Nat
    BY QuantitiesTyped
  <2>3. CompletedQty(o)' \in Nat
    BY <1>1, QuantitiesTypedAfter
  <2>4. QED
    BY <1>2, <2>1, <2>2, <2>3
<1>5. MadeOf(i) = Total(f, OursOf(i)) /\ MadeOf(i)' = Total(g, OursOf(i))
  BY DEF MadeOf, OursOf
<1>6. MadeOf(i)' - MadeOf(i) = Only(ItemOf[job[j].order], jobQty[j])[i]
  <2>1. CASE ItemOf[o] = i
    <3>1. o \in OursOf(i)
      BY <1>1, <2>1 DEF OursOf
    <3>2. \A p \in OursOf(i) : f[p] \in Nat /\ g[p] \in Nat
      BY <1>4, FiniteRows
    <3>3. \A p \in OursOf(i) \ {o} : g[p] = f[p]
      BY <1>2, FiniteRows
    <3>4. g[o] - f[o] = jobQty[j]
      BY <1>1, <1>3
    <3>5. Total(g, OursOf(i)) - Total(f, OursOf(i)) = g[o] - f[o]
      <4> HIDE DEF f, g, o
      <4>1. QED
        BY <3>1, <3>2, <3>3, FiniteRows, TotalChange
    <3>6. QED
      BY <1>5, <2>1, <3>4, <3>5 DEF Only
  <2>2. CASE ItemOf[o] # i
    <3>1. \A p \in OursOf(i) : g[p] = f[p]
      BY <1>2, <2>2 DEF OursOf
    <3>2. Total(g, OursOf(i)) = Total(f, OursOf(i))
      <4> HIDE DEF f, g
      <4>1. QED
        BY <3>1, TotalCongruence
    <3>3. MadeOf(i) \in Int
      BY PartsTyped
    <3>4. QED
      BY <1>5, <2>2, <3>2, <3>3 DEF Only
  <2>3. QED
    BY <2>1, <2>2
<1>7. UsedOf(i)' - UsedOf(i) = planned[j][i] \div Parts
  <2>1. DoneJobs' = DoneJobs \cup {j} /\ j \notin DoneJobs /\ DoneJobs \subseteq Jobs
    BY DEF DoneJobs
  <2>2. u[j] = planned[j][i] \div Parts
    OBVIOUS
  <2>3. \A k \in DoneJobs \cup {j} : u[k] \in Nat
    BY <2>1, QuantitiesTyped
  <2>4. UsedOf(i) = Total(u, DoneJobs) /\ UsedOf(i)' = Total(u, DoneJobs \cup {j})
    BY <2>1 DEF UsedOf
  <2>5. Total(u, DoneJobs \cup {j}) - Total(u, DoneJobs) = u[j]
    <3> HIDE DEF u
    <3>1. QED
      BY <2>3, DoneJobsJoin
  <2>6. QED
    BY <2>2, <2>4, <2>5
<1>8. QED
  BY <1>6, <1>7

(* What one command records of an item is what it made and received of it,  *)
(* less what it shipped and used.                                           *)
LEMMA Explained ==
  ASSUME StockInv, StockInv', [StockNext]_allVars, NEW i \in Items, entitled,
         <<vars, purchase>>' # <<vars, purchase>>
  PROVE  moved'[i] - moved[i] = Balance(i)' - Balance(i)
<1>1. /\ WorkspaceInv /\ StockTypeOK /\ TypeOK /\ TypeOK' /\ StockTypeOK'
  BY DEF StockInv, LedgerWithinStock, WorkspaceInv
<1>2. /\ MadeOf(i) \in Int /\ BoughtOf(i) \in Int /\ ShippedOf(i) \in Int
      /\ UsedOf(i) \in Int
      /\ Balance(i) = MadeOf(i) + BoughtOf(i) - ShippedOf(i) - UsedOf(i)
      /\ Balance(i)' = MadeOf(i)' + BoughtOf(i)' - ShippedOf(i)' - UsedOf(i)'
  BY <1>1, PartsTyped, BalanceParts, BalancePartsAfter
<1>3. moved[i] \in Int
  BY <1>1 DEF StockTypeOK
<1>4. ASSUME UNCHANGED <<moved, shipped, purchase>>, NoneDone
      PROVE  moved'[i] - moved[i] = Balance(i)' - Balance(i)
  <2>1. BoughtOf(i)' = BoughtOf(i) /\ ShippedOf(i)' = ShippedOf(i)
    BY <1>4 DEF BoughtOf, ShippedOf, OursOf
  <2>2. MadeOf(i)' = MadeOf(i) /\ UsedOf(i)' = UsedOf(i)
    BY <1>1, <1>4, NoneDoneBalance
  <2>3. QED
    BY <1>2, <1>3, <1>4, <2>1, <2>2
<1>5. CASE UNCHANGED allVars
  BY <1>5 DEF allVars, stockVars
<1>6. CASE OtherStep /\ UNCHANGED stockVars
  <2>1. UNCHANGED <<moved, shipped, purchase>> /\ planned' = planned
    BY <1>6
       DEF OtherStep, stockVars, NewLead, UpdateLead, NewQuote, SendQuote, CloseQuote,
       NewDraftOrder, CancelOrder, AddJob, CreateInvoice, RecordPayment, billVars
  <2>2. NoneDone
    <3>1. CASE UNCHANGED jobVars
      BY <2>1, <3>1 DEF NoneDone, DoneJobs, jobVars
    <3>2. ASSUME NEW o \in Orders, CancelOrder(o)
          PROVE  NoneDone
      <4>1. \A j \in JobsOf(o) : job[j].status \in {"Pending", "Cancelled"}
        BY <3>2 DEF CancelOrder
      <4>2. \A j \in Jobs : /\ job'[j].status = "Completed" <=> job[j].status = "Completed"
                            /\ j \notin JobsOf(o) => job'[j] = job[j]
        BY <1>1, <3>2, <4>1, RowTypes DEF CancelOrder, JobsOf, JobRows
      <4>3. DoneJobs' = DoneJobs /\ \A j \in DoneJobs : job'[j] = job[j]
        BY <4>1, <4>2 DEF DoneJobs
      <4>4. QED
        BY <2>1, <3>2, <4>3 DEF NoneDone, CancelOrder
    <3>3. ASSUME NEW o \in Orders, NEW j \in Jobs, NEW n \in Qty, AddJob(o, j, n)
          PROVE  NoneDone
      <4>1. /\ job[j] = NoJob /\ job' = [job EXCEPT ![j] =
                        [order |-> o, status |-> "Pending", progress |-> 0, imported |-> FALSE]]
            /\ jobQty' = [jobQty EXCEPT ![j] = n]
        BY <3>3 DEF AddJob, AddJobRow
      <4>2. QED
        BY <1>1, <2>1, <4>1 DEF NoneDone, DoneJobs, NoJob, TypeOK
    <3>4. QED
      BY <1>6, <3>1, <3>2, <3>3 DEF OtherStep, NewLead, UpdateLead, NewQuote, SendQuote,
         CloseQuote, NewDraftOrder, CreateInvoice, RecordPayment
  <2>3. QED
    BY <1>4, <2>1, <2>2
<1>7. CASE PlanningStep /\ UNCHANGED <<entitled, stock, moved, bom, purchase>>
  <2>1. shipped' = shipped
    BY <1>7 DEF PlanningStep, StockConvert, StockConfirm, StockConfirmDraft, StockSplit,
       ConvertQuote, NewConfirmedOrder, ConfirmOrder, SplitJob
  <2>2. ASSUME NEW o \in Orders, NEW n, NEW j \in Jobs, InitialJob(o, n, j),
               PlanMaterials(o)
        PROVE  NoneDone
    <3>1. \A k \in Jobs : \/ job'[k] = job[k] /\ jobQty'[k] = jobQty[k]
                          \/ /\ job[k] = NoJob
                             /\ job'[k] = [order |-> o, status |-> "Pending", progress |-> 0,
                                           imported |-> FALSE]
      BY <1>1, <2>2 DEF InitialJob, AddJobRow, jobVars, TypeOK
    <3>2. \A k \in Jobs : job[k] # NoJob => planned'[k] = planned[k]
      BY <2>2 DEF PlanMaterials
    <3>3. QED
      BY <3>1, <3>2 DEF NoneDone, DoneJobs, NoJob
  <2>3. ASSUME NEW j \in Jobs, NEW k \in Jobs, NEW n \in Qty, StockSplit(j, k, n)
        PROVE  NoneDone
    <3>1. /\ job[j].status = "Pending" /\ job[k] = NoJob
          /\ jobQty' = [jobQty EXCEPT ![j] = @ - n, ![k] = n]
          /\ job' = [job EXCEPT ![k] = job[j]]
          /\ planned' = [planned EXCEPT ![k] = planned[j]]
      BY <2>3 DEF StockSplit, SplitJob
    <3>2. \A l \in Jobs \ {k} : job'[l] = job[l] /\ planned'[l] = planned[l]
      BY <1>1, <3>1 DEF TypeOK, StockTypeOK
    <3>3. job[k].status = "Absent" /\ job'[k].status = "Pending"
      BY <1>1, <3>1 DEF TypeOK, NoJob
    <3>4. \A l \in Jobs \ {j, k} : jobQty'[l] = jobQty[l]
      BY <1>1, <3>1 DEF TypeOK
    <3>5. QED
      BY <3>1, <3>2, <3>3, <3>4 DEF NoneDone, DoneJobs
  <2>4. NoneDone
    BY <1>7, <2>2, <2>3 DEF PlanningStep, StockConvert, StockConfirm, StockConfirmDraft,
       ConvertQuote, NewConfirmedOrder, ConfirmOrder
  <2>5. QED
    BY <1>4, <1>7, <2>1, <2>4
<1>8. ASSUME NEW j \in Jobs, NEW s \in ReportedStatuses, NEW p \in Progress,
             StockUpdateJob(j, s, p), UNCHANGED <<entitled, bom, planned, purchase>>
      PROVE  moved'[i] - moved[i] = Balance(i)' - Balance(i)
  <2>1. /\ job[j] \in JobRows /\ job[j].status # "Completed"
        /\ job'[j].order = job[j].order
        /\ \A k \in Jobs \ {j} : job'[k] = job[k]
        /\ jobQty' = jobQty /\ shipped' = shipped
    <3>1. UpdateJob(j, s, p)
      BY <1>8 DEF StockUpdateJob
    <3>2. job[j] \in JobRows /\ job[j].status # "Completed"
      BY <1>1, <3>1, RowTypes DEF UpdateJob
    <3>3. job' = [job EXCEPT ![j].status = IF s = "Completed" \/ p = 100 THEN "Completed" ELSE s,
                             ![j].progress = IF s = "Completed" \/ p = 100 THEN 100 ELSE p]
      BY <3>1 DEF UpdateJob
    <3>4. job'[j].order = job[j].order /\ \A k \in Jobs \ {j} : job'[k] = job[k]
      BY <1>1, <3>2, <3>3 DEF TypeOK, JobRows
    <3>5. QED
      BY <3>1, <3>2, <3>4 DEF UpdateJob
  <2>2. CASE job'[j].status # "Completed"
    <3>1. NoneDone
      BY <1>8, <2>1, <2>2 DEF NoneDone, DoneJobs
    <3>2. QED
      BY <1>4, <1>8, <2>1, <2>2, <3>1 DEF StockUpdateJob
  <2>3. CASE job'[j].status = "Completed"
    <3> DEFINE gain == Only(ItemOf[job[j].order], jobQty[j])
               use == [k \in Items |-> planned[j][k] \div Parts]
    <3>1. moved' = [k \in Items |-> moved[k] + gain[k] - use[k]]
      BY <1>8, <2>3 DEF StockUpdateJob, MoveStock
    <3>2. gain[i] \in Int /\ use[i] \in Int
      BY <1>1, OnlyTyped, PlannedParts, QuantitiesTyped
    <3>3. MadeOf(i)' - MadeOf(i) = gain[i] /\ UsedOf(i)' - UsedOf(i) = use[i]
      BY <1>1, <1>8, <2>1, <2>3, JobDoneBalance
    <3>4. BoughtOf(i)' = BoughtOf(i) /\ ShippedOf(i)' = ShippedOf(i)
      BY <1>8, <2>1 DEF BoughtOf, ShippedOf, OursOf
    <3>5. moved'[i] = moved[i] + gain[i] - use[i]
      BY <3>1
    <3>6. MadeOf(i)' \in Int /\ UsedOf(i)' \in Int
      BY <1>1, PartsTypedAfter
    <3> HIDE DEF gain, use
    <3>7. QED
      BY <1>2, <1>3, <3>2, <3>3, <3>4, <3>5, <3>6
  <2>4. QED
    BY <2>2, <2>3
<1>9. ASSUME NEW o \in Orders, NEW n \in Qty, StockDispatch(o, n),
             UNCHANGED <<entitled, bom, planned, purchase>>
      PROVE  moved'[i] - moved[i] = Balance(i)' - Balance(i)
  <2>1. n \in Nat
    BY BoundsAssumption DEF Qty
  <2>2. NoneDone
    BY <1>9 DEF NoneDone, DoneJobs, StockDispatch, Dispatch, jobVars
  <2>3. MadeOf(i)' = MadeOf(i) /\ UsedOf(i)' = UsedOf(i) /\ BoughtOf(i)' = BoughtOf(i)
    BY <1>1, <1>9, <2>2, NoneDoneBalance DEF BoughtOf
  <2>4. ShippedOf(i)' - ShippedOf(i) = Only(ItemOf[o], n)[i]
    <3>1. shipped' = [shipped EXCEPT ![o] = @ + n]
      BY <1>9 DEF StockDispatch, Dispatch
    <3>2. /\ \A p \in OursOf(i) : shipped[p] \in Nat /\ shipped'[p] \in Nat
          /\ \A p \in OursOf(i) \ {o} : shipped'[p] = shipped[p]
          /\ shipped'[o] - shipped[o] = n
      <4>1. \A p \in Orders : shipped[p] \in Nat
        BY <1>1, BoundsAssumption DEF TypeOK
      <4>2. \A p \in Orders : shipped'[p] = IF p = o THEN shipped[p] + n ELSE shipped[p]
        BY <1>1, <3>1 DEF TypeOK
      <4>3. OursOf(i) \subseteq Orders
        BY FiniteRows
      <4>4. QED
        BY <2>1, <4>1, <4>2, <4>3
    <3>3. CASE ItemOf[o] = i
      <4>1. o \in OursOf(i)
        BY <3>3 DEF OursOf
      <4>2. Total(shipped', OursOf(i)) - Total(shipped, OursOf(i)) = shipped'[o] - shipped[o]
        BY <3>2, <4>1, FiniteRows, TotalChange
      <4>3. QED
        BY <3>2, <3>3, <4>2 DEF ShippedOf, OursOf, Only
    <3>4. CASE ItemOf[o] # i
      <4>1. \A p \in OursOf(i) : shipped'[p] = shipped[p]
        BY <3>2, <3>4 DEF OursOf
      <4>2. ShippedOf(i)' = ShippedOf(i)
        BY <4>1, TotalCongruence DEF ShippedOf, OursOf
      <4>3. QED
        BY <1>2, <3>4, <4>2 DEF Only
    <3>5. QED
      BY <3>3, <3>4
  <2>5. moved' = [k \in Items |-> moved[k] + NoParts[k] - Only(ItemOf[o], n)[k]]
    BY <1>9 DEF StockDispatch, MoveStock
  <2>6. Only(ItemOf[o], n)[i] \in Int /\ NoParts[i] = 0
    BY <2>1, OnlyTyped
  <2>7. moved'[i] = moved[i] + 0 - Only(ItemOf[o], n)[i]
    BY <2>5, <2>6
  <2>8. ShippedOf(i)' \in Int
    BY <1>1, PartsTypedAfter
  <2>9. QED
    BY <1>2, <1>3, <2>3, <2>4, <2>6, <2>7, <2>8
<1>10. CASE SupplyStep
  <2>1. UNCHANGED vars /\ UNCHANGED planned
    BY <1>10
       DEF SupplyStep, NewPurchase, Receive, SaveBom, Inspect, AdjustStock, Entitle
  <2>2. NoneDone /\ ShippedOf(i)' = ShippedOf(i)
    BY <2>1 DEF NoneDone, DoneJobs, vars, jobVars, ShippedOf, OursOf
  <2>3. MadeOf(i)' = MadeOf(i) /\ UsedOf(i)' = UsedOf(i)
    BY <1>1, <2>2, NoneDoneBalance
  <2> DEFINE P == {p \in Purchases : purchase[p].item = i}
             b == [p \in Purchases |-> purchase[p].received]
             a == [p \in Purchases |-> purchase'[p].received]
  <2>4. BoughtOf(i) = Total(b, P)
    BY DEF BoughtOf
  <2>5. /\ \A p \in Purchases : b[p] \in Nat /\ a[p] \in Nat
        /\ P \subseteq Purchases /\ IsFiniteSet(P)
    BY <1>1, QuantitiesTyped, QuantitiesTypedAfter, FiniteRows
  <2>6. ASSUME NEW p \in Purchases, NEW it \in Items, NEW n \in Qty,
               NewPurchase(p, it, n)
        PROVE  moved'[i] - moved[i] = Balance(i)' - Balance(i)
    <3>1. /\ purchase[p] = NoPurchase /\ moved' = moved
          /\ purchase' = [purchase EXCEPT ![p] = [item |-> it, qty |-> n, received |-> 0]]
      BY <2>6 DEF NewPurchase
    <3>2. /\ \A q \in Purchases : a[q] = b[q]
          /\ \A q \in Purchases \ {p} : purchase'[q] = purchase[q]
          /\ a[p] = 0
      BY <1>1, <3>1 DEF StockTypeOK, NoPurchase
    <3>3. Total(a, P) = Total(b, P)
      <4> HIDE DEF a, b, P
      <4>1. QED
        BY <2>5, <3>2, TotalCongruence
    <3>4. BoughtOf(i)' = Total(a, P)
      <4> DEFINE Q == {q \in Purchases : purchase'[q].item = i}
      <4>1. BoughtOf(i)' = Total(a, Q)
        BY DEF BoughtOf
      <4>2. p \notin P
        BY <3>1, StockAssumption DEF NoPurchase
      <4>3. Q = P \/ Q = P \cup {p}
        BY <3>2, <4>2
      <4>4. Total(a, P \cup {p}) - Total(a, P) = a[p]
        <5> HIDE DEF a, b, P
        <5>1. QED
          BY <2>5, <4>2, TotalJoin
      <4>5. Total(a, P) \in Nat
        <5> HIDE DEF a, b, P
        <5>1. QED
          BY <2>5, TotalNatural
      <4>6. Total(a, P \cup {p}) \in Nat
        <5>1. IsFiniteSet(P \cup {p})
          BY <2>5, FS_AddElement
        <5> HIDE DEF a, b, P
        <5>2. QED
          BY <2>5, <5>1, TotalNatural
      <4>7. a[p] = 0
        BY <3>2
      <4> HIDE DEF a, b, P, Q
      <4>8. Total(a, P \cup {p}) = Total(a, P)
        BY <4>4, <4>5, <4>6, <4>7
      <4>9. QED
        BY <4>1, <4>3, <4>8
    <3>5. QED
      BY <1>2, <1>3, <2>2, <2>3, <2>4, <3>1, <3>3, <3>4
  <2>7. ASSUME NEW p \in Purchases, NEW n \in Qty, Receive(p, n)
        PROVE  moved'[i] - moved[i] = Balance(i)' - Balance(i)
    <3>1. n \in Nat
      BY BoundsAssumption DEF Qty
    <3>2. purchase[p] \in PurchaseRows
      BY <1>1, <2>7, <3>1, BoundsAssumption DEF Receive, NoPurchase, Qty, StockTypeOK
    <3>3. /\ \A q \in Purchases : purchase'[q].item = purchase[q].item
          /\ a[p] - b[p] = n
          /\ \A q \in Purchases \ {p} : a[q] = b[q]
      BY <1>1, <2>7, <3>1, <3>2, BoundsAssumption DEF Receive, StockTypeOK, PurchaseRows
    <3>4. BoughtOf(i)' = Total(a, P)
      BY <3>3 DEF BoughtOf
    <3>5. Total(a, P) - Total(b, P) = Only(purchase[p].item, n)[i]
      <4>1. CASE purchase[p].item = i
        <5>1. p \in P
          BY <4>1
        <5>2. Total(a, P) - Total(b, P) = a[p] - b[p]
          <6> HIDE DEF a, b, P
          <6>1. QED
            BY <2>5, <3>3, <5>1, TotalChange
        <5>3. QED
          BY <3>3, <4>1, <5>2 DEF Only
      <4>2. CASE purchase[p].item # i
        <5>1. \A q \in P : a[q] = b[q]
          BY <3>3, <4>2
        <5>2. Total(a, P) = Total(b, P)
          <6> HIDE DEF a, b, P
          <6>1. QED
            BY <5>1, TotalCongruence
        <5>3. Total(b, P) \in Int
          BY <1>2, <2>4
        <5>4. QED
          BY <4>2, <5>2, <5>3 DEF Only
      <4>3. QED
        BY <4>1, <4>2
    <3>6. moved' = [k \in Items |-> moved[k] + Only(purchase[p].item, n)[k] - NoParts[k]]
      BY <2>7 DEF Receive, MoveStock
    <3>7. Only(purchase[p].item, n)[i] \in Int /\ NoParts[i] = 0
      BY <3>1, OnlyTyped
    <3>8. moved'[i] = moved[i] + Only(purchase[p].item, n)[i] - 0
      BY <3>6, <3>7
    <3>9. BoughtOf(i)' \in Int
      BY <1>1, PartsTypedAfter
    <3>10. QED
      BY <1>2, <1>3, <2>2, <2>3, <2>4, <3>4, <3>5, <3>7, <3>8, <3>9
  <2>8. QED
    BY <1>10, <2>6, <2>7 DEF SupplyStep, SaveBom, Inspect, AdjustStock, Entitle
<1>11. QED
  BY <1>5, <1>6, <1>7, <1>8, <1>9, <1>10 DEF StockNext, MovingStep

(* While the company is entitled to its stock, every command on orders,     *)
(* jobs and purchases records exactly what it made, received, shipped and   *)
(* used.                                                                    *)
THEOREM StockLedgerExplained == StockSpec => LedgerExplained
<1>1. StockInv /\ StockInv' /\ [StockNext]_allVars =>
        [\A i \in Items : entitled /\ <<vars, purchase>>' # <<vars, purchase>> =>
           moved'[i] - moved[i] = Balance(i)' - Balance(i)]_allVars
  BY Explained
<1>2. QED
  BY <1>1, StockInvariance, PTL DEF StockSpec, LedgerExplained

=============================================================================
