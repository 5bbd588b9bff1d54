--------------------------- MODULE WorkspaceStock ---------------------------
(***************************************************************************)
(* The workspace engine of a company that may hold the inventory            *)
(* entitlement: the commands of module Workspace together with what they do *)
(* to stock, and purchases, bills of material and quality inspections.      *)
(* get_state reads the entitlement at every command, so it can be granted   *)
(* or run out between any two commands.                                     *)
(*                                                                         *)
(* Material quantities are rational in the program and truncated to whole   *)
(* units when they are consumed; here they are counted in parts, Parts to   *)
(* the unit.                                                                *)
(*                                                                         *)
(* Definitions commented "Mutant:" are mistakes for the properties to find. *)
(***************************************************************************)
EXTENDS Workspace, Integers

CONSTANTS
  Items, Purchases,   \* ids of items and purchase orders
  ItemOf,             \* the item each sales order is for
  Opening,            \* the stock each item is created with
  Recipes,            \* bills of material: parts of each item per piece made
  Parts,              \* parts in one stock unit
  Entitlements,       \* the values the entitlement takes: BOOLEAN or {TRUE}
  MaxReject,          \* most pieces one inspection rejects
  Adjustments,        \* manual stock adjustments
  Deficit             \* bound: inspections stop when the moves of an item are
                      \*   this far below zero

ASSUME StockAssumption ==
  /\ IsFiniteSet(Purchases) /\ None \notin Items
  /\ ItemOf \in [Orders -> Items]
  /\ Opening \in [Items -> Nat]
  /\ Recipes \subseteq [Items -> Nat]
  /\ Parts \in Nat \ {0} /\ MaxReject \in Nat /\ Deficit \in Nat
  /\ Adjustments \subseteq Int \ {0}
  /\ Entitlements \subseteq BOOLEAN /\ TRUE \in Entitlements

VARIABLES
  entitled,   \* state['inventory_enabled'] as the next command will read it
  stock,      \* units on hand of each item
  moved,      \* sum of the stock moves recorded for each item
  bom,        \* active bill of material of each item, no parts if there is none
  planned,    \* planned_materials of each job, in parts
  purchase    \* item, ordered and received quantity of each purchase

stockVars == <<entitled, stock, moved, bom, planned, purchase>>
allVars == <<vars, stockVars>>

NoParts == [i \in Items |-> 0]
NoPurchase == [item |-> None, qty |-> 0, received |-> 0]

StockInit ==
  /\ Init
  /\ entitled \in Entitlements
  /\ stock = Opening
  /\ moved = IF entitled THEN Opening ELSE NoParts
  /\ bom = [i \in Items |-> NoParts]
  /\ planned = [j \in Jobs |-> NoParts]
  /\ purchase = [p \in Purchases |-> NoPurchase]

-----------------------------------------------------------------------------
(* Mutant: consumption is taken from stock without a stock move. *)
MoveStockUnrecorded(gain, use) ==
  IF entitled
  THEN /\ stock' = [i \in Items |-> IF use[i] > stock[i] + gain[i] THEN 0
                                    ELSE stock[i] + gain[i] - use[i]]
       /\ moved' = [i \in Items |-> moved[i] + gain[i]]
  ELSE UNCHANGED <<stock, moved>>

(* Stock changes and stock moves of one command, when it is entitled to     *)
(* make them: gain is added to stock, use taken out of it but never below   *)
(* zero, and the moves record both in full.                                 *)
MoveStock(gain, use) ==
  IF entitled
  THEN /\ stock' = [i \in Items |-> IF use[i] > stock[i] + gain[i] THEN 0
                                    ELSE stock[i] + gain[i] - use[i]]
       /\ moved' = [i \in Items |-> moved[i] + gain[i] - use[i]]
  ELSE UNCHANGED <<stock, moved>>

Only(item, n) == [i \in Items |-> IF i = item THEN n ELSE 0]

(* The first job of an order plans the material of the whole order. *)
PlanMaterials(o) ==
  planned' = [j \in Jobs |->
    IF job[j] = NoJob /\ job'[j] # NoJob
    THEN [i \in Items |-> bom[ItemOf[o]][i] * jobQty'[j]]
    ELSE planned[j]]

StockConfirm(o, n, l, j) == NewConfirmedOrder(o, n, l, j) /\ PlanMaterials(o)
StockConfirmDraft(o, j) == ConfirmOrder(o, j) /\ PlanMaterials(o)
StockConvert(q, o, n, j) == ConvertQuote(q, o, n, j) /\ PlanMaterials(o)

(* job-split copies every field of the job but its id, the planned          *)
(* materials included.                                                      *)
StockSplit(j, k, n) ==
  /\ SplitJob(j, k, n)
  /\ planned' = [planned EXCEPT ![k] = planned[j]]

(* Mutant: completing a job adds the whole order. *)
StockUpdateJobWholeOrder(j, s, p) ==
  /\ UpdateJob(j, s, p)
  /\ IF job'[j].status = "Completed"
     THEN MoveStock(Only(ItemOf[job[j].order], order[job[j].order].qty),
                    [i \in Items |-> planned[j][i] \div Parts])
     ELSE UNCHANGED <<stock, moved>>

(* Completing a job adds what it made and consumes what it planned.  An     *)
(* imported job does not say which item it makes: with the entitlement its  *)
(* completion is refused.                                                   *)
StockUpdateJob(j, s, p) ==
  /\ UpdateJob(j, s, p)
  /\ entitled /\ job[j].imported => job'[j].status # "Completed"
  /\ IF job'[j].status = "Completed"
     THEN MoveStock(Only(ItemOf[job[j].order], jobQty[j]),
                    [i \in Items |-> planned[j][i] \div Parts])
     ELSE UNCHANGED <<stock, moved>>

StockDispatch(o, n) ==
  /\ Dispatch(o, n)
  /\ entitled => stock[ItemOf[o]] >= n
  /\ MoveStock(NoParts, Only(ItemOf[o], n))

NewPurchase(p, i, n) ==
  /\ purchase[p] = NoPurchase
  /\ purchase' = [purchase EXCEPT ![p] = [item |-> i, qty |-> n, received |-> 0]]
  /\ UNCHANGED <<vars, entitled, stock, moved, bom, planned>>

Receive(p, n) ==
  /\ purchase[p].received + n <= purchase[p].qty
  /\ purchase' = [purchase EXCEPT ![p].received = @ + n]
  /\ MoveStock(Only(purchase[p].item, n), NoParts)
  /\ UNCHANGED <<vars, entitled, bom, planned>>

SaveBom(i, r) ==
  /\ bom' = [bom EXCEPT ![i] = r]
  /\ UNCHANGED <<vars, entitled, stock, moved, planned, purchase>>

(* An inspection that rejects n pieces of an item, of whatever job or       *)
(* purchase it names.                                                       *)
Inspect(i, n) ==
  /\ moved[i] - n >= 0 - Deficit
  /\ MoveStock(NoParts, Only(i, n))
  /\ UNCHANGED <<vars, entitled, bom, planned, purchase>>

(* A manual adjustment, recorded with or without the entitlement.  The      *)
(* engine has the command; access.py hides it in the present release.       *)
AdjustStock(i, d) ==
  /\ stock[i] + d >= 0
  /\ stock' = [stock EXCEPT ![i] = @ + d]
  /\ moved' = [moved EXCEPT ![i] = @ + d]
  /\ UNCHANGED <<vars, entitled, bom, planned, purchase>>

(* The platform grants, revokes or lets expire the inventory entitlement. *)
Entitle(b) ==
  /\ entitled' = b
  /\ UNCHANGED <<vars, stock, moved, bom, planned, purchase>>

-----------------------------------------------------------------------------
(* The commands that move no stock and plan no material. *)
OtherStep ==
  \/ \E l \in Leads : \/ \E s \in OpenStages : NewLead(l, s)
                      \/ \E s \in Stages : UpdateLead(l, s)
  \/ \E q \in Quotes : \/ \E l \in LeadRef : NewQuote(q, l)
                       \/ SendQuote(q)
                       \/ \E s \in {"Rejected", "Expired"} : CloseQuote(q, s)
  \/ \E o \in Orders : \/ \E n \in Qty, l \in LeadRef : NewDraftOrder(o, n, l)
                       \/ CancelOrder(o)
                       \/ \E j \in Jobs, n \in Qty : AddJob(o, j, n)
  \/ \E o \in Orders, i \in Invoices : CreateInvoice(o, i)
  \/ \E i \in Invoices : \E a \in 1..MaxAmount : RecordPayment(i, a)

PlanningStep ==
  \/ \E q \in Quotes, o \in Orders, n \in Qty, j \in Jobs : StockConvert(q, o, n, j)
  \/ \E o \in Orders, n \in Qty, l \in LeadRef, j \in Jobs : StockConfirm(o, n, l, j)
  \/ \E o \in Orders, j \in Jobs : StockConfirmDraft(o, j)
  \/ \E j, k \in Jobs : \E n \in Qty : StockSplit(j, k, n)

MovingStep ==
  \/ \E j \in Jobs : \E s \in ReportedStatuses : \E p \in Progress : StockUpdateJob(j, s, p)
  \/ \E o \in Orders, n \in Qty : StockDispatch(o, n)

SupplyStep ==
  \/ \E p \in Purchases, i \in Items, n \in Qty : NewPurchase(p, i, n)
  \/ \E p \in Purchases : \E n \in Qty : Receive(p, n)
  \/ \E i \in Items : \E r \in Recipes : SaveBom(i, r)
  \/ \E i \in Items : \E n \in 1..MaxReject : Inspect(i, n)
  \/ \E i \in Items : \E d \in Adjustments : AdjustStock(i, d)
  \/ \E b \in Entitlements : Entitle(b)

StockNext ==
  \/ OtherStep /\ UNCHANGED stockVars
  \/ PlanningStep /\ UNCHANGED <<entitled, stock, moved, bom, purchase>>
  \/ MovingStep /\ UNCHANGED <<entitled, bom, planned, purchase>>
  \/ SupplyStep

StockSpec == StockInit /\ [][StockNext]_allVars

-----------------------------------------------------------------------------
PurchaseRows == [item : Items, qty : 1..MaxQty, received : 0..MaxQty]

StockTypeOK ==
  /\ TypeOK
  /\ entitled \in BOOLEAN
  /\ stock \in [Items -> Nat]
  /\ moved \in [Items -> Int]
  /\ bom \in [Items -> Recipes \cup {NoParts}]
  /\ planned \in [Jobs -> [Items -> Nat]]
  /\ purchase \in [Purchases -> PurchaseRows \cup {NoPurchase}]

(* The stock moves never claim more stock than there is beyond what an item *)
(* was opened with: production that consumes more than the stock and        *)
(* inspections that reject more than it are cut off in the stock but        *)
(* recorded in full.                                                        *)
LedgerWithinStock ==
  /\ StockTypeOK
  /\ \A i \in Items : moved[i] <= stock[i]

(* What the business says of an item: what was made of it and received,     *)
(* less what was shipped and what completed jobs had planned to use.        *)
Balance(i) ==
  LET ours == {o \in Orders : ItemOf[o] = i}
  IN  Total([o \in Orders |-> CompletedQty(o)], ours)
      + Total([p \in Purchases |-> purchase[p].received],
              {p \in Purchases : purchase[p].item = i})
      - Total(shipped, ours)
      - Total([j \in Jobs |-> planned[j][i] \div Parts],
              {j \in Jobs : job[j].status = "Completed"})

(* While the company is entitled to it, the stock moves explain the         *)
(* business: every command on orders, jobs and purchases (all but           *)
(* inspections and adjustments) records exactly what it made, received,     *)
(* shipped and used, however often jobs were split and reported before.     *)
LedgerExplained ==
  [][\A i \in Items :
       entitled /\ <<vars, purchase>>' # <<vars, purchase>> =>
         moved'[i] - moved[i] = Balance(i)' - Balance(i)]_allVars

(* The completed jobs of an order have planned, and so consumed, the        *)
(* material of the pieces they made and no more.                            *)
MaterialsPerPiece ==
  \A o \in Orders, i \in Items :
    Total([j \in Jobs |-> planned[j][i]], CompletedJobs(o))
      <= CompletedQty(o) * bom[ItemOf[o]][i]

=============================================================================
