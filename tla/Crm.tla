-------------------------------- MODULE Crm ---------------------------------
(***************************************************************************)
(* Leads, deals, quotations, orders and payments of the core application   *)
(* (src/apps/core/crm_views.py on the tables of src/apps/core/models.py).   *)
(*                                                                         *)
(* Some handlers run in one transaction.  The others read rows and write   *)
(* them back in statements that commit one by one: such a handler is a     *)
(* request in reqs, which keeps the rows it has read, takes one step per   *)
(* statement and may die between two of them.  save() without              *)
(* update_fields writes every column as it was read, and inserts the row   *)
(* again when it has been deleted meanwhile.                               *)
(*                                                                         *)
(* Left out as data no property speaks of: the status of deals and orders,  *)
(* contact and product details, the items of quotations.                    *)
(*                                                                         *)
(* Definitions commented "Mutant:" are mistakes for the properties to find. *)
(***************************************************************************)
EXTENDS Integers, FiniteSets, Quantities

CONSTANTS
  Leads,        \* leads that may come in
  Codes,        \* quotation codes of the employees
  HandIds,      \* ids given to deals that are added by hand
  Quotes, Orders, Advances,   \* primary keys: none is used twice
  Requests,     \* requests that can be under way at once
  Amounts,      \* amounts of a payment
  OrderTotal,   \* the total an order is placed with
  MaxBalance,   \* bound on balances, which overlapping requests can drive anywhere
  None,         \* no row yet, no value
  NoLead,       \* the lead of a deal without one
  Gone          \* a row that has been deleted

VARIABLES
  leads,        \* None, "open" or "converted" for each lead
  deals,        \* the lead of each deal, NoLead if it has none, None if there is no deal
  quotes,       \* the deal each quotation was made for
  orders,       \* number, deal, quotation and balance of each order
  advances,     \* order and amount of each payment
  reqs,         \* what each request under way has read and what it will write
  conversions,  \* history: the deals each lead was converted into
  raced         \* history: orders on which two requests overlapped or one died

vars == <<leads, deals, quotes, orders, advances, reqs, conversions, raced>>

-----------------------------------------------------------------------------
(* ConvertLeadView names the deal after the code and the lead. *)
DealIds == HandIds \cup (Codes \X Leads)
Balances == (0 - MaxBalance)..MaxBalance
OrderRows == [number : Nat \ {0}, deal : DealIds, quote : Quotes, balance : Balances]
AdvanceRows == [order : Orders, amount : Amounts]

IsRow(x) == x \notin {None, Gone}
LiveOrders == {o \in Orders : IsRow(orders[o])}
AdvancesOf(o) == {a \in Advances : IsRow(advances[a]) /\ advances[a].order = o}
Paid(o) == Total([a \in AdvancesOf(o) |-> advances[a].amount], AdvancesOf(o))
Busy(o) == \E r \in Requests : reqs[r] # None /\ reqs[r].order = o

(* The unique columns of Order, and its keys into other tables: what the    *)
(* database asks of a row that is inserted as order o.                      *)
Insertable(o, row) ==
  /\ quotes[row.quote] # Gone
  /\ \A p \in LiveOrders \ {o} : /\ orders[p].number # row.number
                                 /\ orders[p].deal # row.deal
                                 /\ orders[p].quote # row.quote

(* A request: the kind of handler, the statement it is at, and its rows.    *)
Request(kind, step, order, row) ==
  [kind |-> kind, step |-> step, order |-> order, row |-> row,
   advance |-> None, old |-> 0, new |-> 0]

Finish(r) == reqs' = [reqs EXCEPT ![r] = None]

(* Request q begins on order o: it races if another one is at work there.   *)
Begin(r, q, o) ==
  /\ reqs[r] = None
  /\ reqs' = [reqs EXCEPT ![r] = q]
  /\ raced' = IF Busy(o) THEN raced \cup {o} ELSE raced

-----------------------------------------------------------------------------
Init ==
  /\ leads = [l \in Leads |-> None]
  /\ deals = [d \in DealIds |-> None]
  /\ quotes = [q \in Quotes |-> None]
  /\ orders = [o \in Orders |-> None]
  /\ advances = [a \in Advances |-> None]
  /\ reqs = [r \in Requests |-> None]
  /\ conversions = [l \in Leads |-> {}]
  /\ raced = {}

(* LeadListCreateView.post *)
AddLead(l) ==
  /\ leads[l] = None
  /\ leads' = [leads EXCEPT ![l] = "open"]
  /\ UNCHANGED <<deals, quotes, orders, advances, reqs, conversions, raced>>

(* ConvertLeadView.post: one transaction that holds the lead's row. *)
ConvertLead(l, c) ==
  /\ leads[l] = "open"
  /\ deals[<<c, l>>] = None
  /\ leads' = [leads EXCEPT ![l] = "converted"]
  /\ deals' = [deals EXCEPT ![<<c, l>>] = l]
  /\ conversions' = [conversions EXCEPT ![l] = @ \cup {<<c, l>>}]
  /\ UNCHANGED <<quotes, orders, advances, reqs, raced>>

(* DealListCreateView.post: any id that is free, for any lead, converted or  *)
(* not, or for none.                                                        *)
AddDeal(d, l) ==
  /\ deals[d] = None
  /\ l # NoLead => leads[l] # None
  /\ deals' = [deals EXCEPT ![d] = l]
  /\ UNCHANGED <<leads, quotes, orders, advances, reqs, conversions, raced>>

-----------------------------------------------------------------------------
(* QuotationListCreateView.post *)
AddQuotation(q, d) ==
  /\ quotes[q] = None
  /\ deals[d] # None
  /\ quotes' = [quotes EXCEPT ![q] = d]
  /\ UNCHANGED <<leads, deals, orders, advances, reqs, conversions, raced>>

(* QuotationImportView.post: a copy of another quotation, for any deal. *)
ImportQuotation(q, source, d) ==
  /\ quotes[q] = None
  /\ IsRow(quotes[source])
  /\ deals[d] # None
  /\ quotes' = [quotes EXCEPT ![q] = d]
  /\ UNCHANGED <<leads, deals, orders, advances, reqs, conversions, raced>>

(* QuotationDetailView.delete; an order protects its quotation. *)
DeleteQuotation(q) ==
  /\ IsRow(quotes[q])
  /\ \A o \in LiveOrders : orders[o].quote # q
  /\ quotes' = [quotes EXCEPT ![q] = Gone]
  /\ UNCHANGED <<leads, deals, orders, advances, reqs, conversions, raced>>

-----------------------------------------------------------------------------
(* OrderListCreateView.post reads deal, quotation and the last number ...   *)
LastNumber ==
  IF LiveOrders = {} THEN 0
  ELSE CHOOSE n \in {orders[o].number : o \in LiveOrders} :
         \A p \in LiveOrders : orders[p].number <= n

(* Mutant: the quotation is looked up by its number alone. *)
ReadAnyQuotation(r, d, q) ==
  /\ reqs[r] = None
  /\ deals[d] # None
  /\ IsRow(quotes[q])
  /\ reqs' = [reqs EXCEPT ![r] =
       Request("place", 1, None, [number |-> LastNumber + 1, deal |-> d,
                                  quote |-> q, balance |-> OrderTotal])]
  /\ UNCHANGED <<leads, deals, quotes, orders, advances, conversions, raced>>

ReadLastNumber(r, d, q) ==
  /\ reqs[r] = None
  /\ deals[d] # None
  /\ quotes[q] = d
  /\ reqs' = [reqs EXCEPT ![r] =
       Request("place", 1, None, [number |-> LastNumber + 1, deal |-> d,
                                  quote |-> q, balance |-> OrderTotal])]
  /\ UNCHANGED <<leads, deals, quotes, orders, advances, conversions, raced>>

(* ... and inserts the order, unless the database refuses.             *)
PlaceOrder(r, o) ==
  /\ reqs[r] # None /\ reqs[r].kind = "place"
  /\ orders[o] = None
  /\ LET row == reqs[r].row IN
       \/ /\ Insertable(o, row)
          /\ orders' = [orders EXCEPT ![o] = row]
       \/ /\ ~Insertable(o, row)
          /\ UNCHANGED orders
  /\ Finish(r)
  /\ UNCHANGED <<leads, deals, quotes, advances, conversions, raced>>

(* OrderDetailView.delete, with the payments the order owns. *)
DeleteOrder(o) ==
  /\ o \in LiveOrders
  /\ orders' = [orders EXCEPT ![o] = Gone]
  /\ advances' = [a \in Advances |-> IF a \in AdvancesOf(o) THEN Gone ELSE advances[a]]
  /\ raced' = IF Busy(o) THEN raced \cup {o} ELSE raced
  /\ UNCHANGED <<leads, deals, quotes, reqs, conversions>>

(* OrderDetailView.put reads the order ... *)
ReadOrder(r, o) ==
  /\ o \in LiveOrders
  /\ Begin(r, Request("edit", 1, o, orders[o]), o)
  /\ UNCHANGED <<leads, deals, quotes, orders, advances, conversions>>

(* ... and saves the whole row, balance included, deleted or not. *)
SaveOrder(r) ==
  /\ reqs[r] # None /\ reqs[r].kind = "edit"
  /\ LET o == reqs[r].order
         row == reqs[r].row
     IN  \/ /\ Insertable(o, row)
            /\ orders' = [orders EXCEPT ![o] = row]
         \/ /\ ~Insertable(o, row)
            /\ UNCHANGED orders
  /\ Finish(r)
  /\ UNCHANGED <<leads, deals, quotes, advances, conversions, raced>>

-----------------------------------------------------------------------------
(* OrderPaymentView.post reads the order ... *)
ReadForPayment(r, o, n) ==
  /\ o \in LiveOrders
  /\ Begin(r, [Request("pay", 1, o, orders[o]) EXCEPT !.new = n], o)
  /\ UNCHANGED <<leads, deals, quotes, orders, advances, conversions>>

(* ... and put and delete read the payment together with its order. *)
ReadAdvance(r, a, kind, n) ==
  /\ IsRow(advances[a])
  /\ LET o == advances[a].order IN
       Begin(r, [Request(kind, 1, o, orders[o]) EXCEPT
                   !.advance = a, !.old = advances[a].amount, !.new = n], o)
  /\ UNCHANGED <<leads, deals, quotes, orders, advances, conversions>>

(* The first statement: the payment is inserted or saved, if its order is   *)
(* there, or deleted.                                                       *)
WriteAdvance(r, a) ==
  /\ reqs[r] # None /\ reqs[r].kind \in {"pay", "repay", "unpay"} /\ reqs[r].step = 1
  /\ LET q == reqs[r] IN
       /\ IF q.kind = "pay" THEN advances[a] = None ELSE a = q.advance
       /\ \/ /\ q.kind = "unpay"
             /\ advances' = [advances EXCEPT ![a] = Gone]
             /\ reqs' = [reqs EXCEPT ![r].step = 2]
          \/ /\ q.kind # "unpay" /\ q.order \in LiveOrders
             /\ advances' = [advances EXCEPT ![a] = [order |-> q.order, amount |-> q.new]]
             /\ reqs' = [reqs EXCEPT ![r].step = 2]
          \/ /\ q.kind # "unpay" /\ q.order \notin LiveOrders
             /\ Finish(r)
             /\ UNCHANGED advances
  /\ UNCHANGED <<leads, deals, quotes, orders, conversions, raced>>

(* Mutant: an edited payment is charged in full again. *)
ChangeAgain(q) == IF q.kind = "unpay" THEN q.old ELSE 0 - q.new

(* What the request adds to the balance it has read. *)
Change(q) == q.old - (IF q.kind = "unpay" THEN 0 ELSE q.new)

(* The second statement: the balance that was read, changed, is written. *)
WriteBalance(r) ==
  /\ reqs[r] # None /\ reqs[r].step = 2
  /\ LET o == reqs[r].order IN
       \/ /\ o \in LiveOrders
          /\ reqs[r].row.balance + Change(reqs[r]) \in Balances
          /\ orders' = [orders EXCEPT ![o].balance = reqs[r].row.balance + Change(reqs[r])]
       \/ /\ o \notin LiveOrders
          /\ UNCHANGED orders
  /\ Finish(r)
  /\ UNCHANGED <<leads, deals, quotes, advances, conversions, raced>>

(* The process dies between two statements. *)
Die(r) ==
  /\ reqs[r] # None
  /\ Finish(r)
  /\ raced' = IF reqs[r].step = 2 THEN raced \cup {reqs[r].order} ELSE raced
  /\ UNCHANGED <<leads, deals, quotes, orders, advances, conversions>>

-----------------------------------------------------------------------------
Next ==
  \/ \E l \in Leads : AddLead(l)
  \/ \E l \in Leads, c \in Codes : ConvertLead(l, c)
  \/ \E d \in HandIds, l \in Leads \cup {NoLead} : AddDeal(d, l)
  \/ \E q \in Quotes, d \in DealIds : AddQuotation(q, d)
  \/ \E q, source \in Quotes, d \in DealIds : ImportQuotation(q, source, d)
  \/ \E q \in Quotes : DeleteQuotation(q)
  \/ \E r \in Requests, d \in DealIds, q \in Quotes : ReadLastNumber(r, d, q)
  \/ \E r \in Requests, o \in Orders : PlaceOrder(r, o) \/ ReadOrder(r, o)
  \/ \E o \in Orders : DeleteOrder(o)
  \/ \E r \in Requests, o \in Orders, n \in Amounts : ReadForPayment(r, o, n)
  \/ \E r \in Requests, a \in Advances, n \in Amounts : ReadAdvance(r, a, "repay", n)
  \/ \E r \in Requests, a \in Advances : ReadAdvance(r, a, "unpay", 0)
  \/ \E r \in Requests, a \in Advances : WriteAdvance(r, a)
  \/ \E r \in Requests : SaveOrder(r) \/ WriteBalance(r) \/ Die(r)

Spec == Init /\ [][Next]_vars

-----------------------------------------------------------------------------
TypeOK ==
  /\ leads \in [Leads -> {None, "open", "converted"}]
  /\ deals \in [DealIds -> Leads \cup {NoLead, None}]
  /\ \A q \in Quotes : quotes[q] \in DealIds \cup {None, Gone}
  /\ \A o \in LiveOrders : orders[o] \in OrderRows
  /\ \A a \in Advances : IsRow(advances[a]) => advances[a] \in AdvanceRows
  /\ raced \subseteq Orders

(* A lead is converted into one deal, however many requests, employees'     *)
(* codes and deals added by hand for the same lead there are.               *)
ConvertedOnce ==
  \A l \in Leads : Cardinality(conversions[l]) = IF leads[l] = "converted" THEN 1 ELSE 0

(* Orders have numbers, deals and quotations of their own, and an order     *)
(* and its quotation are of the same deal: also for the rows that a stale   *)
(* save inserted again, and when two requests drew the same number.         *)
OrdersDistinct ==
  \A o \in LiveOrders :
    /\ quotes[orders[o].quote] = orders[o].deal
    /\ \A p \in LiveOrders \ {o} : /\ orders[p].number # orders[o].number
                                   /\ orders[p].deal # orders[o].deal
                                   /\ orders[p].quote # orders[o].quote

(* Both: nothing is sold twice. *)
SoldOnce == ConvertedOnce /\ OrdersDistinct

(* The balance of an order is its total less its payments whenever no       *)
(* request is at work on it, unless two requests overlapped on it or one    *)
(* died half-way: payments taken one after the other, changed and deleted   *)
(* add up.  No payment outlives its order.                                  *)
BalanceExplained ==
  /\ TypeOK
  /\ \A o \in LiveOrders \ raced : ~Busy(o) => orders[o].balance = OrderTotal - Paid(o)
  /\ \A a \in Advances : IsRow(advances[a]) => advances[a].order \in LiveOrders

-----------------------------------------------------------------------------
(* The rows, and what is assumed of the constants.                          *)
RequestRows ==
  [kind : {"place", "edit", "pay", "repay", "unpay"}, step : {1, 2},
   order : Orders \cup {None}, row : OrderRows,
   advance : Advances \cup {None}, old : Nat, new : Nat]

CrmConstants ==
  /\ IsFiniteSet(Orders) /\ IsFiniteSet(Advances)
  /\ Amounts \subseteq Nat /\ MaxBalance \in Nat /\ OrderTotal \in 0..MaxBalance
  /\ None # Gone /\ None \notin {"open", "converted"} \cup Leads \cup {NoLead}
  /\ \A x \in {None, Gone} :
       x \notin Orders \cup DealIds \cup OrderRows \cup AdvanceRows \cup RequestRows

=============================================================================
